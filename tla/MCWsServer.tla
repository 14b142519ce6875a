----------------------------- MODULE MCWsServer ------------------------------
(* The server with WebSocket and HTTP clients, on a device that comes and goes. *)
EXTENDS WsServer

const_States == {"DISCONNECTED", "APP_OPENED"}

Symmetry == Permutations(WsClients)
==============================================================================
