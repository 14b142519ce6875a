----------------------- MODULE MCLedgerDeviceServer --------------------------
(* The device loop with the Minter application and one other. *)
EXTENDS LedgerDeviceServer

const_Mismatch == {"APP_NOT_OPENED", "DISCONNECTED"}
==============================================================================
