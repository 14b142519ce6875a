------------------------------ MODULE MCDesktop ------------------------------
(* Two installer windows, two installations, two servers. *)
EXTENDS Desktop

const_DevStates == {"DISCONNECTED", "APP_NOT_OPENED", "APP_OPENED"}
==============================================================================
