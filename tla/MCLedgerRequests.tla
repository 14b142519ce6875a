------------------------- MODULE MCLedgerRequests ----------------------------
(* The device loop with one address request and openMinterApp. *)
EXTENDS LedgerRequests

const_Mismatch == {"APP_NOT_OPENED"}
==============================================================================
