--------------------------- MODULE MCLookupDialogs ---------------------------
(* LookupDialogs on pages of two lookup fields whose dialogs hold one more:  *)
(* a field with the default fade-background and one with "false", or both    *)
(* with the default.                                                         *)
EXTENDS LookupDialogs
MCMixed == <<"true", "false">>
MCDefault == <<"true", "true">>
=============================================================================
