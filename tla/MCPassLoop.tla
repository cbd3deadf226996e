----------------------------- MODULE MCPassLoop -----------------------------
(* PassLoop for TLC.                                                       *)
EXTENDS PassLoop, TLC

=============================================================================
