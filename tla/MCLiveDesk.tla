------------------------------ MODULE MCLiveDesk ------------------------------
(* Small instances of LiveDesk for TLC.                                     *)
EXTENDS LiveDesk

CONSTANTS t1, o1, o2

=============================================================================
