----------------------------- MODULE MCDailyRunner -----------------------------
(* Small instances of DailyRunner for TLC.                                  *)
EXTENDS DailyRunner

CONSTANTS s1, s2, s3

=============================================================================
