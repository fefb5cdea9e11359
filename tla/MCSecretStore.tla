----------------------------- MODULE MCSecretStore -----------------------------
(* A small instance of SecretStore for TLC.                                  *)
EXTENDS SecretStore

CONSTANTS w1, r1, x1, i1, i2, v1, v2, k1, k2

\* A writer, a reader, and a reader that was given another key.
KeysOf == [c \in Clients |-> IF c = x1 THEN k2 ELSE k1]

\* A secret for good, one that expires, one whose expiry cannot be read.
Some == {[value |-> v1, expires |-> Never, status |-> "active"],
         [value |-> v2, expires |-> 1, status |-> "active"],
         [value |-> v1, expires |-> Unreadable, status |-> "active"]}
=============================================================================
