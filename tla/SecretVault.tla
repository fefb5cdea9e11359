------------------------------ MODULE SecretVault ------------------------------
(***************************************************************************)
(* What GoogleDriveSecretStore promises: one table of secrets, changed     *)
(* only by storing one secret or by revoking one that is there.            *)
(***************************************************************************)
CONSTANTS
  Ids,        \* the secret ids
  Offered,    \* the records put() may be given, all active
  NoRecord    \* the entry of an id that is not in the table

VARIABLE vault

Revoked(r) == [r EXCEPT !.status = "revoked"]

Init == vault = [i \in Ids |-> NoRecord]

Put(i, r) == vault' = [vault EXCEPT ![i] = r]

Revoke(i) ==
  /\ vault[i] # NoRecord
  /\ vault' = [vault EXCEPT ![i] = Revoked(vault[i])]

Next == \E i \in Ids : Revoke(i) \/ \E r \in Offered : Put(i, r)

Spec == Init /\ [][Next]_vault
=============================================================================
