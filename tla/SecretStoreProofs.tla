--------------------------- MODULE SecretStoreProofs ---------------------------
(***************************************************************************)
(* The secret store for any clients, ids and records: types for any number *)
(* of writers, and, for one writer, that whole-file read-modify-write is   *)
(* atomic, that acknowledged writes are kept and that get is current.      *)
(***************************************************************************)
EXTENDS SecretStore, TLAPS

USE DEF Entries, Records

LEMMA RevokedEntry ==
  ASSUME NEW r \in Records
  PROVE  Revoked(r) \in Records /\ Revoked(r).status = "revoked"
<1>1. PICK q \in Offered : r = q \/ r = Revoked(q)
  BY DEF Records
<1>2. q = [value |-> q.value, expires |-> q.expires, status |-> "active"]
  BY StoreAssumption
<1>3. Revoked(r) = Revoked(q)
  BY <1>1, <1>2 DEF Revoked
<1> QED BY <1>1, <1>2, <1>3 DEF Revoked, Records

LEMMA VaultType ==
  ASSUME TypeOK
  PROVE  Vault \in [Ids -> Entries]
<1>1. CASE drive = <<>>
  BY <1>1 DEF Vault, Empty
<1>2. CASE drive # <<>>
  <2>1. drive[1] \in Blobs
    BY <1>2 DEF TypeOK
  <2> QED BY <2>1, <1>2 DEF Vault, Blobs
<1> QED BY <1>1, <1>2

\* The calls a client can make are of the type of "call".
LEMMA CallType ==
  ASSUME NEW k \in Calls
  PROVE  /\ k \in [op : {"none", "get", "put", "revoke"}, id : Ids,
                   record : Offered \cup {NoRecord}]
         /\ k.op \in {"get", "put", "revoke"}
         /\ k.op = "put" => k.record \in Offered
BY DEF Calls

\* What a client knows while it works: an entry to revoke is there.
Sane(c) ==
  /\ pc[c] # "idle" => call[c].op \in {"get", "put", "revoke"}
  /\ call[c].op = "put" => call[c].record \in Offered
  /\ pc[c] = "write" /\ call[c].op = "revoke" => recs[c][call[c].id] \in Records
  /\ pc[c] = "write" => call[c].op # "get"
  /\ pc[c] = "download" => fileId[c] # 0
  /\ pc[c] \in {"idle", "find", "download"} => recs[c] = Empty
  /\ call[c].op \in {"put", "revoke"} => c \in Writers

TInv == TypeOK /\ \A c \in Clients : Sane(c)

LEMMA NewEntryType ==
  ASSUME TInv, NEW c \in Clients, pc[c] = "write"
  PROVE  /\ NewEntry(c) \in Records
         /\ NewTable(c) \in [Ids -> Entries]
         /\ Encrypt(c, NewTable(c)) \in Blobs
         /\ call[c].id \in Ids
<1>1. call[c].id \in Ids /\ recs[c] \in [Ids -> Entries]
  BY DEF TInv, TypeOK
<1>2. NewEntry(c) \in Records
  <2>1. CASE call[c].op = "put"
    BY <2>1 DEF NewEntry, TInv, Sane
  <2>2. CASE call[c].op # "put"
    <3>1. recs[c][call[c].id] \in Records
      BY <2>2 DEF TInv, Sane
    <3> QED BY <3>1, <2>2, RevokedEntry DEF NewEntry
  <2> QED BY <2>1, <2>2
<1>3. NewTable(c) \in [Ids -> Entries]
  BY <1>1, <1>2 DEF NewTable
<1> QED BY <1>1, <1>2, <1>3 DEF Encrypt, Blobs

LEMMA EmptyType == Empty \in [Ids -> Entries]
BY DEF Empty

\* A write leaves a sequence of blobs that is at least as long.
LEMMA StoredType ==
  ASSUME TInv, NEW c \in Clients, pc[c] = "write", Stored(c)
  PROVE  /\ drive' \in Seq(Blobs)
         /\ Len(drive') = IF fileId[c] = 0 THEN Len(drive) + 1 ELSE Len(drive)
         /\ fileId[c] # 0 => fileId[c] \in 1..Len(drive)
<1> DEFINE blob == Encrypt(c, NewTable(c))
<1>1. blob \in Blobs
  BY NewEntryType
<1>2. drive \in Seq(Blobs) /\ fileId[c] \in 0..Len(drive)
  BY DEF TInv, TypeOK
<1> HIDE DEF blob
<1>3. drive' = IF fileId[c] = 0 THEN Append(drive, blob)
                                ELSE [drive EXCEPT ![fileId[c]] = blob]
  BY DEF Stored, blob
<1> QED BY <1>1, <1>2, <1>3

LEMMA WidenType ==
  ASSUME TInv, Widen, Vault' \in [Ids -> Entries]
  PROVE  window' \in [Clients -> SUBSET Entries]
BY DEF Widen, TInv, TypeOK

LEMMA InitT == Init => TInv
<1> SUFFICES ASSUME Init PROVE TInv
  OBVIOUS
<1>0. NoCall \in [op : {"none", "get", "put", "revoke"}, id : Ids,
                  record : Offered \cup {NoRecord}]
  <2>1. (CHOOSE i \in Ids : TRUE) \in Ids
    BY StoreAssumption
  <2> QED BY <2>1 DEF NoCall
<1>1. TypeOK
  <2>1. drive \in Seq(Blobs) /\ Len(drive) = 0
    BY DEF Init
  <2>2. now \in 0..MaxTime /\ calls \in 0..MaxCalls
    BY StoreAssumption DEF Init
  <2>3. fileId \in [Clients -> 0..Len(drive)]
    BY <2>1 DEF Init
  <2> QED BY <1>0, <2>1, <2>2, <2>3, EmptyType DEF Init, TypeOK
<1>2. \A c \in Clients : Sane(c)
  BY DEF Init, Sane, NoCall
<1> QED BY <1>1, <1>2 DEF TInv

\* Both kinds of applied write keep the types.
LEMMA WriteT ==
  ASSUME TInv, NEW c \in Clients, WriteAnswered(c) \/ WriteUnanswered(c)
  PROVE  TInv'
<1>0. pc[c] = "write" /\ Stored(c) /\ Widen
  BY DEF WriteAnswered, WriteUnanswered
<1>1. NewEntry(c) \in Records /\ call[c].id \in Ids
  BY <1>0, NewEntryType
<1>2. drive' \in Seq(Blobs)
  /\ Len(drive') = IF fileId[c] = 0 THEN Len(drive) + 1 ELSE Len(drive)
  BY <1>0, StoredType
<1>3. Len(drive) \in Nat /\ fileId \in [Clients -> 0..Len(drive)]
  BY DEF TInv, TypeOK
<1>4. fileId' \in [Clients -> 0..Len(drive')]
  <2>1. CASE WriteAnswered(c)
    BY <2>1, <1>2, <1>3 DEF WriteAnswered
  <2>2. CASE WriteUnanswered(c)
    BY <2>2, <1>2, <1>3 DEF WriteUnanswered
  <2> QED BY <2>1, <2>2
<1>5. known' \in [Ids -> SUBSET Entries]
  <2>1. known \in [Ids -> SUBSET Entries]
    BY DEF TInv, TypeOK
  <2>2. CASE WriteAnswered(c)
    BY <1>1, <2>1, <2>2 DEF WriteAnswered
  <2>3. CASE WriteUnanswered(c)
    BY <1>1, <2>1, <2>3 DEF WriteUnanswered, Doubt
  <2> QED BY <2>2, <2>3
<1>6. /\ pc' = [pc EXCEPT ![c] = "idle"] /\ recs' = [recs EXCEPT ![c] = Empty]
      /\ UNCHANGED <<now, call, calls>>
  BY DEF WriteAnswered, WriteUnanswered, End
<1>7. Vault' \in [Ids -> Entries]
  <2>1. CASE drive' = <<>>
    BY <2>1, EmptyType DEF Vault, Empty
  <2>2. CASE drive' # <<>>
    <3>1. drive'[1] \in Blobs
      BY <2>2, <1>2
    <3> QED BY <3>1, <2>2 DEF Vault, Blobs
  <2> QED BY <2>1, <2>2
<1>8. window' \in [Clients -> SUBSET Entries]
  BY <1>0, <1>7, WidenType
<1>9. TypeOK'
  BY <1>2, <1>4, <1>5, <1>6, <1>8, EmptyType DEF TInv, TypeOK
<1>10. \A d \in Clients : Sane(d)'
  <2> SUFFICES ASSUME NEW d \in Clients PROVE Sane(d)'
    OBVIOUS
  <2>1. Sane(d) /\ DOMAIN pc = Clients /\ recs \in [Clients -> [Ids -> Entries]]
    BY DEF TInv, TypeOK
  <2>2. CASE d = c
    BY <2>1, <2>2, <1>6 DEF Sane, Empty
  <2>3. CASE d # c
    <3>1. pc'[d] = pc[d] /\ recs'[d] = recs[d] /\ call'[d] = call[d] /\ fileId'[d] = fileId[d]
      BY <2>1, <2>3, <1>3, <1>6 DEF WriteAnswered, WriteUnanswered
    <3> QED BY <3>1, <2>1 DEF Sane, Empty
  <2> QED BY <2>2, <2>3
<1> QED BY <1>9, <1>10 DEF TInv

\* The steps of a call that do not write.
LEMMA ReadT ==
  ASSUME TInv, NEW c \in Clients,
         \/ RequestFails(c) \/ FindCached(c) \/ FindByName(c)
         \/ Download(c) \/ Check(c) \/ Restart(c)
  PROVE  TInv'
<1>0. /\ drive' = drive /\ now' = now /\ call' = call /\ calls' = calls
      /\ window' = window /\ known' = known
  BY DEF RequestFails, FindCached, FindByName, Download, Check, Restart
<1>1. TypeOK /\ \A d \in Clients : Sane(d)
  BY DEF TInv
<1>2. drive \in Seq(Blobs) /\ fileId \in [Clients -> 0..Len(drive)]
  BY <1>1 DEF TypeOK
<1>3. /\ pc \in [Clients -> {"idle", "find", "download", "check", "write"}]
      /\ recs \in [Clients -> [Ids -> Entries]] /\ call[c].id \in Ids
  BY <1>1 DEF TypeOK
<1>4. SUFFICES /\ fileId' \in [Clients -> 0..Len(drive)]
               /\ \E q \in {"idle", "find", "download", "check", "write"} :
                    pc' = [pc EXCEPT ![c] = q]
               /\ \E v \in [Ids -> Entries] : recs' = [recs EXCEPT ![c] = v]
               /\ \A d \in Clients : d # c => fileId'[d] = fileId[d]
               /\ Sane(c)'
  <2>1. TypeOK'
    BY <1>0, <1>1, <1>3, <1>4 DEF TypeOK
  <2>2. ASSUME NEW d \in Clients, d # c PROVE Sane(d)'
    <3>1. pc'[d] = pc[d] /\ recs'[d] = recs[d] /\ fileId'[d] = fileId[d]
      BY <1>3, <1>4, <2>2
    <3>2. Sane(d)
      BY <1>1
    <3> QED BY <1>0, <3>1, <3>2 DEF Sane, Empty
  <2> QED BY <1>4, <2>1, <2>2 DEF TInv
<1>5. ASSUME UNCHANGED fileId, NEW a, End(c, a)
      PROVE  /\ \E q \in {"idle", "find", "download", "check", "write"} :
                    pc' = [pc EXCEPT ![c] = q]
             /\ \E v \in [Ids -> Entries] : recs' = [recs EXCEPT ![c] = v]
             /\ Sane(c)'
  <2>1. pc'[c] = "idle" /\ recs'[c] = Empty
    BY <1>3, <1>5 DEF End
  <2>2. Sane(c)'
    BY <1>0, <1>1, <2>1 DEF Sane, Empty
  <2> QED BY <2>2, <1>5, EmptyType DEF End
<1>6. CASE RequestFails(c)
  BY <1>2, <1>5, <1>6 DEF RequestFails
<1>7. CASE FindCached(c)
  <2>1. /\ pc' = [pc EXCEPT ![c] = "download"] /\ recs' = [recs EXCEPT ![c] = recs[c]]
        /\ pc[c] = "find" /\ fileId[c] # 0 /\ UNCHANGED <<fileId, recs>>
    BY <1>3, <1>7 DEF FindCached, Goto
  <2>2. Sane(c)'
    BY <1>0, <1>1, <1>3, <2>1 DEF Sane, Empty
  <2> QED BY <1>2, <1>3, <2>1, <2>2
<1>8. CASE FindByName(c)
  <2>0. pc[c] = "find" /\ recs = [recs EXCEPT ![c] = recs[c]] /\ recs[c] \in [Ids -> Entries]
    BY <1>3, <1>8 DEF FindByName
  <2>1. CASE drive = <<>> /\ call[c].op = "put"
    <3>1. /\ pc' = [pc EXCEPT ![c] = "write"] /\ UNCHANGED <<fileId, recs>>
      BY <1>8, <2>1 DEF FindByName, Goto
    <3>2. Sane(c)'
      BY <1>0, <1>1, <1>3, <2>0, <2>1, <3>1 DEF Sane, Empty
    <3> QED BY <1>2, <2>0, <3>1, <3>2
  <2>2. CASE drive = <<>> /\ call[c].op # "put"
    BY <1>2, <1>5, <1>8, <2>2 DEF FindByName
  <2>3. CASE drive # <<>>
    <3>1. PICK f \in DOMAIN drive : fileId' = [fileId EXCEPT ![c] = f]
      BY <1>8, <2>3 DEF FindByName
    <3>2. f \in 1..Len(drive)
      BY <1>2
    <3>3. /\ pc' = [pc EXCEPT ![c] = "download"] /\ UNCHANGED recs
      BY <1>8, <2>3 DEF FindByName, Goto
    <3>4. Sane(c)'
      BY <1>0, <1>1, <1>2, <1>3, <2>0, <3>1, <3>2, <3>3 DEF Sane, Empty
    <3> QED BY <1>2, <2>0, <3>1, <3>2, <3>3, <3>4
  <2> QED BY <2>1, <2>2, <2>3
<1>9. CASE Download(c)
  <2>0. pc[c] = "download" /\ UNCHANGED fileId /\ fileId[c] \in 1..Len(drive)
    BY <1>1, <1>2, <1>9 DEF Download, Sane
  <2>1. CASE \E a : End(c, a)
    BY <1>2, <1>5, <2>0, <2>1
  <2>2. CASE ~ \E a : End(c, a)
    <3> DEFINE blob == drive[fileId[c]]
    <3>0. blob \in Blobs
      BY <1>2, <2>0
    <3>1. blob.table \in [Ids -> Entries]
      <4> HIDE DEF blob
      <4> QED BY <3>0 DEF Blobs
    <3>2. /\ recs' = [recs EXCEPT ![c] = blob.table]
          /\ pc' = [pc EXCEPT ![c] = IF call[c].op = "get" THEN "check" ELSE "write"]
          /\ ~(call[c].op = "revoke" /\ blob.table[call[c].id] = NoRecord)
      BY <1>9, <2>2 DEF Download, Goto
    <3>3. recs'[c] = blob.table /\ pc'[c] \in {"check", "write"}
          /\ (pc'[c] = "write" <=> call[c].op # "get")
      BY <1>3, <3>1, <3>2
    <3> HIDE DEF blob
    <3>4. pc'[c] = "write" /\ call[c].op = "revoke" => recs'[c][call[c].id] \in Records
      BY <1>3, <3>1, <3>2, <3>3
    <3>5. Sane(c)'
      BY <1>0, <1>1, <2>0, <3>3, <3>4 DEF Sane, Empty
    <3> QED BY <1>2, <2>0, <3>1, <3>2, <3>5
  <2> QED BY <2>1, <2>2
<1>10. CASE Check(c)
  BY <1>2, <1>5, <1>10 DEF Check
<1>11. CASE Restart(c)
  <2>1. /\ pc' = [pc EXCEPT ![c] = "idle"] /\ recs' = [recs EXCEPT ![c] = Empty]
        /\ fileId' = [fileId EXCEPT ![c] = 0]
    BY <1>11 DEF Restart, End
  <2>2. Sane(c)'
    BY <1>0, <1>1, <1>3, <2>1 DEF Sane, Empty
  <2>3. fileId' \in [Clients -> 0..Len(drive)] /\ \A d \in Clients : d # c => fileId'[d] = fileId[d]
    BY <1>2, <2>1
  <2>4. \E v \in [Ids -> Entries] : recs' = [recs EXCEPT ![c] = v]
    BY <2>1, EmptyType
  <2> QED BY <2>1, <2>2, <2>3, <2>4
<1> QED BY <1>6, <1>7, <1>8, <1>9, <1>10, <1>11

LEMMA BeginT ==
  ASSUME TInv, NEW c \in Clients, Begin(c)
  PROVE  TInv'
<1>1. PICK k \in Calls :
        /\ call' = [call EXCEPT ![c] = k] /\ (k.op # "get" => c \in Writers)
        /\ window' = [window EXCEPT ![c] = {Vault[k.id]}]
  BY DEF Begin
<1>2. /\ pc' = [pc EXCEPT ![c] = "find"] /\ pc[c] = "idle"
      /\ calls' = calls + 1 /\ calls < MaxCalls
      /\ UNCHANGED <<drive, now, fileId, recs, known>>
  BY DEF Begin, Goto
<1>3. Vault[k.id] \in Entries
  BY VaultType, CallType DEF TInv
<1>4. TypeOK'
  <2>1. calls' \in 0..MaxCalls
    BY <1>2, StoreAssumption DEF TInv, TypeOK
  <2> QED BY <1>1, <1>2, <1>3, <2>1, CallType DEF TInv, TypeOK
<1>5. ASSUME NEW d \in Clients PROVE Sane(d)'
  <2>1. Sane(d) /\ DOMAIN pc = Clients /\ DOMAIN call = Clients
    BY DEF TInv, TypeOK
  <2>2. CASE d = c
    BY <1>1, <1>2, <2>1, <2>2, CallType DEF Sane, Empty
  <2>3. CASE d # c
    BY <1>1, <1>2, <2>1, <2>3 DEF Sane, Empty
  <2> QED BY <2>2, <2>3
<1> QED BY <1>4, <1>5 DEF TInv

LEMMA NextT == TInv /\ [Next]_vars => TInv'
<1> SUFFICES ASSUME TInv, [Next]_vars PROVE TInv'
  OBVIOUS
<1>1. CASE Tick
  <2>1. now' \in 0..MaxTime
    BY <1>1, StoreAssumption DEF Tick, TInv, TypeOK
  <2> QED BY <1>1, <2>1 DEF Tick, TInv, TypeOK, Sane, Empty
<1>2. CASE UNCHANGED vars
  BY <1>2 DEF vars, TInv, TypeOK, Sane, Empty
<1>3. ASSUME NEW c \in Clients, Begin(c) PROVE TInv'
  BY <1>3, BeginT
<1>4. ASSUME NEW c \in Clients, WriteAnswered(c) \/ WriteUnanswered(c) PROVE TInv'
  BY <1>4, WriteT
<1>5. ASSUME NEW c \in Clients,
         \/ RequestFails(c) \/ FindCached(c) \/ FindByName(c)
         \/ Download(c) \/ Check(c) \/ Restart(c)
      PROVE TInv'
  BY <1>5, ReadT
<1> QED BY <1>1, <1>2, <1>3, <1>4, <1>5 DEF Next

\* For any clients and writers the store keeps its types: every file holds a
\* table with one entry per id, and every kept file id is a file that exists.
THEOREM StoreTypeCorrect == Spec => []TypeOK
<1>1. TInv => TypeOK
  BY DEF TInv
<1> QED BY <1>1, InitT, NextT, PTL DEF Spec

-----------------------------------------------------------------------------
(* One writer                                                               *)

\* A client's copy of the table and its idea of the file are up to date when
\* it writes, and its window has what it downloaded and what is there now.
Fresh(c) ==
  /\ pc[c] = "write" => recs[c] = Vault /\ (fileId[c] = 0 <=> drive = <<>>)
  /\ pc[c] # "idle" => Vault[call[c].id] \in window[c]
  /\ pc[c] = "check" => recs[c][call[c].id] \in window[c]

\* The part of GetsCurrent that is about one client.
Current(c) ==
  Answers(c) => got'[c] \in {"none", "RuntimeError", "InvalidTag"}
                \/ \E r \in window[c] : got'[c] = Answer(r, now)

SInv ==
  /\ drive # <<>> => Len(drive) = 1
  /\ DOMAIN got = Clients
  /\ \A c \in Clients : Fresh(c)
  /\ AcknowledgedKept

\* A write changes the one entry it is about.
LEMMA WriteIsLocal ==
  ASSUME TInv, SInv, NEW c \in Clients, pc[c] = "write", Stored(c)
  PROVE  /\ Vault' = [Vault EXCEPT ![call[c].id] = NewEntry(c)]
         /\ drive' # <<>> /\ Len(drive') = 1
<1> DEFINE blob == Encrypt(c, NewTable(c))
<1>1. recs[c] = Vault /\ (fileId[c] = 0 <=> drive = <<>>)
  BY DEF SInv, Fresh
<1>2. blob \in Blobs /\ drive \in Seq(Blobs) /\ fileId[c] \in 0..Len(drive)
  BY NewEntryType DEF TInv, TypeOK
<1>3. blob.table = [Vault EXCEPT ![call[c].id] = NewEntry(c)]
  BY <1>1 DEF Encrypt, NewTable
<1>4. drive' = IF fileId[c] = 0 THEN Append(drive, blob)
                                ELSE [drive EXCEPT ![fileId[c]] = blob]
  BY DEF Stored
<1> HIDE DEF blob
<1>5. drive' # <<>> /\ Len(drive') = 1 /\ drive'[1] = blob
  <2>1. CASE drive = <<>>
    BY <1>1, <1>2, <1>4, <2>1
  <2>2. CASE drive # <<>>
    <3>1. Len(drive) = 1
      BY <2>2 DEF SInv
    <3>2. fileId[c] = 1
      BY <1>1, <1>2, <2>2, <3>1
    <3>3. drive' = [drive EXCEPT ![1] = blob]
      BY <1>4, <3>2
    <3>4. Len(drive') = 1
      BY <3>1, <3>2, StoredType
    <3>5. 1 \in DOMAIN drive
      BY <1>2, <3>1
    <3>6. drive'[1] = blob
      BY <3>3, <3>5
    <3> QED BY <3>4, <3>6
  <2> QED BY <2>1, <2>2
<1> QED BY <1>3, <1>5 DEF Vault

LEMMA InitS == Init => SInv
BY DEF Init, SInv, Fresh, AcknowledgedKept, Vault, NoCall, Empty

LEMMA WriteS ==
  ASSUME OneWriter, TInv, SInv, NEW c \in Clients,
         WriteAnswered(c) \/ WriteUnanswered(c)
  PROVE  SInv'
<1>0. pc[c] = "write" /\ Stored(c) /\ Widen
  BY DEF WriteAnswered, WriteUnanswered
<1>1. /\ Vault' = [Vault EXCEPT ![call[c].id] = NewEntry(c)]
      /\ drive' # <<>> /\ Len(drive') = 1
  BY <1>0, WriteIsLocal
<1>2. /\ pc' = [pc EXCEPT ![c] = "idle"] /\ recs' = [recs EXCEPT ![c] = Empty]
      /\ UNCHANGED <<now, call>>
  BY DEF WriteAnswered, WriteUnanswered, End
<1>3. /\ DOMAIN pc = Clients /\ DOMAIN recs = Clients
      /\ Vault \in [Ids -> Entries] /\ call[c].id \in Ids
  BY VaultType DEF TInv, TypeOK
<1>4. ASSUME NEW d \in Clients PROVE Fresh(d)'
  <2>1. CASE d = c
    BY <1>2, <1>3, <2>1 DEF Fresh
  <2>2. CASE d # c
    <3>1. pc[d] # "write"
      BY <1>0, <2>2 DEF OneWriter, TInv, Sane
    <3>2. pc'[d] = pc[d] /\ recs'[d] = recs[d] /\ call'[d] = call[d]
      BY <1>2, <1>3, <2>2
    <3>3. pc[d] # "idle" => window'[d] = window[d] \cup {Vault'[call[d].id]}
      BY <1>0 DEF Widen
    <3>4. Fresh(d)
      BY DEF SInv
    <3> QED BY <3>1, <3>2, <3>3, <3>4 DEF Fresh
  <2> QED BY <2>1, <2>2
<1>5. AcknowledgedKept'
  <2> SUFFICES ASSUME NEW i \in Ids PROVE Vault'[i] \in known'[i]
    BY DEF AcknowledgedKept
  <2>1. Vault[i] \in known[i] /\ DOMAIN known = Ids
    BY DEF SInv, AcknowledgedKept, TInv, TypeOK
  <2>2. CASE i = call[c].id
    <3>1. Vault'[i] = NewEntry(c)
      BY <1>1, <1>3, <2>2
    <3>2. NewEntry(c) \in known'[i]
      BY <2>1, <2>2 DEF WriteAnswered, WriteUnanswered, Doubt
    <3> QED BY <3>1, <3>2
  <2>3. CASE i # call[c].id
    <3>1. Vault'[i] = Vault[i]
      BY <1>1, <1>3, <2>3
    <3>2. known'[i] = known[i]
      BY <2>1, <2>3 DEF WriteAnswered, WriteUnanswered, Doubt
    <3> QED BY <2>1, <3>1, <3>2
  <2> QED BY <2>2, <2>3
<1>6. DOMAIN got' = Clients
  BY DEF WriteAnswered, WriteUnanswered, End, SInv
<1> QED BY <1>1, <1>4, <1>5, <1>6 DEF SInv

\* The steps that do not write: the table stays.
LEMMA ReadS ==
  ASSUME TInv, SInv, NEW c \in Clients,
         \/ RequestFails(c) \/ FindCached(c) \/ FindByName(c)
         \/ Download(c) \/ Check(c) \/ Restart(c)
  PROVE  SInv' /\ Current(c)
<1>0. /\ drive' = drive /\ now' = now /\ call' = call /\ window' = window /\ known' = known
  BY DEF RequestFails, FindCached, FindByName, Download, Check, Restart
<1>1. Vault' = Vault
  BY <1>0 DEF Vault, Empty
<1>2. /\ pc \in [Clients -> {"idle", "find", "download", "check", "write"}]
      /\ DOMAIN recs = Clients /\ DOMAIN fileId = Clients /\ DOMAIN got = Clients
      /\ Fresh(c) /\ Sane(c)
      /\ fileId[c] \in 0..Len(drive) /\ Len(drive) \in Nat /\ (drive # <<>> => Len(drive) = 1)
  BY StoreAssumption DEF TInv, TypeOK, SInv
<1>3. ASSUME NEW d \in Clients, d # c PROVE Fresh(d)'
  <2>1. pc'[d] = pc[d] /\ recs'[d] = recs[d] /\ fileId'[d] = fileId[d] /\ got'[d] = got[d]
    BY <1>2, <1>3
    DEF RequestFails, FindCached, FindByName, Download, Check, Restart, End, Goto
  <2>2. Fresh(d)
    BY DEF SInv
  <2> QED BY <1>0, <1>1, <2>1, <2>2 DEF Fresh
<1>4. DOMAIN got' = Clients
  BY <1>2 DEF RequestFails, FindCached, FindByName, Download, Check, Restart, End, Goto
<1>5. Fresh(c)' /\ Current(c)
  <2>0. ASSUME NEW a, End(c, a) PROVE pc'[c] = "idle" /\ got'[c] = a /\ Fresh(c)'
    BY <1>2, <2>0 DEF End, Fresh
  <2>1. CASE RequestFails(c) \/ Restart(c)
    BY <1>0, <2>0, <2>1 DEF RequestFails, Restart, Current, Answers
  <2>2. CASE FindCached(c)
    <3>1. pc'[c] = "download" /\ pc[c] = "find"
      BY <1>2, <2>2 DEF FindCached, Goto
    <3> QED BY <1>0, <1>1, <1>2, <3>1 DEF Fresh, Current, Answers
  <2>3. CASE FindByName(c)
    <3>0. pc[c] = "find"
      BY <2>3 DEF FindByName
    <3>1. CASE drive = <<>> /\ call[c].op = "put"
      <4>1. pc'[c] = "write" /\ recs' = recs /\ fileId' = fileId /\ fileId[c] = 0
        BY <1>2, <2>3, <3>1 DEF FindByName, Goto
      <4>2. recs[c] = Vault
        BY <1>2, <3>0, <3>1 DEF Sane, Vault
      <4> QED BY <1>0, <1>1, <1>2, <3>0, <3>1, <4>1, <4>2 DEF Fresh, Current, Answers
    <3>2. CASE drive = <<>> /\ call[c].op # "put"
      <4>1. End(c, "KeyError")
        BY <2>3, <3>2 DEF FindByName
      <4>2. NoRecord \in window[c]
        <5>1. call[c].id \in Ids
          BY DEF TInv, TypeOK
        <5>2. Vault[call[c].id] = NoRecord
          BY <5>1, <3>2 DEF Vault, Empty
        <5> QED BY <1>2, <3>0, <5>2 DEF Fresh
      <4>3. Answer(NoRecord, now) = "KeyError"
        BY DEF Answer, Active
      <4> QED BY <1>0, <1>2, <2>0, <4>1, <4>2, <4>3 DEF Current, Answers
    <3>3. CASE drive # <<>>
      <4>1. pc'[c] = "download"
        BY <1>2, <2>3, <3>3 DEF FindByName, Goto
      <4> QED BY <1>0, <1>1, <1>2, <3>0, <4>1 DEF Fresh, Current, Answers
    <3> QED BY <3>1, <3>2, <3>3
  <2>4. CASE Download(c)
    <3>0. pc[c] = "download" /\ fileId' = fileId /\ fileId[c] # 0
      BY <1>2, <2>4 DEF Download, Sane
    <3>a. ASSUME drive = <<>> PROVE FALSE
      <4>1. Len(drive) = 0
        BY <3>a
      <4> QED BY <1>2, <3>0, <4>1
    <3>b. Len(drive) = 1
      BY <1>2, <3>a
    <3>c. fileId[c] \in 0..1 /\ fileId[c] # 0
      BY <1>2, <3>0, <3>b
    <3>1. drive # <<>> /\ fileId[c] = 1
      BY <3>a, <3>c
    <3>2. CASE End(c, "InvalidTag")
      BY <2>0, <3>2 DEF Current, Answers
    <3>3. CASE End(c, "KeyError") /\ call[c].op = "revoke"
      BY <1>0, <2>0, <3>3 DEF Current, Answers
    <3>4. CASE /\ recs' = [recs EXCEPT ![c] = drive[fileId[c]].table]
               /\ Goto(c, IF call[c].op = "get" THEN "check" ELSE "write")
      <4>1. recs'[c] = Vault /\ pc'[c] \in {"check", "write"}
        BY <1>2, <3>1, <3>4 DEF Vault, Goto
      <4> QED BY <1>0, <1>1, <1>2, <3>0, <3>1, <4>1 DEF Fresh, Current, Answers
    <3> QED BY <2>4, <3>2, <3>3, <3>4 DEF Download
  <2>5. CASE Check(c)
    <3> DEFINE r == recs[c][call[c].id]
    <3>1. End(c, Answer(r, now)) /\ r \in window[c]
      BY <1>2, <2>5 DEF Check, Fresh
    <3> HIDE DEF r
    <3> QED BY <1>0, <1>2, <2>0, <3>1 DEF Current, Answers
  <2> QED BY <2>1, <2>2, <2>3, <2>4, <2>5
<1>6. AcknowledgedKept'
  BY <1>0, <1>1 DEF SInv, AcknowledgedKept
<1> QED BY <1>0, <1>2, <1>3, <1>4, <1>5, <1>6 DEF SInv

LEMMA BeginS ==
  ASSUME TInv, SInv, NEW c \in Clients, Begin(c)
  PROVE  SInv'
<1>1. PICK k \in Calls :
        /\ call' = [call EXCEPT ![c] = k]
        /\ window' = [window EXCEPT ![c] = {Vault[k.id]}]
  BY DEF Begin
<1>2. /\ pc' = [pc EXCEPT ![c] = "find"] /\ got' = got
      /\ UNCHANGED <<drive, now, fileId, recs, known>>
  BY DEF Begin, Goto
<1>3. Vault' = Vault
  BY <1>2 DEF Vault, Empty
<1>4. DOMAIN pc = Clients /\ DOMAIN call = Clients /\ DOMAIN window = Clients
  BY DEF TInv, TypeOK
<1>5. ASSUME NEW d \in Clients PROVE Fresh(d)'
  <2>1. CASE d = c
    <3>1. pc'[d] = "find" /\ call'[d] = k /\ window'[d] = {Vault[k.id]}
      BY <1>1, <1>2, <1>4, <2>1
    <3> QED BY <1>3, <3>1 DEF Fresh
  <2>2. CASE d # c
    <3>1. /\ pc'[d] = pc[d] /\ call'[d] = call[d] /\ window'[d] = window[d]
          /\ got'[d] = got[d] /\ recs'[d] = recs[d] /\ fileId'[d] = fileId[d]
      BY <1>1, <1>2, <1>4, <2>2
    <3>2. Fresh(d)
      BY DEF SInv
    <3> QED BY <1>2, <1>3, <3>1, <3>2 DEF Fresh
  <2> QED BY <2>1, <2>2
<1>6. AcknowledgedKept'
  BY <1>2, <1>3 DEF SInv, AcknowledgedKept
<1> QED BY <1>2, <1>5, <1>6 DEF SInv

LEMMA NextS == OneWriter /\ TInv /\ SInv /\ [Next]_vars => SInv'
<1> SUFFICES ASSUME OneWriter, TInv, SInv, [Next]_vars PROVE SInv'
  OBVIOUS
<1>1. CASE Tick
  <2>1. UNCHANGED <<drive, fileId, pc, call, recs, got, window, known>>
    BY <1>1 DEF Tick
  <2>2. Vault' = Vault
    BY <2>1 DEF Vault, Empty
  <2>3. ASSUME NEW d \in Clients PROVE Fresh(d)'
    <3>1. Fresh(d)
      BY DEF SInv
    <3> QED BY <2>1, <2>2, <3>1 DEF Fresh
  <2>4. AcknowledgedKept'
    BY <2>1, <2>2 DEF SInv, AcknowledgedKept
  <2> QED BY <2>1, <2>3, <2>4 DEF SInv
<1>2. CASE UNCHANGED vars
  BY <1>2 DEF vars, SInv, Fresh, AcknowledgedKept, Vault, Empty
<1>3. ASSUME NEW c \in Clients, Begin(c) PROVE SInv'
  BY <1>3, BeginS
<1>4. ASSUME NEW c \in Clients, WriteAnswered(c) \/ WriteUnanswered(c) PROVE SInv'
  BY <1>4, WriteS
<1>5. ASSUME NEW c \in Clients,
         \/ RequestFails(c) \/ FindCached(c) \/ FindByName(c)
         \/ Download(c) \/ Check(c) \/ Restart(c)
      PROVE SInv'
  BY <1>5, ReadS
<1> QED BY <1>1, <1>2, <1>3, <1>4, <1>5 DEF Next

LEMMA SpecS == OneWriter /\ Spec => [](TInv /\ SInv)
<1>1. SUFFICES ASSUME OneWriter PROVE Spec => [](TInv /\ SInv)
  OBVIOUS
<1>2. TInv /\ SInv /\ [Next]_vars => TInv' /\ SInv'
  BY <1>1, NextT, NextS
<1> QED BY <1>2, InitT, InitS, PTL DEF Spec

\* With one writer every step answers a get with what the store has.
LEMMA StepCurrent ==
  OneWriter /\ TInv /\ SInv /\ [Next]_vars => \A c \in Clients : Current(c)
<1> SUFFICES ASSUME OneWriter, TInv, SInv, [Next]_vars, NEW c \in Clients, Answers(c)
             PROVE  Current(c)
  BY DEF Current
<1>1. pc[c] # "idle" /\ pc'[c] = "idle" /\ DOMAIN pc = Clients
  BY DEF Answers, TInv, TypeOK
<1>2. ASSUME NEW d \in Clients,
             \/ RequestFails(d) \/ FindCached(d) \/ FindByName(d)
             \/ Download(d) \/ Check(d) \/ Restart(d)
      PROVE  Current(c)
  <2>1. c = d
    BY <1>1, <1>2
    DEF RequestFails, FindCached, FindByName, Download, Check, Restart, End, Goto
  <2> QED BY <1>2, <2>1, ReadS
<1>3. ASSUME NEW d \in Clients, WriteAnswered(d) \/ WriteUnanswered(d) PROVE Current(c)
  <2>1. c = d /\ pc[c] = "write"
    BY <1>1, <1>3 DEF WriteAnswered, WriteUnanswered, End
  <2> QED BY <2>1 DEF TInv, Sane, Answers
<1>4. ASSUME NEW d \in Clients, Begin(d) PROVE FALSE
  BY <1>1, <1>4 DEF Begin, Goto
<1>5. ~Tick /\ ~UNCHANGED vars
  BY <1>1 DEF Tick, vars
<1> QED BY <1>2, <1>3, <1>4, <1>5 DEF Next

\* With one writer, get answers with what the id had during the call: a value
\* that was stored, active and has not expired, or KeyError for an entry that
\* was missing, revoked or has expired.
THEOREM SoloGetsCurrent == OneWriter /\ Spec => GetsCurrent
<1>1. SUFFICES ASSUME OneWriter PROVE Spec => GetsCurrent
  OBVIOUS
<1>2. TInv /\ SInv /\ [Next]_vars =>
        [\A c \in Clients :
           Answers(c) => got'[c] \in {"none", "RuntimeError", "InvalidTag"}
                         \/ \E r \in window[c] : got'[c] = Answer(r, now)]_vars
  BY <1>1, StepCurrent DEF Current
<1>3. OneWriter
  BY <1>1
<1> QED BY <1>2, <1>3, SpecS, PTL DEF Spec, GetsCurrent

\* With one writer, every entry is the one of the last acknowledged put or
\* revoke of its id, or of an unacknowledged one made since.
THEOREM SoloAcknowledgedKept == OneWriter /\ Spec => []AcknowledgedKept
<1>1. SInv => AcknowledgedKept
  BY DEF SInv
<1> QED BY <1>1, SpecS, PTL

\* A step of the store is a step of the vault or leaves it alone.
LEMMA StepRefines ==
  OneWriter /\ TInv /\ SInv /\ [Next]_vars => [V!Next]_Vault
<1> SUFFICES ASSUME OneWriter, TInv, SInv, [Next]_vars PROVE V!Next \/ Vault' = Vault
  OBVIOUS
<1>1. ASSUME NEW c \in Clients, WriteAnswered(c) \/ WriteUnanswered(c)
      PROVE  V!Next
  <2>0. pc[c] = "write" /\ Stored(c)
    BY <1>1 DEF WriteAnswered, WriteUnanswered
  <2>1. Vault' = [Vault EXCEPT ![call[c].id] = NewEntry(c)]
    BY <2>0, WriteIsLocal
  <2>2. call[c].id \in Ids /\ call[c].op \in {"put", "revoke"} /\ recs[c] = Vault
    BY <2>0 DEF TInv, TypeOK, Sane, SInv, Fresh
  <2>3. CASE call[c].op = "put"
    <3>1. call[c].record \in Offered /\ NewEntry(c) = call[c].record
      BY <2>3 DEF TInv, Sane, NewEntry
    <3> QED BY <2>1, <2>2, <3>1 DEF V!Next, V!Put
  <2>4. CASE call[c].op = "revoke"
    <3>1. Vault[call[c].id] # NoRecord
      BY <2>0, <2>2, <2>4, StoreAssumption DEF TInv, Sane
    <3>2. NewEntry(c) = Revoked(Vault[call[c].id])
      BY <2>2, <2>4 DEF NewEntry
    <3> QED BY <2>1, <2>2, <3>1, <3>2 DEF V!Next, V!Revoke, V!Revoked, Revoked
  <2> QED BY <2>2, <2>3, <2>4
<1>2. CASE drive' = drive
  BY <1>2 DEF Vault, Empty
<1>3. CASE drive' # drive
  BY <1>1, <1>3 DEF Next, vars, Tick, Begin, RequestFails, FindCached, FindByName,
                    Download, Check, Restart
<1> QED BY <1>2, <1>3

\* With one writer the store implements SecretVault.
THEOREM SoloAtomicVault == OneWriter /\ Spec => AtomicVault
<1>1. SUFFICES ASSUME OneWriter PROVE Spec => AtomicVault
  OBVIOUS
<1>2. Init => V!Init
  BY DEF Init, V!Init, Vault, Empty
<1>3. TInv /\ SInv /\ [Next]_vars => [V!Next]_Vault
  BY <1>1, StepRefines
<1>4. OneWriter
  BY <1>1
<1> QED BY <1>2, <1>3, <1>4, SpecS, PTL DEF Spec, AtomicVault, V!Spec

=============================================================================
