------------------------------ MODULE SecretStore ------------------------------
(***************************************************************************)
(* GoogleDriveSecretStore (secrets/drive_store.py): one encrypted file on  *)
(* Drive that every operation finds, downloads and, for put and revoke,    *)
(* writes back whole.  Each client is a process with a store object of its *)
(* own.  A step is one request; every request may fail, and a write may    *)
(* fail after it took effect.  Drive is external: it lists a file as soon  *)
(* as it exists and applies a write before the client's call ends or       *)
(* never.                                                                  *)
(***************************************************************************)
EXTENDS Integers, Sequences

CONSTANTS
  Clients,
  Writers,      \* the clients that call put and revoke; all call get
  Ids, Offered, NoRecord,
  Never,        \* expires_at is None
  Unreadable,   \* expires_at is not a date with a time zone
  KeyOf,        \* the encryption key each client was given
  MaxTime,      \* bound: the clock
  MaxCalls,     \* bound: calls
  MaxFiles      \* bound: files of the store's name

Revoked(r) == [r EXCEPT !.status = "revoked"]

Records == Offered \cup {Revoked(r) : r \in Offered}

Entries == Records \cup {NoRecord}

ASSUME StoreAssumption ==
  /\ Writers \subseteq Clients /\ Ids # {}
  /\ NoRecord \notin Records
  /\ \A r \in Offered : r = [value |-> r.value, expires |-> r.expires,
                             status |-> "active"]
  /\ MaxTime \in Nat /\ MaxCalls \in Nat /\ MaxFiles \in Nat \ {0}

VARIABLES
  drive,        \* the files of the store's name, in the order of creation
  now,          \* the clock
  fileId,       \* self.file_id of each client; 0 is None
  pc, call,     \* where its call is, and what was called
  recs,         \* the table it downloaded
  got,          \* what its last call answered
  calls,        \* calls so far
  window,       \* history: entries the called id had during the last call
  known         \* history: entries each id may have, for what writers were told

vars == <<drive, now, fileId, pc, call, recs, got, calls, window, known>>

Empty == [i \in Ids |-> NoRecord]

Calls == [op : {"get"}, id : Ids, record : {NoRecord}]
         \cup [op : {"put"}, id : Ids, record : Offered]
         \cup [op : {"revoke"}, id : Ids, record : {NoRecord}]

Blobs == [key : {KeyOf[c] : c \in Clients}, table : [Ids -> Entries]]

\* The table the readers of the first file see, without the encryption.
Vault == IF drive = <<>> THEN Empty ELSE drive[1].table

NoCall == [op |-> "none", id |-> CHOOSE i \in Ids : TRUE, record |-> NoRecord]

\* A new store object: file_id is not configured, the file is found by name.
Init ==
  /\ drive = <<>> /\ now = 0 /\ calls = 0
  /\ fileId = [c \in Clients |-> 0]
  /\ pc = [c \in Clients |-> "idle"]
  /\ call = [c \in Clients |-> NoCall]
  /\ recs = [c \in Clients |-> Empty]
  /\ got = [c \in Clients |-> "none"]
  /\ window = [c \in Clients |-> {}]
  /\ known = [i \in Ids |-> {NoRecord}]

\* AES-GCM with the client's key over a table with one row per secret id.
Encrypt(c, table) == [key |-> KeyOf[c], table |-> table]

\* AESGCM.decrypt raises when the key is another one.
Decrypts(c, blob) == blob.key = KeyOf[c]

\* The call ends with the answer, or the exception, a.
End(c, a) ==
  /\ pc' = [pc EXCEPT ![c] = "idle"]
  /\ got' = [got EXCEPT ![c] = a]
  /\ recs' = [recs EXCEPT ![c] = Empty]

Goto(c, place) == pc' = [pc EXCEPT ![c] = place] /\ UNCHANGED got

\* A write that was not acknowledged may or may not be in the table.
Doubt(c, entry) ==
  known' = [known EXCEPT ![call[c].id] = @ \cup {entry}]

Begin(c) ==
  /\ pc[c] = "idle" /\ calls < MaxCalls
  /\ calls' = calls + 1
  /\ \E k \in Calls :
       /\ call' = [call EXCEPT ![c] = k]
       /\ k.op # "get" => c \in Writers
       /\ window' = [window EXCEPT ![c] = {Vault[k.id]}]
  /\ Goto(c, "find")
  /\ UNCHANGED <<drive, now, fileId, recs, known>>

\* Mutant of RequestFails: _upload sets file_id before the answer.
RequestFails_KeepsId(c) ==
  /\ pc[c] \in {"find", "download", "write"}
  /\ pc[c] = "find" => fileId[c] = 0
  /\ End(c, "RuntimeError")
  /\ fileId' = [fileId EXCEPT ![c] =
                   IF pc[c] = "write" /\ @ = 0 THEN Len(drive) + 1 ELSE @]
  /\ UNCHANGED <<drive, now, call, calls, window, known>>

\* A request raises RuntimeError, and it has changed nothing.
RequestFails(c) ==
  /\ pc[c] \in {"find", "download", "write"}
  /\ pc[c] = "find" => fileId[c] = 0
  /\ End(c, "RuntimeError")
  /\ UNCHANGED <<drive, now, fileId, call, calls, window, known>>

\* _find_file_id with the id kept from an earlier call: no request.
FindCached(c) ==
  /\ pc[c] = "find" /\ fileId[c] # 0
  /\ Goto(c, "download")
  /\ UNCHANGED <<drive, now, fileId, call, recs, calls, window, known>>

\* Mutant of FindByName: the id of a listed file is not taken for put.
FindByName_PutUploads(c) ==
  /\ pc[c] = "find" /\ fileId[c] = 0
  /\ IF drive = <<>> \/ call[c].op = "put"
       THEN /\ IF call[c].op = "put"
                 THEN Goto(c, "write") /\ UNCHANGED recs
                 ELSE End(c, "KeyError")
            /\ UNCHANGED fileId
       ELSE /\ \E f \in DOMAIN drive : fileId' = [fileId EXCEPT ![c] = f]
            /\ Goto(c, "download") /\ UNCHANGED recs
  /\ UNCHANGED <<drive, now, call, calls, window, known>>

\* _find_file_id by name: files[0] of a list in no order the code asks for.
\* Without a file put goes on with no records, get and revoke raise.
FindByName(c) ==
  /\ pc[c] = "find" /\ fileId[c] = 0
  /\ IF drive = <<>>
       THEN /\ IF call[c].op = "put"
                 THEN Goto(c, "write") /\ UNCHANGED recs
                 ELSE End(c, "KeyError")
            /\ UNCHANGED fileId
       ELSE /\ \E f \in DOMAIN drive : fileId' = [fileId EXCEPT ![c] = f]
            /\ Goto(c, "download") /\ UNCHANGED recs
  /\ UNCHANGED <<drive, now, call, calls, window, known>>

\* The download is decrypted; revoke of an id that is not there raises.
Download(c) ==
  /\ pc[c] = "download"
  /\ LET blob == drive[fileId[c]] IN
     \/ /\ ~Decrypts(c, blob)
        /\ End(c, "InvalidTag")
     \/ /\ Decrypts(c, blob)
        /\ IF call[c].op = "revoke" /\ blob.table[call[c].id] = NoRecord
             THEN End(c, "KeyError")
             ELSE /\ recs' = [recs EXCEPT ![c] = blob.table]
                  /\ Goto(c, IF call[c].op = "get" THEN "check" ELSE "write")
  /\ UNCHANGED <<drive, now, fileId, call, calls, window, known>>

Active(r) == r # NoRecord /\ r.status = "active"

\* What get answers for the entry r at time t.
Answer(r, t) ==
  CASE ~Active(r) -> "KeyError"
    [] Active(r) /\ r.expires = Never -> r.value
    [] Active(r) /\ r.expires = Unreadable -> "RuntimeError"
    [] Active(r) /\ r.expires \notin {Never, Unreadable} ->
         IF r.expires <= t THEN "KeyError" ELSE r.value

\* Mutant of Check: expires_at is not looked at.
Check_NoExpiry(c) ==
  /\ pc[c] = "check"
  /\ LET r == recs[c][call[c].id] IN End(c, IF Active(r) THEN r.value ELSE "KeyError")
  /\ UNCHANGED <<drive, now, fileId, call, calls, window, known>>

\* get looks at the entry after the download, with the clock of that moment.
Check(c) ==
  /\ pc[c] = "check"
  /\ End(c, Answer(recs[c][call[c].id], now))
  /\ UNCHANGED <<drive, now, fileId, call, calls, window, known>>

\* The entry that put or revoke leaves under the called id.
NewEntry(c) ==
  IF call[c].op = "put" THEN call[c].record ELSE Revoked(recs[c][call[c].id])

\* Mutant of NewTable: put writes the new record alone.
NewTable_Alone(c) == [Empty EXCEPT ![call[c].id] = NewEntry(c)]

\* The table that is written back: the downloaded one with one new entry.
NewTable(c) == [recs[c] EXCEPT ![call[c].id] = NewEntry(c)]

\* Everyone's window takes in the entry its call's id has now.
Widen == window' = [c \in Clients |->
  IF pc[c] = "idle" THEN window[c] ELSE window[c] \cup {Vault'[call[c].id]}]

\* _update replaces the file's content, _upload creates a file.
Stored(c) ==
  drive' = IF fileId[c] = 0 THEN Append(drive, Encrypt(c, NewTable(c)))
                            ELSE [drive EXCEPT ![fileId[c]] = Encrypt(c, NewTable(c))]

\* The write is applied and answered; _upload keeps the new file's id.
WriteAnswered(c) ==
  /\ pc[c] = "write"
  /\ fileId[c] = 0 => Len(drive) < MaxFiles
  /\ Stored(c)
  /\ fileId' = [fileId EXCEPT ![c] = IF @ = 0 THEN Len(drive) + 1 ELSE @]
  /\ End(c, "ok")
  /\ known' = [known EXCEPT ![call[c].id] = {NewEntry(c)}]
  /\ Widen
  /\ UNCHANGED <<now, call, calls>>

\* The write is applied and its answer is lost: RuntimeError, no id is kept.
WriteUnanswered(c) ==
  /\ pc[c] = "write"
  /\ fileId[c] = 0 => Len(drive) < MaxFiles
  /\ Stored(c)
  /\ End(c, "RuntimeError")
  /\ Doubt(c, NewEntry(c))
  /\ Widen
  /\ UNCHANGED <<now, fileId, call, calls>>

\* The process dies; the next one has a new store object.
Restart(c) ==
  /\ End(c, "none")
  /\ fileId' = [fileId EXCEPT ![c] = 0]
  /\ UNCHANGED <<drive, now, call, calls, window, known>>

Tick ==
  /\ now < MaxTime
  /\ now' = now + 1
  /\ UNCHANGED <<drive, fileId, pc, call, recs, got, calls, window, known>>

Next ==
  \/ Tick
  \/ \E c \in Clients :
       \/ Begin(c) \/ RequestFails(c) \/ FindCached(c) \/ FindByName(c)
       \/ Download(c) \/ Check(c) \/ WriteAnswered(c) \/ WriteUnanswered(c)
       \/ Restart(c)

Spec == Init /\ [][Next]_vars

\* One process writes at a time; two lose each other's updates and create
\* two files.
OneWriter == \A c, d \in Writers : c = d

-----------------------------------------------------------------------------
(* Properties                                                               *)

\* The state's types: in particular every stored table has one entry per id
\* and every kept file id is a file that exists.
TypeOK ==
  /\ drive \in Seq(Blobs) /\ now \in 0..MaxTime /\ calls \in 0..MaxCalls
  /\ fileId \in [Clients -> 0..Len(drive)]
  /\ pc \in [Clients -> {"idle", "find", "download", "check", "write"}]
  /\ call \in [Clients -> [op : {"none", "get", "put", "revoke"}, id : Ids,
                           record : Offered \cup {NoRecord}]]
  /\ recs \in [Clients -> [Ids -> Entries]]
  /\ window \in [Clients -> SUBSET Entries]
  /\ known \in [Ids -> SUBSET Entries]

V == INSTANCE SecretVault WITH vault <- Vault

\* With one writer the store implements SecretVault: although put and revoke
\* download, change and replace the whole file in several requests that may
\* fail or be cut off, the table changes by one put or one revoke at a time
\* and no other secret is touched.
AtomicVault == V!Spec

\* A call of get that ends in this step.
Answers(c) == pc[c] # "idle" /\ pc'[c] = "idle" /\ call[c].op = "get"

\* get is current: when it answers with a value, the id had an active entry
\* with that value at some moment of the call, and the entry has not expired;
\* when it raises KeyError, the id's entry was missing or revoked at some
\* moment of the call, or it has expired.
GetsCurrent ==
  [][\A c \in Clients :
       Answers(c) => got'[c] \in {"none", "RuntimeError", "InvalidTag"}
                     \/ \E r \in window[c] : got'[c] = Answer(r, now)]_vars

\* What a writer was told holds: the entry of an id is the one of the last
\* acknowledged put or revoke, or of an unacknowledged one made since; a
\* lost answer, a failed call or a restart never brings an older secret back.
\* It rests on Drive's part: a write that took effect only after _request's
\* timeout would put the whole older table back.
AcknowledgedKept == \A i \in Ids : Vault[i] \in known[i]
=============================================================================
