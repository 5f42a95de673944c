------------------------------ MODULE Fragments ------------------------------
(***************************************************************************)
(* The fragment store of a server (nullspace-server, fragment.rs): one     *)
(* file per fragment, a table with the time each expires, uploads that     *)
(* write the file and then the row, and a janitor that removes expired     *)
(* rows and, inside the same transaction, their files.                     *)
(*                                                                         *)
(* A fragment stands for its hash.  Callers hold a valid token (tokens are *)
(* in ServerAccess).  The transaction of an upload is one step, as nothing *)
(* reads its uncommitted row; the janitor's is not, as its files go before *)
(* it commits.  File names, directories and sizes are left out.            *)
(***************************************************************************)
EXTENDS Naturals, FiniteSets

CONSTANTS
  Frags,      (* fragments                                                *)
  Callers,    (* clients                                                  *)
  Calls,      (* the pairs of a client and a fragment it uploads          *)
  BatchSize,  (* BATCH of the janitor: 500 in the code                    *)
  MaxClock,   (* bound: last value of the clock                           *)
  MaxFaults   (* bound: crashes and failed statements or calls            *)

ASSUME CallsType == Calls \subseteq Callers \X Frags
ASSUME BatchSizePositive == BatchSize \in Nat \ {0}
ASSUME StoreBounds == MaxClock \in Nat \ {0} /\ MaxFaults \in Nat

VARIABLES
  clock,     (* NanoTimestamp::now() of the server                        *)
  file,      (* the files                                                 *)
  row,       (* table fragments: expires_at                               *)
  upload,    (* the calls of upload_frag                                  *)
  janitor,   (* the janitor task                                          *)
  promised,  (* history: until when acknowledged uploads keep a fragment  *)
  faults     (* history: how many faults there were                       *)

storeVars == <<clock, file, row, upload, janitor, promised>>

Never == MaxClock + 1   (* expires_at is NULL                             *)
NoRow == [state |-> "none"]
Row == [state : {"row"}, until : Nat]

(* `linked`: the file it opened is still the one of that name.             *)
NoUpload == [pc |-> "idle", until |-> 0, linked |-> FALSE]
Upload == [pc : {"idle", "open", "write", "row", "ok", "failed"}, until : Nat, linked : BOOLEAN]

IdleJanitor == [pc |-> "sleep", now |-> 0, batch |-> {}, done |-> {}, stale |-> FALSE]

StoreTypeOK ==
  /\ {clock, faults} \subseteq Nat
  /\ file \in [Frags -> {"none", "torn", "whole"}]
  /\ row \in [Frags -> Row \cup {NoRow}]
  /\ upload \in [Calls -> Upload]
  /\ janitor \in [pc : {"sleep", "select", "delete"}, now : Nat, batch : SUBSET Frags,
                  done : SUBSET Frags, stale : BOOLEAN]
  /\ promised \in [Frags -> Nat]

StoreInit ==
  /\ clock = 1 /\ faults = 0
  /\ file = [f \in Frags |-> "none"] /\ row = [f \in Frags |-> NoRow]
  /\ upload = [q \in Calls |-> NoUpload]
  /\ janitor = IdleJanitor
  /\ promised = [f \in Frags |-> 0]

Fault == faults < MaxFaults /\ faults' = faults + 1

Tick ==
  /\ clock < MaxClock /\ clock' = clock + 1
  /\ UNCHANGED <<file, row, upload, janitor, promised, faults>>

-----------------------------------------------------------------------------
Later(s, t) == IF s < t THEN t ELSE s

(* expires_at_from_ttl                                                     *)
Until(ttl) == IF ttl = 0 THEN Never ELSE clock + ttl

Running(c, f) == upload[<<c, f>>].pc \in {"open", "write", "row"}

(* A call arrives; its `now` is sampled here.                              *)
UploadBegin(c, f, ttl) ==
  /\ ~Running(c, f)
  /\ upload' = [upload EXCEPT ![<<c, f>>] = [pc |-> "open", until |-> Until(ttl), linked |-> FALSE]]
  /\ UNCHANGED <<clock, file, row, janitor, promised, faults>>

(* fs::write creates the file or empties it ...                            *)
UploadOpen(c, f) ==
  /\ upload[<<c, f>>].pc = "open"
  /\ file' = [file EXCEPT ![f] = "torn"]
  /\ upload' = [upload EXCEPT ![<<c, f>>].pc = "write", ![<<c, f>>].linked = TRUE]
  /\ UNCHANGED <<clock, row, janitor, promised, faults>>

(* ... and then fills the file it opened.                                  *)
UploadWrite(c, f) ==
  /\ upload[<<c, f>>].pc = "write"
  /\ file' = [file EXCEPT ![f] = IF upload[<<c, f>>].linked THEN "whole" ELSE @]
  /\ upload' = [upload EXCEPT ![<<c, f>>].pc = "row"]
  /\ UNCHANGED <<clock, row, janitor, promised, faults>>

(* upsert_fragment_row: NULL stays NULL, else the later time.              *)
Merged(f, until) ==
  [state |-> "row", until |-> IF row[f] = NoRow THEN until ELSE Later(row[f].until, until)]

(* Fault variant: the janitor deletes outside a transaction.               *)
WriteLocked_Never == FALSE

(* The janitor's transaction, which began with a read, has written.        *)
WriteLocked == janitor.pc = "delete" /\ janitor.done # {}

UploadCommit(c, f) ==
  /\ upload[<<c, f>>].pc = "row"
  /\ ~WriteLocked
  /\ row' = [row EXCEPT ![f] = Merged(f, upload[<<c, f>>].until)]
  /\ janitor' = [janitor EXCEPT !.stale = janitor.pc = "delete"]
  /\ upload' = [upload EXCEPT ![<<c, f>>].pc = "ok"]
  /\ promised' = [promised EXCEPT ![f] =
                    IF upload[<<c, f>>].linked THEN Later(@, upload[<<c, f>>].until) ELSE @]
  /\ UNCHANGED <<clock, file, faults>>

(* The disk or the database fails, or the database stays locked.           *)
UploadFails(c, f) ==
  /\ Running(c, f)
  /\ Fault
  /\ upload' = [upload EXCEPT ![<<c, f>>].pc = "failed"]
  /\ UNCHANGED <<clock, file, row, janitor, promised>>

(* download_frag: the file alone decides.                                  *)
Downloadable(f) == file[f] = "whole"

-----------------------------------------------------------------------------
JanitorWake ==
  /\ janitor.pc = "sleep"
  /\ janitor' = [IdleJanitor EXCEPT !.pc = "select", !.now = clock]
  /\ UNCHANGED <<clock, file, row, upload, promised, faults>>

Expired(now) == {f \in Frags : row[f] # NoRow /\ row[f].until <= now}

JanitorDone ==
  /\ janitor.pc = "select"
  /\ Expired(janitor.now) = {}
  /\ janitor' = IdleJanitor
  /\ UNCHANGED <<clock, file, row, upload, promised, faults>>

(* The transaction begins with the SELECT ... LIMIT.                       *)
JanitorSelect ==
  /\ janitor.pc = "select"
  /\ \E batch \in (SUBSET Expired(janitor.now)) \ {{}} :
       /\ Cardinality(batch) <= BatchSize
       /\ batch = Expired(janitor.now) \/ Cardinality(batch) = BatchSize
       /\ janitor' = [janitor EXCEPT !.pc = "delete", !.batch = batch, !.done = {},
                                     !.stale = FALSE]
  /\ UNCHANGED <<clock, file, row, upload, promised, faults>>

(* Fault variant: the DELETE goes through whatever was committed since.    *)
MayWrite_Always == TRUE

(* The first DELETE takes the write lock; SQLite refuses it once another   *)
(* transaction, of any table, has committed since the SELECT.              *)
MayWrite == janitor.done # {} \/ ~janitor.stale

(* The DELETE of a row, then remove_file, which may fail with a warning.   *)
JanitorRemove(f) ==
  /\ janitor.pc = "delete" /\ f \in janitor.batch \ janitor.done
  /\ MayWrite
  /\ \/ /\ file' = [file EXCEPT ![f] = "none"]
        /\ upload' = [q \in Calls |->
             IF q[2] = f THEN [upload[q] EXCEPT !.linked = FALSE] ELSE upload[q]]
        /\ UNCHANGED faults
     \/ Fault /\ UNCHANGED <<file, upload>>
  /\ janitor' = [janitor EXCEPT !.done = @ \cup {f}]
  /\ UNCHANGED <<clock, row, promised>>

JanitorRefused ==
  /\ janitor.pc = "delete" /\ janitor.done = {}
  /\ janitor' = IdleJanitor
  /\ UNCHANGED <<clock, file, row, upload, promised, faults>>

JanitorCommit ==
  /\ janitor.pc = "delete" /\ janitor.batch = janitor.done
  /\ row' = [f \in Frags |-> IF f \in janitor.done THEN NoRow ELSE row[f]]
  /\ janitor' = [IdleJanitor EXCEPT !.pc = "select", !.now = janitor.now]
  /\ UNCHANGED <<clock, file, upload, promised, faults>>

(* A statement fails: the transaction is rolled back, the files stay gone. *)
JanitorFails ==
  /\ janitor.pc \in {"select", "delete"}
  /\ Fault
  /\ janitor' = IdleJanitor
  /\ UNCHANGED <<clock, file, row, upload, promised>>

ServerCrash ==
  /\ Fault
  /\ upload' = [q \in Calls |->
       IF Running(q[1], q[2]) THEN [upload[q] EXCEPT !.pc = "failed"] ELSE upload[q]]
  /\ janitor' = IdleJanitor
  /\ UNCHANGED <<clock, file, row, promised>>

(* upload_frag goes on with every call; the janitor runs for ever.         *)
StoreStep ==
  \/ Tick
  \/ \E q \in Calls :
       LET c == q[1] f == q[2] IN
       UploadOpen(c, f) \/ UploadWrite(c, f) \/ UploadCommit(c, f) \/ UploadFails(c, f)
  \/ JanitorWake \/ JanitorDone \/ JanitorSelect \/ JanitorRefused \/ JanitorCommit
  \/ \E f \in Frags : JanitorRemove(f)
  \/ JanitorFails \/ ServerCrash

-----------------------------------------------------------------------------
Writing(f) == \E q \in Calls : q[2] = f /\ upload[q].pc = "write" /\ upload[q].linked

(* A fragment whose upload was acknowledged can be downloaded until it     *)
(* expires, through re-uploads with other times, a janitor whose SELECT    *)
(* and `now` are old, and files that go before their rows do.  What may be *)
(* in the way is a re-upload that empties the file before it fills it, or  *)
(* one that a fault cut short there.  An upload is counted unless the      *)
(* janitor removed its file between the write and the row: upload_frag     *)
(* answers Ok to that one too.                                             *)
KeptWhilePromised ==
  \A f \in Frags : clock < promised[f] =>
    \/ Downloadable(f)
    \/ file[f] = "torn" /\ (Writing(f) \/ faults > 0)

(* Files and rows stay paired although no transaction spans them: without  *)
(* a fault a file has its row, or an upload of it has yet to commit it,    *)
(* and a row has its file, or the janitor is about to commit its removal,  *)
(* or the janitor removed the file under an upload in progress, and that   *)
(* row is one of no promise.                                               *)
FilesAccounted ==
  /\ StoreTypeOK
  /\ faults = 0 =>
       \A f \in Frags :
         /\ file[f] # "none" /\ row[f] = NoRow =>
              \E q \in Calls : q[2] = f /\ Running(q[1], f) /\ upload[q].linked
         /\ file[f] = "none" /\ row[f] # NoRow =>
              \/ f \in janitor.done
              \/ promised[f] <= clock
=============================================================================
