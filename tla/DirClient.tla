------------------------------ MODULE DirClient -----------------------------
(***************************************************************************)
(* Lookups and inserts of a directory client (nullspace-dirclient): a call *)
(* gets a key's history with the height its proof is for, then an anchor   *)
(* of at least that height, which is cached by the height; it then brings  *)
(* the stored headers up to the anchor and checks the proof against them.  *)
(* An insert looks its update up until it is in the history.               *)
(*                                                                         *)
(* Tasks run concurrently.  The clients of one process keep their headers  *)
(* in one database, and one of its tasks syncs them at a time.             *)
(*                                                                         *)
(* The directory is honest and publishes one chain, so that a header is    *)
(* its height, a store of headers the greatest height in it, and a checked *)
(* response the height of its proof: its history is the ledger's there.    *)
(***************************************************************************)
EXTENDS Naturals, Sequences, FiniteSets

CONSTANTS
  Pks,         (* signing public keys                                     *)
  Keys,        (* directory keys                                          *)
  Tasks,       (* callers of the clients                                  *)
  KeyOf,       (* the key each task is about                              *)
  Clients,     (* DirClient instances                                     *)
  ClientOf,    (* the instance each task calls                            *)
  Databases,   (* the clients' databases, one per process                 *)
  DbOf,        (* the database of each instance                           *)
  BatchLimit,  (* BATCH_LIMIT                                             *)
  MaxHeight,   (* bound: number of chunks                                 *)
  MaxFaults    (* bound: number of failures and crashes                   *)

ASSUME KeyOfType == KeyOf \in [Tasks -> Keys]
ASSUME ClientOfType == ClientOf \in [Tasks -> Clients]
ASSUME DbOfType == DbOf \in [Clients -> Databases]
ASSUME BatchLimitType == BatchLimit \in Nat \ {0}
ASSUME BoundsAreNat == MaxHeight \in Nat \ {0} /\ MaxFaults \in Nat

VARIABLES
  ledger,     (* the histories after every chunk of the directory         *)
  staged,     (* the updates it has accepted since the last chunk         *)
  anchorAt,   (* the height of the anchor it serves; a mirror's may lag   *)
  stored,     (* the greatest height in _dirclient_headers                *)
  cache,      (* anchor_cache: the anchor's height for a proof's, or 0    *)
  syncing,    (* who holds SEMAPHORE in the process of each database      *)
  task,       (* what every task is doing                                 *)
  overtaken,  (* history: tasks whose process stored a newer header while *)
              (* they had a response in hand                              *)
  faults      (* history: how many failures and crashes there were        *)

(* The hash of an update is the list of the updates up to it, of which the *)
(* model keeps who made them; a descriptor is its owner's.  These clients  *)
(* add owners and descriptors, and delete none.                            *)
Hashes == Seq({"add", "update"} \X Pks)
NothingSent == <<>>
Made ==
  [id : Hashes \ {NothingSent}, prev : Hashes, kind : {"add", "update"}, owner : Pks, signer : Pks]

INSTANCE DirectoryHistory
  WITH Updates <- Made, Ids <- Hashes \ {NothingSent}, ZeroHash <- NothingSent

directory == <<ledger, staged, anchorAt>>
headers == <<stored, cache, syncing>>

Nobody == "nobody"
ASSUME NobodyIsNoTask == Nobody \notin Tasks
NoHistories == [k \in Keys |-> <<>>]

(* `at` is the proof's height, `anchor` the anchor's, `sent` the hash of   *)
(* an insert's update, `read` the height the directory checks it under.    *)
Pcs == {"off", "item", "anchor", "sync", "locked", "got", "insert", "checked", "between",
        "ok", "failed"}
Task(stages) ==
  [pc : Pcs, stage : stages, at : 0 .. MaxHeight, anchor : 0 .. MaxHeight,
   sent : Hashes, read : 0 .. MaxHeight, why : {"", "lookup", "other"}]

ClientTypeOK(stages) ==
  /\ ledger \in Seq([Keys -> Seq(Made)])
  /\ staged \in [Keys -> Seq(Made)]
  /\ anchorAt \in 1 .. Len(ledger)
  /\ stored \in [Databases -> 0 .. Len(ledger)]
  /\ cache \in [Clients -> [1 .. MaxHeight -> 0 .. MaxHeight]]
  /\ syncing \in [Databases -> Tasks \cup {Nobody}]
  /\ task \in [Tasks -> Task(stages)]
  /\ overtaken \subseteq Tasks
  /\ faults \in 0 .. MaxFaults

(* The directory's first chunk is empty.                                   *)
ClientInit(first) ==
  /\ ledger = <<NoHistories>> /\ staged = NoHistories /\ anchorAt = 1
  /\ stored = [d \in Databases |-> 0]
  /\ cache = [c \in Clients |-> [h \in 1 .. MaxHeight |-> 0]]
  /\ syncing = [d \in Databases |-> Nobody]
  /\ task = [t \in Tasks |->
               [pc |-> "off", stage |-> first, at |-> 0, anchor |-> 0,
                sent |-> NothingSent, read |-> 0, why |-> ""]]
  /\ overtaken = {} /\ faults = 0

Db(t) == DbOf[ClientOf[t]]
At(t, pc) == task[t].pc = pc
History(t) == ledger[task[t].at][KeyOf[t]]

Goto(t, pc) == [task EXCEPT ![t].pc = pc]
Failed(t, why) == [task EXCEPT ![t].pc = "failed", ![t].why = why]

-----------------------------------------------------------------------------
(* The directory, as its own modules have it: everything staged goes into  *)
(* one chunk if it verifies, and is dropped otherwise.                     *)
Extended == [k \in Keys |-> ledger[Len(ledger)][k] \o staged[k]]
AllVerify == \A k \in Keys : VerifyHistory(Extended[k])

DirectoryCommit ==
  /\ Len(ledger) < MaxHeight
  /\ AllVerify
  /\ ledger' = Append(ledger, Extended)
  /\ staged' = NoHistories
  /\ UNCHANGED <<anchorAt, headers, task, overtaken, faults>>

DirectoryRefuse ==
  /\ ~AllVerify
  /\ staged' = NoHistories
  /\ UNCHANGED <<ledger, anchorAt, headers, task, overtaken, faults>>

(* It crashes, or fails to write the chunk.                                *)
DirectoryDrops ==
  /\ staged # NoHistories
  /\ faults < MaxFaults
  /\ faults' = faults + 1
  /\ staged' = NoHistories
  /\ UNCHANGED <<ledger, anchorAt, headers, task, overtaken>>

(* The anchor it serves follows its chunks.                                *)
DirectorySigns ==
  /\ anchorAt < Len(ledger)
  /\ anchorAt' = anchorAt + 1
  /\ UNCHANGED <<ledger, staged, headers, task, overtaken, faults>>

-----------------------------------------------------------------------------
(* fetch_verified_response: v1_get_item answers under the last header.     *)
GetItem(t) ==
  /\ At(t, "item")
  /\ task' = [task EXCEPT ![t].pc = "anchor", ![t].at = Len(ledger)]
  /\ overtaken' = overtaken \ {t}
  /\ UNCHANGED <<directory, headers, faults>>

(* Variant: whatever anchor was cached last is taken. *)
Cached_Any(t) ==
  LET known == {cache[ClientOf[t]][h] : h \in 1 .. MaxHeight}
  IN  CHOOSE h \in known : \A g \in known : g <= h

Cached(t) == cache[ClientOf[t]][task[t].at]

AnchorCached(t) ==
  /\ At(t, "anchor") /\ Cached(t) # 0
  /\ task' = [task EXCEPT ![t].pc = "sync", ![t].anchor = Cached(t)]
  /\ UNCHANGED <<directory, headers, overtaken, faults>>

(* v1_get_anchor, asked again until the anchor has the proof's height.     *)
AnchorFetched(t) ==
  /\ At(t, "anchor") /\ Cached(t) = 0
  /\ anchorAt >= task[t].at
  /\ cache' = [cache EXCEPT ![ClientOf[t]][task[t].at] = anchorAt]
  /\ task' = [task EXCEPT ![t].pc = "sync", ![t].anchor = anchorAt]
  /\ UNCHANGED <<directory, stored, syncing, overtaken, faults>>

(* sync_headers, with the semaphore held.                                  *)
SyncBegin(t) ==
  /\ At(t, "sync")
  /\ syncing[Db(t)] = Nobody
  /\ syncing' = [syncing EXCEPT ![Db(t)] = t]
  /\ task' = Goto(t, "locked")
  /\ UNCHANGED <<directory, stored, cache, overtaken, faults>>

(* A batch of headers is fetched and stored in one transaction.            *)
SyncBatch(t) ==
  LET last == stored[Db(t)]
      end == IF last + BatchLimit < task[t].anchor THEN last + BatchLimit ELSE task[t].anchor
  IN  /\ At(t, "locked")
      /\ last < task[t].anchor
      /\ stored' = [stored EXCEPT ![Db(t)] = end]
      /\ overtaken' = overtaken \cup
           {o \in Tasks \ {t} : /\ Db(o) = Db(t) /\ task[o].pc \in {"anchor", "sync"}
                                /\ task[o].at < end}
      /\ UNCHANGED <<directory, cache, syncing, task, faults>>

(* The header stored last has to be the anchor's, and the proof must not   *)
(* be for a header after the anchor.                                       *)
SyncEnds(t) ==
  LET good == stored[Db(t)] = task[t].anchor /\ task[t].at <= task[t].anchor
  IN  /\ At(t, "locked")
      /\ stored[Db(t)] >= task[t].anchor
      /\ syncing' = [syncing EXCEPT ![Db(t)] = Nobody]
      /\ task' = IF good THEN Goto(t, "got") ELSE Failed(t, "lookup")
      /\ UNCHANGED <<directory, stored, cache, overtaken, faults>>

(* A call of a lookup fails, and the semaphore is given back.              *)
LookupFails(t) ==
  /\ task[t].pc \in {"item", "anchor", "locked"}
  /\ faults < MaxFaults
  /\ faults' = faults + 1
  /\ task' = Failed(t, "other")
  /\ syncing' = IF syncing[Db(t)] = t THEN [syncing EXCEPT ![Db(t)] = Nobody] ELSE syncing
  /\ UNCHANGED <<directory, stored, cache, overtaken>>

-----------------------------------------------------------------------------
(* build_listing: what a verified history says.                            *)
Owners(h) == OwnersAfter(h)[Len(h)]
Descriptors(h) == {i \in 1 .. Len(h) : h[i].kind = "update"}
NoDescriptor == "none"
ASSUME NoDescriptorIsNone == NoDescriptor \notin Pks
Descriptor(h) ==
  IF Descriptors(h) = {} THEN NoDescriptor
  ELSE h[CHOOSE i \in Descriptors(h) : \A j \in Descriptors(h) : j <= i].owner

(* prev_update_hash                                                        *)
LastHash(h) == IF h = <<>> THEN NothingSent ELSE h[Len(h)].id

(* signed_update                                                           *)
Signed(hash) ==
  LET n == Len(hash)
  IN  [id |-> hash, prev |-> SubSeq(hash, 1, n - 1), kind |-> hash[n][1],
       owner |-> hash[n][2], signer |-> hash[n][2]]

(* insert_raw, with the update built on a verified history.                *)
InsertBegin(t, kind, pk, stage) ==
  task' = [task EXCEPT ![t].pc = "insert", ![t].stage = stage,
                       ![t].sent = Append(LastHash(History(t)), <<kind, pk>>)]

(* v1_insert_update reads the key's history, and checks the update on it   *)
(* and on what is staged by then.                                          *)
InsertChecked(t) ==
  /\ At(t, "insert")
  /\ task' = [task EXCEPT ![t].pc = "checked", ![t].read = Len(ledger)]
  /\ UNCHANGED <<directory, headers, overtaken, faults>>

Fits(t) ==
  VerifyHistory(ledger[task[t].read][KeyOf[t]] \o Append(staged[KeyOf[t]], Signed(task[t].sent)))

InsertStaged(t) ==
  /\ At(t, "checked") /\ Fits(t)
  /\ staged' = [staged EXCEPT ![KeyOf[t]] = Append(@, Signed(task[t].sent))]
  /\ task' = [task EXCEPT ![t].pc = "item", ![t].read = 0]
  /\ UNCHANGED <<ledger, anchorAt, headers, overtaken, faults>>

InsertRefused(t) ==
  /\ At(t, "checked") /\ ~Fits(t)
  /\ task' = Failed(t, "other")
  /\ UNCHANGED <<directory, headers, overtaken, faults>>

(* The call fails after the update was staged, or without.                 *)
InsertFails(t) ==
  /\ At(t, "checked")
  /\ faults < MaxFaults
  /\ faults' = faults + 1
  /\ staged' \in IF Fits(t)
                 THEN {staged, [staged EXCEPT ![KeyOf[t]] = Append(@, Signed(task[t].sent))]}
                 ELSE {staged}
  /\ task' = Failed(t, "other")
  /\ UNCHANGED <<ledger, anchorAt, headers, overtaken>>

(* Variant: an accepted update counts as landed. *)
Landed_Accepted(t) == task[t].sent # NothingSent

(* wait_for_update: the update is in the verified history.                 *)
Landed(t) == \E i \in 1 .. Len(History(t)) : History(t)[i].id = task[t].sent

(* It is not, and is looked up again or given up after 90 seconds.         *)
WaitAgain(t) ==
  /\ At(t, "got") /\ task[t].sent # NothingSent /\ ~Landed(t)
  /\ task' = Goto(t, "item")
  /\ UNCHANGED <<directory, headers, overtaken, faults>>

WaitTimesOut(t) ==
  /\ At(t, "got") /\ task[t].sent # NothingSent /\ ~Landed(t)
  /\ task' = Failed(t, "other")
  /\ UNCHANGED <<directory, headers, overtaken, faults>>

(* A process ends: its stored headers stay.                                *)
ProcessCrash(d) ==
  /\ faults < MaxFaults
  /\ faults' = faults + 1
  /\ task' = [t \in Tasks |->
                IF Db(t) = d /\ task[t].pc \notin {"off", "ok", "failed"}
                THEN [task[t] EXCEPT !.pc = "failed", !.why = "other"] ELSE task[t]]
  /\ cache' = [c \in Clients |-> IF DbOf[c] = d THEN [h \in 1 .. MaxHeight |-> 0] ELSE cache[c]]
  /\ syncing' = [syncing EXCEPT ![d] = Nobody]
  /\ UNCHANGED <<directory, stored, overtaken>>

DirectoryNext == DirectoryCommit \/ DirectoryRefuse \/ DirectoryDrops \/ DirectorySigns

CallNext(t) ==
  \/ GetItem(t) \/ AnchorCached(t) \/ AnchorFetched(t)
  \/ SyncBegin(t) \/ SyncBatch(t) \/ SyncEnds(t) \/ LookupFails(t)
  \/ InsertChecked(t) \/ InsertStaged(t) \/ InsertRefused(t) \/ InsertFails(t)
  \/ WaitAgain(t) \/ WaitTimesOut(t)

-----------------------------------------------------------------------------
(* A lookup whose calls are all answered fails only if another lookup of   *)
(* the same process stored a newer header while it had its response in     *)
(* hand: neither a cached anchor nor a mirror's lag is a reason.           *)
LookupFailsOnlyIfOvertaken ==
  \A t \in Tasks : task[t].why = "lookup" => t \in overtaken
=============================================================================
