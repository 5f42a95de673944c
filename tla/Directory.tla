------------------------------ MODULE Directory -----------------------------
(***************************************************************************)
(* The directory service: a primary that stages updates and commits them   *)
(* in chunks (server.rs, db.rs, main.rs), and a mirror that replays its    *)
(* chunks (mirror.rs).                                                     *)
(*                                                                         *)
(* Inserts run concurrently with each other and with the chunker, which    *)
(* commits one chunk at a time.  Headers and chunks are rows of SQLite;    *)
(* histories are values of a sparse Merkle tree whose nodes live in a      *)
(* separate store, addressed by content and durable once flushed; staging  *)
(* is memory.  The root of a tree stands for the map it commits to, and    *)
(* the hash of a header for the chain that ends in it.                     *)
(***************************************************************************)
EXTENDS DirectoryHistory, FiniteSets

CONSTANTS
  Keys,       (* directory keys: user names, server names                 *)
  Handlers,   (* concurrent v1_insert_update requests                     *)
  Inserts,    (* the pairs <<key, update>> that clients submit            *)
  MaxHeight,  (* bound: number of chunks                                  *)
  MaxCalls,   (* bound: number of inserts submitted                       *)
  MaxFaults   (* bound: number of crashes and database errors             *)

ASSUME InsertsType == Inserts \subseteq Keys \X Updates
ASSUME BoundsAreNat == MaxHeight \in Nat /\ MaxCalls \in Nat /\ MaxFaults \in Nat

VARIABLES
  chain,       (* headers and chunks of the primary; height h is entry h+1 *)
  nodes,       (* the roots whose nodes the primary's store holds          *)
  staging,     (* DirectoryState::staging: accepted updates per key        *)
  insert,      (* the insert in flight of every handler                    *)
  commit,      (* commit_chunk                                             *)
  mchain,      (* headers and chunks of the mirror                         *)
  mnodes,      (* the roots whose nodes the mirror's store holds           *)
  manchor,     (* MirrorState::anchor                                      *)
  sync,        (* sync_once                                                *)
  owed,        (* history: the inserts answered Ok and not dropped since,  *)
               (* with a chunk that failed or by a crash                   *)
  calls,       (* history: how many inserts were submitted                 *)
  faults       (* history: how many faults there were                      *)

primaryVars == <<chain, nodes, staging, insert, commit, owed, calls>>
mirrorVars == <<mchain, mnodes, manchor, sync>>
vars == <<primaryVars, mirrorVars, faults>>

NoUpdates == [k \in Keys |-> <<>>]

(* A staged update remembers, as history, the chain length that its insert *)
(* read its key's committed history from.                                  *)
Staged == [upd : Updates, read : Nat]
NoneStaged == [k \in Keys |-> <<>>]

Root == [Keys -> Seq(Updates)]
Chunk == [updates : Root, root : Root]

IdleInsert == [pc |-> "idle"]
IdleCommit == [pc |-> "idle"]
IdleSync == [pc |-> "idle"]
NoAnchor == [height |-> 0, hash |-> <<>>]

TypeOK ==
  /\ chain \in Seq(Chunk)
  /\ nodes \in SUBSET Root
  /\ staging \in [Keys -> Seq(Staged)]
  /\ insert \in [Handlers -> {IdleInsert} \cup
                   [pc : {"read"}, key : Keys, upd : Updates, history : Seq(Updates), read : Nat]]
  /\ commit \in {IdleCommit} \cup [pc : {"taken", "verified", "flushed"},
                                   taken : [Keys -> Seq(Staged)]]
  /\ mchain \in Seq(Chunk)
  /\ mnodes \in SUBSET Root
  /\ manchor \in [height : Nat, hash : Seq(Chunk)]
  /\ sync \in {IdleSync} \cup [pc : {"anchored"}, anchor : [height : Nat, hash : Seq(Chunk)]]
               \cup [pc : {"flushed"}, anchor : [height : Nat, hash : Seq(Chunk)], chunk : Chunk]
  /\ owed \in SUBSET (Keys \X Updates)
  /\ calls \in Nat /\ faults \in Nat

Init ==
  /\ chain = <<>> /\ nodes = {}
  /\ staging = NoneStaged
  /\ insert = [h \in Handlers |-> IdleInsert]
  /\ commit = IdleCommit
  /\ mchain = <<>> /\ mnodes = {}
  /\ manchor = NoAnchor
  /\ sync = IdleSync
  /\ owed = {}
  /\ calls = 0 /\ faults = 0

-----------------------------------------------------------------------------
(* load_last_header: the root of the last header, the empty tree without   *)
(* one.                                                                    *)
LastRoot(c) == IF c = <<>> THEN NoUpdates ELSE c[Len(c)].root

(* The hash of the header that ends a chain names its whole history.       *)
HeaderHash(c, n) == SubSeq(c, 1, n)

Upds(list) == [i \in 1 .. Len(list) |-> list[i].upd]

InList(list) == {list[i].upd : i \in 1 .. Len(list)}

(* Variant: a key's new value holds only the chunk's updates. *)
NewRoot_Replaces(root, updates) ==
  [k \in Keys |-> IF updates[k] = <<>> THEN root[k] ELSE updates[k]]

(* The histories after a chunk's updates, as the new tree holds them.      *)
NewRoot(root, updates) == [k \in Keys |-> root[k] \o updates[k]]

ChunkVerifies(root, updates) ==
  \A k \in Keys : updates[k] # <<>> => VerifyHistory(root[k] \o updates[k])

-----------------------------------------------------------------------------
(* v1_insert_update up to its lock of staging: the proof of work holds,    *)
(* there is a header, and the key's history is read under that header.     *)
InsertRead(h, i) ==
  /\ insert[h] = IdleInsert
  /\ chain # <<>>
  /\ calls < MaxCalls
  /\ calls' = calls + 1
  /\ insert' = [insert EXCEPT ![h] =
       [pc |-> "read", key |-> i[1], upd |-> i[2],
        history |-> LastRoot(chain)[i[1]], read |-> Len(chain)]]
  /\ UNCHANGED <<chain, nodes, staging, commit, owed, mirrorVars, faults>>

(* Variant: pending updates are not looked at. *)
Candidate_NoPending(h) == Append(insert[h].history, insert[h].upd)

(* The history the insert checks: what it read, what is pending, and its   *)
(* own update.                                                             *)
Candidate(h) ==
  insert[h].history \o Append(Upds(staging[insert[h].key]), insert[h].upd)

(* Under the lock: accept and stage, or reject.                            *)
InsertStage(h) ==
  /\ insert[h].pc = "read"
  /\ VerifyHistory(Candidate(h))
  /\ staging' = [staging EXCEPT ![insert[h].key] =
                   Append(@, [upd |-> insert[h].upd, read |-> insert[h].read])]
  /\ owed' = owed \cup {<<insert[h].key, insert[h].upd>>}
  /\ insert' = [insert EXCEPT ![h] = IdleInsert]
  /\ UNCHANGED <<chain, nodes, commit, calls, mirrorVars, faults>>

InsertReject(h) ==
  /\ insert[h].pc = "read"
  /\ ~VerifyHistory(Candidate(h))
  /\ insert' = [insert EXCEPT ![h] = IdleInsert]
  /\ UNCHANGED <<chain, nodes, staging, commit, owed, calls, mirrorVars, faults>>

-----------------------------------------------------------------------------
Pairs(lists) == UNION {{<<k, u>> : u \in InList(lists[k])} : k \in Keys}

(* commit_chunk takes everything that is staged.                           *)
CommitTake ==
  /\ commit = IdleCommit
  /\ Len(chain) < MaxHeight
  /\ commit' = [pc |-> "taken", taken |-> staging]
  /\ staging' = NoneStaged
  /\ UNCHANGED <<chain, nodes, insert, owed, calls, mirrorVars, faults>>

TakenUpds == [k \in Keys |-> Upds(commit.taken[k])]

(* It verifies every key's history again, under the last header.           *)
CommitVerify ==
  /\ commit.pc = "taken"
  /\ ChunkVerifies(LastRoot(chain), TakenUpds)
  /\ commit' = [commit EXCEPT !.pc = "verified"]
  /\ UNCHANGED <<chain, nodes, staging, insert, owed, calls, mirrorVars, faults>>

(* One key that fails drops the updates of all keys.                       *)
CommitReject ==
  /\ commit.pc = "taken"
  /\ ~ChunkVerifies(LastRoot(chain), TakenUpds)
  /\ commit' = IdleCommit
  /\ owed' = owed \ Pairs(commit.taken)
  /\ UNCHANGED <<chain, nodes, staging, insert, calls, mirrorVars, faults>>

(* tree.commit and merkle.flush.                                           *)
CommitFlush ==
  /\ commit.pc = "verified"
  /\ nodes' = nodes \cup {NewRoot(LastRoot(chain), TakenUpds)}
  /\ commit' = [commit EXCEPT !.pc = "flushed"]
  /\ UNCHANGED <<chain, staging, insert, owed, calls, mirrorVars, faults>>

NewChunk == [updates |-> TakenUpds, root |-> NewRoot(LastRoot(chain), TakenUpds)]

(* Variant: the header may be written before the nodes are flushed. *)
CommitInsert_BeforeFlush ==
  /\ commit.pc \in {"verified", "flushed"}
  /\ chain' = Append(chain, NewChunk)
  /\ commit' = IdleCommit
  /\ UNCHANGED <<nodes, staging, insert, owed, calls, mirrorVars, faults>>

(* Variant: staging is cleared when the chunk is in. *)
CommitInsert_ClearsStaging ==
  /\ commit.pc = "flushed"
  /\ chain' = Append(chain, NewChunk)
  /\ commit' = IdleCommit
  /\ staging' = NoneStaged
  /\ UNCHANGED <<nodes, insert, owed, calls, mirrorVars, faults>>

(* insert_chunk: header and chunk in one transaction.                      *)
CommitInsert ==
  /\ commit.pc = "flushed"
  /\ chain' = Append(chain, NewChunk)
  /\ commit' = IdleCommit
  /\ UNCHANGED <<nodes, staging, insert, owed, calls, mirrorVars, faults>>

(* A database or store error ends commit_chunk with what it took.          *)
CommitError ==
  /\ commit # IdleCommit
  /\ faults < MaxFaults
  /\ faults' = faults + 1
  /\ owed' = owed \ Pairs(commit.taken)
  /\ commit' = IdleCommit
  /\ UNCHANGED <<chain, nodes, staging, insert, calls, mirrorVars>>

Crash ==
  /\ faults < MaxFaults
  /\ faults' = faults + 1
  /\ owed' = (owed \ Pairs(staging))
               \ (IF commit = IdleCommit THEN {} ELSE Pairs(commit.taken))
  /\ staging' = NoneStaged
  /\ insert' = [h \in Handlers |-> IdleInsert]
  /\ commit' = IdleCommit
  /\ UNCHANGED <<chain, nodes, calls, mirrorVars>>

-----------------------------------------------------------------------------
(* v1_get_anchor of the primary.                                           *)
Anchor(c) == [height |-> Len(c), hash |-> HeaderHash(c, Len(c))]

(* sync_once fetches the primary's anchor.                                 *)
SyncAnchor ==
  /\ sync = IdleSync
  /\ chain # <<>>
  /\ sync' = [pc |-> "anchored", anchor |-> Anchor(chain)]
  /\ UNCHANGED <<primaryVars, mchain, mnodes, manchor, faults>>

(* Variant: the new anchor is served before the chunks are there. *)
SyncAdopt_Early ==
  /\ sync.pc = "anchored"
  /\ manchor' = sync.anchor
  /\ sync' = IdleSync
  /\ UNCHANGED <<primaryVars, mchain, mnodes, faults>>

(* The mirror is at the anchor's height or has caught up with it, and its  *)
(* head hashes to the anchor's: the anchor is served from now on.          *)
SyncAdopt ==
  /\ sync.pc = "anchored"
  /\ Len(mchain) = sync.anchor.height
  /\ HeaderHash(mchain, Len(mchain)) = sync.anchor.hash
  /\ manchor' = sync.anchor
  /\ sync' = IdleSync
  /\ UNCHANGED <<primaryVars, mchain, mnodes, faults>>

(* Variant: the loop stops one chunk early. *)
SyncFlush_OffByOne ==
  LET next == Len(mchain) + 1
      chunk == chain[next]
      root == NewRoot(LastRoot(mchain), chunk.updates)
  IN  /\ sync.pc = "anchored"
      /\ next < sync.anchor.height
      /\ mnodes' = mnodes \cup {root}
      /\ sync' = [pc |-> "flushed", anchor |-> sync.anchor, chunk |-> chunk]
      /\ UNCHANGED <<primaryVars, mchain, manchor, faults>>

(* apply_chunk of the next height, up to its flush; the chunk must follow  *)
(* the local head and verify.                                              *)
SyncFlush ==
  LET next == Len(mchain) + 1
      chunk == chain[next]
      root == NewRoot(LastRoot(mchain), chunk.updates)
  IN  /\ sync.pc = "anchored"
      /\ next <= sync.anchor.height
      /\ HeaderHash(chain, next - 1) = HeaderHash(mchain, Len(mchain))
      /\ ChunkVerifies(LastRoot(mchain), chunk.updates)
      /\ mnodes' = mnodes \cup {root}
      /\ root = chunk.root
      /\ sync' = [pc |-> "flushed", anchor |-> sync.anchor, chunk |-> chunk]
      /\ UNCHANGED <<primaryVars, mchain, manchor, faults>>

(* insert_chunk of the mirror; the loop goes on.                           *)
SyncInsert ==
  /\ sync.pc = "flushed"
  /\ mchain' = Append(mchain, sync.chunk)
  /\ sync' = [pc |-> "anchored", anchor |-> sync.anchor]
  /\ UNCHANGED <<primaryVars, mnodes, manchor, faults>>

(* A failed call or database error ends the round.                         *)
SyncError ==
  /\ sync # IdleSync
  /\ faults < MaxFaults
  /\ faults' = faults + 1
  /\ sync' = IdleSync
  /\ UNCHANGED <<primaryVars, mchain, mnodes, manchor>>

(* A restarted mirror has no anchor until its next round ends.             *)
MirrorCrash ==
  /\ faults < MaxFaults
  /\ faults' = faults + 1
  /\ sync' = IdleSync
  /\ manchor' = NoAnchor
  /\ UNCHANGED <<primaryVars, mchain, mnodes>>

InsertNext(h) == (\E i \in Inserts : InsertRead(h, i)) \/ InsertStage(h) \/ InsertReject(h)

CommitNext ==
  CommitTake \/ CommitVerify \/ CommitReject \/ CommitFlush \/ CommitInsert \/ CommitError

SyncNext == SyncAnchor \/ SyncAdopt \/ SyncFlush \/ SyncInsert \/ SyncError

Next ==
  \/ \E h \in Handlers : InsertNext(h)
  \/ CommitNext \/ Crash
  \/ SyncNext \/ MirrorCrash

(* The chunker and the mirror's sync loop run for ever.                    *)
Fairness ==
  /\ WF_vars(CommitTake \/ CommitVerify \/ CommitReject \/ CommitFlush \/ CommitInsert)
  /\ WF_vars(SyncAnchor \/ SyncAdopt \/ SyncFlush \/ SyncInsert)

Spec == Init /\ [][Next]_vars
FairSpec == Spec /\ Fairness

-----------------------------------------------------------------------------
(* The state is well typed, and a header never names a tree whose nodes    *)
(* are not in the store, whatever step of a commit or of a sync a crash    *)
(* cuts short.                                                             *)
RootsStored ==
  /\ TypeOK
  /\ \A n \in 1 .. Len(chain) : chain[n].root \in nodes
  /\ \A n \in 1 .. Len(mchain) : mchain[n].root \in mnodes

(* An update that was answered Ok is staged, being committed or committed, *)
(* unless a chunk that failed or a crash took it.                          *)
AcceptedAccountedFor ==
  \A p \in owed :
    \/ p[2] \in InList(staging[p[1]])
    \/ commit # IdleCommit /\ p[2] \in InList(commit.taken[p[1]])
    \/ \E i \in 1 .. Len(LastRoot(chain)[p[1]]) : LastRoot(chain)[p[1]][i] = p[2]

(* A chunk is refused only because an insert raced with the commit before: *)
(* it checked an update of some key against a history that had grown when  *)
(* the update was staged.                                                  *)
RefusedOnlyAfterRace ==
  commit.pc = "taken" /\ ~ChunkVerifies(LastRoot(chain), TakenUpds)
    => \E k \in Keys : \E i \in 1 .. Len(commit.taken[k]) :
         chain[commit.taken[k][i].read].root[k] # LastRoot(chain)[k]

(* The anchor a mirror serves is one the primary signed, and the mirror    *)
(* holds the chain it is about.                                            *)
MirrorAnchorHeld ==
  /\ manchor.height <= Len(mchain)
  /\ manchor.hash = HeaderHash(chain, manchor.height)

(* The primary's published roots and the mirror's copy implement the       *)
(* append-only registry.                                                   *)
Ledger == INSTANCE Registry
            WITH ledger <- [n \in 1 .. Len(chain) |-> chain[n].root],
                 seen <- Len(mchain)
ImplementsRegistry == Ledger!RegistrySpec

(* The mirror gets every chunk the primary has committed.                  *)
MirrorCatchesUp ==
  \A n \in 1 .. MaxHeight : Len(chain) >= n ~> (Len(mchain) >= n /\ manchor.height >= n)
=============================================================================
