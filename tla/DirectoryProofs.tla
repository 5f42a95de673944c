--------------------------- MODULE DirectoryProofs --------------------------
(***************************************************************************)
(* Proofs about Directory, for any keys, updates, handlers and bounds.     *)
(* VerifyHistory is used as an unknown predicate but for the empty         *)
(* history, so they hold of any way to verify a chain of updates.          *)
(*                                                                         *)
(* What makes the chunker safe is that commit_chunk alone appends to the   *)
(* chain, so what it has checked stays true until its transaction          *)
(* (CommitReady), and that histories only grow, so updates checked against *)
(* the same history are a chunk that verifies (StagedFollow).              *)
(***************************************************************************)
EXTENDS Directory, SequenceTheorems, TLAPS

(* An insert at work has read a committed history of its key.              *)
ReadsCommitted ==
  \A h \in Handlers : insert[h].pc = "read" =>
    /\ insert[h].read \in 1 .. Len(chain)
    /\ insert[h].history = chain[insert[h].read].root[insert[h].key]

(* Updates that all checked the last committed history of their key follow *)
(* it: with each other they were checked under the lock.                   *)
Fresh(k, list) ==
  \A i \in 1 .. Len(list) : chain[list[i].read].root[k] = LastRoot(chain)[k]

Follows(k, list) ==
  /\ \A i \in 1 .. Len(list) : list[i].read \in 1 .. Len(chain)
  /\ list # <<>> /\ Fresh(k, list) => VerifyHistory(LastRoot(chain)[k] \o Upds(list))

StagedFollow ==
  /\ \A k \in Keys : Follows(k, staging[k])
  /\ commit.pc = "taken" => \A k \in Keys : Follows(k, commit.taken[k])

(* What commit_chunk has done before its transaction still holds: nothing  *)
(* else appends to the chain.                                              *)
CommitReady ==
  /\ commit.pc \in {"verified", "flushed"} => ChunkVerifies(LastRoot(chain), TakenUpds)
  /\ commit.pc = "flushed" => NewRoot(LastRoot(chain), TakenUpds) \in nodes

(* Committed histories verify, and only grow from chunk to chunk.          *)
ChainVerifies ==
  /\ \A n \in 1 .. Len(chain), k \in Keys : VerifyHistory(chain[n].root[k])
  /\ \A n \in 1 .. Len(chain), k \in Keys : \A m \in 1 .. n :
       Len(chain[m].root[k]) <= Len(chain[n].root[k])

(* The mirror's chain is the beginning of the primary's, and a round works *)
(* on an anchor of the primary.                                            *)
MirrorFollows ==
  /\ Len(mchain) <= Len(chain)
  /\ \A n \in 1 .. Len(mchain) : mchain[n] = chain[n]
  /\ sync # IdleSync =>
       sync.anchor.height <= Len(chain) /\ sync.anchor.hash = HeaderHash(chain, sync.anchor.height)
  /\ sync.pc = "flushed" =>
       /\ Len(mchain) < Len(chain) /\ sync.chunk = chain[Len(mchain) + 1]
       /\ sync.chunk.root \in mnodes

Inv ==
  /\ RootsStored /\ ReadsCommitted /\ StagedFollow /\ CommitReady /\ ChainVerifies
  /\ MirrorFollows /\ AcceptedAccountedFor /\ MirrorAnchorHeld
-----------------------------------------------------------------------------
(* An append leaves the entries and the prefixes that were there.          *)
LEMMA AppendAt ==
  ASSUME NEW S, NEW q \in Seq(S), NEW x \in S
  PROVE  /\ Append(q, x) \in Seq(S) /\ Append(q, x) # <<>>
         /\ Len(q) \in Nat /\ Len(Append(q, x)) = Len(q) + 1
         /\ \A i \in 1 .. Len(q) : Append(q, x)[i] = q[i]
         /\ Append(q, x)[Len(q) + 1] = x
BY AppendProperties, LenProperties

LEMMA PrefixAt ==
  ASSUME NEW S, NEW q \in Seq(S), NEW n \in 0 .. Len(q)
  PROVE  /\ SubSeq(q, 1, n) \in Seq(S) /\ Len(SubSeq(q, 1, n)) = n
         /\ \A i \in 1 .. n : SubSeq(q, 1, n)[i] = q[i]
<1>1. Len(q) \in Nat /\ n \in Int /\ \A i \in 1 .. n : q[i] \in S
  BY LenProperties, ElementOfSeq
<1>2. /\ SubSeq(q, 1, n) \in Seq(S)
      /\ Len(SubSeq(q, 1, n)) = IF 1 <= n THEN n - 1 + 1 ELSE 0
      /\ \A i \in 1 .. n - 1 + 1 : SubSeq(q, 1, n)[i] = q[1 + i - 1]
  BY <1>1, SubSeqProperties
<1> QED BY <1>1, <1>2

LEMMA PrefixKept ==
  ASSUME NEW S, NEW q \in Seq(S), NEW x \in S, NEW n \in 0 .. Len(q)
  PROVE  SubSeq(Append(q, x), 1, n) = SubSeq(q, 1, n)
<1>1. n \in 0 .. Len(Append(q, x))
  BY AppendAt
<1>2. /\ SubSeq(q, 1, n) \in Seq(S) /\ SubSeq(Append(q, x), 1, n) \in Seq(S)
      /\ Len(SubSeq(q, 1, n)) = n /\ Len(SubSeq(Append(q, x), 1, n)) = n
      /\ \A i \in 1 .. n : SubSeq(q, 1, n)[i] = SubSeq(Append(q, x), 1, n)[i]
  BY <1>1, AppendAt, PrefixAt
<1> QED BY <1>2, SeqEqual

(* The updates of a list of staged ones.                                   *)
LEMMA UpdsOfList ==
  ASSUME NEW list \in Seq(Staged)
  PROVE  /\ Upds(list) \in Seq(Updates) /\ Len(Upds(list)) = Len(list)
         /\ \A i \in 1 .. Len(list) : Upds(list)[i] = list[i].upd
         /\ list = <<>> <=> Upds(list) = <<>>
<1>1. Len(list) \in Nat /\ \A i \in 1 .. Len(list) : list[i].upd \in Updates
  <2>1. Len(list) \in Nat /\ \A i \in 1 .. Len(list) : list[i] \in Staged
    BY LenProperties, ElementOfSeq
  <2> QED BY <2>1 DEF Staged
<1>2. Upds(list) \in [1 .. Len(list) -> Updates]
  BY <1>1 DEF Upds
<1>3. Upds(list) \in Seq(Updates)
  BY <1>1, <1>2, SeqDef
<1>4. Len(Upds(list)) = Len(list)
  BY <1>1, <1>2, <1>3, LenProperties
<1> QED BY <1>1, <1>3, <1>4, EmptySeq DEF Upds

LEMMA LastRootIs ==
  ASSUME NEW c \in Seq(Chunk)
  PROVE  /\ LastRoot(c) \in Root
         /\ c # <<>> => /\ Len(c) \in Nat \ {0} /\ c[Len(c)] \in Chunk
                        /\ LastRoot(c) = c[Len(c)].root
         /\ c = <<>> => LastRoot(c) = NoUpdates
<1>1. c # <<>> => Len(c) \in Nat \ {0}
  BY EmptySeq
<1>2. c # <<>> => c[Len(c)] \in Chunk
  BY <1>1, ElementOfSeq
<1>3. NoUpdates \in Root
  BY EmptySeq DEF NoUpdates, Root
<1> QED BY <1>1, <1>2, <1>3 DEF LastRoot, Chunk

LEMMA NewRootIs ==
  ASSUME NEW root \in Root, NEW updates \in Root
  PROVE  /\ NewRoot(root, updates) \in Root
         /\ \A k \in Keys : /\ NewRoot(root, updates)[k] = root[k] \o updates[k]
                            /\ root[k] \in Seq(Updates) /\ updates[k] \in Seq(Updates)
                            /\ root[k] \o updates[k] \in Seq(Updates)
BY ConcatProperties DEF NewRoot, Root

LEMMA CommitShape ==
  ASSUME TypeOK
  PROVE  /\ commit.pc \in {"idle", "taken", "verified", "flushed"}
         /\ commit.pc = "idle" <=> commit = IdleCommit
         /\ commit # IdleCommit =>
              /\ commit.taken \in [Keys -> Seq(Staged)]
              /\ \A p \in {"taken", "verified", "flushed"} :
                   /\ [commit EXCEPT !.pc = p].pc = p
                   /\ [commit EXCEPT !.pc = p].taken = commit.taken
                   /\ [commit EXCEPT !.pc = p] \in [pc : {"taken", "verified", "flushed"},
                                                    taken : [Keys -> Seq(Staged)]]
<1> DEFINE Busy == [pc : {"taken", "verified", "flushed"}, taken : [Keys -> Seq(Staged)]]
<1>1. CASE commit = IdleCommit
  BY <1>1 DEF IdleCommit
<1>2. CASE commit \in Busy
  <2>1. commit.pc \in {"taken", "verified", "flushed"} /\ commit.taken \in [Keys -> Seq(Staged)]
    BY <1>2
  <2>2. \A p \in {"taken", "verified", "flushed"} :
          /\ [commit EXCEPT !.pc = p].pc = p
          /\ [commit EXCEPT !.pc = p].taken = commit.taken
          /\ [commit EXCEPT !.pc = p] \in Busy
    BY <1>2
  <2>3. commit # IdleCommit
    BY <2>1 DEF IdleCommit
  <2> QED BY <2>1, <2>2, <2>3
<1> QED BY <1>1, <1>2 DEF TypeOK

LEMMA TakenUpdsIs ==
  ASSUME TypeOK, commit # IdleCommit
  PROVE  /\ TakenUpds \in Root
         /\ \A k \in Keys : commit.taken[k] \in Seq(Staged) /\ TakenUpds[k] = Upds(commit.taken[k])
BY CommitShape, UpdsOfList DEF TakenUpds, Root

LEMMA NewChunkIs ==
  ASSUME TypeOK, commit # IdleCommit
  PROVE  /\ NewChunk \in Chunk /\ NewChunk.updates = TakenUpds
         /\ NewChunk.root = NewRoot(LastRoot(chain), TakenUpds)
<1>1. LastRoot(chain) \in Root /\ TakenUpds \in Root
  BY LastRootIs, TakenUpdsIs DEF TypeOK
<1>2. NewRoot(LastRoot(chain), TakenUpds) \in Root
  BY <1>1, NewRootIs
<1> QED BY <1>1, <1>2 DEF NewChunk, Chunk
-----------------------------------------------------------------------------
LEMMA InitInv == Init => Inv
<1> SUFFICES ASSUME Init PROVE Inv
  OBVIOUS
<1>1. Len(<<>>) = 0 /\ \A S : <<>> \in Seq(S)
  BY EmptySeq
<1>2. TypeOK
  <2>1. NoAnchor \in [height : Nat, hash : Seq(Chunk)]
    BY <1>1 DEF NoAnchor
  <2>2. NoneStaged \in [Keys -> Seq(Staged)]
    BY <1>1 DEF NoneStaged
  <2> QED BY <1>1, <2>1, <2>2 DEF Init, TypeOK
<1>3. RootsStored
  BY <1>1, <1>2 DEF Init, RootsStored
<1>4. ReadsCommitted
  BY DEF Init, ReadsCommitted, IdleInsert
<1>5. StagedFollow
  BY <1>1 DEF Init, StagedFollow, Follows, NoneStaged, IdleCommit
<1>6. CommitReady
  BY DEF Init, CommitReady, IdleCommit
<1>7. ChainVerifies
  BY <1>1 DEF Init, ChainVerifies
<1>8. MirrorFollows
  BY <1>1 DEF Init, MirrorFollows, IdleSync
<1>9. AcceptedAccountedFor
  BY DEF Init, AcceptedAccountedFor
<1>10. MirrorAnchorHeld
  <2>1. SubSeq(<<>>, 1, 0) = <<>>
    BY SubSeqEmpty
  <2> QED BY <1>1, <2>1 DEF Init, MirrorAnchorHeld, NoAnchor, HeaderHash
<1> QED BY <1>3, <1>4, <1>5, <1>6, <1>7, <1>8, <1>9, <1>10 DEF Inv

(* What a round of the mirror works with.                                  *)
AnchorType == [height : Nat, hash : Seq(Chunk)]

LEMMA SyncShape ==
  ASSUME TypeOK
  PROVE  /\ sync.pc \in {"idle", "anchored", "flushed"}
         /\ sync.pc = "idle" <=> sync = IdleSync
         /\ sync # IdleSync => sync.anchor \in AnchorType
         /\ sync.pc = "flushed" => sync.chunk \in Chunk
BY DEF TypeOK, IdleSync, AnchorType

LEMMA AnchorIs ==
  ASSUME NEW c \in Seq(Chunk)
  PROVE  Anchor(c) \in AnchorType /\ Anchor(c).height = Len(c) /\ Anchor(c).hash = HeaderHash(c, Len(c))
<1>1. Len(c) \in Nat
  BY LenProperties
<1>2. SubSeq(c, 1, Len(c)) \in Seq(Chunk)
  BY <1>1, PrefixAt
<1> QED BY <1>1, <1>2 DEF Anchor, HeaderHash, AnchorType

LEMMA InsertTypeStep ==
  ASSUME TypeOK, NEW h \in Handlers, InsertNext(h)
  PROVE  TypeOK'
<1>1. ASSUME NEW i \in Inserts, InsertRead(h, i) PROVE TypeOK'
  <2>1. i[1] \in Keys /\ i[2] \in Updates
    BY InsertsType
  <2>2. LastRoot(chain)[i[1]] \in Seq(Updates) /\ Len(chain) \in Nat
    BY <2>1, LastRootIs, LenProperties DEF TypeOK, Root
  <2>3. [pc |-> "read", key |-> i[1], upd |-> i[2],
         history |-> LastRoot(chain)[i[1]], read |-> Len(chain)]
          \in [pc : {"read"}, key : Keys, upd : Updates, history : Seq(Updates), read : Nat]
    BY <2>1, <2>2
  <2> QED BY <1>1, <2>3 DEF InsertRead, TypeOK, mirrorVars
<1>2. CASE InsertStage(h)
  <2>1. insert[h] \in [pc : {"read"}, key : Keys, upd : Updates, history : Seq(Updates), read : Nat]
    BY <1>2 DEF InsertStage, TypeOK, IdleInsert
  <2>2. /\ insert[h].key \in Keys /\ insert[h].upd \in Updates
        /\ [upd |-> insert[h].upd, read |-> insert[h].read] \in Staged
    BY <2>1 DEF Staged
  <2>3. staging' \in [Keys -> Seq(Staged)]
    BY <1>2, <2>2, AppendAt DEF InsertStage, TypeOK
  <2>4. insert' \in [Handlers -> {IdleInsert} \cup
           [pc : {"read"}, key : Keys, upd : Updates, history : Seq(Updates), read : Nat]]
    BY <1>2 DEF InsertStage, TypeOK
  <2>5. owed' \in SUBSET (Keys \X Updates)
    BY <1>2, <2>2 DEF InsertStage, TypeOK
  <2> QED BY <1>2, <2>3, <2>4, <2>5 DEF InsertStage, TypeOK, mirrorVars
<1>3. CASE InsertReject(h)
  BY <1>3 DEF InsertReject, TypeOK, mirrorVars
<1> QED BY <1>1, <1>2, <1>3 DEF InsertNext

LEMMA CommitTypeStep ==
  ASSUME TypeOK, CommitNext \/ Crash
  PROVE  TypeOK'
<1>0. NoneStaged \in [Keys -> Seq(Staged)]
  BY EmptySeq DEF NoneStaged
<1>1. CASE CommitTake
  BY <1>0, <1>1 DEF CommitTake, TypeOK, mirrorVars
<1>2. CASE CommitVerify
  <2>1. commit # IdleCommit
    BY <1>2, CommitShape DEF CommitVerify
  <2>2. commit' \in [pc : {"taken", "verified", "flushed"}, taken : [Keys -> Seq(Staged)]]
    BY <1>2, <2>1, CommitShape DEF CommitVerify
  <2> QED BY <1>2, <2>2 DEF CommitVerify, TypeOK, mirrorVars
<1>3. CASE CommitReject
  BY <1>3 DEF CommitReject, TypeOK, mirrorVars
<1>4. CASE CommitFlush
  <2>1. commit # IdleCommit
    BY <1>4, CommitShape DEF CommitFlush
  <2>2. commit' \in [pc : {"taken", "verified", "flushed"}, taken : [Keys -> Seq(Staged)]]
    BY <1>4, <2>1, CommitShape DEF CommitFlush
  <2>3. NewRoot(LastRoot(chain), TakenUpds) \in Root
    BY <2>1, NewChunkIs DEF Chunk
  <2> QED BY <1>4, <2>2, <2>3 DEF CommitFlush, TypeOK, mirrorVars
<1>5. CASE CommitInsert
  <2>1. commit # IdleCommit
    BY <1>5, CommitShape DEF CommitInsert
  <2>2. chain' \in Seq(Chunk)
    BY <1>5, <2>1, NewChunkIs, AppendAt DEF CommitInsert, TypeOK
  <2> QED BY <1>5, <2>2 DEF CommitInsert, TypeOK, mirrorVars
<1>6. CASE CommitError
  BY <1>6 DEF CommitError, TypeOK, mirrorVars
<1>7. CASE Crash
  <2>1. owed' \in SUBSET (Keys \X Updates)
    BY <1>7 DEF Crash, TypeOK
  <2> QED BY <1>0, <1>7, <2>1 DEF Crash, TypeOK, mirrorVars
<1> QED BY <1>1, <1>2, <1>3, <1>4, <1>5, <1>6, <1>7 DEF CommitNext

LEMMA SyncTypeStep ==
  ASSUME TypeOK, MirrorFollows, SyncNext \/ MirrorCrash
  PROVE  TypeOK'
<1>1. CASE SyncAnchor
  <2>1. sync' \in [pc : {"anchored"}, anchor : AnchorType]
    BY <1>1, AnchorIs DEF SyncAnchor, TypeOK
  <2> QED BY <1>1, <2>1 DEF SyncAnchor, TypeOK, primaryVars, AnchorType
<1>2. CASE SyncAdopt
  <2>1. sync # IdleSync
    BY <1>2, SyncShape DEF SyncAdopt
  <2>2. manchor' \in AnchorType
    BY <1>2, <2>1, SyncShape DEF SyncAdopt
  <2> QED BY <1>2, <2>2 DEF SyncAdopt, TypeOK, primaryVars, AnchorType
<1>3. CASE SyncFlush
  <2>1. sync # IdleSync /\ sync.anchor \in AnchorType
    BY <1>3, SyncShape DEF SyncFlush
  <2>2. PICK n : n = Len(mchain) + 1
    OBVIOUS
  <2>3. n \in 1 .. Len(chain)
    BY <1>3, <2>1, <2>2, LenProperties DEF SyncFlush, MirrorFollows, AnchorType, TypeOK
  <2>4. chain[n] \in Chunk
    BY <2>3, ElementOfSeq DEF TypeOK
  <2>5. /\ sync' = [pc |-> "flushed", anchor |-> sync.anchor, chunk |-> chain[n]]
        /\ mnodes' = mnodes \cup {chain[n].root}
        /\ UNCHANGED <<primaryVars, mchain, manchor, faults>>
    BY <1>3, <2>2 DEF SyncFlush
  <2>6. sync' \in [pc : {"flushed"}, anchor : AnchorType, chunk : Chunk]
    BY <2>1, <2>4, <2>5
  <2>7. mnodes' \in SUBSET Root
    BY <2>4, <2>5 DEF TypeOK, Chunk
  <2> QED BY <2>5, <2>6, <2>7 DEF TypeOK, primaryVars, AnchorType
<1>4. CASE SyncInsert
  <2>1. sync # IdleSync /\ sync.anchor \in AnchorType /\ sync.chunk \in Chunk
    BY <1>4, SyncShape DEF SyncInsert
  <2>2. mchain' \in Seq(Chunk)
    BY <1>4, <2>1, AppendAt DEF SyncInsert, TypeOK
  <2>3. sync' \in [pc : {"anchored"}, anchor : AnchorType]
    BY <1>4, <2>1 DEF SyncInsert
  <2> QED BY <1>4, <2>2, <2>3 DEF SyncInsert, TypeOK, primaryVars, AnchorType
<1>5. CASE SyncError
  BY <1>5 DEF SyncError, TypeOK, primaryVars
<1>6. CASE MirrorCrash
  <2>1. NoAnchor \in AnchorType
    BY EmptySeq DEF NoAnchor, AnchorType
  <2> QED BY <1>6, <2>1 DEF MirrorCrash, TypeOK, primaryVars, AnchorType
<1> QED BY <1>1, <1>2, <1>3, <1>4, <1>5, <1>6 DEF SyncNext

LEMMA TypeStep ==
  ASSUME Inv, [Next]_vars
  PROVE  TypeOK /\ TypeOK'
<1>1. TypeOK /\ MirrorFollows
  BY DEF Inv, RootsStored
<1>2. CASE UNCHANGED vars
  BY <1>1, <1>2 DEF TypeOK, vars, primaryVars, mirrorVars
<1> QED BY <1>1, <1>2, InsertTypeStep, CommitTypeStep, SyncTypeStep DEF Next
-----------------------------------------------------------------------------
(* Only insert_chunk of the primary changes its chain.                     *)
Grows ==
  /\ CommitInsert /\ commit # IdleCommit
  /\ NewChunk \in Chunk /\ NewChunk.root \in nodes
  /\ chain' = Append(chain, NewChunk) /\ commit' = IdleCommit
  /\ UNCHANGED <<nodes, staging, insert, owed, mchain, mnodes, manchor, sync>>

LEMMA ChainStep ==
  ASSUME Inv, [Next]_vars
  PROVE  chain' = chain \/ Grows
<1>1. CASE CommitInsert
  <2>1. commit # IdleCommit /\ commit.pc = "flushed"
    BY <1>1, CommitShape, TypeStep DEF CommitInsert
  <2>2. NewChunk \in Chunk /\ NewChunk.root \in nodes
    BY <2>1, NewChunkIs, TypeStep DEF Inv, CommitReady
  <2> QED BY <1>1, <2>1, <2>2 DEF Grows, CommitInsert, mirrorVars
<1>2. CASE ~CommitInsert
  BY <1>2 DEF Next, vars, primaryVars, mirrorVars, InsertNext, InsertRead, InsertStage, InsertReject,
     CommitNext, CommitTake, CommitVerify, CommitReject, CommitFlush, CommitError, Crash,
     SyncNext, SyncAnchor, SyncAdopt, SyncFlush, SyncInsert, SyncError, MirrorCrash
<1> QED BY <1>1, <1>2

LEMMA ChainKept ==
  ASSUME Inv, [Next]_vars
  PROVE  /\ Len(chain) \in Nat /\ Len(chain') \in Nat /\ Len(chain) <= Len(chain')
         /\ \A n \in 1 .. Len(chain) : chain'[n] = chain[n]
         /\ \A n \in 0 .. Len(chain) : HeaderHash(chain', n) = HeaderHash(chain, n)
<1>1. chain \in Seq(Chunk) /\ Len(chain) \in Nat
  BY TypeStep, LenProperties DEF TypeOK
<1>2. CASE chain' = chain
  BY <1>1, <1>2
<1>3. CASE Grows
  BY <1>1, <1>3, AppendAt, PrefixKept DEF Grows, HeaderHash
<1> QED BY <1>2, <1>3, ChainStep

(* The last root is the longest, and its histories grow from chunk to      *)
(* chunk by what the chunk has for them.                                   *)
LEMMA LastIsLongest ==
  ASSUME Inv, NEW n \in 1 .. Len(chain), NEW k \in Keys
  PROVE  /\ chain[n].root \in Root
         /\ Len(chain[n].root[k]) \in Nat /\ Len(LastRoot(chain)[k]) \in Nat
         /\ Len(chain[n].root[k]) <= Len(LastRoot(chain)[k])
<1>1. chain \in Seq(Chunk) /\ Len(chain) \in Nat
  BY LenProperties DEF Inv, RootsStored, TypeOK
<1>2. chain # <<>>
  BY <1>1, EmptySeq
<1>3. LastRoot(chain) = chain[Len(chain)].root /\ LastRoot(chain) \in Root
  BY <1>1, <1>2, LastRootIs
<1>4. chain[n] \in Chunk /\ Len(chain) \in 1 .. Len(chain) /\ n \in 1 .. Len(chain)
  BY <1>1, ElementOfSeq
<1>5. chain[n].root \in Root
  BY <1>4 DEF Chunk
<1>6. chain[n].root[k] \in Seq(Updates) /\ LastRoot(chain)[k] \in Seq(Updates)
  BY <1>3, <1>5 DEF Root
<1>7. Len(chain[n].root[k]) \in Nat /\ Len(LastRoot(chain)[k]) \in Nat
  BY <1>6, LenProperties
<1>8. Len(chain[n].root[k]) <= Len(LastRoot(chain)[k])
  BY <1>3, <1>4 DEF Inv, ChainVerifies
<1> QED BY <1>5, <1>7, <1>8

LEMMA LastGrows ==
  ASSUME Inv, Grows, NEW k \in Keys
  PROVE  /\ LastRoot(chain') = NewRoot(LastRoot(chain), TakenUpds)
         /\ LastRoot(chain')[k] = LastRoot(chain)[k] \o Upds(commit.taken[k])
         /\ LastRoot(chain)[k] \in Seq(Updates) /\ Upds(commit.taken[k]) \in Seq(Updates)
         /\ LastRoot(chain')[k] = LastRoot(chain)[k]
              \/ Len(LastRoot(chain)[k]) < Len(LastRoot(chain')[k])
         /\ LastRoot(chain')[k] \in Seq(Updates) /\ Len(LastRoot(chain')[k]) \in Nat
         /\ Len(LastRoot(chain)[k]) <= Len(LastRoot(chain')[k])
<1>1. TypeOK /\ chain \in Seq(Chunk) /\ Len(chain) \in Nat
  BY LenProperties DEF Inv, RootsStored, TypeOK
<1>2. /\ chain' \in Seq(Chunk) /\ chain' # <<>> /\ Len(chain') = Len(chain) + 1
      /\ chain'[Len(chain) + 1] = NewChunk
  BY <1>1, AppendAt DEF Grows
<1>3. LastRoot(chain') = NewChunk.root
  BY <1>1, <1>2, LastRootIs
<1>4. /\ NewChunk.root = NewRoot(LastRoot(chain), TakenUpds)
      /\ LastRoot(chain) \in Root /\ TakenUpds \in Root /\ TakenUpds[k] = Upds(commit.taken[k])
  BY <1>1, NewChunkIs, LastRootIs, TakenUpdsIs DEF Grows
<1>5. /\ LastRoot(chain')[k] = LastRoot(chain)[k] \o Upds(commit.taken[k])
      /\ LastRoot(chain)[k] \in Seq(Updates) /\ Upds(commit.taken[k]) \in Seq(Updates)
      /\ LastRoot(chain')[k] \in Seq(Updates)
  <2>1. /\ NewRoot(LastRoot(chain), TakenUpds)[k] = LastRoot(chain)[k] \o TakenUpds[k]
        /\ LastRoot(chain)[k] \in Seq(Updates) /\ TakenUpds[k] \in Seq(Updates)
        /\ LastRoot(chain)[k] \o TakenUpds[k] \in Seq(Updates)
    BY <1>4, NewRootIs
  <2> QED BY <1>3, <1>4, <2>1
<1>0. PICK s, t : s = LastRoot(chain)[k] /\ t = Upds(commit.taken[k])
  OBVIOUS
<1>6. Len(s) \in Nat /\ Len(t) \in Nat /\ Len(s \o t) = Len(s) + Len(t)
  BY <1>0, <1>5, ConcatProperties, LenProperties
<1>7. /\ Len(s \o t) \in Nat /\ Len(s) <= Len(s \o t)
      /\ s \o t = s \/ Len(s) < Len(s \o t)
  <2>1. CASE t = <<>>
    <3>1. s \o t = s
      BY <1>0, <1>5, <2>1, ConcatEmptySeq
    <3> QED BY <1>6, <3>1
  <2>2. CASE t # <<>>
    <3>1. Len(t) \in Nat \ {0}
      BY <1>0, <1>5, <2>2, EmptySeq
    <3> QED BY <1>6, <3>1
  <2> QED BY <2>1, <2>2
<1>8. PICK r : r = LastRoot(chain')[k]
  OBVIOUS
<1>9. r = s \o t
  BY <1>0, <1>5, <1>8
<1>10. Len(r) \in Nat /\ Len(s) <= Len(r) /\ (r = s \/ Len(s) < Len(r))
  BY <1>7, <1>9
<1>11. LastRoot(chain') = NewRoot(LastRoot(chain), TakenUpds)
  BY <1>3, <1>4
<1> QED BY <1>0, <1>5, <1>8, <1>10, <1>11

(* Before the first chunk a history is empty.                              *)
LEMMA LastKept ==
  ASSUME Inv, [Next]_vars, NEW k \in Keys, NEW i \in 1 .. Len(LastRoot(chain)[k])
  PROVE  /\ i \in 1 .. Len(LastRoot(chain')[k])
         /\ LastRoot(chain')[k][i] = LastRoot(chain)[k][i]
<1>1. CASE chain' = chain
  BY <1>1
<1>2. CASE Grows
  <2>1. /\ LastRoot(chain')[k] = LastRoot(chain)[k] \o Upds(commit.taken[k])
        /\ LastRoot(chain)[k] \in Seq(Updates) /\ Upds(commit.taken[k]) \in Seq(Updates)
    BY <1>2, LastGrows
  <2>0. PICK s, t : s = LastRoot(chain)[k] /\ t = Upds(commit.taken[k])
    OBVIOUS
  <2>2. /\ Len(s) \in Nat /\ Len(t) \in Nat /\ Len(s \o t) = Len(s) + Len(t)
        /\ \A j \in 1 .. Len(s) + Len(t) : (s \o t)[j] = IF j <= Len(s) THEN s[j] ELSE t[j - Len(s)]
    BY <2>0, <2>1, ConcatProperties, LenProperties
  <2>3. i \in 1 .. Len(s)
    BY <2>0
  <2>4. i \in 1 .. Len(s) + Len(t) /\ i <= Len(s)
    BY <2>2, <2>3
  <2>5. i \in 1 .. Len(s \o t) /\ (s \o t)[i] = s[i]
    BY <2>2, <2>4
  <2>6. LastRoot(chain')[k] = s \o t
    BY <2>0, <2>1
  <2> QED BY <2>0, <2>5, <2>6
<1> QED BY <1>1, <1>2, ChainStep
-----------------------------------------------------------------------------
(* The mirror's chain grows by the chunk of a round.                       *)
LEMMA MirrorStep ==
  ASSUME Inv, [Next]_vars
  PROVE  /\ nodes \subseteq nodes' /\ mnodes \subseteq mnodes'
         /\ \/ mchain' = mchain
            \/ /\ SyncInsert /\ sync.pc = "flushed" /\ sync.chunk \in Chunk
               /\ mchain' = Append(mchain, sync.chunk)
               /\ UNCHANGED <<chain, mnodes, manchor>>
<1>1. nodes \subseteq nodes' /\ mnodes \subseteq mnodes'
  BY DEF Next, vars, primaryVars, mirrorVars, InsertNext, InsertRead, InsertStage, InsertReject,
     CommitNext, CommitTake, CommitVerify, CommitReject, CommitFlush, CommitInsert, CommitError, Crash,
     SyncNext, SyncAnchor, SyncAdopt, SyncFlush, SyncInsert, SyncError, MirrorCrash
<1>2. CASE SyncInsert
  BY <1>1, <1>2, TypeStep, SyncShape DEF SyncInsert, primaryVars
<1>3. CASE ~SyncInsert
  <2>1. mchain' = mchain
    BY <1>3 DEF Next, vars, primaryVars, mirrorVars, InsertNext, InsertRead, InsertStage, InsertReject,
       CommitNext, CommitTake, CommitVerify, CommitReject, CommitFlush, CommitInsert, CommitError, Crash,
       SyncNext, SyncAnchor, SyncAdopt, SyncFlush, MirrorCrash, SyncError
  <2> QED BY <1>1, <2>1
<1> QED BY <1>2, <1>3

LEMMA RootsStoredStep ==
  ASSUME Inv, [Next]_vars
  PROVE  RootsStored'
<1>0. TypeOK /\ TypeOK' /\ nodes \subseteq nodes' /\ mnodes \subseteq mnodes'
  BY TypeStep, MirrorStep
<1>1. ASSUME NEW n \in 1 .. Len(chain') PROVE chain'[n].root \in nodes'
  <2>1. CASE chain' = chain
    BY <1>0, <1>1, <2>1 DEF Inv, RootsStored
  <2>2. CASE Grows
    <3>1. n \in 1 .. Len(chain) \/ n = Len(chain) + 1
      BY <1>0, <1>1, <2>2, AppendAt DEF Grows, TypeOK
    <3>2. CASE n \in 1 .. Len(chain)
      BY <1>0, <3>2, ChainKept DEF Inv, RootsStored
    <3>3. CASE n = Len(chain) + 1
      <4>1. chain'[n] = NewChunk
        BY <1>0, <2>2, <3>3, AppendAt DEF Grows, TypeOK
      <4> QED BY <1>0, <2>2, <4>1 DEF Grows
    <3> QED BY <3>1, <3>2, <3>3
  <2> QED BY <2>1, <2>2, ChainStep
<1>2. ASSUME NEW n \in 1 .. Len(mchain') PROVE mchain'[n].root \in mnodes'
  <2>1. CASE mchain' = mchain
    BY <1>0, <1>2, <2>1 DEF Inv, RootsStored
  <2>2. CASE /\ sync.pc = "flushed" /\ sync.chunk \in Chunk
             /\ mchain' = Append(mchain, sync.chunk)
    <3>1. /\ Len(mchain) \in Nat /\ Len(mchain') = Len(mchain) + 1
          /\ mchain'[Len(mchain) + 1] = sync.chunk
          /\ \A i \in 1 .. Len(mchain) : mchain'[i] = mchain[i]
      BY <1>0, <2>2, AppendAt DEF TypeOK
    <3>2. sync.chunk.root \in mnodes
      BY <2>2 DEF Inv, MirrorFollows
    <3>3. n \in 1 .. Len(mchain) \/ n = Len(mchain) + 1
      BY <1>2, <3>1
    <3>4. n \in 1 .. Len(mchain) => mchain[n].root \in mnodes
      BY DEF Inv, RootsStored
    <3> QED BY <1>0, <3>1, <3>2, <3>3, <3>4
  <2> QED BY <2>1, <2>2, MirrorStep
<1> QED BY <1>0, <1>1, <1>2 DEF RootsStored

LEMMA ReadsCommittedStep ==
  ASSUME Inv, [Next]_vars
  PROVE  ReadsCommitted'
<1> SUFFICES ASSUME NEW h \in Handlers, insert'[h].pc = "read"
             PROVE  /\ insert'[h].read \in 1 .. Len(chain')
                    /\ insert'[h].history = chain'[insert'[h].read].root[insert'[h].key]
  BY DEF ReadsCommitted
<1>0. TypeOK
  BY TypeStep
<1>1. CASE insert'[h] = insert[h]
  <2>1. /\ insert[h].read \in 1 .. Len(chain)
        /\ insert[h].history = chain[insert[h].read].root[insert[h].key]
    BY <1>1 DEF Inv, ReadsCommitted
  <2> QED BY <1>1, <2>1, ChainKept
<1>2. ASSUME NEW i \in Inserts, InsertRead(h, i)
      PROVE  /\ insert'[h].read \in 1 .. Len(chain')
             /\ insert'[h].history = chain'[insert'[h].read].root[insert'[h].key]
  <2>1. /\ chain # <<>> /\ chain' = chain
        /\ insert'[h] = [pc |-> "read", key |-> i[1], upd |-> i[2],
                         history |-> LastRoot(chain)[i[1]], read |-> Len(chain)]
    BY <1>0, <1>2 DEF InsertRead, TypeOK
  <2>2. Len(chain) \in 1 .. Len(chain) /\ LastRoot(chain) = chain[Len(chain)].root
    BY <1>0, <2>1, LastRootIs DEF TypeOK
  <2> QED BY <2>1, <2>2
<1>3. \/ insert'[h] = insert[h]
      \/ \E i \in Inserts : InsertRead(h, i)
  <2>1. ASSUME NEW g \in Handlers, InsertNext(g)
        PROVE  insert'[h] = insert[h] \/ \E i \in Inserts : InsertRead(h, i)
    <3>1. CASE g = h
      <4>1. InsertStage(h) \/ InsertReject(h) => insert'[h] = IdleInsert
        BY <1>0 DEF InsertStage, InsertReject, TypeOK
      <4> QED BY <2>1, <3>1, <4>1 DEF InsertNext, IdleInsert
    <3>2. CASE g # h
      BY <1>0, <2>1, <3>2 DEF InsertNext, InsertRead, InsertStage, InsertReject, TypeOK
    <3> QED BY <3>1, <3>2
  <2>2. Crash => insert'[h] = IdleInsert
    BY DEF Crash
  <2>3. CommitNext \/ SyncNext \/ MirrorCrash \/ UNCHANGED vars => insert' = insert
    BY DEF vars, primaryVars, mirrorVars,
       CommitNext, CommitTake, CommitVerify, CommitReject, CommitFlush, CommitInsert, CommitError,
       SyncNext, SyncAnchor, SyncAdopt, SyncFlush, SyncInsert, SyncError, MirrorCrash
  <2> QED BY <2>1, <2>2, <2>3 DEF Next, IdleInsert
<1> QED BY <1>1, <1>2, <1>3

(* How commit_chunk moves on, and that nothing else touches what it took.  *)
LEMMA CommitStep ==
  ASSUME Inv, [Next]_vars
  PROVE  \/ commit' = commit
         \/ commit' = IdleCommit
         \/ CommitTake /\ commit'.pc = "taken" /\ commit'.taken = staging
         \/ /\ CommitVerify \/ CommitFlush
            /\ commit # IdleCommit /\ commit' # IdleCommit /\ commit'.taken = commit.taken
            /\ TakenUpds' = TakenUpds /\ chain' = chain
            /\ CommitVerify => commit'.pc = "verified"
            /\ CommitFlush => commit'.pc = "flushed"
<1>0. TypeOK
  BY TypeStep
<1>1. CASE CommitVerify \/ CommitFlush
  <2>1. commit # IdleCommit /\ commit.pc \in {"taken", "verified"}
    BY <1>1 DEF CommitVerify, CommitFlush, IdleCommit
  <2>2. /\ commit'.taken = commit.taken /\ chain' = chain
        /\ CommitVerify => commit'.pc = "verified"
        /\ CommitFlush => commit'.pc = "flushed"
    BY <1>0, <1>1, <2>1, CommitShape DEF CommitVerify, CommitFlush
  <2>3. commit' # IdleCommit
    BY <1>1, <2>2 DEF IdleCommit
  <2> QED BY <1>1, <2>1, <2>2, <2>3 DEF TakenUpds, Upds
<1>2. CASE CommitTake
  BY <1>2 DEF CommitTake
<1>3. CASE ~(CommitVerify \/ CommitFlush \/ CommitTake)
  BY <1>3 DEF Next, vars, primaryVars, mirrorVars, InsertNext, InsertRead, InsertStage, InsertReject,
     CommitNext, CommitReject, CommitInsert, CommitError, Crash,
     SyncNext, SyncAnchor, SyncAdopt, SyncFlush, SyncInsert, SyncError, MirrorCrash
<1> QED BY <1>1, <1>2, <1>3

(* Follows in the next state.                                              *)
FollowsNext(k, list) ==
  /\ \A i \in 1 .. Len(list) : list[i].read \in 1 .. Len(chain')
  /\ list # <<>> /\ (\A i \in 1 .. Len(list) : chain'[list[i].read].root[k] = LastRoot(chain')[k])
       => VerifyHistory(LastRoot(chain')[k] \o Upds(list))

(* A list that followed its key still does.                                *)
LEMMA FollowsKept ==
  ASSUME Inv, [Next]_vars, NEW k \in Keys, NEW list \in Seq(Staged), Follows(k, list)
  PROVE  FollowsNext(k, list)
<1>0. \A i \in 1 .. Len(list) :
        list[i].read \in 1 .. Len(chain) /\ list[i].read \in 1 .. Len(chain')
  BY ChainKept DEF Follows
<1>1. CASE chain' = chain
  BY <1>1 DEF Follows, Fresh, FollowsNext
<1>2. CASE Grows
  <2> SUFFICES ASSUME list # <<>>,
                      \A i \in 1 .. Len(list) : chain'[list[i].read].root[k] = LastRoot(chain')[k]
               PROVE  VerifyHistory(LastRoot(chain')[k] \o Upds(list))
    BY <1>0 DEF FollowsNext
  <2>1. 1 \in 1 .. Len(list)
    BY EmptySeq
  <2>2. PICK n \in 1 .. Len(chain) : n = list[1].read
    BY <1>0, <2>1
  <2>3. chain[n].root[k] = LastRoot(chain')[k]
    BY <1>0, <2>1, <2>2, ChainKept
  <2>4. LastRoot(chain')[k] = LastRoot(chain)[k]
    <3>1. /\ Len(chain[n].root[k]) \in Nat /\ Len(LastRoot(chain)[k]) \in Nat
          /\ Len(chain[n].root[k]) <= Len(LastRoot(chain)[k])
      BY LastIsLongest
    <3>2. \/ LastRoot(chain')[k] = LastRoot(chain)[k]
          \/ /\ Len(LastRoot(chain)[k]) < Len(LastRoot(chain')[k])
             /\ Len(LastRoot(chain')[k]) \in Nat
      BY <1>2, LastGrows
    <3> QED BY <2>3, <3>1, <3>2
  <2>5. Fresh(k, list)
    BY <1>0, <2>4, ChainKept DEF Fresh
  <2> QED BY <2>4, <2>5 DEF Follows
<1> QED BY <1>1, <1>2, ChainStep

(* A list that an insert adds to follows, because it was checked.          *)
LEMMA StageFollows ==
  ASSUME Inv, NEW h \in Handlers, InsertStage(h)
  PROVE  /\ insert[h].key \in Keys
         /\ LET list == Append(staging[insert[h].key],
                               [upd |-> insert[h].upd, read |-> insert[h].read])
            IN  list \in Seq(Staged) /\ Follows(insert[h].key, list)
<1>0. TypeOK
  BY DEF Inv, RootsStored
<1>1. insert[h] \in [pc : {"read"}, key : Keys, upd : Updates, history : Seq(Updates), read : Nat]
  BY <1>0 DEF InsertStage, TypeOK, IdleInsert
<1>2. PICK k \in Keys, u \in Updates, n \in Nat :
        k = insert[h].key /\ u = insert[h].upd /\ n = insert[h].read
  BY <1>1
<1>3. n \in 1 .. Len(chain) /\ insert[h].history = chain[n].root[k]
  BY <1>2 DEF InsertStage, Inv, ReadsCommitted
<1>4. PICK old \in Seq(Staged) : old = staging[k]
  BY <1>0 DEF TypeOK
<1>5. PICK e \in Staged : e = [upd |-> u, read |-> n]
  BY DEF Staged
<1>6. PICK list \in Seq(Staged) : list = Append(old, e)
  BY AppendAt
<1>7. /\ Len(old) \in Nat /\ Len(list) = Len(old) + 1 /\ list # <<>>
      /\ \A i \in 1 .. Len(old) : list[i] = old[i]
      /\ list[Len(old) + 1] = e
  BY <1>6, AppendAt
<1>8. Upds(list) = Append(Upds(old), u)
  <2>1. /\ Upds(old) \in Seq(Updates) /\ Len(Upds(old)) = Len(old)
        /\ \A i \in 1 .. Len(old) : Upds(old)[i] = old[i].upd
        /\ Upds(list) \in Seq(Updates) /\ Len(Upds(list)) = Len(list)
        /\ \A i \in 1 .. Len(list) : Upds(list)[i] = list[i].upd
    BY UpdsOfList
  <2>2. /\ Append(Upds(old), u) \in Seq(Updates) /\ Len(Append(Upds(old), u)) = Len(old) + 1
        /\ \A i \in 1 .. Len(old) : Append(Upds(old), u)[i] = Upds(old)[i]
        /\ Append(Upds(old), u)[Len(old) + 1] = u
    BY <2>1, AppendAt
  <2>3. \A i \in 1 .. Len(list) : Upds(list)[i] = Append(Upds(old), u)[i]
    BY <1>5, <1>7, <2>1, <2>2, SMTT(60)
  <2> QED BY <1>7, <2>1, <2>2, <2>3, SeqEqual
<1>9. VerifyHistory(chain[n].root[k] \o Upds(list))
  BY <1>2, <1>3, <1>4, <1>8 DEF InsertStage, Candidate
<1>10. \A i \in 1 .. Len(list) : list[i].read \in 1 .. Len(chain)
  <2>1. \A i \in 1 .. Len(old) : old[i].read \in 1 .. Len(chain)
    BY <1>4 DEF Inv, StagedFollow, Follows
  <2> QED BY <1>3, <1>5, <1>7, <2>1
<1>11. Fresh(k, list) => chain[n].root[k] = LastRoot(chain)[k]
  <2>1. Len(old) + 1 \in 1 .. Len(list) /\ list[Len(old) + 1].read = n
    BY <1>5, <1>7
  <2> QED BY <2>1 DEF Fresh
<1>12. Follows(k, list)
  BY <1>9, <1>10, <1>11 DEF Follows
<1> QED BY <1>2, <1>4, <1>5, <1>6, <1>12

LEMMA StagedFollowStep ==
  ASSUME Inv, [Next]_vars
  PROVE  StagedFollow'
<1>0. TypeOK /\ TypeOK' /\ StagedFollow
  BY TypeStep DEF Inv
<1>1. \A k \in Keys : staging[k] \in Seq(Staged)
  BY <1>0 DEF TypeOK
<1>2. ASSUME NEW k \in Keys PROVE FollowsNext(k, staging'[k])
  <2>1. CASE staging'[k] = staging[k]
    <3>1. PICK list \in Seq(Staged) : list = staging[k]
      BY <1>1
    <3>2. FollowsNext(k, list)
      BY <1>0, <3>1, FollowsKept DEF StagedFollow
    <3> QED BY <2>1, <3>1, <3>2
  <2>2. CASE staging'[k] = <<>>
    BY <2>2, EmptySeq DEF FollowsNext
  <2>3. ASSUME NEW h \in Handlers, InsertStage(h), k = insert[h].key
        PROVE  FollowsNext(k, staging'[k])
    <3>1. PICK list : list = Append(staging[k], [upd |-> insert[h].upd, read |-> insert[h].read])
      OBVIOUS
    <3>2. list \in Seq(Staged) /\ Follows(k, list)
      BY <2>3, <3>1, StageFollows
    <3>3. staging'[k] = list
      BY <1>0, <2>3, <3>1 DEF InsertStage, TypeOK
    <3> QED BY <2>3, <3>2, <3>3, FollowsKept
  <2>4. \/ staging'[k] = staging[k] \/ staging'[k] = <<>>
        \/ \E h \in Handlers : InsertStage(h) /\ k = insert[h].key
    <3>1. ASSUME NEW h \in Handlers, InsertStage(h), k # insert[h].key
          PROVE  staging'[k] = staging[k]
      BY <1>0, <3>1 DEF InsertStage, TypeOK
    <3>2. CASE ~\E h \in Handlers : InsertStage(h)
      BY <3>2 DEF NoneStaged, Next, vars, primaryVars, mirrorVars, InsertNext, InsertRead, InsertReject,
         CommitNext, CommitTake, CommitVerify, CommitReject, CommitFlush, CommitInsert, CommitError,
         Crash, SyncNext, SyncAnchor, SyncAdopt, SyncFlush, SyncInsert, SyncError, MirrorCrash
    <3> QED BY <3>1, <3>2
  <2> QED BY <2>1, <2>2, <2>3, <2>4
<1>3. ASSUME commit'.pc = "taken", NEW k \in Keys PROVE FollowsNext(k, commit'.taken[k])
  <2>1. CASE commit' = commit
    <3>1. commit # IdleCommit /\ commit.pc = "taken"
      BY <1>3, <2>1 DEF IdleCommit
    <3>2. PICK list \in Seq(Staged) : list = commit.taken[k]
      BY <1>0, <3>1, CommitShape
    <3>3. FollowsNext(k, list)
      BY <1>0, <3>1, <3>2, FollowsKept DEF StagedFollow
    <3> QED BY <2>1, <3>2, <3>3
  <2>2. CASE CommitTake
    <3>1. PICK list \in Seq(Staged) : list = staging[k]
      BY <1>1
    <3>2. FollowsNext(k, list)
      BY <1>0, <3>1, FollowsKept DEF StagedFollow
    <3> QED BY <2>2, <3>1, <3>2 DEF CommitTake
  <2>3. commit' = commit \/ CommitTake
    BY <1>3, CommitStep DEF IdleCommit
  <2> QED BY <2>1, <2>2, <2>3
<1> QED BY <1>2, <1>3 DEF StagedFollow, Follows, Fresh, FollowsNext

LEMMA CommitReadyStep ==
  ASSUME Inv, [Next]_vars
  PROVE  CommitReady'
<1>0. TypeOK /\ CommitReady /\ nodes \subseteq nodes'
  BY TypeStep, MirrorStep DEF Inv
<1>1. CASE commit' = commit
  <2>1. chain' = chain \/ commit' = IdleCommit
    BY ChainStep DEF Grows
  <2>2. TakenUpds' = TakenUpds
    BY <1>1 DEF TakenUpds, Upds
  <2>3. CASE commit' = IdleCommit
    BY <2>3 DEF CommitReady, IdleCommit
  <2>4. CASE chain' = chain
    BY <1>0, <1>1, <2>2, <2>4 DEF CommitReady, ChunkVerifies, NewRoot, LastRoot
  <2> QED BY <2>1, <2>3, <2>4
<1>2. CASE commit' = IdleCommit \/ commit'.pc = "taken"
  BY <1>2 DEF CommitReady, IdleCommit
<1>3. CASE CommitVerify /\ commit'.pc = "verified" /\ TakenUpds' = TakenUpds /\ chain' = chain
  BY <1>3 DEF CommitVerify, CommitReady, ChunkVerifies, LastRoot
<1>4. CASE CommitFlush /\ commit'.pc = "flushed" /\ TakenUpds' = TakenUpds /\ chain' = chain
  BY <1>0, <1>4 DEF CommitFlush, CommitReady, ChunkVerifies, NewRoot, LastRoot
<1> QED BY <1>1, <1>2, <1>3, <1>4, CommitStep

LEMMA ChainVerifiesStep ==
  ASSUME Inv, [Next]_vars
  PROVE  ChainVerifies'
<1>0. TypeOK /\ ChainVerifies
  BY TypeStep DEF Inv
<1>1. CASE chain' = chain
  BY <1>0, <1>1 DEF ChainVerifies
<1>2. CASE Grows
  <2>1. /\ Len(chain) \in Nat /\ Len(chain') = Len(chain) + 1
        /\ \A i \in 1 .. Len(chain) : chain'[i] = chain[i]
        /\ chain' # <<>> /\ chain' \in Seq(Chunk)
    BY <1>0, <1>2, AppendAt, SMTT(60) DEF Grows, TypeOK
  <2>2. chain'[Len(chain) + 1].root = LastRoot(chain')
    BY <2>1, LastRootIs
  <2>3. ASSUME NEW k \in Keys PROVE VerifyHistory(LastRoot(chain')[k])
    <3>1. /\ LastRoot(chain')[k] = LastRoot(chain)[k] \o TakenUpds[k]
          /\ LastRoot(chain)[k] \in Seq(Updates) /\ TakenUpds[k] \in Seq(Updates)
      BY <1>0, <1>2, LastGrows, TakenUpdsIs DEF Grows
    <3>2. CASE TakenUpds[k] # <<>>
      <4>1. ChunkVerifies(LastRoot(chain), TakenUpds)
        BY <1>2 DEF Inv, CommitReady, Grows, CommitInsert
      <4> QED BY <3>1, <3>2, <4>1 DEF ChunkVerifies
    <3>3. CASE TakenUpds[k] = <<>>
      <4>1. LastRoot(chain')[k] = LastRoot(chain)[k]
        BY <3>1, <3>3, ConcatEmptySeq
      <4>2. CASE chain = <<>>
        <5>1. LastRoot(chain)[k] = <<>>
          BY <1>0, <4>2, LastRootIs DEF TypeOK, NoUpdates
        <5>2. VerifyHistory(<<>>)
          BY EmptySeq DEF VerifyHistory
        <5> QED BY <4>1, <5>1, <5>2
      <4>3. CASE chain # <<>>
        <5>1. Len(chain) \in 1 .. Len(chain) /\ LastRoot(chain) = chain[Len(chain)].root
          BY <1>0, <4>3, LastRootIs DEF TypeOK
        <5> QED BY <1>0, <4>1, <5>1 DEF ChainVerifies
      <4> QED BY <4>2, <4>3
    <3> QED BY <3>2, <3>3
  <2>4. ASSUME NEW n \in 1 .. Len(chain'), NEW k \in Keys
        PROVE  /\ VerifyHistory(chain'[n].root[k])
               /\ \A m \in 1 .. n : Len(chain'[m].root[k]) <= Len(chain'[n].root[k])
    <3>1. CASE n \in 1 .. Len(chain)
      BY <1>0, <2>1, <3>1 DEF ChainVerifies
    <3>2. CASE n = Len(chain) + 1
      <4>1. ASSUME NEW m \in 1 .. n PROVE Len(chain'[m].root[k]) <= Len(chain'[n].root[k])
        <5>1. CASE m \in 1 .. Len(chain)
          <6>1. chain'[m].root[k] = chain[m].root[k]
            BY <2>1, <5>1
          <6>2. /\ Len(chain[m].root[k]) \in Nat /\ Len(LastRoot(chain)[k]) \in Nat
                /\ Len(chain[m].root[k]) <= Len(LastRoot(chain)[k])
            BY <5>1, LastIsLongest
          <6>3. /\ Len(LastRoot(chain')[k]) \in Nat
                /\ Len(LastRoot(chain)[k]) <= Len(LastRoot(chain')[k])
            BY <1>2, LastGrows
          <6>4. chain'[n].root[k] = LastRoot(chain')[k]
            BY <2>2, <3>2
          <6>5. Len(chain[m].root[k]) <= Len(LastRoot(chain')[k])
            BY <6>2, <6>3
          <6> QED BY <6>1, <6>4, <6>5
        <5>2. CASE m = n
          <6>1. Len(LastRoot(chain')[k]) \in Nat
            BY <1>2, LastGrows
          <6> QED BY <2>2, <3>2, <5>2, <6>1
        <5> QED BY <2>1, <3>2, <4>1, <5>1, <5>2
      <4> QED BY <2>2, <2>3, <3>2, <4>1
    <3> QED BY <2>1, <2>4, <3>1, <3>2
  <2> QED BY <2>4 DEF ChainVerifies
<1> QED BY <1>1, <1>2, ChainStep

LEMMA MirrorFollowsStep ==
  ASSUME Inv, [Next]_vars
  PROVE  MirrorFollows'
<1>0. TypeOK /\ TypeOK' /\ MirrorFollows
  BY TypeStep DEF Inv
<1>1. /\ Len(mchain) \in Nat /\ Len(mchain) <= Len(chain)
      /\ \A n \in 1 .. Len(mchain) : mchain[n] = chain[n]
  BY <1>0, LenProperties DEF MirrorFollows, TypeOK
<1>2. Len(mchain') <= Len(chain') /\ \A n \in 1 .. Len(mchain') : mchain'[n] = chain'[n]
  <2>1. CASE mchain' = mchain
    BY <1>1, <2>1, ChainKept
  <2>2. CASE /\ sync.pc = "flushed" /\ sync.chunk \in Chunk
             /\ mchain' = Append(mchain, sync.chunk) /\ chain' = chain
    <3>1. /\ Len(mchain') = Len(mchain) + 1 /\ mchain'[Len(mchain) + 1] = sync.chunk
          /\ \A i \in 1 .. Len(mchain) : mchain'[i] = mchain[i]
      BY <1>0, <2>2, AppendAt DEF TypeOK
    <3>2. Len(mchain) < Len(chain) /\ sync.chunk = chain[Len(mchain) + 1]
      BY <1>0, <2>2 DEF MirrorFollows
    <3> QED BY <1>1, <2>2, <3>1, <3>2, ChainKept
  <2> QED BY <2>1, <2>2, MirrorStep
<1>3. ASSUME sync' # IdleSync
      PROVE  sync'.anchor.height \in 0 .. Len(chain)
               /\ sync'.anchor.hash = HeaderHash(chain, sync'.anchor.height)
  <2>1. CASE SyncAnchor
    BY <1>0, <2>1, AnchorIs, ChainKept DEF SyncAnchor, TypeOK
  <2>2. CASE sync # IdleSync /\ sync'.anchor = sync.anchor
    <3>1. sync.anchor.height \in Nat
      BY <1>0, <2>2, SyncShape DEF AnchorType
    <3> QED BY <1>0, <2>2, <3>1, ChainKept DEF MirrorFollows
  <2>3. CASE SyncFlush \/ SyncInsert
    <3>1. sync # IdleSync
      BY <1>0, <2>3, SyncShape DEF SyncFlush, SyncInsert
    <3>2. sync'.anchor = sync.anchor
      BY <2>3 DEF SyncFlush, SyncInsert
    <3> QED BY <2>2, <3>1, <3>2
  <2>4. SyncAdopt \/ SyncError \/ MirrorCrash => sync' = IdleSync
    BY DEF SyncAdopt, SyncError, MirrorCrash
  <2>5. ~(SyncNext \/ MirrorCrash) => sync' = sync
    BY DEF Next, vars, primaryVars, mirrorVars, InsertNext, InsertRead, InsertStage, InsertReject,
       CommitNext, CommitTake, CommitVerify, CommitReject, CommitFlush, CommitInsert, CommitError, Crash
  <2> QED BY <1>3, <2>1, <2>2, <2>3, <2>4, <2>5 DEF SyncNext
<1>4. sync' # IdleSync =>
        /\ sync'.anchor.height <= Len(chain')
        /\ sync'.anchor.hash = HeaderHash(chain', sync'.anchor.height)
  BY <1>3, ChainKept
<1>5. ASSUME sync'.pc = "flushed"
      PROVE  /\ Len(mchain') < Len(chain') /\ sync'.chunk = chain'[Len(mchain') + 1]
             /\ sync'.chunk.root \in mnodes'
  <2>1. CASE sync' = sync
    <3>1. /\ Len(mchain) < Len(chain) /\ sync.chunk = chain[Len(mchain) + 1]
          /\ sync.chunk.root \in mnodes
      BY <1>0, <1>5, <2>1 DEF MirrorFollows
    <3>2. mchain' = mchain
      BY <1>5, <2>1, MirrorStep DEF SyncInsert
    <3>3. chain'[Len(mchain) + 1] = chain[Len(mchain) + 1] /\ Len(mchain) < Len(chain')
      BY <1>1, <3>1, ChainKept
    <3> QED BY <2>1, <3>1, <3>2, <3>3, MirrorStep
  <2>2. CASE SyncFlush
    <3>1. sync # IdleSync /\ sync.anchor \in AnchorType
      BY <1>0, <2>2, SyncShape DEF SyncFlush
    <3>2. sync.anchor.height \in Nat /\ sync.anchor.height <= Len(chain)
      BY <1>0, <3>1 DEF AnchorType, MirrorFollows
    <3>3. PICK n : n = Len(mchain) + 1
      OBVIOUS
    <3>4. /\ n <= sync.anchor.height /\ sync' = [pc |-> "flushed", anchor |-> sync.anchor, chunk |-> chain[n]]
          /\ chain[n].root \in mnodes' /\ mchain' = mchain /\ chain' = chain
      BY <2>2, <3>3 DEF SyncFlush, primaryVars
    <3> QED BY <1>1, <3>2, <3>3, <3>4, ChainKept
  <2>3. sync' = sync \/ SyncFlush
    <3>1. SyncAnchor \/ SyncInsert => sync'.pc = "anchored"
      BY DEF SyncAnchor, SyncInsert
    <3>2. SyncAdopt \/ SyncError \/ MirrorCrash => sync'.pc = "idle"
      BY DEF SyncAdopt, SyncError, MirrorCrash, IdleSync
    <3>3. ~(SyncNext \/ MirrorCrash) => sync' = sync
      BY DEF Next, vars, primaryVars, mirrorVars, InsertNext, InsertRead, InsertStage, InsertReject,
         CommitNext, CommitTake, CommitVerify, CommitReject, CommitFlush, CommitInsert, CommitError, Crash
    <3> QED BY <1>5, <3>1, <3>2, <3>3 DEF SyncNext
  <2> QED BY <2>1, <2>2, <2>3
<1> QED BY <1>2, <1>4, <1>5 DEF MirrorFollows

LEMMA MirrorAnchorStep ==
  ASSUME Inv, [Next]_vars
  PROVE  MirrorAnchorHeld'
<1>0. TypeOK /\ TypeOK' /\ MirrorAnchorHeld /\ MirrorFollows
  BY TypeStep DEF Inv
<1>1. /\ Len(mchain) \in Nat /\ Len(mchain') \in Nat /\ Len(mchain) <= Len(mchain')
      /\ Len(mchain) <= Len(chain) /\ manchor.height \in Nat
  <2>1. Len(mchain) \in Nat /\ Len(mchain') \in Nat /\ manchor.height \in Nat
    BY <1>0, LenProperties DEF TypeOK
  <2>2. Len(mchain) <= Len(mchain')
    BY <1>0, <2>1, MirrorStep, AppendAt DEF TypeOK
  <2> QED BY <1>0, <2>1, <2>2 DEF MirrorFollows
<1>2. CASE manchor' = manchor
  <2>1. manchor.height \in 0 .. Len(chain) /\ manchor.height <= Len(mchain')
    BY <1>0, <1>1, ChainKept DEF MirrorAnchorHeld
  <2>2. manchor.hash = HeaderHash(chain', manchor.height)
    BY <1>0, <2>1, ChainKept DEF MirrorAnchorHeld
  <2> QED BY <1>2, <2>1, <2>2 DEF MirrorAnchorHeld, HeaderHash
<1>3. CASE SyncAdopt
  <2>1. sync # IdleSync
    BY <1>0, <1>3, SyncShape DEF SyncAdopt
  <2>2. sync.anchor.hash = HeaderHash(chain, sync.anchor.height)
    BY <1>0, <2>1 DEF MirrorFollows
  <2>3. /\ manchor' = sync.anchor /\ mchain' = mchain /\ chain' = chain
        /\ Len(mchain) = sync.anchor.height
    BY <1>3 DEF SyncAdopt, primaryVars
  <2> QED BY <1>1, <2>2, <2>3 DEF MirrorAnchorHeld, HeaderHash
<1>4. CASE manchor' = NoAnchor
  <2>1. SubSeq(chain', 1, 0) = <<>>
    BY SubSeqEmpty
  <2> QED BY <1>1, <1>4, <2>1 DEF MirrorAnchorHeld, HeaderHash, NoAnchor
<1>5. manchor' = manchor \/ SyncAdopt \/ manchor' = NoAnchor
  BY DEF Next, vars, primaryVars, mirrorVars, InsertNext, InsertRead, InsertStage, InsertReject,
     CommitNext, CommitTake, CommitVerify, CommitReject, CommitFlush, CommitInsert, CommitError, Crash,
     SyncNext, SyncAnchor, SyncFlush, SyncInsert, SyncError, MirrorCrash
<1> QED BY <1>2, <1>3, <1>4, <1>5

(* Where an accepted update of a key is.                                   *)
IsCommitted(k, u) == \E i \in 1 .. Len(LastRoot(chain)[k]) : LastRoot(chain)[k][i] = u

LEMMA AcceptedStep ==
  ASSUME Inv, [Next]_vars
  PROVE  AcceptedAccountedFor'
<1>0. TypeOK /\ TypeOK' /\ AcceptedAccountedFor
  BY TypeStep DEF Inv
<1>1. SUFFICES ASSUME NEW k \in Keys, NEW u \in Updates, <<k, u>> \in owed'
               PROVE  \/ u \in InList(staging'[k])
                      \/ commit' # IdleCommit /\ u \in InList(commit'.taken[k])
                      \/ \E i \in 1 .. Len(LastRoot(chain')[k]) : LastRoot(chain')[k][i] = u
  <2> SUFFICES ASSUME NEW p \in owed'
               PROVE  \/ p[2] \in InList(staging'[p[1]])
                      \/ commit' # IdleCommit /\ p[2] \in InList(commit'.taken[p[1]])
                      \/ \E i \in 1 .. Len(LastRoot(chain')[p[1]]) : LastRoot(chain')[p[1]][i] = p[2]
    BY DEF AcceptedAccountedFor, InList, LastRoot, NoUpdates
  <2>1. PICK k \in Keys, u \in Updates : p = <<k, u>>
    BY <1>0 DEF TypeOK
  <2> QED BY <1>1, <2>1
<1>2. CASE IsCommitted(k, u)
  BY <1>2, LastKept DEF IsCommitted
<1>3. ASSUME NEW h \in Handlers, InsertStage(h), k = insert[h].key
      PROVE  InList(staging'[k]) = InList(staging[k]) \cup {insert[h].upd}
  <2>1. PICK e : e = [upd |-> insert[h].upd, read |-> insert[h].read]
    OBVIOUS
  <2>2. insert[h] \in [pc : {"read"}, key : Keys, upd : Updates, history : Seq(Updates), read : Nat]
    BY <1>0, <1>3 DEF InsertStage, TypeOK, IdleInsert
  <2>3. e \in Staged /\ e.upd = insert[h].upd
    BY <2>1, <2>2 DEF Staged
  <2>4. staging'[k] = Append(staging[k], e) /\ staging[k] \in Seq(Staged)
    BY <1>0, <1>3, <2>1 DEF InsertStage, TypeOK
  <2>5. PICK s, t : s = staging[k] /\ t = staging'[k]
    OBVIOUS
  <2>6. /\ Len(s) \in Nat /\ Len(t) = Len(s) + 1 /\ t[Len(s) + 1] = e
        /\ \A i \in 1 .. Len(s) : t[i] = s[i]
    BY <2>3, <2>4, <2>5, AppendAt
  <2>7. InList(t) = InList(s) \cup {e.upd}
    <3>1. \A i \in 1 .. Len(t) : i \in 1 .. Len(s) \/ i = Len(s) + 1
      BY <2>6
    <3>2. \A i \in 1 .. Len(s) + 1 : i \in 1 .. Len(t)
      BY <2>6
    <3>3. Len(s) + 1 \in 1 .. Len(s) + 1 /\ \A i \in 1 .. Len(s) : i \in 1 .. Len(s) + 1
      BY <2>6
    <3> QED BY <2>6, <3>1, <3>2, <3>3 DEF InList
  <2> QED BY <2>3, <2>5, <2>7
<1>4. CASE u \in InList(staging[k])
  <2>1. CASE \E h \in Handlers : InsertStage(h)
    <3>1. PICK h \in Handlers : InsertStage(h)
      BY <2>1
    <3>2. k # insert[h].key => staging'[k] = staging[k]
      BY <1>0, <3>1 DEF InsertStage, TypeOK
    <3> QED BY <1>3, <1>4, <3>1, <3>2
  <2>2. CASE CommitTake
    BY <1>4, <2>2 DEF CommitTake, IdleCommit
  <2>3. CASE Crash
    <3>1. <<k, u>> \in Pairs(staging)
      BY <1>4 DEF Pairs
    <3> QED BY <1>1, <2>3, <3>1 DEF Crash
  <2>4. CASE ~((\E h \in Handlers : InsertStage(h)) \/ CommitTake \/ Crash)
    <3>1. staging' = staging
      BY <2>4 DEF Next, vars, primaryVars, mirrorVars, InsertNext, InsertRead, InsertReject,
         CommitNext, CommitVerify, CommitReject, CommitFlush, CommitInsert, CommitError,
         SyncNext, SyncAnchor, SyncAdopt, SyncFlush, SyncInsert, SyncError, MirrorCrash
    <3> QED BY <1>4, <3>1
  <2> QED BY <2>1, <2>2, <2>3, <2>4
<1>5. CASE commit # IdleCommit /\ u \in InList(commit.taken[k])
  <2>1. CASE Grows
    <3>1. /\ LastRoot(chain')[k] = LastRoot(chain)[k] \o Upds(commit.taken[k])
          /\ LastRoot(chain)[k] \in Seq(Updates) /\ Upds(commit.taken[k]) \in Seq(Updates)
      BY <2>1, LastGrows
    <3>2. PICK s, t, c : s = LastRoot(chain)[k] /\ t = Upds(c) /\ c = commit.taken[k]
      OBVIOUS
    <3>3. c \in Seq(Staged)
      BY <1>0, <1>5, <3>2, CommitShape
    <3>4. /\ Len(s) \in Nat /\ Len(t) \in Nat /\ Len(s \o t) = Len(s) + Len(t)
          /\ \A j \in 1 .. Len(s) + Len(t) : (s \o t)[j] = IF j <= Len(s) THEN s[j] ELSE t[j - Len(s)]
      BY <3>1, <3>2, ConcatProperties, LenProperties, ZenonT(60)
    <3>5. PICK i \in 1 .. Len(c) : c[i].upd = u
      BY <1>5, <3>2 DEF InList
    <3>6. i \in 1 .. Len(t) /\ t[i] = u
      BY <3>2, <3>3, <3>5, UpdsOfList
    <3>7. Len(s) + i \in 1 .. Len(s \o t) /\ (s \o t)[Len(s) + i] = u
      BY <3>4, <3>6
    <3>8. LastRoot(chain')[k] = s \o t
      BY <3>1, <3>2
    <3> QED BY <3>7, <3>8
  <2>2. CASE CommitReject \/ CommitError \/ Crash
    <3>1. <<k, u>> \in Pairs(commit.taken)
      BY <1>5 DEF Pairs
    <3> QED BY <1>1, <1>5, <2>2, <3>1 DEF CommitReject, CommitError, Crash
  <2>3. commit' = IdleCommit => Grows \/ CommitReject \/ CommitError \/ Crash
    <3>1. CommitInsert => Grows
      BY <1>0, <1>5, NewChunkIs DEF CommitInsert, Grows, Inv, CommitReady, mirrorVars
    <3>2. commit' = IdleCommit => CommitInsert \/ CommitReject \/ CommitError \/ Crash
      <4>1. (\E h \in Handlers : InsertNext(h)) \/ SyncNext \/ MirrorCrash \/ UNCHANGED vars
              => commit' = commit
        BY DEF vars, primaryVars, mirrorVars, InsertNext, InsertRead, InsertStage, InsertReject,
           SyncNext, SyncAnchor, SyncAdopt, SyncFlush, SyncInsert, SyncError, MirrorCrash
      <4>2. CommitTake => commit = IdleCommit
        BY DEF CommitTake
      <4>3. CommitVerify => commit'.pc = "verified"
        BY <1>0, <1>5, CommitShape DEF CommitVerify
      <4>4. CommitFlush => commit'.pc = "flushed"
        BY <1>0, <1>5, CommitShape DEF CommitFlush
      <4>5. IdleCommit.pc = "idle"
        BY DEF IdleCommit
      <4> QED BY <1>5, <4>1, <4>2, <4>3, <4>4, <4>5 DEF Next, CommitNext
    <3> QED BY <3>1, <3>2
  <2>4. CASE commit' # IdleCommit
    <3>1. commit'.taken = commit.taken
      BY <1>5, <2>4, CommitStep DEF CommitTake
    <3> QED BY <1>5, <2>4, <3>1
  <2> QED BY <2>1, <2>2, <2>3, <2>4
<1>6. CASE <<k, u>> \notin owed
  <2>1. \E h \in Handlers : InsertStage(h) /\ <<k, u>> = <<insert[h].key, insert[h].upd>>
    BY <1>1, <1>6 DEF Next, vars, primaryVars, mirrorVars, InsertNext, InsertRead, InsertStage,
       InsertReject, CommitNext, CommitTake, CommitVerify, CommitReject, CommitFlush, CommitInsert,
       CommitError, Crash, SyncNext, SyncAnchor, SyncAdopt, SyncFlush, SyncInsert, SyncError, MirrorCrash
  <2> QED BY <1>3, <2>1
<1>7. <<k, u>> \in owed =>
        \/ u \in InList(staging[k])
        \/ commit # IdleCommit /\ u \in InList(commit.taken[k])
        \/ IsCommitted(k, u)
  BY <1>0 DEF AcceptedAccountedFor, IsCommitted
<1> QED BY <1>2, <1>4, <1>5, <1>6, <1>7

LEMMA Inductive == Inv /\ [Next]_vars => Inv'
BY RootsStoredStep, ReadsCommittedStep, StagedFollowStep, CommitReadyStep, ChainVerifiesStep,
   MirrorFollowsStep, AcceptedStep, MirrorAnchorStep DEF Inv

THEOREM Invariance == Spec => []Inv
BY InitInv, Inductive, PTL DEF Spec
-----------------------------------------------------------------------------
(* The state is well typed, and no header names a tree whose nodes are not *)
(* stored, wherever commit_chunk or sync_once is cut short.                *)
THEOREM RootsAreStored == Spec => []RootsStored
<1>1. Inv => RootsStored
  BY DEF Inv
<1> QED BY <1>1, Invariance, PTL

(* What v1_insert_update accepted is staged, in commit_chunk or committed, *)
(* unless a refused chunk, an error or a crash dropped it.                 *)
THEOREM NothingAcceptedIsLost == Spec => []AcceptedAccountedFor
<1>1. Inv => AcceptedAccountedFor
  BY DEF Inv
<1> QED BY <1>1, Invariance, PTL

(* commit_chunk refuses a chunk only after an insert staged an update that *)
(* it had checked against a history older than the last chunk.             *)
THEOREM OnlyRacesRefuse == Spec => []RefusedOnlyAfterRace
<1>1. ASSUME Inv, commit.pc = "taken",
             NEW k \in Keys, TakenUpds[k] # <<>>, ~VerifyHistory(LastRoot(chain)[k] \o TakenUpds[k])
      PROVE  \E i \in 1 .. Len(commit.taken[k]) :
               chain[commit.taken[k][i].read].root[k] # LastRoot(chain)[k]
  <2>1. commit # IdleCommit
    BY <1>1 DEF IdleCommit
  <2>2. commit.taken[k] \in Seq(Staged) /\ TakenUpds[k] = Upds(commit.taken[k])
    BY <1>1, <2>1, TakenUpdsIs DEF Inv, RootsStored
  <2>3. commit.taken[k] # <<>>
    BY <1>1, <2>2, UpdsOfList
  <2>4. Follows(k, commit.taken[k])
    BY <1>1 DEF Inv, StagedFollow
  <2> QED BY <1>1, <2>2, <2>3, <2>4 DEF Follows, Fresh
<1>2. Inv => RefusedOnlyAfterRace
  BY <1>1 DEF RefusedOnlyAfterRace, ChunkVerifies
<1> QED BY <1>2, Invariance, PTL

(* The anchor a mirror serves is the primary's for that height, and the    *)
(* mirror has every chunk up to it.                                        *)
THEOREM AnchorIsHeld == Spec => []MirrorAnchorHeld
<1>1. Inv => MirrorAnchorHeld
  BY DEF Inv
<1> QED BY <1>1, Invariance, PTL
-----------------------------------------------------------------------------
(* The registry verifies histories as the directory does.                  *)
LEMMA SameVerify == \A h : Ledger!VerifyHistory(h) <=> VerifyHistory(h)
<1>1. \A h : Ledger!OwnersAfter(h) = OwnersAfter(h)
  BY DEF OwnersAfter, Ledger!OwnersAfter
<1>2. \A h, i : Ledger!Authorised(h, i) <=> Authorised(h, i)
  BY <1>1 DEF Authorised, Ledger!Authorised
<1>3. \A h, i : Ledger!PrevHash(h, i) = PrevHash(h, i)
  BY DEF PrevHash, Ledger!PrevHash
<1> QED BY <1>2, <1>3 DEF VerifyHistory, Ledger!VerifyHistory

(* The published roots of a chain.                                         *)
RootsOf(c) == [n \in 1 .. Len(c) |-> c[n].root]

LEMMA RootsAre ==
  ASSUME NEW c \in Seq(Chunk)
  PROVE  /\ RootsOf(c) \in Seq(Root) /\ Len(RootsOf(c)) = Len(c) /\ Len(c) \in Nat
         /\ \A n \in 1 .. Len(c) : RootsOf(c)[n] = c[n].root
         /\ Ledger!Latest(RootsOf(c)) = LastRoot(c)
<1>1. Len(c) \in Nat
  BY LenProperties
<1>2. \A n \in 1 .. Len(c) : c[n].root \in Root
  <2>1. \A n \in 1 .. Len(c) : c[n] \in Chunk
    BY <1>1, ElementOfSeq
  <2> QED BY <2>1 DEF Chunk
<1>3. RootsOf(c) \in [1 .. Len(c) -> Root]
  BY <1>2 DEF RootsOf
<1>4. RootsOf(c) \in Seq(Root)
  BY <1>1, <1>3, SeqDef
<1>5. Len(RootsOf(c)) = Len(c)
  BY <1>1, <1>3, <1>4, LenProperties
<1>6. \A n \in 1 .. Len(c) : RootsOf(c)[n] = c[n].root
  BY DEF RootsOf
<1>7. CASE c = <<>>
  <2>1. RootsOf(c) = <<>>
    BY <1>1, <1>4, <1>5, <1>7, EmptySeq
  <2> QED BY <1>1, <1>4, <1>5, <1>6, <1>7, <2>1
          DEF LastRoot, Ledger!Latest, NoUpdates, Ledger!NoUpdates
<1>8. CASE c # <<>>
  <2>1. Len(c) \in 1 .. Len(c)
    BY <1>1, <1>8, EmptySeq
  <2>2. RootsOf(c) # <<>>
    BY <1>5, <2>1, EmptySeq
  <2> QED BY <1>1, <1>4, <1>5, <1>6, <1>8, <2>1, <2>2 DEF LastRoot, Ledger!Latest
<1> QED BY <1>7, <1>8

(* A history is the beginning of itself with more updates.                 *)
LEMMA ConcatExtends ==
  ASSUME NEW S, NEW s \in Seq(S), NEW t \in Seq(S)
  PROVE  Len(s) <= Len(s \o t) /\ SubSeq(s \o t, 1, Len(s)) = s
<1>1. /\ Len(s) \in Nat /\ Len(t) \in Nat /\ s \o t \in Seq(S) /\ Len(s \o t) = Len(s) + Len(t)
      /\ \A i \in 1 .. Len(s) + Len(t) : (s \o t)[i] = IF i <= Len(s) THEN s[i] ELSE t[i - Len(s)]
  BY ConcatProperties, LenProperties
<1>2. /\ SubSeq(s \o t, 1, Len(s)) \in Seq(S) /\ Len(SubSeq(s \o t, 1, Len(s))) = Len(s)
      /\ \A i \in 1 .. Len(s) : SubSeq(s \o t, 1, Len(s))[i] = (s \o t)[i]
  BY <1>1, PrefixAt
<1>3. \A i \in 1 .. Len(s) : SubSeq(s \o t, 1, Len(s))[i] = s[i]
  BY <1>1, <1>2
<1> QED BY <1>1, <1>2, <1>3, SeqEqual

(* insert_chunk publishes a state that extends the one before.             *)
LEMMA PublishStep ==
  ASSUME Inv, Inv', Grows,
         NEW L, NEW M, L = RootsOf(chain), M = RootsOf(chain')
  PROVE  /\ M \in Seq(Root) /\ Len(M) = Len(L) + 1
         /\ Ledger!IsExtension(M, L)
         /\ Ledger!Extends(M[Len(M)], Ledger!Latest(L))
<1>1. /\ chain \in Seq(Chunk) /\ Len(chain) \in Nat /\ chain' \in Seq(Chunk)
      /\ Len(chain') = Len(chain) + 1
      /\ \A i \in 1 .. Len(chain) : chain'[i] = chain[i]
  BY AppendAt DEF Inv, RootsStored, TypeOK, Grows
<1>2. /\ L \in Seq(Root) /\ Len(L) = Len(chain) /\ Ledger!Latest(L) = LastRoot(chain)
      /\ \A n \in 1 .. Len(chain) : L[n] = chain[n].root
  BY <1>1, RootsAre
<1>3. /\ M \in Seq(Root) /\ Len(M) = Len(chain) + 1
      /\ \A n \in 1 .. Len(chain) + 1 : M[n] = chain'[n].root
  BY <1>1, RootsAre
<1>4. Ledger!IsExtension(M, L)
  <2>1. /\ SubSeq(M, 1, Len(L)) \in Seq(Root) /\ Len(SubSeq(M, 1, Len(L))) = Len(L)
        /\ \A i \in 1 .. Len(L) : SubSeq(M, 1, Len(L))[i] = M[i]
    BY <1>1, <1>2, <1>3, PrefixAt
  <2>2. \A i \in 1 .. Len(L) : M[i] = L[i]
    BY <1>1, <1>2, <1>3
  <2>3. SubSeq(M, 1, Len(L)) = L
    BY <1>2, <2>1, <2>2, SeqEqual
  <2> QED BY <1>1, <1>2, <1>3, <2>3 DEF Ledger!IsExtension
<1>5. ASSUME NEW k \in Keys
      PROVE  /\ Ledger!VerifyHistory(M[Len(M)][k])
             /\ Ledger!IsExtension(M[Len(M)][k], Ledger!Latest(L)[k])
  <2>1. Len(chain) + 1 \in 1 .. Len(chain') /\ chain' # <<>>
    BY <1>1, EmptySeq
  <2>2. M[Len(M)] = chain'[Len(chain')].root /\ chain'[Len(chain')].root = LastRoot(chain')
    BY <1>1, <1>3, <2>1, LastRootIs
  <2>3. VerifyHistory(M[Len(M)][k])
    BY <1>1, <1>3, <2>1, <2>2 DEF Inv, ChainVerifies
  <2>4. PICK s, t : s = LastRoot(chain)[k] /\ t = Upds(commit.taken[k])
    OBVIOUS
  <2>5. LastRoot(chain')[k] = s \o t /\ s \in Seq(Updates) /\ t \in Seq(Updates)
    BY <2>4, LastGrows
  <2>6. Ledger!IsExtension(s \o t, s)
    BY <2>5, ConcatExtends DEF Ledger!IsExtension
  <2> QED BY <1>2, <2>2, <2>3, <2>4, <2>5, <2>6, SameVerify
<1> QED BY <1>2, <1>3, <1>4, <1>5 DEF Ledger!Extends

(* The primary publishes an append-only registry of verified histories,    *)
(* and the mirror follows it chunk by chunk from the first.                *)
THEOREM Refinement == Spec => ImplementsRegistry
<1>1. Init => Ledger!RegistryInit
  <2>1. Init => RootsOf(chain) = <<>> /\ Len(mchain) = 0
    <3>1. <<>> \in Seq(Chunk) /\ Len(<<>>) = 0
      BY EmptySeq
    <3>2. RootsOf(<<>>) \in Seq(Root) /\ Len(RootsOf(<<>>)) = 0
      BY <3>1, RootsAre
    <3>3. RootsOf(<<>>) = <<>>
      BY <3>2, EmptySeq
    <3> QED BY <3>1, <3>3 DEF Init
  <2> QED BY <2>1 DEF Ledger!RegistryInit, RootsOf
<1>2. Inv /\ Inv' /\ [Next]_vars => [Ledger!RegistryNext]_<<RootsOf(chain), Len(mchain)>>
  <2> SUFFICES ASSUME Inv, Inv', [Next]_vars
               PROVE  \/ Ledger!RegistryNext
                      \/ RootsOf(chain') = RootsOf(chain) /\ Len(mchain') = Len(mchain)
    BY DEF RootsOf
  <2>1. CASE Grows
    <3>1. PICK L, M : L = RootsOf(chain) /\ M = RootsOf(chain')
      OBVIOUS
    <3>2. mchain' = mchain
      BY <2>1 DEF Grows
    <3>3. /\ M \in Seq(Root) /\ Len(M) = Len(L) + 1
          /\ Ledger!IsExtension(M, L)
          /\ Ledger!Extends(M[Len(M)], Ledger!Latest(L))
      BY <2>1, <3>1, <3>2, PublishStep
    <3>4. Ledger!Publish
      BY <3>1, <3>2, <3>3 DEF Ledger!Publish, Ledger!RegistryState, Root, RootsOf
    <3> QED BY <3>4 DEF Ledger!RegistryNext
  <2>2. CASE chain' = chain /\ mchain' # mchain
    <3>1. mchain' = Append(mchain, sync.chunk) /\ sync.chunk \in Chunk /\ sync.pc = "flushed"
      BY <2>2, MirrorStep
    <3>2. Len(mchain') = Len(mchain) + 1 /\ Len(mchain) < Len(chain)
      BY <3>1, AppendAt DEF Inv, RootsStored, TypeOK, MirrorFollows
    <3>3. Len(RootsOf(chain)) = Len(chain) /\ RootsOf(chain') = RootsOf(chain)
      BY <2>2, RootsAre DEF Inv, RootsStored, TypeOK
    <3>4. Ledger!Follow
      BY <3>2, <3>3 DEF Ledger!Follow, RootsOf
    <3> QED BY <3>4 DEF Ledger!RegistryNext
  <2>3. CASE chain' = chain /\ mchain' = mchain
    BY <2>3
  <2> QED BY <2>1, <2>2, <2>3, ChainStep
<1> QED BY <1>1, <1>2, Invariance, PTL DEF Spec, ImplementsRegistry, Ledger!RegistrySpec, RootsOf
=============================================================================
