----------------------------- MODULE Attachments -----------------------------
(***************************************************************************)
(* Attachments (nullspace-client, attachments.rs) over the fragment store: *)
(* uploads that cut a file into encrypted leaves and a tree of nodes, and  *)
(* downloads that write the leaves to a temporary file and give it its     *)
(* final name.                                                             *)
(*                                                                         *)
(* A leaf stands for its ciphertext, which a random key and nonce make     *)
(* unique; sizes and offsets are in bytes.  All attachments have one file  *)
(* name, the case in which downloads meet.  The calls of the store are its *)
(* own steps.  Progress events are left out.                               *)
(***************************************************************************)
EXTENDS Fragments, SequencesExt

CONSTANTS
  Atts,       (* attachments                                              *)
  TotalSize,  (* bytes of the file of each                                *)
  ChunkSize,  (* CHUNK_SIZE_BYTES: 128 KiB in the code                    *)
  MaxFanout,  (* MAX_FANOUT: 512 in the code                              *)
  Transfers,  (* TRANSFER_CONCURRENCY: 64 in the code                     *)
  Uploader,   (* the caller that uploads each                             *)
  Ttls,       (* the ttl of its fragments: 0 in this client               *)
  Renewals,   (* triples <<caller, fragment, ttl>> of further uploads     *)
  OneShots,   (* calls <<a, n>> of attachment_download_oneshot            *)
  MaxPaths    (* bound: copies of the file name                           *)

ASSUME SizesAreNat == TotalSize \in [Atts -> Nat] /\ Ttls \in [Atts -> SUBSET Nat]
ASSUME RenewalsType == \A r \in Renewals : r[3] \in Nat
ASSUME TransfersPositive == Transfers \in Nat \ {0}
ASSUME TreeShape == ChunkSize \in Nat \ {0} /\ MaxFanout \in Nat \ {0, 1}
ASSUME UploaderType == Uploader \in [Atts -> Callers]
ASSUME OneShotsType == OneShots \subseteq Atts \X STRING
ASSUME MaxPathsIsNat == MaxPaths \in Nat

VARIABLES
  sharing,  (* upload_inner of every attachment                           *)
  fetch,    (* the downloads                                              *)
  disk,     (* the files of the download directory and of the cache       *)
  saved     (* table attachment_paths                                     *)

clientVars == <<sharing, fetch, disk, saved>>
vars == <<storeVars, faults, clientVars>>

-----------------------------------------------------------------------------
(* The tree: <<a, 0, i>> is leaf i of attachment a, <<a, n, k>> node k of   *)
(* level n.                                                                *)

Ceil(n, d) == (n + d - 1) \div d
Lesser(m, n) == IF m < n THEN m ELSE n

ChunkCount(a) == Ceil(TotalSize[a], ChunkSize)
ChunkLen(f) == Lesser(ChunkSize, TotalSize[f[1]] - (f[3] - 1) * ChunkSize)

(* How many fragments each level has, until MaxFanout are enough.          *)
Counts == [a \in Atts |->
  LET count[n \in 0 .. ChunkCount(a)] ==
        IF n = 0 THEN ChunkCount(a)
        ELSE IF count[n - 1] > MaxFanout THEN Ceil(count[n - 1], MaxFanout) ELSE count[n - 1]
  IN  count]

Height(a) == Cardinality({n \in 0 .. ChunkCount(a) : Counts[a][n] > MaxFanout})
Level(a, n) == [k \in 1 .. Counts[a][n] |-> <<a, n, k>>]

Leaves == [a \in Atts |-> {<<a, 0, i>> : i \in 1 .. ChunkCount(a)}]
Nodes == [a \in Atts |->
  UNION {{<<a, n, k>> : k \in 1 .. Counts[a][n]} : n \in 1 .. Height(a)}]
IsNode(f) == f[2] > 0

(* What this client keeps for ever, others upload with no other ttl: it is *)
(* 0 in every client.                                                      *)
ASSUME UploadsAreCalls == \A a \in Atts : {Uploader[a]} \X (Leaves[a] \cup Nodes[a]) \subseteq Calls
ASSUME RenewalsKeep ==
  \A r \in Renewals : \A a \in Atts :
    r[2] \in Leaves[a] \cup Nodes[a] /\ Ttls[a] = {0} => r[3] = 0

(* The children of the root, and of a node.                                *)
Root == [a \in Atts |-> Level(a, Height(a))]
Children == [f \in UNION {Nodes[a] : a \in Atts} |->
  SubSeq(Level(f[1], f[2] - 1), (f[3] - 1) * MaxFanout + 1,
         Lesser(f[3] * MaxFanout, Counts[f[1]][f[2] - 1]))]

(* The sizes of the first fragments of a list together.                    *)
Sums(fs, size) ==
  LET sum[k \in 0 .. Len(fs)] == IF k = 0 THEN 0 ELSE sum[k - 1] + size[fs[k]]
  IN  sum

(* The size kept with a hash: FragmentNode::total_size for a node.         *)
Sizes ==
  LET size[f \in UNION {Leaves[a] \cup Nodes[a] : a \in Atts}] ==
        IF IsNode(f) THEN Sums(Children[f], size)[Len(Children[f])] ELSE ChunkLen(f)
  IN  size

(* child_offsets, and the loop of download_fragment over a node.           *)
WithOffsets(fs, start) ==
  [k \in DOMAIN fs |-> [frag |-> fs[k], offset |-> start + Sums(fs, Sizes)[k - 1]]]

(* What the file holds, from the file itself.                              *)
Content == [a \in Atts |-> {<<(f[3] - 1) * ChunkSize, f>> : f \in Leaves[a]}]

-----------------------------------------------------------------------------
(* The downloads of an attachment: attachment_download, of which there is  *)
(* one at a time (IN_PROGRESS), <<a, "save">>, and the one-shot ones.       *)
Fetches == (Atts \X {"save"}) \cup OneShots

CachePath(a) == <<"cache", a>>
SavePath(n) == <<"saved", n>>
NoPath == <<"none", 0>>
Paths == {CachePath(d[1]) : d \in OneShots} \cup {SavePath(n) : n \in 0 .. MaxPaths}

NoFile == [state |-> "none"]
Holding(a, content) == [state |-> "file", size |-> TotalSize[a], content |-> content]

Idle == [pc |-> "idle"]

ClientTypeOK ==
  /\ sharing \in [Atts -> {"idle", "leaves", "nodes", "done", "failed"}]
  /\ \A d \in Fetches : fetch[d].pc \in {"idle", "fetch", "check", "rename", "record"}
  /\ \A p \in Paths :
       disk[p] = NoFile \/ \E a \in Atts : disk[p] \in {Holding(a, c) : c \in SUBSET Content[a]}
  /\ saved \in [Atts -> {NoPath} \cup Paths]

Init ==
  /\ StoreInit
  /\ sharing = [a \in Atts |-> "idle"]
  /\ fetch = [d \in Fetches |-> Idle]
  /\ disk = [p \in Paths |-> NoFile]
  /\ saved = [a \in Atts |-> NoPath]

-----------------------------------------------------------------------------
StatusOf(a, f) == upload[<<Uploader[a], f>>].pc
AllOk(a, frags) == \A f \in frags : StatusOf(a, f) = "ok"
SomeFailed(a, frags) == \E f \in frags : StatusOf(a, f) = "failed"

(* attachment_upload                                                       *)
Share(a) ==
  /\ sharing[a] = "idle"
  /\ sharing' = [sharing EXCEPT ![a] = "leaves"]
  /\ UNCHANGED <<storeVars, faults, fetch, disk, saved>>

Unsent(a) == {i \in 1 .. ChunkCount(a) : StatusOf(a, <<a, 0, i>>) = "idle"}

(* upload_inner: the leaves, several at a time ...                         *)
SendLeaf(a) ==
  /\ sharing[a] = "leaves"
  /\ ~SomeFailed(a, Leaves[a])
  /\ Cardinality({f \in Leaves[a] : Running(Uploader[a], f)}) < Transfers
  /\ \E i \in Unsent(a), ttl \in Ttls[a] :
       /\ \A j \in Unsent(a) : i <= j
       /\ UploadBegin(Uploader[a], <<a, 0, i>>, ttl)
  /\ UNCHANGED clientVars

(* Fault variant: the nodes are forgotten.                                 *)
LeavesDone_NoNodes(a) == IF AllOk(a, Leaves[a]) THEN "done" ELSE "leaves"

LeavesDone(a) ==
  IF ~AllOk(a, Leaves[a]) THEN "leaves" ELSE IF Nodes[a] = {} THEN "done" ELSE "nodes"

(* ... and then the nodes, one after the other, the lower levels first.    *)
AllLeavesSent(a) ==
  /\ sharing[a] = "leaves" /\ LeavesDone(a) # "leaves"
  /\ sharing' = [sharing EXCEPT ![a] = LeavesDone(a)]
  /\ UNCHANGED <<storeVars, faults, fetch, disk, saved>>

SendNode(a, f) ==
  /\ sharing[a] = "nodes"
  /\ StatusOf(a, f) = "idle"
  /\ \A g \in Nodes[a] : StatusOf(a, g) \in {"idle", "ok"}
  /\ \A g \in ToSet(Children[f]) : StatusOf(a, g) = "ok"
  /\ \E ttl \in Ttls[a] : UploadBegin(Uploader[a], f, ttl)
  /\ UNCHANGED clientVars

(* UploadDone: its root goes into a message, and readers learn of it.      *)
AllNodesSent(a) ==
  /\ sharing[a] = "nodes" /\ AllOk(a, Nodes[a])
  /\ sharing' = [sharing EXCEPT ![a] = "done"]
  /\ UNCHANGED <<storeVars, faults, fetch, disk, saved>>

(* UploadFailed                                                            *)
ShareFails(a) ==
  /\ sharing[a] \in {"leaves", "nodes"}
  /\ SomeFailed(a, Leaves[a] \cup Nodes[a])
  /\ sharing' = [sharing EXCEPT ![a] = "failed"]
  /\ UNCHANGED <<storeVars, faults, fetch, disk, saved>>

(* Another client uploads a fragment again.                                *)
Renew(r) ==
  /\ upload[<<r[1], r[2]>>].pc = "idle"
  /\ UploadBegin(r[1], r[2], r[3])
  /\ UNCHANGED clientVars

-----------------------------------------------------------------------------
(* unique_path: the first name that is not taken.                          *)
UniquePath ==
  CHOOSE n \in 0 .. MaxPaths :
    disk[SavePath(n)] = NoFile /\ \A m \in 0 .. n - 1 : disk[SavePath(m)] # NoFile

Target(d) ==
  IF d[2] = "save" THEN SavePath(UniquePath) ELSE CachePath(d[1])

(* download_inner, attachment_download_oneshot, and the temporary file of  *)
(* download_attachment_to_path.  A stream is what is left to fetch below   *)
(* one child of the root.                                                  *)
Start(d) ==
  /\ fetch[d] = Idle
  /\ sharing[d[1]] = "done"
  /\ IF d[2] = "save"
       THEN \E n \in 0 .. MaxPaths : disk[SavePath(n)] = NoFile
       ELSE disk[CachePath(d[1])] = NoFile
  /\ LET root == WithOffsets(Root[d[1]], 0) IN
     fetch' = [fetch EXCEPT ![d] =
       [pc |-> "fetch", path |-> Target(d), temp |-> {},
        streams |-> [k \in DOMAIN root |-> <<root[k]>>]]]
  /\ UNCHANGED <<storeVars, faults, sharing, disk, saved>>

Below(item) == WithOffsets(Children[item.frag], item.offset)

(* The streams that are being fetched.                                     *)
Active(d) ==
  {k \in DOMAIN fetch[d].streams :
     /\ fetch[d].streams[k] # <<>>
     /\ Cardinality({j \in 1 .. k - 1 : fetch[d].streams[j] # <<>>}) < Transfers}

(* download_fragment: a node is replaced by its children, a leaf written.  *)
FetchOne(d, k) ==
  LET stream == fetch[d].streams[k]
      item == Head(stream)
  IN
  /\ Downloadable(item.frag)
  /\ fetch' = [fetch EXCEPT
       ![d].streams[k] = IF IsNode(item.frag) THEN Below(item) \o Tail(stream) ELSE Tail(stream),
       ![d].temp = IF IsNode(item.frag) THEN @ ELSE @ \cup {<<item.offset, item.frag>>}]
  /\ UNCHANGED <<storeVars, faults, sharing, disk, saved>>

(* "missing fragment" or one that does not decode: DownloadFailed, and the *)
(* temporary file stays behind.                                            *)
FetchMissing(d, k) ==
  /\ ~Downloadable(Head(fetch[d].streams[k]).frag)
  /\ fetch' = [fetch EXCEPT ![d] = Idle]
  /\ UNCHANGED <<storeVars, faults, sharing, disk, saved>>

(* A call or a write fails.                                                *)
FetchFails(d) ==
  /\ fetch[d] # Idle
  /\ Fault
  /\ fetch' = [fetch EXCEPT ![d] = Idle]
  /\ UNCHANGED <<storeVars, sharing, disk, saved>>

Downloaded(d) == MapThenSumSet(LAMBDA w : ChunkLen(w[2]), fetch[d].temp)

(* On to the final name, or "download size mismatch".                      *)
Fetched(d) ==
  /\ fetch[d].pc = "fetch"
  /\ \A k \in DOMAIN fetch[d].streams : fetch[d].streams[k] = <<>>
  /\ fetch' = [fetch EXCEPT ![d] =
       IF Downloaded(d) = TotalSize[d[1]] THEN [@ EXCEPT !.pc = "check"] ELSE Idle]
  /\ UNCHANGED <<storeVars, faults, sharing, disk, saved>>

AfterFile(d) == IF d[2] = "save" THEN [fetch[d] EXCEPT !.pc = "record"] ELSE Idle

(* finalize_atomic_file: a file that is there stays, and the copy goes ... *)
FinalExists(d) ==
  /\ fetch[d].pc = "check"
  /\ disk[fetch[d].path] # NoFile
  /\ fetch' = [fetch EXCEPT ![d] = AfterFile(d)]
  /\ UNCHANGED <<storeVars, faults, sharing, disk, saved>>

FinalFree(d) ==
  /\ fetch[d].pc = "check"
  /\ disk[fetch[d].path] = NoFile
  /\ fetch' = [fetch EXCEPT ![d].pc = "rename"]
  /\ UNCHANGED <<storeVars, faults, sharing, disk, saved>>

(* ... otherwise the copy takes the name, and the place of a file that has *)
(* come in between.                                                        *)
FinalRename(d) ==
  /\ fetch[d].pc = "rename"
  /\ disk' = [disk EXCEPT ![fetch[d].path] = Holding(d[1], fetch[d].temp)]
  /\ fetch' = [fetch EXCEPT ![d] = AfterFile(d)]
  /\ UNCHANGED <<storeVars, faults, sharing, saved>>

(* insert or replace into attachment_paths, DownloadDone                   *)
Record(d) ==
  /\ fetch[d].pc = "record"
  /\ saved' = [saved EXCEPT ![d[1]] = fetch[d].path]
  /\ fetch' = [fetch EXCEPT ![d] = Idle]
  /\ UNCHANGED <<storeVars, faults, sharing, disk>>

ClientCrash ==
  /\ Fault
  /\ fetch' = [d \in Fetches |-> Idle]
  /\ sharing' = [a \in Atts |-> IF sharing[a] = "done" THEN "done" ELSE "failed"]
  /\ UNCHANGED <<storeVars, disk, saved>>

ShareNext ==
  \E a \in Atts :
    \/ Share(a) \/ AllLeavesSent(a) \/ AllNodesSent(a) \/ ShareFails(a)
    \/ SendLeaf(a) \/ \E f \in Nodes[a] : SendNode(a, f)

FetchNext ==
  \E d \in Fetches :
    \/ Start(d) \/ FetchFails(d) \/ Fetched(d) \/ FinalExists(d) \/ FinalFree(d)
    \/ FinalRename(d) \/ Record(d)
    \/ fetch[d].pc = "fetch" /\ \E k \in Active(d) : FetchOne(d, k) \/ FetchMissing(d, k)

Next ==
  \/ StoreStep /\ UNCHANGED clientVars
  \/ ShareNext \/ (\E r \in Renewals : Renew(r))
  \/ FetchNext \/ ClientCrash

Spec == Init /\ [][Next]_vars

-----------------------------------------------------------------------------
(* Fault variant: the size is not compared.                                *)
SavedTo_AnySize(a) ==
  IF saved[a] # NoPath /\ disk[saved[a]] # NoFile THEN saved[a] ELSE NoPath

(* attachment_status                                                       *)
SavedTo(a) ==
  IF saved[a] # NoPath /\ disk[saved[a]] # NoFile /\ disk[saved[a]].size = TotalSize[a]
    THEN saved[a] ELSE NoPath

(* Whatever has a final name is a whole attachment with every leaf at its  *)
(* place, at a cache path the one the path is for, and what                *)
(* attachment_status says an attachment was saved to is that attachment,   *)
(* or one of the same size that was downloaded under the same name at the  *)
(* same time: unique_path looks before the download, finalize_atomic_file  *)
(* before the rename, and neither takes hold of the name.                  *)
FinalFilesWhole ==
  /\ ClientTypeOK
  /\ \A p \in Paths : disk[p] # NoFile =>
       \E a \in Atts : disk[p].content = Content[a] /\ (p[1] = "cache" => p[2] = a)
  /\ \A a \in Atts : SavedTo(a) # NoPath =>
       \E b \in Atts : disk[SavedTo(a)].content = Content[b] /\ TotalSize[b] = TotalSize[a]

(* What can be reached from the root of an attachment.                     *)
Reachable == [a \in Atts |->
  LET reach[n \in 0 .. ChunkCount(a)] ==
        IF n = 0 THEN ToSet(Root[a])
        ELSE reach[n - 1] \cup UNION {ToSet(Children[f]) : f \in {g \in reach[n - 1] : IsNode(g)}}
  IN  reach[ChunkCount(a)]]

(* When UploadDone is announced every fragment below the root is in the    *)
(* store, and with the ttl of this client stays there for ever.            *)
SharedIsComplete ==
  \A a \in Atts : sharing[a] = "done" =>
    /\ Leaves[a] \subseteq Reachable[a]
    /\ \A f \in Reachable[a] :
         /\ StatusOf(a, f) = "ok"
         /\ Ttls[a] = {0} => promised[f] = Never
=============================================================================
