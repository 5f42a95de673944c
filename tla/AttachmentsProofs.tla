-------------------------- MODULE AttachmentsProofs -------------------------
(***************************************************************************)
(* Proofs about the fragment store under the uploads and downloads of      *)
(* Attachments, for any fragments, callers, sizes, ttls and bounds: what   *)
(* the store promises, the shape of the tree of an attachment and where    *)
(* its fragments lie in the file, the uploads, and the downloads.          *)
(***************************************************************************)
EXTENDS Attachments, WellFoundedInduction, FiniteSetTheorems, SequenceTheorems, TLAPS

(* The inductive invariant.  A file that an upload still holds is there;   *)
(* a torn one is being written, or a fault cut an upload short.            *)
LinkedHasFile == \A q \in Calls : upload[q].linked => file[q[2]] # "none"
TornIsWritten == \A f \in Frags : file[f] = "torn" => Writing(f) \/ faults > 0

(* The row of a fragment outlasts what was promised for it, and the file   *)
(* is there; what the janitor may still delete was and is expired.         *)
RowKeepsPromise ==
  \A f \in Frags : clock < promised[f] =>
    /\ row[f] # NoRow /\ promised[f] <= row[f].until
    /\ file[f] # "none"
BatchExpired ==
  janitor.pc = "delete" =>
    /\ janitor.done \subseteq janitor.batch /\ janitor.batch # {} /\ janitor.now <= clock
    /\ MayWrite => \A f \in janitor.batch : row[f] # NoRow /\ row[f].until <= janitor.now
NowIsPast == janitor.pc # "sleep" => janitor.now <= clock
DoneIsLater == janitor.pc # "delete" => janitor.done = {}

(* Without a fault a file without a row, or whose row is about to go, is   *)
(* that of an upload in progress.                                          *)
Pending(f) == \E q \in Calls : q[2] = f /\ Running(q[1], f) /\ upload[q].linked
FilesHaveRows ==
  faults = 0 => \A f \in Frags :
    file[f] # "none" /\ (row[f] = NoRow \/ f \in janitor.done) => Pending(f)

Inv ==
  /\ StoreTypeOK /\ LinkedHasFile /\ TornIsWritten /\ RowKeepsPromise
  /\ BatchExpired /\ NowIsPast /\ DoneIsLater /\ FilesHaveRows
-----------------------------------------------------------------------------
(* The client's steps leave the store alone or begin an upload, one that   *)
(* was not made before, and keeps for ever what this client keeps so.      *)
FirstUpload(c, f, ttl) ==
  /\ upload[<<c, f>>].pc = "idle"
  /\ \A a \in Atts : f \in Leaves[a] \cup Nodes[a] /\ Ttls[a] = {0} => ttl = 0

LEMMA OwnFragments ==
  ASSUME NEW a \in Atts, NEW f \in Leaves[a] \cup Nodes[a]
  PROVE  f[1] = a
BY DEF Leaves, Nodes

LEMMA StepKinds ==
  ASSUME [Next]_vars
  PROVE  \/ UNCHANGED storeVars /\ (faults' = faults \/ Fault)
         \/ StoreStep
         \/ \E c, f : \E ttl \in Nat : UploadBegin(c, f, ttl) /\ FirstUpload(c, f, ttl)
<1>1. CASE UNCHANGED vars
  BY <1>1 DEF vars
<1>2. CASE ShareNext
  <2>1. PICK a \in Atts :
          \/ Share(a) \/ AllLeavesSent(a) \/ AllNodesSent(a) \/ ShareFails(a)
          \/ SendLeaf(a) \/ \E f \in Nodes[a] : SendNode(a, f)
    BY <1>2 DEF ShareNext
  <2>2. Ttls[a] \subseteq Nat
    BY SizesAreNat
  <2>3. CASE Share(a) \/ AllLeavesSent(a) \/ AllNodesSent(a) \/ ShareFails(a)
    BY <2>3 DEF Share, AllLeavesSent, AllNodesSent, ShareFails
  <2>4. CASE SendLeaf(a)
    <3>1. PICK i \in Unsent(a), ttl \in Ttls[a] : UploadBegin(Uploader[a], <<a, 0, i>>, ttl)
      BY <2>4 DEF SendLeaf
    <3>2. <<a, 0, i>>[1] = a /\ upload[<<Uploader[a], <<a, 0, i>>>>].pc = "idle"
      BY DEF Unsent, StatusOf
    <3>3. FirstUpload(Uploader[a], <<a, 0, i>>, ttl)
      BY <3>2, OwnFragments DEF FirstUpload
    <3> QED BY <2>2, <3>1, <3>3
  <2>5. CASE \E f \in Nodes[a] : SendNode(a, f)
    <3>1. PICK f \in Nodes[a], ttl \in Ttls[a] :
            UploadBegin(Uploader[a], f, ttl) /\ StatusOf(a, f) = "idle"
      BY <2>5 DEF SendNode
    <3>2. f[1] = a
      BY OwnFragments
    <3>3. FirstUpload(Uploader[a], f, ttl)
      BY <3>1, <3>2, OwnFragments DEF FirstUpload, StatusOf
    <3> QED BY <2>2, <3>1, <3>3
  <2> QED BY <2>1, <2>3, <2>4, <2>5
<1>3. CASE \E r \in Renewals : Renew(r)
  <2>1. PICK r \in Renewals : Renew(r)
    BY <1>3
  <2>2. UploadBegin(r[1], r[2], r[3]) /\ upload[<<r[1], r[2]>>].pc = "idle" /\ r[3] \in Nat
    BY <2>1, RenewalsType DEF Renew
  <2>3. FirstUpload(r[1], r[2], r[3])
    BY <2>2, RenewalsKeep DEF FirstUpload
  <2> QED BY <2>2, <2>3
<1>4. CASE FetchNext
  <2>1. PICK d \in Fetches :
          \/ Start(d) \/ FetchFails(d) \/ Fetched(d) \/ FinalExists(d) \/ FinalFree(d)
          \/ FinalRename(d) \/ Record(d)
          \/ \E k \in Active(d) : FetchOne(d, k) \/ FetchMissing(d, k)
    BY <1>4 DEF FetchNext
  <2>2. CASE Start(d) \/ FetchFails(d) \/ Fetched(d) \/ FinalExists(d)
    BY <2>2 DEF Start, FetchFails, Fetched, FinalExists
  <2>3. CASE FinalFree(d) \/ FinalRename(d) \/ Record(d)
    BY <2>3 DEF FinalFree, FinalRename, Record
  <2>4. CASE \E k \in Active(d) : FetchOne(d, k) \/ FetchMissing(d, k)
    BY <2>4 DEF FetchOne, FetchMissing
  <2> QED BY <2>1, <2>2, <2>3, <2>4
<1>5. CASE ClientCrash
  BY <1>5 DEF ClientCrash
<1> QED BY <1>1, <1>2, <1>3, <1>4, <1>5 DEF Next

(* A call is the pair of its client and its fragment.                      *)
LEMMA CallIs ==
  ASSUME NEW q \in Calls
  PROVE  q = <<q[1], q[2]>> /\ q[1] \in Callers /\ q[2] \in Frags
BY CallsType

LEMMA UploadIs ==
  ASSUME StoreTypeOK, NEW q \in Calls
  PROVE  /\ upload[q] \in Upload /\ upload[q].until \in Nat
         /\ upload[q].linked \in BOOLEAN
BY DEF StoreTypeOK, Upload

LEMMA RowIs ==
  ASSUME StoreTypeOK, NEW f \in Frags
  PROVE  /\ promised[f] \in Nat /\ clock \in Nat /\ file[f] \in {"none", "torn", "whole"}
         /\ row[f] # NoRow => row[f].until \in Nat
BY DEF StoreTypeOK, Row

LEMMA UntilIs ==
  ASSUME StoreTypeOK, NEW ttl \in Nat
  PROVE  Until(ttl) \in Nat
BY StoreBounds DEF StoreTypeOK, Until, Never

LEMMA LaterIs ==
  ASSUME NEW s \in Nat, NEW t \in Nat
  PROVE  Later(s, t) \in Nat /\ s <= Later(s, t) /\ t <= Later(s, t) /\ Later(s, t) \in {s, t}
BY DEF Later

LEMMA FaultIs ==
  ASSUME StoreTypeOK, Fault
  PROVE  faults \in Nat /\ faults' = faults + 1 /\ faults' > 0
BY DEF StoreTypeOK, Fault

LEMMA InitInv == Init => Inv
<1> SUFFICES ASSUME Init PROVE Inv
  OBVIOUS
<1> USE DEF Init, StoreInit
<1>1. StoreTypeOK
  BY DEF StoreTypeOK, IdleJanitor, NoUpload, Upload
<1>2. LinkedHasFile /\ TornIsWritten
  BY DEF LinkedHasFile, TornIsWritten, NoUpload
<1>3. RowKeepsPromise
  BY DEF RowKeepsPromise
<1>4. BatchExpired /\ NowIsPast /\ DoneIsLater
  BY DEF BatchExpired, NowIsPast, DoneIsLater, IdleJanitor
<1>5. FilesHaveRows
  BY DEF FilesHaveRows, IdleJanitor
<1> QED BY <1>1, <1>2, <1>3, <1>4, <1>5 DEF Inv
-----------------------------------------------------------------------------
(* The steps that may change the store, by name.                           *)
LEMMA StoreSteps ==
  ASSUME [Next]_vars
  PROVE  \/ UNCHANGED storeVars /\ (faults' = faults \/ Fault)
         \/ Tick
         \/ \E q \in Calls : \/ UploadOpen(q[1], q[2]) \/ UploadWrite(q[1], q[2])
                             \/ UploadCommit(q[1], q[2]) \/ UploadFails(q[1], q[2])
         \/ \E q \in Calls : \E ttl \in Nat : UploadBegin(q[1], q[2], ttl)
         \/ JanitorWake \/ JanitorDone \/ JanitorSelect \/ JanitorRefused \/ JanitorCommit
         \/ \E f \in Frags : JanitorRemove(f)
         \/ JanitorFails \/ ServerCrash
         \/ \E c, f : \E ttl \in Nat : UploadBegin(c, f, ttl) /\ <<c, f>> \notin Calls
<1>1. ASSUME NEW c, NEW f, NEW ttl \in Nat, UploadBegin(c, f, ttl), <<c, f>> \in Calls
      PROVE  \E q \in Calls : \E t \in Nat : UploadBegin(q[1], q[2], t)
  BY <1>1
<1> QED BY <1>1, StepKinds DEF StoreStep

(* An upload outside Calls would change nothing.                           *)
LEMMA OutsideIsQuiet ==
  ASSUME StoreTypeOK, NEW c, NEW f, NEW ttl, UploadBegin(c, f, ttl), <<c, f>> \notin Calls
  PROVE  UNCHANGED storeVars /\ faults' = faults
<1>1. upload' = upload
  BY DEF UploadBegin, StoreTypeOK
<1> QED BY <1>1 DEF UploadBegin, storeVars

LEMMA TypeStep ==
  ASSUME StoreTypeOK, [Next]_vars
  PROVE  StoreTypeOK'
<1> USE DEF StoreTypeOK
<1>1. CASE UNCHANGED storeVars /\ (faults' = faults \/ Fault)
  BY <1>1 DEF storeVars, Fault
<1>2. CASE Tick
  BY <1>2 DEF Tick
<1>3. ASSUME NEW q \in Calls, NEW ttl \in Nat, UploadBegin(q[1], q[2], ttl)
      PROVE  StoreTypeOK'
  <2>1. PICK u \in Nat : u = Until(ttl)
    BY UntilIs
  <2>2. [pc |-> "open", until |-> u, linked |-> FALSE] \in Upload
    BY DEF Upload
  <2>3. upload' = [upload EXCEPT ![q] = [pc |-> "open", until |-> u, linked |-> FALSE]]
    BY <1>3, <2>1, CallIs DEF UploadBegin
  <2> QED BY <1>3, <2>2, <2>3 DEF UploadBegin
<1>4. ASSUME NEW q \in Calls, UploadOpen(q[1], q[2])
      PROVE  StoreTypeOK'
  <2>1. upload' = [upload EXCEPT ![q] = [upload[q] EXCEPT !.pc = "write", !.linked = TRUE]]
    BY <1>4, CallIs DEF UploadOpen
  <2>2. [upload[q] EXCEPT !.pc = "write", !.linked = TRUE] \in Upload
    BY UploadIs DEF Upload
  <2>3. upload' \in [Calls -> Upload] /\ file' \in [Frags -> {"none", "torn", "whole"}]
    BY <1>4, <2>1, <2>2, ZenonT(60) DEF UploadOpen
  <2> QED BY <1>4, <2>3 DEF UploadOpen
<1>5. ASSUME NEW q \in Calls, UploadWrite(q[1], q[2]) \/ UploadFails(q[1], q[2])
      PROVE  StoreTypeOK'
  <2>1. \E s \in {"row", "failed"} : upload' = [upload EXCEPT ![q] = [upload[q] EXCEPT !.pc = s]]
    BY <1>5, CallIs DEF UploadWrite, UploadFails
  <2>2. \A s \in {"row", "failed"} : [upload[q] EXCEPT !.pc = s] \in Upload
    BY UploadIs DEF Upload
  <2>3. upload' \in [Calls -> Upload]
    BY <2>1, <2>2
  <2>4. file' \in [Frags -> {"none", "torn", "whole"}]
    BY <1>5 DEF UploadWrite, UploadFails
  <2> QED BY <1>5, <2>3, <2>4 DEF UploadWrite, UploadFails, Fault
<1>6. ASSUME NEW q \in Calls, UploadCommit(q[1], q[2])
      PROVE  StoreTypeOK'
  <2>1. upload' = [upload EXCEPT ![q] = [upload[q] EXCEPT !.pc = "ok"]]
    BY <1>6, CallIs DEF UploadCommit
  <2>2. [upload[q] EXCEPT !.pc = "ok"] \in Upload
    BY UploadIs DEF Upload
  <2>3. upload' \in [Calls -> Upload]
    BY <2>1, <2>2
  <2>4. PICK f \in Frags, u \in Nat : f = q[2] /\ u = upload[q].until
    BY CallIs, UploadIs
  <2>5. Merged(f, u) \in Row
    BY RowIs, LaterIs DEF Merged, Row
  <2>6. row' \in [Frags -> Row \cup {NoRow}]
    BY <1>6, <2>4, <2>5, CallIs DEF UploadCommit
  <2>7. promised' \in [Frags -> Nat]
    BY <1>6, <2>4, RowIs, LaterIs, CallIs DEF UploadCommit
  <2>8. janitor' \in [pc : {"sleep", "select", "delete"}, now : Nat, batch : SUBSET Frags,
                      done : SUBSET Frags, stale : BOOLEAN]
    BY <1>6 DEF UploadCommit
  <2> QED BY <1>6, <2>3, <2>6, <2>7, <2>8 DEF UploadCommit
<1>7. CASE JanitorWake \/ JanitorDone \/ JanitorSelect \/ JanitorRefused \/ JanitorFails
  <2> DEFINE J == [pc : {"sleep", "select", "delete"}, now : Nat, batch : SUBSET Frags,
                   done : SUBSET Frags, stale : BOOLEAN]
  <2>1. CASE JanitorWake
    <3>1. [IdleJanitor EXCEPT !.pc = "select", !.now = clock] \in J
      BY DEF IdleJanitor
    <3> QED BY <2>1, <3>1 DEF JanitorWake
  <2>2. CASE JanitorDone \/ JanitorRefused \/ JanitorFails
    <3>1. IdleJanitor \in J
      BY DEF IdleJanitor
    <3>2. janitor' = IdleJanitor /\ UNCHANGED <<clock, file, row, upload, promised>>
      BY <2>2 DEF JanitorDone, JanitorRefused, JanitorFails
    <3>3. faults' \in Nat
      BY <2>2 DEF JanitorDone, JanitorRefused, JanitorFails, Fault
    <3> QED BY <3>1, <3>2, <3>3
  <2>3. CASE JanitorSelect
    <3>1. PICK batch \in SUBSET Frags :
            janitor' = [janitor EXCEPT !.pc = "delete", !.batch = batch, !.done = {},
                                       !.stale = FALSE]
      BY <2>3 DEF JanitorSelect, Expired
    <3>2. janitor' \in J
      BY <3>1
    <3> QED BY <2>3, <3>2 DEF JanitorSelect
  <2> QED BY <1>7, <2>1, <2>2, <2>3
<1>8. CASE JanitorCommit
  BY <1>8 DEF JanitorCommit, IdleJanitor
<1>9. ASSUME NEW f \in Frags, JanitorRemove(f)
      PROVE  StoreTypeOK'
  <2>1. janitor' \in [pc : {"sleep", "select", "delete"}, now : Nat, batch : SUBSET Frags,
                      done : SUBSET Frags, stale : BOOLEAN]
    BY <1>9 DEF JanitorRemove
  <2>2. \A q \in Calls : [upload[q] EXCEPT !.linked = FALSE] \in Upload
    BY UploadIs DEF Upload
  <2>3. upload' \in [Calls -> Upload] /\ file' \in [Frags -> {"none", "torn", "whole"}]
    BY <1>9, <2>2 DEF JanitorRemove
  <2> QED BY <1>9, <2>1, <2>3 DEF JanitorRemove, Fault
<1>10. CASE ServerCrash
  <2>1. \A q \in Calls : [upload[q] EXCEPT !.pc = "failed"] \in Upload
    BY UploadIs DEF Upload
  <2> QED BY <1>10, <2>1 DEF ServerCrash, IdleJanitor, Fault
<1>11. ASSUME NEW c, NEW f, NEW ttl \in Nat, UploadBegin(c, f, ttl) /\ <<c, f>> \notin Calls
       PROVE  StoreTypeOK'
  BY <1>11, OutsideIsQuiet DEF storeVars
<1> HIDE DEF StoreTypeOK
<1> QED BY <1>1, <1>2, <1>3, <1>4, <1>5, <1>6, <1>7, <1>8, <1>9, <1>10, <1>11, StoreSteps
-----------------------------------------------------------------------------
(* What each kind of step may have done, the invariant's parts at hand.    *)
LEMMA LinkedStep ==
  ASSUME Inv, [Next]_vars
  PROVE  LinkedHasFile'
<1> SUFFICES ASSUME NEW p \in Calls, upload'[p].linked
             PROVE  file'[p[2]] # "none"
  BY DEF LinkedHasFile
<1>0. StoreTypeOK /\ LinkedHasFile
  BY DEF Inv
<1>p. p[2] \in Frags /\ upload[p] \in Upload /\ upload \in [Calls -> Upload]
      /\ file \in [Frags -> {"none", "torn", "whole"}]
  BY <1>0, CallIs DEF StoreTypeOK
<1>1. ASSUME UNCHANGED <<file, upload>> PROVE file'[p[2]] # "none"
  BY <1>0, <1>1 DEF LinkedHasFile
<1>2. CASE UNCHANGED storeVars /\ (faults' = faults \/ Fault)
  BY <1>1, <1>2 DEF storeVars
<1>3. CASE Tick \/ JanitorWake \/ JanitorDone \/ JanitorSelect \/ JanitorRefused
           \/ JanitorCommit \/ JanitorFails
  BY <1>1, <1>3 DEF Tick, JanitorWake, JanitorDone, JanitorSelect, JanitorRefused,
                    JanitorCommit, JanitorFails
<1>4. ASSUME NEW q \in Calls, UploadOpen(q[1], q[2]) PROVE file'[p[2]] # "none"
  <2>1. file' = [file EXCEPT ![q[2]] = "torn"] /\ (p # q => upload'[p] = upload[p])
    BY <1>4, <1>p, CallIs DEF UploadOpen
  <2> QED BY <2>1, <1>0, <1>p DEF LinkedHasFile
<1>5. ASSUME NEW q \in Calls, UploadWrite(q[1], q[2]) PROVE file'[p[2]] # "none"
  <2>1. upload'[p].linked = upload[p].linked
    BY <1>5, <1>p, CallIs DEF UploadWrite, Upload
  <2>2. file'[p[2]] \in {file[p[2]], "whole"}
    BY <1>5, <1>p DEF UploadWrite
  <2> QED BY <2>1, <2>2, <1>0 DEF LinkedHasFile
<1>6. ASSUME NEW q \in Calls, UploadCommit(q[1], q[2]) \/ UploadFails(q[1], q[2])
      PROVE  file'[p[2]] # "none"
  <2>1. PICK s \in {"ok", "failed"} : upload' = [upload EXCEPT ![q] = [upload[q] EXCEPT !.pc = s]]
    BY <1>6, CallIs DEF UploadCommit, UploadFails
  <2>2. upload'[p].linked = upload[p].linked
    BY <2>1, <1>p DEF Upload
  <2>3. file' = file
    BY <1>6 DEF UploadCommit, UploadFails
  <2> QED BY <2>2, <2>3, <1>0 DEF LinkedHasFile
<1>7. ASSUME NEW q \in Calls, NEW ttl \in Nat, UploadBegin(q[1], q[2], ttl)
      PROVE  file'[p[2]] # "none"
  <2>1. upload'[q] = [pc |-> "open", until |-> Until(ttl), linked |-> FALSE] /\ file' = file
    BY <1>7, <1>p, CallIs DEF UploadBegin
  <2>2. p # q /\ upload'[p] = upload[p]
    BY <1>7, <2>1, <1>p, CallIs DEF UploadBegin
  <2> QED BY <2>1, <2>2, <1>0 DEF LinkedHasFile
<1>8. ASSUME NEW f \in Frags, JanitorRemove(f) PROVE file'[p[2]] # "none"
  <2>1. CASE UNCHANGED <<file, upload>>
    BY <1>1, <2>1
  <2>2. CASE /\ file' = [file EXCEPT ![f] = "none"]
             /\ upload' = [q \in Calls |->
                  IF q[2] = f THEN [upload[q] EXCEPT !.linked = FALSE] ELSE upload[q]]
    <3>1. p[2] # f
      BY <2>2, <1>p DEF Upload
    <3> QED BY <2>2, <3>1, <1>0, <1>p DEF LinkedHasFile
  <2> QED BY <1>8, <2>1, <2>2 DEF JanitorRemove
<1>9. CASE ServerCrash
  <2>1. upload'[p].linked = upload[p].linked /\ file' = file
    BY <1>9, <1>p DEF ServerCrash, Upload
  <2> QED BY <2>1, <1>0 DEF LinkedHasFile
<1>10. ASSUME NEW c, NEW f, NEW ttl \in Nat, UploadBegin(c, f, ttl) /\ <<c, f>> \notin Calls
       PROVE  file'[p[2]] # "none"
  BY <1>0, <1>1, <1>10, OutsideIsQuiet DEF storeVars
<1> QED BY <1>2, <1>3, <1>4, <1>5, <1>6, <1>7, <1>8, <1>9, <1>10, StoreSteps

LEMMA TornStep ==
  ASSUME Inv, [Next]_vars
  PROVE  TornIsWritten'
<1> SUFFICES ASSUME NEW f \in Frags, file'[f] = "torn", faults' = 0
             PROVE  Writing(f)'
  <2>1. faults' \in Nat
    BY TypeStep DEF Inv, StoreTypeOK
  <2> QED BY <2>1 DEF TornIsWritten
<1>0. StoreTypeOK /\ TornIsWritten /\ faults \in Nat
  BY DEF Inv, StoreTypeOK
<1>p. upload \in [Calls -> Upload] /\ file \in [Frags -> {"none", "torn", "whole"}]
  BY <1>0 DEF StoreTypeOK
<1>f. ~Fault
  BY <1>0, FaultIs
<1>1. ASSUME UNCHANGED <<file, upload, faults>> PROVE Writing(f)'
  BY <1>0, <1>1 DEF TornIsWritten, Writing
<1>k. ASSUME file'[f] = file[f], faults' = faults,
             \A q \in Calls : upload[q].pc = "write" /\ upload[q].linked /\ q[2] = f
                                => upload'[q].pc = "write" /\ upload'[q].linked
      PROVE  Writing(f)'
  BY <1>0, <1>k DEF TornIsWritten, Writing
<1>2. CASE UNCHANGED storeVars /\ (faults' = faults \/ Fault)
  BY <1>f, <1>1, <1>2 DEF storeVars
<1>3. CASE Tick \/ JanitorWake \/ JanitorDone \/ JanitorSelect \/ JanitorRefused
           \/ JanitorCommit
  BY <1>1, <1>3 DEF Tick, JanitorWake, JanitorDone, JanitorSelect, JanitorRefused,
                    JanitorCommit
<1>4. ASSUME NEW q \in Calls, UploadOpen(q[1], q[2]) PROVE Writing(f)'
  <2>1. /\ upload'[q].pc = "write" /\ upload'[q].linked /\ q[2] \in Frags
        /\ file' = [file EXCEPT ![q[2]] = "torn"] /\ faults' = faults
        /\ \A p \in Calls : p # q => upload'[p] = upload[p]
    BY <1>4, <1>p, CallIs DEF UploadOpen, Upload
  <2>2. CASE q[2] = f
    BY <2>1, <2>2 DEF Writing
  <2>3. CASE q[2] # f
    BY <2>1, <2>3, <1>k, <1>p
  <2> QED BY <2>2, <2>3
<1>5. ASSUME NEW q \in Calls, UploadWrite(q[1], q[2]) PROVE Writing(f)'
  <2>1. /\ q[2] \in Frags /\ faults' = faults
        /\ file' = [file EXCEPT ![q[2]] = IF upload[q].linked THEN "whole" ELSE @]
        /\ \A p \in Calls : p # q => upload'[p] = upload[p]
    BY <1>5, <1>p, CallIs DEF UploadWrite
  <2>2. ~(upload[q].linked /\ q[2] = f) /\ file'[f] = file[f]
    BY <2>1, <1>p
  <2> QED BY <2>1, <2>2, <1>k
<1>6. ASSUME NEW q \in Calls, UploadCommit(q[1], q[2]) PROVE Writing(f)'
  <2>1. /\ upload[q].pc = "row" /\ file' = file /\ faults' = faults
        /\ \A p \in Calls : p # q => upload'[p] = upload[p]
    BY <1>6, <1>p, CallIs DEF UploadCommit
  <2> QED BY <2>1, <1>k
<1>7. ASSUME NEW q \in Calls, NEW ttl \in Nat, UploadBegin(q[1], q[2], ttl)
      PROVE  Writing(f)'
  <2>1. /\ upload[q].pc # "write" /\ file' = file /\ faults' = faults
        /\ \A p \in Calls : p # q => upload'[p] = upload[p]
    BY <1>7, <1>p, CallIs DEF UploadBegin, Running
  <2> QED BY <2>1, <1>k
<1>8. ASSUME NEW g \in Frags, JanitorRemove(g) PROVE Writing(f)'
  <2>1. /\ file' = [file EXCEPT ![g] = "none"] /\ faults' = faults
        /\ upload' = [q \in Calls |->
             IF q[2] = g THEN [upload[q] EXCEPT !.linked = FALSE] ELSE upload[q]]
    BY <1>8, <1>f DEF JanitorRemove
  <2>2. f # g /\ file'[f] = file[f]
    BY <2>1, <1>p
  <2> QED BY <2>1, <2>2, <1>k
<1>9. CASE JanitorFails \/ ServerCrash \/ \E q \in Calls : UploadFails(q[1], q[2])
  BY <1>9, <1>f DEF JanitorFails, ServerCrash, UploadFails
<1>10. ASSUME NEW c, NEW g, NEW ttl \in Nat, UploadBegin(c, g, ttl) /\ <<c, g>> \notin Calls
       PROVE  Writing(f)'
  BY <1>0, <1>1, <1>10, OutsideIsQuiet DEF storeVars
<1> QED BY <1>2, <1>3, <1>4, <1>5, <1>6, <1>7, <1>8, <1>9, <1>10, StoreSteps

(* The janitor's clock is one that was read, and what it has removed is    *)
(* remembered only while its transaction lasts.                            *)
LEMMA JanitorStep ==
  ASSUME Inv, [Next]_vars
  PROVE  NowIsPast' /\ DoneIsLater'
<1>0. StoreTypeOK /\ NowIsPast /\ DoneIsLater /\ clock \in Nat /\ janitor.now \in Nat
      /\ janitor \in [pc : {"sleep", "select", "delete"}, now : Nat, batch : SUBSET Frags,
                      done : SUBSET Frags, stale : BOOLEAN]
  BY DEF Inv, StoreTypeOK
<1>1. ASSUME UNCHANGED <<clock, janitor>> PROVE NowIsPast' /\ DoneIsLater'
  BY <1>0, <1>1 DEF NowIsPast, DoneIsLater
<1>2. CASE UNCHANGED storeVars /\ (faults' = faults \/ Fault)
  BY <1>1, <1>2 DEF storeVars
<1>3. CASE Tick
  BY <1>0, <1>3 DEF Tick, NowIsPast, DoneIsLater
<1>4. ASSUME NEW q \in Calls, \/ UploadOpen(q[1], q[2]) \/ UploadWrite(q[1], q[2])
                              \/ UploadFails(q[1], q[2])
      PROVE  NowIsPast' /\ DoneIsLater'
  BY <1>1, <1>4 DEF UploadOpen, UploadWrite, UploadFails
<1>5. ASSUME NEW q \in Calls, UploadCommit(q[1], q[2])
      PROVE  NowIsPast' /\ DoneIsLater'
  <2>1. /\ janitor' = [janitor EXCEPT !.stale = janitor.pc = "delete"] /\ clock' = clock
    BY <1>5 DEF UploadCommit
  <2>2. /\ janitor'.pc = janitor.pc /\ janitor'.now = janitor.now
        /\ janitor'.done = janitor.done
    BY <2>1, <1>0
  <2> QED BY <2>1, <2>2, <1>0 DEF NowIsPast, DoneIsLater
<1>6. ASSUME NEW q \in Calls, NEW ttl \in Nat, UploadBegin(q[1], q[2], ttl)
      PROVE  NowIsPast' /\ DoneIsLater'
  BY <1>1, <1>6 DEF UploadBegin
<1>7. CASE JanitorWake
  BY <1>0, <1>7 DEF JanitorWake, NowIsPast, DoneIsLater, IdleJanitor
<1>8. CASE JanitorDone \/ JanitorRefused \/ JanitorFails \/ ServerCrash
  <2>1. janitor' = IdleJanitor
    BY <1>8 DEF JanitorDone, JanitorRefused, JanitorFails, ServerCrash
  <2> QED BY <2>1 DEF NowIsPast, DoneIsLater, IdleJanitor
<1>9. CASE JanitorSelect
  <2>1. PICK batch :
          janitor' = [janitor EXCEPT !.pc = "delete", !.batch = batch, !.done = {},
                                     !.stale = FALSE]
    BY <1>9 DEF JanitorSelect
  <2>2. janitor.pc = "select" /\ clock' = clock
    BY <1>9 DEF JanitorSelect
  <2>3. janitor'.pc = "delete" /\ janitor'.now = janitor.now
    BY <1>0, <2>1
  <2> QED BY <2>2, <2>3, <1>0 DEF NowIsPast, DoneIsLater
<1>10. CASE JanitorCommit
  BY <1>0, <1>10 DEF JanitorCommit, NowIsPast, DoneIsLater, IdleJanitor
<1>11. ASSUME NEW f \in Frags, JanitorRemove(f) PROVE NowIsPast' /\ DoneIsLater'
  <2>1. /\ janitor.pc = "delete" /\ clock' = clock
        /\ janitor' = [janitor EXCEPT !.done = janitor.done \cup {f}]
    BY <1>11 DEF JanitorRemove
  <2>2. janitor'.pc = "delete" /\ janitor'.now = janitor.now
    BY <1>0, <2>1
  <2> QED BY <2>1, <2>2, <1>0 DEF NowIsPast, DoneIsLater
<1>12. ASSUME NEW c, NEW f, NEW ttl \in Nat, UploadBegin(c, f, ttl) /\ <<c, f>> \notin Calls
       PROVE  NowIsPast' /\ DoneIsLater'
  BY <1>0, <1>1, <1>12, OutsideIsQuiet DEF storeVars
<1> QED BY <1>2, <1>3, <1>4, <1>5, <1>6, <1>7, <1>8, <1>9, <1>10, <1>11, <1>12, StoreSteps

(* The rows of a batch stay as the SELECT read them while its transaction  *)
(* may still write: what commits before the first DELETE makes it stale,   *)
(* and nothing commits after it.                                           *)
LEMMA BatchStep ==
  ASSUME Inv, [Next]_vars
  PROVE  BatchExpired'
<1>0. StoreTypeOK /\ NowIsPast /\ BatchExpired /\ clock \in Nat /\ janitor.now \in Nat
      /\ janitor \in [pc : {"sleep", "select", "delete"}, now : Nat, batch : SUBSET Frags,
                      done : SUBSET Frags, stale : BOOLEAN]
  BY DEF Inv, StoreTypeOK
<1>1. ASSUME UNCHANGED <<clock, row, janitor>> PROVE BatchExpired'
  BY <1>0, <1>1 DEF BatchExpired, MayWrite
<1>2. CASE UNCHANGED storeVars /\ (faults' = faults \/ Fault)
  BY <1>1, <1>2 DEF storeVars
<1>3. CASE Tick
  BY <1>0, <1>3 DEF Tick, BatchExpired, MayWrite
<1>4. ASSUME NEW q \in Calls, \/ UploadOpen(q[1], q[2]) \/ UploadWrite(q[1], q[2])
                              \/ UploadFails(q[1], q[2])
      PROVE  BatchExpired'
  BY <1>1, <1>4 DEF UploadOpen, UploadWrite, UploadFails
<1>5. ASSUME NEW q \in Calls, UploadCommit(q[1], q[2]) PROVE BatchExpired'
  <2>1. /\ janitor' = [janitor EXCEPT !.stale = janitor.pc = "delete"] /\ clock' = clock
        /\ ~(janitor.pc = "delete" /\ janitor.done # {})
    BY <1>5 DEF UploadCommit, WriteLocked
  <2>2. /\ janitor'.pc = janitor.pc /\ janitor'.now = janitor.now
        /\ janitor'.done = janitor.done /\ janitor'.batch = janitor.batch
        /\ janitor'.stale = (janitor.pc = "delete")
    BY <2>1, <1>0
  <2>3. janitor'.pc = "delete" => ~MayWrite'
    BY <2>1, <2>2 DEF MayWrite
  <2> QED BY <2>1, <2>2, <2>3, <1>0 DEF BatchExpired
<1>6. ASSUME NEW q \in Calls, NEW ttl \in Nat, UploadBegin(q[1], q[2], ttl)
      PROVE  BatchExpired'
  BY <1>1, <1>6 DEF UploadBegin
<1>7. CASE JanitorWake \/ JanitorDone \/ JanitorRefused \/ JanitorFails \/ ServerCrash
           \/ JanitorCommit
  <2>1. \/ janitor' = IdleJanitor
        \/ \E n : janitor' = [IdleJanitor EXCEPT !.pc = "select", !.now = n]
    BY <1>7 DEF JanitorWake, JanitorDone, JanitorRefused, JanitorFails, ServerCrash,
                JanitorCommit
  <2>2. /\ IdleJanitor.pc = "sleep"
        /\ \A n : [IdleJanitor EXCEPT !.pc = "select", !.now = n].pc = "select"
    BY DEF IdleJanitor
  <2>3. janitor'.pc # "delete"
    BY <2>1, <2>2
  <2> QED BY <2>3 DEF BatchExpired
<1>8. CASE JanitorSelect
  <2>1. PICK batch \in SUBSET Expired(janitor.now) :
          /\ batch # {}
          /\ janitor' = [janitor EXCEPT !.pc = "delete", !.batch = batch, !.done = {},
                                        !.stale = FALSE]
    BY <1>8 DEF JanitorSelect
  <2>2. janitor.pc = "select" /\ clock' = clock /\ row' = row
    BY <1>8 DEF JanitorSelect
  <2>3. /\ janitor'.now = janitor.now /\ janitor'.done = {} /\ janitor'.batch = batch
    BY <1>0, <2>1
  <2>4. \A f \in batch : row[f] # NoRow /\ row[f].until <= janitor.now
    BY <2>1 DEF Expired
  <2>5. batch # {}
    BY <2>1
  <2>6. janitor.now <= clock
    BY <2>2, <1>0 DEF NowIsPast
  <2> QED BY <2>2, <2>3, <2>4, <2>5, <2>6 DEF BatchExpired
<1>9. ASSUME NEW f \in Frags, JanitorRemove(f) PROVE BatchExpired'
  <2>1. /\ janitor.pc = "delete" /\ clock' = clock /\ row' = row
        /\ f \in janitor.batch /\ MayWrite
        /\ janitor' = [janitor EXCEPT !.done = janitor.done \cup {f}]
    BY <1>9 DEF JanitorRemove
  <2>2. /\ janitor'.now = janitor.now /\ janitor'.batch = janitor.batch
        /\ janitor'.done = janitor.done \cup {f}
    BY <1>0, <2>1
  <2> QED BY <2>1, <2>2, <1>0 DEF BatchExpired
<1>10. ASSUME NEW c, NEW f, NEW ttl \in Nat, UploadBegin(c, f, ttl) /\ <<c, f>> \notin Calls
       PROVE  BatchExpired'
  BY <1>0, <1>1, <1>10, OutsideIsQuiet DEF storeVars
<1> QED BY <1>2, <1>3, <1>4, <1>5, <1>6, <1>7, <1>8, <1>9, <1>10, StoreSteps

(* The heart of the matter: rows only grow, and the janitor takes only the *)
(* file and the row of a fragment that is expired by the server's clock.   *)
LEMMA RowStep ==
  ASSUME Inv, [Next]_vars
  PROVE  RowKeepsPromise'
<1> SUFFICES ASSUME NEW f \in Frags, clock' < promised'[f]
             PROVE  /\ row'[f] # NoRow /\ promised'[f] <= row'[f].until
                    /\ file'[f] # "none"
  BY DEF RowKeepsPromise
<1> DEFINE Goal == /\ row'[f] # NoRow /\ promised'[f] <= row'[f].until
                   /\ file'[f] # "none"
<1>0. StoreTypeOK /\ RowKeepsPromise /\ BatchExpired /\ LinkedHasFile
  BY DEF Inv
<1>p. /\ upload \in [Calls -> Upload] /\ file \in [Frags -> {"none", "torn", "whole"}]
      /\ row \in [Frags -> Row \cup {NoRow}] /\ promised \in [Frags -> Nat]
      /\ clock \in Nat /\ promised[f] \in Nat /\ janitor.now \in Nat
      /\ (row[f] # NoRow => row[f].until \in Nat)
  BY <1>0, RowIs DEF StoreTypeOK
<1>1. ASSUME row' = row, promised' = promised, clock' = clock \/ clock' = clock + 1,
             file'[f] # "none" \/ file'[f] = file[f]
      PROVE  Goal
  <2>1. clock < promised[f]
    BY <1>1, <1>p
  <2> QED BY <1>0, <1>1, <2>1 DEF RowKeepsPromise
<1>2. CASE UNCHANGED storeVars /\ (faults' = faults \/ Fault)
  BY <1>1, <1>2 DEF storeVars
<1>3. CASE \/ Tick \/ JanitorWake \/ JanitorDone \/ JanitorSelect \/ JanitorRefused
           \/ JanitorFails \/ ServerCrash
  BY <1>1, <1>3 DEF Tick, JanitorWake, JanitorDone, JanitorSelect, JanitorRefused,
                    JanitorFails, ServerCrash
<1>4. ASSUME NEW q \in Calls, \/ UploadOpen(q[1], q[2]) \/ UploadWrite(q[1], q[2])
                              \/ UploadFails(q[1], q[2])
      PROVE  Goal
  <2>1. row' = row /\ promised' = promised /\ clock' = clock
    BY <1>4 DEF UploadOpen, UploadWrite, UploadFails
  <2>2. file'[f] # "none" \/ file'[f] = file[f]
    BY <1>4, <1>p DEF UploadOpen, UploadWrite, UploadFails
  <2> QED BY <1>1, <2>1, <2>2
<1>5. ASSUME NEW q \in Calls, UploadCommit(q[1], q[2]) PROVE Goal
  <2>1. PICK g \in Frags, u \in Nat : g = q[2] /\ u = upload[q].until
    BY <1>0, CallIs, UploadIs
  <2>2. /\ row' = [row EXCEPT ![g] = Merged(g, u)] /\ file' = file /\ clock' = clock
        /\ promised' = [promised EXCEPT ![g] =
             IF upload[q].linked THEN Later(promised[g], u) ELSE promised[g]]
    BY <1>5, <2>1, CallIs DEF UploadCommit
  <2>3. CASE f # g
    <3>1. row'[f] = row[f] /\ promised'[f] = promised[f]
      BY <2>2, <2>3, <1>p
    <3> QED BY <3>1, <2>2, <1>0 DEF RowKeepsPromise
  <2>4. CASE f = g
    <3>1. PICK r \in Nat : r = (IF row[f] = NoRow THEN u ELSE Later(row[f].until, u))
                           /\ u <= r /\ (row[f] # NoRow => row[f].until <= r)
      BY <1>p, LaterIs
    <3>2. row'[f] = [state |-> "row", until |-> r]
      BY <2>2, <2>4, <3>1, <1>p DEF Merged
    <3>3. row'[f] # NoRow /\ row'[f].until = r
      BY <3>2 DEF NoRow
    <3>4. promised'[f] = IF upload[q].linked THEN Later(promised[f], u) ELSE promised[f]
      BY <2>2, <2>4, <1>p
    <3>5. clock < promised[f] => promised[f] <= r /\ file[f] # "none"
      BY <3>1, <1>0, <1>p DEF RowKeepsPromise
    <3>6. CASE upload[q].linked
      <4>1. file[f] # "none"
        BY <2>1, <2>4, <3>6, <1>0 DEF LinkedHasFile
      <4>2. Later(promised[f], u) \in {promised[f], u}
        BY <1>p, LaterIs
      <4> QED BY <4>1, <4>2, <3>1, <3>3, <3>4, <3>5, <3>6, <2>2, <1>p
    <3>7. CASE ~upload[q].linked
      BY <3>7, <3>3, <3>4, <3>5, <2>2
    <3> QED BY <3>6, <3>7
  <2> QED BY <2>3, <2>4
<1>6. ASSUME NEW q \in Calls, NEW ttl \in Nat, UploadBegin(q[1], q[2], ttl)
      PROVE  Goal
  BY <1>1, <1>6 DEF UploadBegin
<1>7. ASSUME janitor.pc = "delete", f \in janitor.batch, MayWrite, clock < promised[f]
      PROVE  FALSE
  <2>1. row[f] # NoRow /\ row[f].until <= janitor.now /\ janitor.now <= clock
    BY <1>7, <1>0 DEF BatchExpired
  <2>2. promised[f] <= row[f].until
    BY <1>7, <1>0 DEF RowKeepsPromise
  <2> QED BY <2>1, <2>2, <1>7, <1>p
<1>8. CASE JanitorCommit
  <2>1. /\ janitor.pc = "delete" /\ janitor.batch = janitor.done /\ janitor.batch # {}
        /\ UNCHANGED <<clock, file, promised>>
    BY <1>8, <1>0 DEF JanitorCommit, BatchExpired
  <2>2. f \notin janitor.done
    BY <2>1, <1>7 DEF MayWrite
  <2>3. row'[f] = row[f]
    BY <1>8, <2>2 DEF JanitorCommit
  <2> QED BY <2>1, <2>3, <1>0 DEF RowKeepsPromise
<1>9. ASSUME NEW g \in Frags, JanitorRemove(g) PROVE Goal
  <2>1. /\ row' = row /\ promised' = promised /\ clock' = clock /\ f # g
    BY <1>9, <1>7 DEF JanitorRemove
  <2>2. file'[f] = file[f]
    BY <1>9, <2>1, <1>p DEF JanitorRemove
  <2> QED BY <1>1, <2>1, <2>2
<1>10. ASSUME NEW c, NEW g, NEW ttl \in Nat, UploadBegin(c, g, ttl) /\ <<c, g>> \notin Calls
       PROVE  Goal
  BY <1>0, <1>1, <1>10, OutsideIsQuiet DEF storeVars
<1> QED BY <1>2, <1>3, <1>4, <1>5, <1>6, <1>8, <1>9, <1>10, StoreSteps

LEMMA FilesStep ==
  ASSUME Inv, [Next]_vars
  PROVE  FilesHaveRows'
<1> SUFFICES ASSUME faults' = 0, NEW f \in Frags, file'[f] # "none",
                    row'[f] = NoRow \/ f \in janitor'.done
             PROVE  Pending(f)'
  BY DEF FilesHaveRows
<1>0. StoreTypeOK /\ FilesHaveRows /\ DoneIsLater /\ faults \in Nat
  BY DEF Inv, StoreTypeOK
<1>p. /\ upload \in [Calls -> Upload] /\ file \in [Frags -> {"none", "torn", "whole"}]
      /\ row \in [Frags -> Row \cup {NoRow}]
      /\ janitor \in [pc : {"sleep", "select", "delete"}, now : Nat, batch : SUBSET Frags,
                      done : SUBSET Frags, stale : BOOLEAN]
  BY <1>0 DEF StoreTypeOK
<1>f. ~Fault
  BY <1>0, FaultIs
<1>k. ASSUME faults' = faults, file[f] # "none", row[f] = NoRow \/ f \in janitor.done,
             \A q \in Calls : Running(q[1], q[2]) /\ upload[q].linked /\ q[2] = f =>
                                upload'[q] = upload[q]
      PROVE  Pending(f)'
  <2>1. PICK q \in Calls : q[2] = f /\ Running(q[1], f) /\ upload[q].linked
    BY <1>0, <1>k DEF FilesHaveRows, Pending
  <2>2. upload'[q] = upload[q] /\ q = <<q[1], f>>
    BY <1>k, <2>1, CallIs
  <2>3. upload[q].pc \in {"open", "write", "row"}
    BY <2>1, <2>2 DEF Running
  <2>4. Running(q[1], f)'
    BY <2>2, <2>3 DEF Running
  <2> QED BY <2>1, <2>2, <2>4 DEF Pending
<1>1. ASSUME UNCHANGED <<file, upload, row, faults>>, janitor'.done \subseteq janitor.done
      PROVE  Pending(f)'
  BY <1>k, <1>1
<1>2. CASE UNCHANGED storeVars /\ (faults' = faults \/ Fault)
  BY <1>f, <1>1, <1>2 DEF storeVars
<1>3. CASE Tick
  BY <1>1, <1>3 DEF Tick
<1>4. CASE JanitorWake \/ JanitorDone \/ JanitorSelect \/ JanitorRefused
  <2>1. \/ janitor' = IdleJanitor
        \/ \E n : janitor' = [IdleJanitor EXCEPT !.pc = "select", !.now = n]
        \/ \E b : janitor' = [janitor EXCEPT !.pc = "delete", !.batch = b, !.done = {},
                                             !.stale = FALSE]
    BY <1>4 DEF JanitorWake, JanitorDone, JanitorRefused, JanitorSelect
  <2>2. /\ IdleJanitor.done = {}
        /\ \A n : [IdleJanitor EXCEPT !.pc = "select", !.now = n].done = {}
    BY DEF IdleJanitor
  <2>3. \A b : [janitor EXCEPT !.pc = "delete", !.batch = b, !.done = {},
                               !.stale = FALSE].done = {}
    BY <1>p
  <2>4. janitor'.done = {}
    BY <2>1, <2>2, <2>3
  <2> QED BY <1>1, <1>4, <2>4 DEF JanitorWake, JanitorDone, JanitorRefused, JanitorSelect
<1>5. CASE JanitorCommit
  <2>1. /\ row' = [g \in Frags |-> IF g \in janitor.done THEN NoRow ELSE row[g]]
        /\ UNCHANGED <<file, upload, faults>>
        /\ janitor' = [IdleJanitor EXCEPT !.pc = "select", !.now = janitor.now]
    BY <1>5 DEF JanitorCommit
  <2>2. janitor'.done = {}
    BY <2>1 DEF IdleJanitor
  <2>3. row[f] = NoRow \/ f \in janitor.done
    BY <2>1, <2>2
  <2> QED BY <1>k, <2>1, <2>3
<1>6. ASSUME NEW g \in Frags, JanitorRemove(g) PROVE Pending(f)'
  <2>1. /\ file' = [file EXCEPT ![g] = "none"] /\ faults' = faults /\ row' = row
        /\ upload' = [q \in Calls |->
             IF q[2] = g THEN [upload[q] EXCEPT !.linked = FALSE] ELSE upload[q]]
        /\ janitor' = [janitor EXCEPT !.done = janitor.done \cup {g}]
    BY <1>6, <1>f DEF JanitorRemove
  <2>2. f # g /\ file'[f] = file[f]
    BY <2>1, <1>p
  <2>3. f \in janitor'.done => f \in janitor.done
    BY <2>1, <2>2, <1>p
  <2>4. \A q \in Calls : q[2] = f => upload'[q] = upload[q]
    BY <2>1, <2>2
  <2> QED BY <1>k, <2>1, <2>2, <2>3, <2>4
<1>7. ASSUME NEW q \in Calls, UploadOpen(q[1], q[2]) PROVE Pending(f)'
  <2>1. /\ q[2] \in Frags /\ file' = [file EXCEPT ![q[2]] = "torn"]
        /\ UNCHANGED <<faults, row, janitor>>
        /\ upload' = [upload EXCEPT ![q] = [upload[q] EXCEPT !.pc = "write", !.linked = TRUE]]
    BY <1>7, CallIs DEF UploadOpen
  <2>2. CASE q[2] = f
    <3>1. upload'[q].pc = "write" /\ upload'[q].linked
      BY <2>1, <1>p DEF Upload
    <3>2. upload'[<<q[1], f>>].pc = "write"
      BY <3>1, <2>2, CallIs
    <3> QED BY <2>2, <3>1, <3>2 DEF Pending, Running
  <2>3. CASE q[2] # f
    <3>1. file'[f] = file[f] /\ \A p \in Calls : p[2] = f => upload'[p] = upload[p]
      BY <2>1, <2>3, <1>p
    <3> QED BY <1>k, <2>1, <3>1
  <2> QED BY <2>2, <2>3
<1>8. ASSUME NEW q \in Calls, UploadWrite(q[1], q[2]) PROVE Pending(f)'
  <2>1. /\ upload[q].pc = "write" /\ q[2] \in Frags
        /\ file' = [file EXCEPT ![q[2]] = IF upload[q].linked THEN "whole" ELSE @]
        /\ UNCHANGED <<faults, row, janitor>>
        /\ upload' = [upload EXCEPT ![q] = [upload[q] EXCEPT !.pc = "row"]]
    BY <1>8, CallIs DEF UploadWrite
  <2>2. CASE q[2] = f /\ upload[q].linked
    <3>1. upload'[q].pc = "row" /\ upload'[q].linked
      BY <2>1, <2>2, <1>p DEF Upload
    <3>2. upload'[<<q[1], f>>].pc = "row"
      BY <3>1, <2>2, CallIs
    <3> QED BY <2>2, <3>1, <3>2 DEF Pending, Running
  <2>3. CASE ~(q[2] = f /\ upload[q].linked)
    <3>1. file'[f] = file[f]
      BY <2>1, <2>3, <1>p
    <3>2. \A p \in Calls : p[2] = f /\ upload[p].linked => upload'[p] = upload[p]
      BY <2>1, <2>3, <1>p
    <3> QED BY <1>k, <2>1, <3>1, <3>2
  <2> QED BY <2>2, <2>3
<1>9. ASSUME NEW q \in Calls, UploadCommit(q[1], q[2]) PROVE Pending(f)'
  <2>1. PICK r \in Row : row' = [row EXCEPT ![q[2]] = r]
    <3>1. PICK g \in Frags, u \in Nat : g = q[2] /\ u = upload[q].until
      BY <1>0, CallIs, UploadIs
    <3>2. Merged(g, u) \in Row
      BY <1>0, RowIs, LaterIs DEF Merged, Row
    <3> QED BY <1>9, <3>1, <3>2, CallIs DEF UploadCommit
  <2>2. /\ UNCHANGED <<file, faults>> /\ ~(janitor.pc = "delete" /\ janitor.done # {})
        /\ janitor' = [janitor EXCEPT !.stale = janitor.pc = "delete"]
        /\ upload' = [upload EXCEPT ![q] = [upload[q] EXCEPT !.pc = "ok"]]
    BY <1>9, CallIs DEF UploadCommit, WriteLocked
  <2>3. janitor.done = {} /\ janitor'.done = {}
    BY <2>2, <1>0, <1>p DEF DoneIsLater
  <2>4. f # q[2] /\ row'[f] = row[f]
    BY <2>1, <2>3, <1>p, CallIs DEF Row, NoRow
  <2>5. \A p \in Calls : p[2] = f => upload'[p] = upload[p]
    BY <2>2, <2>4, <1>p
  <2> QED BY <1>k, <2>2, <2>3, <2>4, <2>5
<1>10. ASSUME NEW q \in Calls, NEW ttl \in Nat, UploadBegin(q[1], q[2], ttl)
       PROVE  Pending(f)'
  <2>1. ~Running(q[1], q[2]) /\ UNCHANGED <<faults, row, janitor, file>>
    BY <1>10 DEF UploadBegin
  <2>2. \A p \in Calls : Running(p[1], p[2]) => upload'[p] = upload[p]
    BY <1>10, <2>1, <1>p, CallIs DEF UploadBegin
  <2> QED BY <1>k, <2>1, <2>2
<1>11. CASE JanitorFails \/ ServerCrash \/ \E q \in Calls : UploadFails(q[1], q[2])
  BY <1>11, <1>f DEF JanitorFails, ServerCrash, UploadFails
<1>12. ASSUME NEW c, NEW g, NEW ttl \in Nat, UploadBegin(c, g, ttl) /\ <<c, g>> \notin Calls
       PROVE  Pending(f)'
  BY <1>0, <1>1, <1>12, OutsideIsQuiet DEF storeVars
<1> QED BY <1>2, <1>3, <1>4, <1>5, <1>6, <1>7, <1>8, <1>9, <1>10, <1>11, <1>12, StoreSteps

LEMMA NextInv == Inv /\ [Next]_vars => Inv'
<1> SUFFICES ASSUME Inv, [Next]_vars PROVE Inv'
  OBVIOUS
<1>1. StoreTypeOK'
  BY TypeStep DEF Inv
<1> QED BY <1>1, LinkedStep, TornStep, RowStep, BatchStep, JanitorStep, FilesStep DEF Inv
-----------------------------------------------------------------------------
(* The inductive invariant holds of the store in every run.                *)
THEOREM Invariance == Spec => []Inv
BY InitInv, NextInv, PTL DEF Spec

(* upload_frag and the janitor: a fragment whose upload was acknowledged   *)
(* can be downloaded until it expires, unless a re-upload is in the middle *)
(* of writing the file or a fault cut one short there.                     *)
THEOREM PromisesKept == Spec => []KeptWhilePromised
<1>1. Inv => KeptWhilePromised
  <2> SUFFICES ASSUME Inv, NEW f \in Frags, clock < promised[f]
               PROVE  Downloadable(f) \/ (file[f] = "torn" /\ (Writing(f) \/ faults > 0))
    BY DEF KeptWhilePromised
  <2>1. file[f] \in {"torn", "whole"}
    BY RowIs DEF Inv, RowKeepsPromise
  <2> QED BY <2>1 DEF Inv, TornIsWritten, Downloadable
<1> QED BY <1>1, Invariance, PTL

(* fragment.rs: files and rows stay paired without a fault, although no    *)
(* transaction spans them, but for uploads and removals in progress and    *)
(* for rows that keep no promise.                                          *)
THEOREM FilesPaired == Spec => []FilesAccounted
<1>1. Inv => FilesAccounted
  <2> SUFFICES ASSUME Inv
               PROVE  FilesAccounted
    OBVIOUS
  <2>1. ASSUME faults = 0, NEW f \in Frags, file[f] # "none", row[f] = NoRow
        PROVE  \E q \in Calls : q[2] = f /\ Running(q[1], f) /\ upload[q].linked
    BY <2>1 DEF Inv, FilesHaveRows, Pending
  <2>2. ASSUME NEW f \in Frags, file[f] = "none"
        PROVE  promised[f] <= clock
    BY <2>2, RowIs DEF Inv, RowKeepsPromise
  <2> QED BY <2>1, <2>2 DEF FilesAccounted, Inv
<1> QED BY <1>1, Invariance, PTL
-----------------------------------------------------------------------------
(* Division that rounds up: how many parts of n there are in x, and which  *)
(* of them the i-th thing is in.                                           *)
LEMMA DivisionIs ==
  ASSUME NEW x \in Nat, NEW n \in Nat \ {0}
  PROVE  x \div n \in Nat /\ n * (x \div n) <= x /\ x < n * (x \div n) + n
OBVIOUS

LEMMA CeilIs ==
  ASSUME NEW x \in Nat, NEW n \in Nat \ {0}
  PROVE  /\ Ceil(x, n) \in Nat
         /\ x <= n * Ceil(x, n)
         /\ n * Ceil(x, n) < x + n
<1>1. PICK y \in Nat : y = x + n - 1
  OBVIOUS
<1>2. y \div n \in Nat /\ n * (y \div n) <= y /\ y < n * (y \div n) + n
  BY DivisionIs
<1> QED BY <1>1, <1>2 DEF Ceil

LEMMA PartIs ==
  ASSUME NEW x \in Nat, NEW n \in Nat \ {0}, NEW i \in 1 .. x
  PROVE  \E k \in 1 .. Ceil(x, n) : (k - 1) * n + 1 <= i /\ i <= k * n
<1>1. PICK k \in Nat : k = Ceil(i, n) /\ i <= n * k /\ n * k < i + n
  BY CeilIs
<1>2. PICK m \in Nat : m = Ceil(x, n) /\ x <= n * m /\ n * m < x + n
  BY CeilIs
<1>3. k # 0
  BY <1>1
<1>4. (k - 1) * n = n * k - n /\ k * n = n * k
  BY <1>1
<1>5. k <= m
  <2> SUFFICES ASSUME m + 1 <= k PROVE FALSE
    BY <1>1, <1>2
  <2>1. n * (m + 1) <= n * k
    BY <1>1, <1>2
  <2>2. n * (m + 1) = n * m + n
    BY <1>2
  <2> QED BY <1>1, <1>2, <2>1, <2>2
<1> QED BY <1>1, <1>2, <1>3, <1>4, <1>5

LEMMA PartBegins ==
  ASSUME NEW x \in Nat, NEW n \in Nat \ {0}, NEW k \in 1 .. Ceil(x, n)
  PROVE  (k - 1) * n \in Nat /\ (k - 1) * n < x
<1>1. PICK m \in Nat : m = Ceil(x, n) /\ n * m < x + n
  BY CeilIs
<1>2. k \in Nat /\ k - 1 \in Nat /\ k <= m
  BY <1>1
<1>3. n * k <= n * m
  BY <1>1, <1>2
<1>4. (k - 1) * n = n * k - n
  BY <1>2
<1>5. (k - 1) * n \in Nat
  BY <1>2
<1>6. n * k \in Nat /\ n * m \in Nat
  BY <1>1, <1>2
<1> QED BY <1>1, <1>3, <1>4, <1>5, <1>6

LEMMA FewerParts ==
  ASSUME NEW x \in Nat, NEW n \in Nat \ {0, 1}, x > n
  PROVE  Ceil(x, n) < x
<1>1. PICK m \in Nat : m = Ceil(x, n) /\ n * m < x + n
  BY CeilIs
<1> SUFFICES ASSUME x <= m PROVE FALSE
  BY <1>1
<1>2. 2 * m <= n * m
  OBVIOUS
<1> QED BY <1>1, <1>2

(* A set of numbers that is not empty has a least one.                     *)
LEMMA LeastElement ==
  ASSUME NEW S \in SUBSET Nat, S # {}
  PROVE  \E x \in S : \A y \in S : x <= y
<1>1. PICK x \in S : \A y \in S : <<y, x>> \notin OpToRel(<, Nat)
  BY NatLessThanWellFounded, WFMin
<1>2. \A y \in S : ~(y < x)
  BY <1>1 DEF OpToRel
<1> QED BY <1>2

(* A function that starts from base and goes on by step exists: what the   *)
(* definitions of Counts and Reachable choose.                             *)
Goes(g, T, n, base, step) ==
  g \in [0 .. n -> T] /\ g[0] = base /\ \A i \in 1 .. n : g[i] = step[g[i - 1]]

LEMMA GoesExists ==
  ASSUME NEW T, NEW n \in Nat, NEW base \in T, NEW step \in [T -> T]
  PROVE  \E g : Goes(g, T, n, base, step)
<1> DEFINE S == {k \in Nat : ~\E g : Goes(g, T, k, base, step)}
<1> SUFFICES ASSUME S # {} PROVE FALSE
  OBVIOUS
<1>1. PICK k \in S : \A y \in S : k <= y
  <2>1. S \in SUBSET Nat
    OBVIOUS
  <2> HIDE DEF S
  <2> QED BY <2>1, LeastElement
<1>2. k # 0
  <2>1. Goes([i \in 0 .. 0 |-> base], T, 0, base, step)
    BY DEF Goes
  <2> QED BY <1>1, <2>1
<1>3. k - 1 \in Nat /\ k - 1 \notin S
  BY <1>1, <1>2
<1>4. PICK f : Goes(f, T, k - 1, base, step)
  BY <1>3
<1> DEFINE g == [i \in 0 .. k |-> IF i < k THEN f[i] ELSE step[f[k - 1]]]
<1>5. Goes(g, T, k, base, step)
  <2>1. k \in Nat /\ k # 0 /\ k - 1 \in 0 .. k - 1
    BY <1>1, <1>2
  <2>2. f \in [0 .. k - 1 -> T] /\ f[0] = base /\ \A i \in 1 .. k - 1 : f[i] = step[f[i - 1]]
    BY <1>4 DEF Goes
  <2>3. step[f[k - 1]] \in T
    BY <2>1, <2>2
  <2>4. g \in [0 .. k -> T]
    BY <2>1, <2>2, <2>3
  <2>5. g[0] = base
    BY <2>1, <2>2
  <2>6. ASSUME NEW i \in 1 .. k PROVE g[i] = step[g[i - 1]]
    <3>1. g[i - 1] = f[i - 1]
      BY <2>1
    <3>2. CASE i < k
      BY <3>1, <3>2, <2>1, <2>2
    <3>3. CASE i = k
      BY <3>1, <3>3, <2>1
    <3> QED BY <3>2, <3>3, <2>1
  <2> HIDE DEF g
  <2> QED BY <2>4, <2>5, <2>6 DEF Goes
<1> QED BY <1>1, <1>5
-----------------------------------------------------------------------------
(* The levels of the tree.                                                 *)
LEMMA ChunkCountIs ==
  ASSUME NEW a \in Atts
  PROVE  ChunkCount(a) \in Nat
BY SizesAreNat, TreeShape, CeilIs DEF ChunkCount

LEMMA CountsAre ==
  ASSUME NEW a \in Atts
  PROVE  /\ Counts[a] \in [0 .. ChunkCount(a) -> Nat]
         /\ Counts[a][0] = ChunkCount(a)
         /\ \A n \in 1 .. ChunkCount(a) :
              Counts[a][n] = IF Counts[a][n - 1] > MaxFanout THEN Ceil(Counts[a][n - 1], MaxFanout)
                             ELSE Counts[a][n - 1]
<1>1. PICK m \in Nat : m = ChunkCount(a)
  BY ChunkCountIs
<1> DEFINE Value(c, n) == IF n = 0 THEN m
                          ELSE IF c[n - 1] > MaxFanout THEN Ceil(c[n - 1], MaxFanout) ELSE c[n - 1]
           Is(c) == c = [n \in 0 .. m |-> Value(c, n)]
           step == [x \in Nat |-> IF x > MaxFanout THEN Ceil(x, MaxFanout) ELSE x]
<1>2. Counts[a] = CHOOSE c : Is(c)
  BY <1>1 DEF Counts
<1>3. step \in [Nat -> Nat]
  BY TreeShape, CeilIs
<1>4. PICK g : Goes(g, Nat, m, m, step)
  <2> HIDE DEF step
  <2> QED BY <1>3, GoesExists
<1>5. Is(g)
  <2>1. g \in [0 .. m -> Nat] /\ g[0] = m /\ \A i \in 1 .. m : g[i] = step[g[i - 1]]
    BY <1>4 DEF Goes
  <2>2. \A i \in 1 .. m : g[i - 1] \in Nat
    BY <2>1
  <2>5. \A x \in Nat : step[x] = IF x > MaxFanout THEN Ceil(x, MaxFanout) ELSE x
    OBVIOUS
  <2>3. ASSUME NEW i \in 0 .. m PROVE g[i] = Value(g, i)
    <3>1. CASE i = 0
      BY <2>1, <3>1
    <3>2. CASE i # 0
      <4>1. i \in 1 .. m
        BY <3>2
      <4>2. PICK x \in Nat : x = g[i - 1]
        BY <2>2, <4>1
      <4> HIDE DEF step
      <4>3. g[i] = step[x]
        BY <2>1, <4>1, <4>2
      <4> QED BY <2>5, <4>2, <4>3, <3>2
    <3> QED BY <3>1, <3>2
  <2>4. g = [i \in 0 .. m |-> g[i]]
    BY <2>1
  <2> HIDE DEF Value
  <2> QED BY <2>3, <2>4
<1>6. PICK c : c = Counts[a] /\ Is(c)
  <2> HIDE DEF Is
  <2> QED BY <1>2, <1>5
<1>7. \A n \in 0 .. m : c[n] = Value(c, n)
  <2> HIDE DEF Value
  <2> QED BY <1>6
<1>8. c[0] = m /\ \A n \in 1 .. m : c[n] = Value(c, n)
  BY <1>7
<1>9. \A n \in 0 .. m : c[n] \in Nat
  <2> DEFINE S == {n \in 0 .. m : c[n] \notin Nat}
  <2> SUFFICES ASSUME S # {} PROVE FALSE
    OBVIOUS
  <2>1. PICK k \in S : \A y \in S : k <= y
    <3>1. S \in SUBSET Nat
      OBVIOUS
    <3> HIDE DEF S
    <3> QED BY <3>1, LeastElement
  <2>2. k \in 1 .. m /\ k - 1 \in 0 .. m /\ k - 1 \notin S
    BY <1>8, <2>1
  <2>3. c[k - 1] \in Nat
    BY <2>2
  <2>4. c[k] \in Nat
    BY <2>2, <2>3, <1>8, TreeShape, CeilIs, ZenonT(60)
  <2> QED BY <2>1, <2>4
<1>10. c \in [0 .. m -> Nat]
  <2>1. c = [n \in 0 .. m |-> Value(c, n)]
    BY <1>6
  <2> HIDE DEF Value
  <2> QED BY <2>1, <1>9
<1> QED BY <1>1, <1>6, <1>8, <1>10

(* Every level is smaller than the one below, as long as it is too large   *)
(* to be the root's; so the levels end with one that is not.               *)
LEMMA CountsFall ==
  ASSUME NEW a \in Atts, NEW n \in 0 .. ChunkCount(a), Counts[a][n] > MaxFanout
  PROVE  Counts[a][n] + n <= ChunkCount(a)
<1>m. PICK m \in Nat : m = ChunkCount(a)
  BY ChunkCountIs
<1>F. PICK F \in Nat \ {0, 1} : F = MaxFanout
  BY TreeShape
<1>c. PICK c \in [0 .. m -> Nat] : c = Counts[a]
  BY <1>m, CountsAre
<1>1. m = ChunkCount(a) /\ F = MaxFanout /\ c = Counts[a]
  BY <1>m, <1>F, <1>c
<1>2. c[0] = m /\ \A k \in 1 .. m : c[k] = IF c[k - 1] > F THEN Ceil(c[k - 1], F) ELSE c[k - 1]
  BY <1>1, CountsAre
<1> DEFINE S == {k \in 0 .. m : c[k] > F /\ c[k] + k > m}
<1> SUFFICES ASSUME S # {} PROVE FALSE
  BY <1>1
<1>3. PICK k \in S : \A y \in S : k <= y
  <2>1. S \in SUBSET Nat
    OBVIOUS
  <2> HIDE DEF S
  <2> QED BY <2>1, LeastElement
<1>4. k \in 1 .. m /\ k - 1 \in 0 .. m /\ k - 1 \notin S
  BY <1>2, <1>3
<1>5. PICK x \in Nat : x = c[k - 1] /\ (x > F => x + (k - 1) <= m)
  BY <1>4
<1>6. PICK y \in Nat : y = c[k] /\ y > F /\ y + k > m
  BY <1>3
<1>7. y = IF x > F THEN Ceil(x, F) ELSE x
  BY <1>2, <1>4, <1>5, <1>6
<1>8. x > F => Ceil(x, F) < x
  BY FewerParts
<1> QED BY <1>4, <1>5, <1>6, <1>7, <1>8

LEMMA HeightIs ==
  ASSUME NEW a \in Atts
  PROVE  /\ Height(a) \in 0 .. ChunkCount(a)
         /\ \A n \in 0 .. ChunkCount(a) : Counts[a][n] > MaxFanout <=> n < Height(a)
<1>m. PICK m \in Nat : m = ChunkCount(a)
  BY ChunkCountIs
<1>F. PICK F \in Nat \ {0, 1} : F = MaxFanout
  BY TreeShape
<1>c. PICK c \in [0 .. m -> Nat] : c = Counts[a]
  BY <1>m, CountsAre
<1>1. m = ChunkCount(a) /\ F = MaxFanout /\ c = Counts[a]
  BY <1>m, <1>F, <1>c
<1>2. \A k \in 1 .. m : c[k] = IF c[k - 1] > F THEN Ceil(c[k - 1], F) ELSE c[k - 1]
  BY <1>1, CountsAre
<1>3. c[m] <= F
  <2>1. m \in 0 .. m /\ c[m] \in Nat
    BY <1>1
  <2>2. c[m] > F => c[m] + m <= m
    BY <1>1, <2>1, CountsFall
  <2> QED BY <2>1, <2>2, <1>1
<1> DEFINE S == {k \in 0 .. m : c[k] <= F}
<1>4. PICK h \in S : \A y \in S : h <= y
  <2>1. S \in SUBSET Nat /\ m \in S
    BY <1>3
  <2> HIDE DEF S
  <2> QED BY <2>1, LeastElement
<1> DEFINE U == {k \in 0 .. m : k >= h /\ c[k] > F}
<1>5. U = {}
  <2> SUFFICES ASSUME U # {} PROVE FALSE
    OBVIOUS
  <2>1. PICK k \in U : \A y \in U : k <= y
    <3>1. U \in SUBSET Nat
      OBVIOUS
    <3> HIDE DEF U
    <3> QED BY <3>1, LeastElement
  <2>2. k \in 1 .. m /\ k - 1 \in 0 .. m /\ k - 1 >= h
    BY <1>4, <2>1
  <2>3. c[k - 1] <= F
    BY <2>1, <2>2
  <2>4. c[k] = c[k - 1]
    BY <1>2, <2>2, <2>3
  <2> QED BY <2>1, <2>3, <2>4
<1>6. ASSUME NEW k \in 0 .. m PROVE c[k] > F <=> k < h
  <2>1. h \in Nat /\ c[k] \in Nat
    BY <1>4
  <2>2. CASE k < h
    <3>1. k \notin S
      BY <1>4, <2>1, <2>2
    <3> QED BY <2>1, <2>2, <3>1
  <2>3. CASE k >= h
    <3>1. k \notin U
      BY <1>5
    <3> QED BY <2>1, <2>3, <3>1
  <2> QED BY <2>1, <2>2, <2>3
<1>7. {k \in 0 .. m : c[k] > F} = 0 .. h - 1
  BY <1>4, <1>6
<1>8. Height(a) = Cardinality({k \in 0 .. m : c[k] > F})
  BY <1>1 DEF Height
<1>9. h \in Nat /\ Cardinality(0 .. h - 1) = h
  <2>1. h \in Nat /\ 0 \in Int /\ h - 1 \in Int
    BY <1>4
  <2>2. Cardinality(0 .. h - 1) = IF 0 > h - 1 THEN 0 ELSE (h - 1) - 0 + 1
    BY <2>1, FS_Interval
  <2> QED BY <2>1, <2>2
<1> QED BY <1>1, <1>4, <1>6, <1>7, <1>8, <1>9

(* The fragments of an attachment, level by level.                         *)
Tree(a) == Leaves[a] \cup Nodes[a]

LEMMA TreeIs ==
  ASSUME NEW a \in Atts
  PROVE  /\ \A i \in 1 .. Counts[a][0] : <<a, 0, i>> \in Leaves[a]
         /\ \A n \in 1 .. Height(a) : \A k \in 1 .. Counts[a][n] : <<a, n, k>> \in Nodes[a]
         /\ \A f \in Leaves[a] : ~IsNode(f) /\ \E i \in 1 .. Counts[a][0] : f = <<a, 0, i>>
         /\ \A f \in Nodes[a] :
              /\ IsNode(f)
              /\ \E n \in 1 .. Height(a) : \E k \in 1 .. Counts[a][n] : f = <<a, n, k>>
<1>1. Counts[a][0] = ChunkCount(a)
  BY CountsAre
<1>2. Leaves[a] = {<<a, 0, i>> : i \in 1 .. Counts[a][0]}
  BY <1>1 DEF Leaves
<1>3. PICK c, h : c = Counts[a] /\ h = Height(a) /\ h \in Nat
  BY HeightIs
<1>4. Nodes[a] = UNION {{<<a, n, k>> : k \in 1 .. c[n]} : n \in 1 .. h}
  BY <1>3 DEF Nodes
<1>5. \A f : f \in Nodes[a] <=> \E n \in 1 .. h : \E k \in 1 .. c[n] : f = <<a, n, k>>
  BY <1>4
<1>6. \A f \in Leaves[a] : ~IsNode(f) /\ \E i \in 1 .. Counts[a][0] : f = <<a, 0, i>>
  BY <1>2 DEF IsNode
<1>7. \A f \in Nodes[a] :
        IsNode(f) /\ \E n \in 1 .. Height(a) : \E k \in 1 .. Counts[a][n] : f = <<a, n, k>>
  BY <1>3, <1>5 DEF IsNode
<1>8. \A i \in 1 .. Counts[a][0] : <<a, 0, i>> \in Leaves[a]
  BY <1>2
<1>9. \A n \in 1 .. Height(a) : \A k \in 1 .. Counts[a][n] : <<a, n, k>> \in Nodes[a]
  BY <1>3, <1>5
<1> QED BY <1>6, <1>7, <1>8, <1>9

LEMMA LevelIn ==
  ASSUME NEW a \in Atts, NEW n \in 0 .. Height(a), NEW i \in 1 .. Counts[a][n]
  PROVE  <<a, n, i>> \in Tree(a)
BY TreeIs, HeightIs DEF Tree

(* A node's children are of the level below, and those of its part of it.  *)
(* The children of a node, in order.                                       *)
LEMMA ChildAt ==
  ASSUME NEW a \in Atts, NEW n \in 1 .. Height(a), NEW k \in 1 .. Counts[a][n]
  PROVE  \E m \in Nat \ {0}, lo \in Nat :
           /\ lo = (k - 1) * MaxFanout /\ lo + m = Lesser(k * MaxFanout, Counts[a][n - 1])
           /\ Len(Children[<<a, n, k>>]) = m /\ DOMAIN Children[<<a, n, k>>] = 1 .. m
           /\ \A j \in 1 .. m : Children[<<a, n, k>>][j] = <<a, n - 1, lo + j>>
<1>1. n - 1 \in 0 .. ChunkCount(a) /\ n \in 1 .. ChunkCount(a) /\ n - 1 < Height(a)
  BY HeightIs, ChunkCountIs
<1>2. PICK x \in Nat : x = Counts[a][n - 1]
  BY <1>1, CountsAre
<1>3. Counts[a][n] = Ceil(x, MaxFanout)
  BY <1>1, <1>2, CountsAre, HeightIs
<1>4. PICK F \in Nat \ {0, 1} : F = MaxFanout
  BY TreeShape
<1>5. PICK lo \in Nat : lo = (k - 1) * F /\ lo < x
  BY <1>2, <1>3, <1>4, PartBegins
<1>6. k \in Nat
  BY <1>2, <1>3, <1>4, CeilIs
<1>7. PICK top \in Nat : top = k * F /\ lo < top
  BY <1>4, <1>5, <1>6
<1>8. PICK hi \in Nat : hi = Lesser(top, x) /\ lo < hi /\ hi <= x
  BY <1>2, <1>5, <1>7 DEF Lesser
<1>9. PICK m \in Nat \ {0} : lo + m = hi
  <2>1. hi - lo \in Nat \ {0} /\ lo + (hi - lo) = hi
    BY <1>8
  <2> QED BY <2>1
<1> DEFINE L == [i \in 1 .. x |-> <<a, n - 1, i>>]
           ch == SubSeq(L, lo + 1, hi)
<1>10. Children[<<a, n, k>>] = ch
  <2>1. <<a, n, k>> \in UNION {Nodes[b] : b \in Atts}
    BY TreeIs
  <2>2. Children[<<a, n, k>>] =
          SubSeq(Level(a, n - 1), (k - 1) * MaxFanout + 1, Lesser(k * MaxFanout, Counts[a][n - 1]))
    BY <2>1 DEF Children
  <2>3. Level(a, n - 1) = L
    BY <1>2 DEF Level
  <2> HIDE DEF L
  <2> QED BY <1>2, <1>4, <1>5, <1>7, <1>8, <2>2, <2>3
<1>11. Len(ch) = m /\ DOMAIN ch = 1 .. m /\ \A j \in 1 .. m : ch[j] = <<a, n - 1, lo + j>>
  <2> DEFINE T == {<<a, n - 1, i>> : i \in 1 .. x}
  <2>1. \A i \in lo + 1 .. hi : L[i] \in T
    BY <1>8
  <2>2. \A i \in 1 .. x : L[i] = <<a, n - 1, i>>
    OBVIOUS
  <2> HIDE DEF L, T
  <2>3. lo + 1 \in Int /\ hi \in Int /\ lo + 1 <= hi
    BY <1>8
  <2>4. /\ ch \in Seq(T) /\ Len(ch) = hi - (lo + 1) + 1
        /\ \A i \in 1 .. hi - (lo + 1) + 1 : ch[i] = L[lo + 1 + i - 1]
    BY <2>1, <2>3, SubSeqProperties
  <2> HIDE DEF ch
  <2>5. hi - (lo + 1) + 1 = m
    BY <1>9
  <2>6. Len(ch) = m /\ DOMAIN ch = 1 .. m /\ \A i \in 1 .. m : ch[i] = L[lo + 1 + i - 1]
    BY <2>4, <2>5
  <2>7. \A i \in 1 .. m : lo + 1 + i - 1 = lo + i /\ lo + i \in 1 .. x
    BY <1>8, <1>9
  <2> QED BY <2>2, <2>6, <2>7
<1> HIDE DEF ch
<1> QED BY <1>2, <1>4, <1>5, <1>7, <1>8, <1>9, <1>10, <1>11, SMTT(60)

LEMMA ChildrenAre ==
  ASSUME NEW a \in Atts, NEW n \in 1 .. Height(a), NEW k \in 1 .. Counts[a][n]
  PROVE  /\ ToSet(Children[<<a, n, k>>]) \subseteq {<<a, n - 1, i>> : i \in 1 .. Counts[a][n - 1]}
         /\ \A i \in 1 .. Counts[a][n - 1] :
              (k - 1) * MaxFanout + 1 <= i /\ i <= k * MaxFanout =>
                <<a, n - 1, i>> \in ToSet(Children[<<a, n, k>>])
<1>1. PICK m \in Nat \ {0}, lo \in Nat :
        /\ lo = (k - 1) * MaxFanout /\ lo + m = Lesser(k * MaxFanout, Counts[a][n - 1])
        /\ Len(Children[<<a, n, k>>]) = m /\ DOMAIN Children[<<a, n, k>>] = 1 .. m
        /\ \A j \in 1 .. m : Children[<<a, n, k>>][j] = <<a, n - 1, lo + j>>
  BY ChildAt
<1>2. PICK ch : ch = Children[<<a, n, k>>]
  OBVIOUS
<1>3. PICK x \in Nat : x = Counts[a][n - 1]
  <2>1. n - 1 \in 0 .. ChunkCount(a)
    BY HeightIs, ChunkCountIs
  <2> QED BY <2>1, CountsAre
<1>4. PICK top \in Nat : top = k * MaxFanout
  <2>1. k \in Nat
    BY HeightIs, ChunkCountIs, CountsAre
  <2> QED BY <2>1, TreeShape
<1>5. lo + m <= x /\ \A i \in 1 .. x : i <= top => i <= lo + m
  <2>1. lo + m = Lesser(top, x)
    BY <1>1, <1>3, <1>4
  <2> QED BY <2>1 DEF Lesser
<1>6. ASSUME NEW j \in 1 .. m PROVE ch[j] \in {<<a, n - 1, i>> : i \in 1 .. x}
  <2>1. ch[j] = <<a, n - 1, lo + j>>
    BY <1>1, <1>2
  <2>2. lo + j \in 1 .. x
    BY <1>5
  <2> QED BY <2>1, <2>2
<1>7. ASSUME NEW i \in 1 .. x, lo + 1 <= i, i <= top PROVE <<a, n - 1, i>> \in ToSet(ch)
  <2>1. PICK j \in 1 .. m : lo + j = i
    <3>1. i - lo \in 1 .. m /\ lo + (i - lo) = i
      BY <1>5, <1>7
    <3> QED BY <3>1
  <2>2. j \in DOMAIN ch /\ ch[j] = <<a, n - 1, i>>
    BY <1>1, <1>2, <2>1
  <2> QED BY <2>2 DEF ToSet
<1>8. ToSet(ch) \subseteq {<<a, n - 1, i>> : i \in 1 .. x}
  BY <1>1, <1>2, <1>6 DEF ToSet
<1> QED BY <1>1, <1>2, <1>3, <1>4, <1>7, <1>8

(* Every fragment of a level is below one of the level above.              *)
LEMMA HasParent ==
  ASSUME NEW a \in Atts, NEW n \in 1 .. Height(a), NEW i \in 1 .. Counts[a][n - 1]
  PROVE  \E k \in 1 .. Counts[a][n] : <<a, n - 1, i>> \in ToSet(Children[<<a, n, k>>])
<1>1. n - 1 \in 0 .. ChunkCount(a) /\ n \in 1 .. ChunkCount(a) /\ n - 1 < Height(a)
  BY HeightIs, ChunkCountIs
<1>2. PICK x \in Nat : x = Counts[a][n - 1]
  BY <1>1, CountsAre
<1>3. Counts[a][n] = Ceil(x, MaxFanout)
  BY <1>1, <1>2, CountsAre, HeightIs
<1>4. PICK k \in 1 .. Ceil(x, MaxFanout) : (k - 1) * MaxFanout + 1 <= i /\ i <= k * MaxFanout
  BY <1>2, PartIs, TreeShape
<1> QED BY <1>3, <1>4, ChildrenAre

(* What Reachable of an attachment starts from, and what a step adds.      *)
Opened(S) == S \cup UNION {ToSet(Children[f]) : f \in {g \in S : IsNode(g)}}

LEMMA OpenedIn ==
  ASSUME NEW a \in Atts, NEW S \in SUBSET Tree(a)
  PROVE  Opened(S) \in SUBSET Tree(a)
<1> SUFFICES ASSUME NEW f \in S, IsNode(f), NEW g \in ToSet(Children[f])
             PROVE  g \in Tree(a)
  BY DEF Opened
<1>1. f \in Nodes[a]
  BY TreeIs DEF Tree
<1>2. PICK n \in 1 .. Height(a) : \E k \in 1 .. Counts[a][n] : f = <<a, n, k>>
  BY <1>1, TreeIs
<1>3. PICK k \in 1 .. Counts[a][n] : f = <<a, n, k>>
  BY <1>2
<1>4. PICK i \in 1 .. Counts[a][n - 1] : g = <<a, n - 1, i>>
  BY <1>3, ChildrenAre
<1>5. n - 1 \in 0 .. Height(a)
  BY HeightIs
<1> QED BY <1>4, <1>5, LevelIn

LEMMA RootIs ==
  ASSUME NEW a \in Atts
  PROVE  /\ ToSet(Root[a]) \in SUBSET Tree(a)
         /\ \A i \in 1 .. Counts[a][Height(a)] : <<a, Height(a), i>> \in ToSet(Root[a])
<1>1. Root[a] = [k \in 1 .. Counts[a][Height(a)] |-> <<a, Height(a), k>>]
  BY DEF Root, Level
<1>2. Height(a) \in 0 .. Height(a)
  BY HeightIs
<1>3. PICK s, h, x : s = Root[a] /\ h = Height(a) /\ x = Counts[a][h]
  OBVIOUS
<1>4. DOMAIN s = 1 .. x /\ \A k \in 1 .. x : s[k] = <<a, h, k>>
  BY <1>1, <1>3
<1>5. \A f : f \in ToSet(s) <=> \E k \in 1 .. x : f = <<a, h, k>>
  BY <1>4 DEF ToSet
<1> QED BY <1>2, <1>3, <1>5, LevelIn

LEMMA ReachableIs ==
  ASSUME NEW a \in Atts
  PROVE  \E g : /\ Goes(g, SUBSET Tree(a), ChunkCount(a), ToSet(Root[a]),
                        [S \in SUBSET Tree(a) |-> Opened(S)])
                /\ Reachable[a] = g[ChunkCount(a)]
<1>1. PICK m \in Nat : m = ChunkCount(a)
  BY ChunkCountIs
<1>2. PICK T : T = SUBSET Tree(a)
  OBVIOUS
<1>3. PICK base \in T : base = ToSet(Root[a])
  BY <1>2, RootIs
<1>4. PICK step \in [T -> T] : step = [S \in T |-> Opened(S)]
  BY <1>2, OpenedIn
<1> DEFINE Value(c, n) == IF n = 0 THEN base ELSE Opened(c[n - 1])
           Is(c) == c = [n \in 0 .. m |-> Value(c, n)]
<1>5. Reachable[a] = (CHOOSE c : Is(c))[m]
  BY <1>1, <1>3 DEF Reachable, Opened
<1>6. \E c : Is(c)
  <2>1. PICK g : Goes(g, T, m, base, step)
    BY GoesExists
  <2>2. g \in [0 .. m -> T] /\ g[0] = base /\ \A i \in 1 .. m : g[i] = step[g[i - 1]]
    BY <2>1 DEF Goes
  <2>3. ASSUME NEW i \in 0 .. m PROVE g[i] = Value(g, i)
    <3>1. CASE i = 0
      BY <2>2, <3>1
    <3>2. CASE i # 0
      <4>1. i \in 1 .. m /\ g[i - 1] \in T
        BY <2>2, <3>2
      <4> QED BY <1>4, <2>2, <3>2, <4>1
    <3> QED BY <3>1, <3>2
  <2>4. g = [i \in 0 .. m |-> g[i]]
    BY <2>2
  <2> HIDE DEF Value
  <2> QED BY <2>3, <2>4
<1>7. PICK c : Is(c) /\ Reachable[a] = c[m]
  <2> HIDE DEF Is
  <2> QED BY <1>5, <1>6
<1>8. \A n \in 0 .. m : c[n] = Value(c, n)
  <2> HIDE DEF Value
  <2> QED BY <1>7
<1>9. c[0] = base /\ \A n \in 1 .. m : c[n] = Opened(c[n - 1])
  BY <1>8
<1>10. \A n \in 0 .. m : c[n] \in T
  <2> DEFINE S == {n \in 0 .. m : c[n] \notin T}
  <2> SUFFICES ASSUME S # {} PROVE FALSE
    OBVIOUS
  <2>1. PICK k \in S : \A y \in S : k <= y
    <3>1. S \in SUBSET Nat
      OBVIOUS
    <3> HIDE DEF S
    <3> QED BY <3>1, LeastElement
  <2>2. k \in 1 .. m /\ k - 1 \in 0 .. m /\ k - 1 \notin S
    BY <1>9, <2>1
  <2>3. c[k - 1] \in T
    BY <2>2
  <2>4. c[k] \in T
    BY <2>2, <2>3, <1>2, <1>9, OpenedIn
  <2> QED BY <2>1, <2>4
<1>11. c \in [0 .. m -> T]
  <2>1. c = [n \in 0 .. m |-> Value(c, n)]
    BY <1>7
  <2> HIDE DEF Value
  <2> QED BY <2>1, <1>10
<1>12. \A n \in 1 .. m : c[n] = step[c[n - 1]]
  BY <1>4, <1>9, <1>10
<1>13. Goes(c, T, m, base, step)
  BY <1>9, <1>11, <1>12 DEF Goes
<1> HIDE DEF Is
<1> QED BY <1>1, <1>2, <1>3, <1>4, <1>7, <1>13

LEMMA ReachableInTree ==
  ASSUME NEW a \in Atts
  PROVE  Reachable[a] \subseteq Tree(a)
<1>1. PICK g : /\ g \in [0 .. ChunkCount(a) -> SUBSET Tree(a)]
               /\ Reachable[a] = g[ChunkCount(a)]
  BY ReachableIs DEF Goes
<1> QED BY <1>1, ChunkCountIs

(* A level is reached after as many steps as it is below the root.         *)
LEMMA LeavesReachable ==
  ASSUME NEW a \in Atts
  PROVE  Leaves[a] \subseteq Reachable[a]
<1>1. PICK m \in Nat : m = ChunkCount(a)
  BY ChunkCountIs
<1>2. PICK h \in 0 .. m : h = Height(a)
  BY <1>1, HeightIs
<1>3. PICK T : T = SUBSET Tree(a)
  OBVIOUS
<1>4. PICK g : Goes(g, T, m, ToSet(Root[a]), [S \in T |-> Opened(S)]) /\ Reachable[a] = g[m]
  BY <1>1, <1>3, ReachableIs
<1>5. g \in [0 .. m -> T] /\ g[0] = ToSet(Root[a]) /\ \A i \in 1 .. m : g[i] = Opened(g[i - 1])
  <2>1. /\ g \in [0 .. m -> T] /\ g[0] = ToSet(Root[a])
        /\ \A i \in 1 .. m : g[i] = [S \in T |-> Opened(S)][g[i - 1]]
    BY <1>4 DEF Goes
  <2>2. \A S \in T : [R \in T |-> Opened(R)][S] = Opened(S)
    OBVIOUS
  <2>3. \A i \in 1 .. m : g[i - 1] \in T
    BY <2>1
  <2> QED BY <2>1, <2>2, <2>3
<1> DEFINE At(j) == IF j <= h THEN h - j ELSE 0
           Reached(j) == \A i \in 1 .. Counts[a][At(j)] : <<a, At(j), i>> \in g[j]
           B == {j \in 0 .. m : ~Reached(j)}
<1>6. B = {}
  <2> SUFFICES ASSUME B # {} PROVE FALSE
    OBVIOUS
  <2>1. PICK k \in B : \A y \in B : k <= y
    <3>1. B \in SUBSET Nat
      OBVIOUS
    <3> HIDE DEF B
    <3> QED BY <3>1, LeastElement
  <2>2. k # 0
    BY <1>2, <1>5, <2>1, RootIs
  <2>3. k \in 1 .. m /\ k - 1 \in 0 .. m /\ Reached(k - 1)
    BY <2>1, <2>2
  <2>4. g[k] = Opened(g[k - 1])
    BY <1>5, <2>3
  <2>5. CASE k > h
    <3>1. At(k) = 0 /\ At(k - 1) = 0
      BY <1>2, <2>3, <2>5
    <3>2. g[k - 1] \subseteq g[k]
      BY <2>4 DEF Opened
    <3> QED BY <2>1, <2>3, <3>1, <3>2
  <2>6. CASE k <= h
    <3>1. PICK n \in 1 .. h : n = h - (k - 1) /\ At(k - 1) = n /\ At(k) = n - 1
      BY <1>2, <2>3, <2>6
    <3>2. ASSUME NEW i \in 1 .. Counts[a][n - 1] PROVE <<a, n - 1, i>> \in g[k]
      <4>1. PICK j \in 1 .. Counts[a][n] : <<a, n - 1, i>> \in ToSet(Children[<<a, n, j>>])
        BY <1>2, HasParent
      <4>2. <<a, n, j>> \in g[k - 1]
        BY <2>3, <3>1
      <4>3. IsNode(<<a, n, j>>)
        BY <1>2, TreeIs
      <4> QED BY <2>4, <4>1, <4>2, <4>3 DEF Opened
    <3>3. Reached(k)
      BY <3>1, <3>2
    <3> QED BY <2>1, <3>3
  <2> QED BY <2>3, <2>5, <2>6, <1>2
<1>7. Reached(m) /\ At(m) = 0
  BY <1>2, <1>6
<1> QED BY <1>4, <1>7, TreeIs
-----------------------------------------------------------------------------
(* What an announced upload rests on: the stages of upload_inner, and for  *)
(* a fragment kept for ever that every upload of it is one for ever whose  *)
(* file nobody removes.                                                    *)
Stages == {"idle", "leaves", "nodes", "done", "failed"}
StagesOf(a) ==
  /\ sharing[a] \in {"nodes", "done"} => AllOk(a, Leaves[a])
  /\ sharing[a] = "done" => AllOk(a, Nodes[a])

UploadKept(f, q) ==
  upload[q].pc # "idle" =>
    /\ upload[q].until = Never
    /\ upload[q].pc \in {"write", "row"} => upload[q].linked
    /\ upload[q].pc = "ok" => promised[f] = Never
Kept(f) ==
  /\ row[f] # NoRow => row[f].until = Never
  /\ promised[f] \in {0, Never}
  /\ \A q \in Calls : q[2] = f => UploadKept(f, q)

SharedInv ==
  /\ clock \in 0 .. MaxClock
  /\ sharing \in [Atts -> Stages] /\ \A a \in Atts : StagesOf(a)
  /\ \A a \in Atts : Ttls[a] = {0} => \A f \in Leaves[a] \cup Nodes[a] : Kept(f)

LEMMA TreeCalls ==
  ASSUME NEW a \in Atts, NEW f \in Leaves[a] \cup Nodes[a]
  PROVE  <<Uploader[a], f>> \in Calls /\ f \in Frags
<1>1. <<Uploader[a], f>> \in {Uploader[a]} \X (Leaves[a] \cup Nodes[a])
  OBVIOUS
<1>2. <<Uploader[a], f>> \in Calls
  BY <1>1, UploadsAreCalls
<1> QED BY <1>2, CallsType

LEMMA InitShared == Init => SharedInv
<1> SUFFICES ASSUME Init PROVE SharedInv
  OBVIOUS
<1>1. clock \in 0 .. MaxClock
  BY StoreBounds DEF Init, StoreInit
<1>2. sharing \in [Atts -> Stages] /\ \A a \in Atts : StagesOf(a)
  BY DEF Init, Stages, StagesOf
<1>3. ASSUME NEW a \in Atts, NEW f \in Leaves[a] \cup Nodes[a] PROVE Kept(f)
  <2>1. f \in Frags
    BY TreeCalls
  <2> QED BY <2>1 DEF Init, StoreInit, Kept, UploadKept, NoUpload
<1> QED BY <1>1, <1>2, <1>3 DEF SharedInv

(* An upload that was answered Ok stays so.                                *)
LEMMA OkStays ==
  ASSUME StoreTypeOK, [Next]_vars, NEW p \in Calls, upload[p].pc = "ok"
  PROVE  upload'[p].pc = "ok"
<1>p. upload \in [Calls -> Upload]
  BY DEF StoreTypeOK
<1>1. CASE UNCHANGED storeVars
  BY <1>1 DEF storeVars
<1>2. ASSUME NEW c, NEW f, NEW ttl \in Nat, UploadBegin(c, f, ttl) /\ FirstUpload(c, f, ttl)
      PROVE  upload'[p].pc = "ok"
  BY <1>p, <1>2 DEF UploadBegin, FirstUpload
<1>3. CASE StoreStep
  <2>1. CASE Tick \/ JanitorWake \/ JanitorDone \/ JanitorSelect \/ JanitorRefused
             \/ JanitorCommit \/ JanitorFails
    BY <2>1 DEF Tick, JanitorWake, JanitorDone, JanitorSelect, JanitorRefused,
                JanitorCommit, JanitorFails
  <2>2. ASSUME NEW q \in Calls,
               \/ UploadOpen(q[1], q[2]) \/ UploadWrite(q[1], q[2])
               \/ UploadCommit(q[1], q[2]) \/ UploadFails(q[1], q[2])
        PROVE  upload'[p].pc = "ok"
    <3>1. CASE p = q
      <4>1. upload[<<q[1], q[2]>>].pc = "ok"
        BY <3>1, CallIs
      <4>2. UploadCommit(q[1], q[2])
        BY <2>2, <4>1 DEF UploadOpen, UploadWrite, UploadFails, Running
      <4> QED BY <4>1, <4>2 DEF UploadCommit
    <3>2. CASE p # q
      <4>1. upload'[p] = upload[p]
        BY <2>2, <3>2, <1>p, CallIs DEF UploadOpen, UploadWrite, UploadCommit, UploadFails
      <4> QED BY <4>1
    <3> QED BY <3>1, <3>2
  <2>3. ASSUME NEW f \in Frags, JanitorRemove(f) PROVE upload'[p].pc = "ok"
    <3>1. upload'[p] \in {upload[p], [upload[p] EXCEPT !.linked = FALSE]}
      BY <2>3 DEF JanitorRemove
    <3> QED BY <3>1, <1>p DEF Upload
  <2>4. CASE ServerCrash
    <3>1. ~Running(p[1], p[2])
      BY CallIs DEF Running
    <3> QED BY <2>4, <3>1 DEF ServerCrash
  <2> QED BY <1>3, <2>1, <2>2, <2>3, <2>4 DEF StoreStep
<1> QED BY <1>1, <1>2, <1>3, StepKinds

LEMMA SharingStep ==
  ASSUME sharing \in [Atts -> Stages], [Next]_vars
  PROVE  /\ sharing' \in [Atts -> Stages]
         /\ \A a \in Atts :
              /\ sharing'[a] \in {"nodes", "done"} =>
                   sharing[a] \in {"nodes", "done"} \/ AllOk(a, Leaves[a])
              /\ sharing'[a] = "done" => sharing[a] = "done" \/ AllOk(a, Nodes[a])
<1> USE DEF Stages
<1>1. CASE sharing' = sharing
  BY <1>1
<1>2. CASE ShareNext
  <2>1. PICK b \in Atts :
          \/ Share(b) \/ AllLeavesSent(b) \/ AllNodesSent(b) \/ ShareFails(b)
          \/ SendLeaf(b) \/ \E f \in Nodes[b] : SendNode(b, f)
    BY <1>2 DEF ShareNext
  <2>2. CASE Share(b) \/ ShareFails(b)
    BY <2>2 DEF Share, ShareFails
  <2>3. CASE AllLeavesSent(b)
    <3>1. /\ sharing' = [sharing EXCEPT ![b] = LeavesDone(b)] /\ AllOk(b, Leaves[b])
          /\ LeavesDone(b) = IF Nodes[b] = {} THEN "done" ELSE "nodes"
      BY <2>3 DEF AllLeavesSent, LeavesDone
    <3>2. LeavesDone(b) = "done" => AllOk(b, Nodes[b])
      BY <3>1 DEF AllOk
    <3> QED BY <3>1, <3>2
  <2>4. CASE AllNodesSent(b)
    BY <2>4 DEF AllNodesSent
  <2>5. CASE SendLeaf(b) \/ \E f \in Nodes[b] : SendNode(b, f)
    BY <1>1, <2>5 DEF SendLeaf, SendNode, clientVars
  <2> QED BY <2>1, <2>2, <2>3, <2>4, <2>5
<1>3. CASE ClientCrash
  <2>1. sharing' = [a \in Atts |-> IF sharing[a] = "done" THEN "done" ELSE "failed"]
    BY <1>3 DEF ClientCrash
  <2> QED BY <2>1
<1>4. CASE FetchNext
  <2>1. PICK d \in Fetches :
          \/ Start(d) \/ FetchFails(d) \/ Fetched(d) \/ FinalExists(d) \/ FinalFree(d)
          \/ FinalRename(d) \/ Record(d)
          \/ \E k \in Active(d) : FetchOne(d, k) \/ FetchMissing(d, k)
    BY <1>4 DEF FetchNext
  <2>2. sharing' = sharing
    BY <2>1 DEF Start, FetchFails, Fetched, FinalExists, FinalFree, FinalRename, Record,
                FetchOne, FetchMissing
  <2> QED BY <1>1, <2>2
<1>5. CASE (\E r \in Renewals : Renew(r)) \/ UNCHANGED vars \/ UNCHANGED clientVars
  BY <1>1, <1>5 DEF Renew, clientVars, vars
<1> QED BY <1>2, <1>3, <1>4, <1>5 DEF Next

LEMMA StagesStep ==
  ASSUME StoreTypeOK, SharedInv, [Next]_vars
  PROVE  sharing' \in [Atts -> Stages] /\ (\A a \in Atts : StagesOf(a))'
<1>1. sharing \in [Atts -> Stages] /\ \A a \in Atts : StagesOf(a)
  BY DEF SharedInv
<1>2. ASSUME NEW a \in Atts, NEW F \in SUBSET (Leaves[a] \cup Nodes[a]), AllOk(a, F)
      PROVE  AllOk(a, F)'
  <2> SUFFICES ASSUME NEW f \in F PROVE upload'[<<Uploader[a], f>>].pc = "ok"
    BY DEF AllOk, StatusOf
  <2>1. upload[<<Uploader[a], f>>].pc = "ok" /\ <<Uploader[a], f>> \in Calls
    BY <1>2, TreeCalls DEF AllOk, StatusOf
  <2> QED BY <2>1, OkStays
<1>3. ASSUME NEW a \in Atts, sharing'[a] \in {"nodes", "done"} PROVE AllOk(a, Leaves[a])'
  BY <1>1, <1>2, <1>3, SharingStep DEF StagesOf
<1>4. ASSUME NEW a \in Atts, sharing'[a] = "done" PROVE AllOk(a, Nodes[a])'
  BY <1>1, <1>2, <1>4, SharingStep DEF StagesOf
<1> QED BY <1>1, <1>3, <1>4, SharingStep DEF StagesOf

LEMMA ClockStep ==
  ASSUME clock \in 0 .. MaxClock, [Next]_vars
  PROVE  clock' \in 0 .. MaxClock
<1>1. clock' = clock \/ Tick
  BY StepKinds DEF storeVars, StoreStep, UploadOpen, UploadWrite, UploadCommit, UploadFails,
     JanitorWake, JanitorDone, JanitorSelect, JanitorRefused, JanitorCommit, JanitorRemove,
     JanitorFails, ServerCrash, UploadBegin
<1> QED BY <1>1, StoreBounds DEF Tick

(* The janitor's batch holds nothing that is kept for ever.                *)
LEMMA KeptStep ==
  ASSUME Inv, clock \in 0 .. MaxClock, [Next]_vars,
         NEW a \in Atts, Ttls[a] = {0}, NEW f \in Leaves[a] \cup Nodes[a], Kept(f)
  PROVE  Kept(f)'
<1>p. /\ StoreTypeOK /\ f \in Frags /\ clock < Never /\ Never \in Nat \ {0}
      /\ upload \in [Calls -> Upload] /\ row \in [Frags -> Row \cup {NoRow}]
      /\ promised \in [Frags -> Nat]
  <2>1. f \in Frags
    BY TreeCalls
  <2>2. clock < Never /\ Never \in Nat \ {0}
    BY StoreBounds DEF Never
  <2> QED BY <2>1, <2>2 DEF Inv, StoreTypeOK
<1>k. ASSUME row'[f] = row[f] \/ row'[f] = NoRow, promised'[f] = promised[f],
             \A q \in Calls : q[2] = f => upload'[q] = upload[q] \/ UploadKept(f, q)'
      PROVE  Kept(f)'
  <2>1. row'[f] # NoRow => row'[f].until = Never
    BY <1>k DEF Kept
  <2>2. promised'[f] \in {0, Never}
    BY <1>k DEF Kept
  <2>3. ASSUME NEW q \in Calls, q[2] = f PROVE UploadKept(f, q)'
    <3>1. UploadKept(f, q)
      BY <2>3 DEF Kept
    <3> QED BY <3>1, <2>3, <1>k DEF UploadKept, Never
  <2> QED BY <2>1, <2>2, <2>3 DEF Kept, Never
<1>1. CASE UNCHANGED storeVars
  BY <1>k, <1>1 DEF storeVars
<1>2. CASE Tick \/ JanitorWake \/ JanitorDone \/ JanitorSelect \/ JanitorRefused \/ JanitorFails
  <2>1. row' = row /\ promised' = promised /\ upload' = upload
    BY <1>2 DEF Tick, JanitorWake, JanitorDone, JanitorSelect, JanitorRefused, JanitorFails
  <2> QED BY <1>k, <2>1
<1>3. CASE JanitorCommit
  <2>1. /\ row' = [g \in Frags |-> IF g \in janitor.done THEN NoRow ELSE row[g]]
        /\ promised' = promised /\ upload' = upload
    BY <1>3 DEF JanitorCommit
  <2> QED BY <1>k, <1>p, <2>1
<1>4. ASSUME NEW g \in Frags, JanitorRemove(g) PROVE Kept(f)'
  <2>1. g # f
    <3>1. row[g] # NoRow /\ row[g].until <= janitor.now /\ janitor.now <= clock
      BY <1>4 DEF JanitorRemove, Inv, BatchExpired
    <3>2. janitor.now \in Nat /\ clock \in Nat
      BY <1>p DEF StoreTypeOK
    <3>3. f = g => row[g].until = Never
      BY <3>1 DEF Kept
    <3> QED BY <3>1, <3>2, <3>3, <1>p
  <2>2. \A q \in Calls : q[2] = f => upload'[q] = upload[q]
    BY <1>4, <2>1 DEF JanitorRemove
  <2>3. row' = row /\ promised' = promised
    BY <1>4 DEF JanitorRemove
  <2> QED BY <1>k, <2>2, <2>3
<1>5. CASE ServerCrash
  <2>1. ASSUME NEW q \in Calls, q[2] = f, upload'[q] # upload[q] PROVE UploadKept(f, q)'
    <3>1. Running(q[1], q[2]) /\ upload'[q] = [upload[q] EXCEPT !.pc = "failed"]
      BY <1>5, <2>1 DEF ServerCrash
    <3>2. upload[q].pc # "idle"
      BY <3>1, CallIs DEF Running
    <3>3. upload'[q].pc = "failed" /\ upload'[q].until = upload[q].until
      BY <3>1, <1>p DEF Upload
    <3> QED BY <2>1, <3>2, <3>3 DEF Kept, UploadKept, Never
  <2> QED BY <1>k, <1>5, <2>1 DEF ServerCrash
<1>6. ASSUME NEW c, NEW g, NEW ttl \in Nat, UploadBegin(c, g, ttl), FirstUpload(c, g, ttl)
      PROVE  Kept(f)'
  <2>1. ASSUME NEW q \in Calls, q[2] = f, upload'[q] # upload[q] PROVE UploadKept(f, q)'
    <3>1. q = <<c, g>> /\ g = f
      BY <1>6, <1>p, <2>1, CallIs DEF UploadBegin
    <3>2. ttl = 0
      BY <1>6, <3>1 DEF FirstUpload
    <3>3. upload'[q] = [pc |-> "open", until |-> Never, linked |-> FALSE]
      BY <1>6, <1>p, <3>1, <3>2 DEF UploadBegin, Until
    <3> QED BY <3>3 DEF UploadKept, Never
  <2>2. row' = row /\ promised' = promised
    BY <1>6 DEF UploadBegin
  <2> QED BY <1>k, <2>1, <2>2
<1>7. ASSUME NEW q \in Calls, \/ UploadOpen(q[1], q[2]) \/ UploadWrite(q[1], q[2])
                              \/ UploadFails(q[1], q[2])
      PROVE  Kept(f)'
  <2>1. row' = row /\ promised' = promised /\ \A p \in Calls : p # q => upload'[p] = upload[p]
    BY <1>7, <1>p, CallIs DEF UploadOpen, UploadWrite, UploadFails
  <2>2. ASSUME q[2] = f PROVE UploadKept(f, q)'
    <3>1. UploadKept(f, q) /\ q = <<q[1], q[2]>>
      BY <2>2, CallIs DEF Kept
    <3>2. CASE UploadOpen(q[1], q[2])
      <4>1. /\ upload[q].pc = "open"
            /\ upload' = [upload EXCEPT ![q] = [upload[q] EXCEPT !.pc = "write", !.linked = TRUE]]
        BY <3>1, <3>2 DEF UploadOpen
      <4>2. upload'[q].pc = "write" /\ upload'[q].linked /\ upload'[q].until = upload[q].until
        BY <4>1, <1>p DEF Upload
      <4> QED BY <3>1, <4>1, <4>2 DEF UploadKept, Never
    <3>3. CASE UploadWrite(q[1], q[2])
      <4>1. upload[q].pc = "write" /\ upload' = [upload EXCEPT ![q] = [upload[q] EXCEPT !.pc = "row"]]
        BY <3>1, <3>3 DEF UploadWrite
      <4>2. /\ upload'[q].pc = "row" /\ upload'[q].linked = upload[q].linked
            /\ upload'[q].until = upload[q].until
        BY <4>1, <1>p DEF Upload
      <4> QED BY <3>1, <4>1, <4>2 DEF UploadKept, Never
    <3>4. CASE UploadFails(q[1], q[2])
      <4>1. upload[q].pc # "idle" /\ upload' = [upload EXCEPT ![q] = [upload[q] EXCEPT !.pc = "failed"]]
        BY <3>1, <3>4 DEF UploadFails, Running
      <4>2. upload'[q].pc = "failed" /\ upload'[q].until = upload[q].until
        BY <4>1, <1>p DEF Upload
      <4> QED BY <3>1, <4>1, <4>2 DEF UploadKept, Never
    <3> QED BY <1>7, <3>2, <3>3, <3>4
  <2> QED BY <1>k, <2>1, <2>2
<1>8. ASSUME NEW q \in Calls, UploadCommit(q[1], q[2]) PROVE Kept(f)'
  <2>1. PICK g \in Frags, u \in Nat : g = q[2] /\ u = upload[q].until
    BY <1>p, CallIs, UploadIs
  <2>2. /\ upload[q].pc = "row" /\ row' = [row EXCEPT ![g] = Merged(g, u)]
        /\ upload' = [upload EXCEPT ![q] = [upload[q] EXCEPT !.pc = "ok"]]
        /\ promised' = [promised EXCEPT ![g] =
             IF upload[q].linked THEN Later(promised[g], u) ELSE promised[g]]
    BY <1>8, <2>1, CallIs DEF UploadCommit
  <2>3. CASE g # f
    <3>1. row'[f] = row[f] /\ promised'[f] = promised[f]
      BY <2>2, <2>3, <1>p
    <3>2. \A p \in Calls : p[2] = f => upload'[p] = upload[p]
      BY <2>1, <2>2, <2>3, <1>p
    <3> QED BY <1>k, <3>1, <3>2
  <2>4. CASE g = f
    <3>1. UploadKept(f, q)
      BY <2>1, <2>4 DEF Kept
    <3>2. u = Never /\ upload[q].linked
      BY <2>1, <2>2, <3>1 DEF UploadKept
    <3>3. promised'[f] = Never
      <4>1. promised'[f] = Later(promised[f], Never)
        BY <2>2, <2>4, <3>2, <1>p
      <4>2. Later(promised[f], Never) = Never
        BY <1>p DEF Later, Kept
      <4> QED BY <4>1, <4>2
    <3>4. row'[f].until = Never
      <4>1. row'[f] = Merged(f, Never)
        BY <2>2, <2>4, <3>2, <1>p
      <4>2. Merged(f, Never).until = Never
        BY <1>p DEF Merged, Later, Kept
      <4> QED BY <4>1, <4>2
    <3>5. ASSUME NEW p \in Calls, p[2] = f PROVE UploadKept(f, p)'
      <4>1. UploadKept(f, p)
        BY <3>5 DEF Kept
      <4>2. CASE p = q
        <5>1. upload'[q].pc = "ok" /\ upload'[q].until = Never
          BY <2>1, <2>2, <3>2, <1>p DEF Upload
        <5> QED BY <4>2, <5>1, <3>3 DEF UploadKept, Never
      <4>3. CASE p # q
        <5>1. upload'[p] = upload[p]
          BY <2>2, <4>3, <1>p
        <5> QED BY <4>1, <5>1, <3>3 DEF UploadKept, Never
      <4> QED BY <4>2, <4>3
    <3> QED BY <3>3, <3>4, <3>5 DEF Kept, Never
  <2> QED BY <2>3, <2>4
<1>9. CASE StoreStep
  BY <1>9, <1>2, <1>3, <1>4, <1>5, <1>7, <1>8 DEF StoreStep
<1> QED BY <1>1, <1>6, <1>9, StepKinds

LEMMA NextShared == Inv /\ SharedInv /\ [Next]_vars => SharedInv'
<1> SUFFICES ASSUME Inv, SharedInv, [Next]_vars PROVE SharedInv'
  OBVIOUS
<1>1. clock' \in 0 .. MaxClock
  BY ClockStep DEF SharedInv
<1>2. sharing' \in [Atts -> Stages] /\ (\A a \in Atts : StagesOf(a))'
  BY StagesStep DEF Inv
<1>3. ASSUME NEW a \in Atts, Ttls[a] = {0}, NEW f \in Leaves[a] \cup Nodes[a] PROVE Kept(f)'
  BY <1>3, KeptStep DEF SharedInv
<1> QED BY <1>1, <1>2, <1>3 DEF SharedInv

(* upload_inner: when UploadDone is announced, every fragment below the    *)
(* root, every leaf of the file among them, is in the store, and with the  *)
(* ttl of this client stays there for ever.                                *)
THEOREM SharedFilesComplete == Spec => []SharedIsComplete
<1>1. SharedInv => SharedIsComplete
  <2> SUFFICES ASSUME SharedInv, NEW a \in Atts, sharing[a] = "done",
                      NEW f \in Reachable[a]
               PROVE  StatusOf(a, f) = "ok" /\ (Ttls[a] = {0} => promised[f] = Never)
    BY LeavesReachable DEF SharedIsComplete
  <2>1. f \in Leaves[a] \cup Nodes[a]
    BY ReachableInTree DEF Tree
  <2>2. StatusOf(a, f) = "ok"
    BY <2>1 DEF SharedInv, StagesOf, AllOk
  <2>3. ASSUME Ttls[a] = {0} PROVE promised[f] = Never
    <3>1. PICK q \in Calls : q = <<Uploader[a], f>>
      BY <2>1, TreeCalls
    <3>2. upload[q].pc = "ok" /\ q[2] = f
      BY <2>2, <3>1 DEF StatusOf
    <3> QED BY <2>1, <2>3, <3>2 DEF SharedInv, Kept, UploadKept
  <2> QED BY <2>2, <2>3
<1>2. Spec => []SharedInv
  BY InitShared, NextShared, Invariance, PTL DEF Spec
<1> QED BY <1>1, <1>2, PTL
-----------------------------------------------------------------------------
(* Sums of differences.                                                    *)
Differences(fs, size, m, v) ==
  Len(fs) = m /\ \A k \in 1 .. m : size[fs[k]] = v[k] - v[k - 1]

LEMMA SumsAre ==
  ASSUME NEW fs, NEW size, NEW m \in Nat, NEW v \in [0 .. m -> Nat], Differences(fs, size, m, v)
  PROVE  \A k \in 0 .. m : Sums(fs, size)[k] = v[k] - v[0]
<1>d. Len(fs) = m /\ \A k \in 1 .. m : size[fs[k]] = v[k] - v[k - 1]
  BY DEF Differences
<1> DEFINE Value(c, k) == IF k = 0 THEN 0 ELSE c[k - 1] + size[fs[k]]
           Is(c) == c = [k \in 0 .. m |-> Value(c, k)]
           g == [k \in 0 .. m |-> v[k] - v[0]]
<1>1. Sums(fs, size) = CHOOSE c : Is(c)
  BY <1>d DEF Sums
<1>2. Is(g)
  <2>1. ASSUME NEW k \in 0 .. m PROVE g[k] = Value(g, k)
    <3>1. CASE k = 0
      BY <3>1
    <3>2. CASE k # 0
      <4>1. k \in 1 .. m /\ k - 1 \in 0 .. m
        BY <3>2
      <4>2. g[k - 1] = v[k - 1] - v[0] /\ g[k] = v[k] - v[0]
        BY <4>1
      <4>3. size[fs[k]] = v[k] - v[k - 1]
        BY <1>d, <4>1
      <4>4. v[k] \in Nat /\ v[k - 1] \in Nat /\ v[0] \in Nat
        BY <4>1
      <4> HIDE DEF g
      <4> QED BY <3>2, <4>2, <4>3, <4>4
    <3> QED BY <3>1, <3>2
  <2>2. g = [k \in 0 .. m |-> g[k]]
    OBVIOUS
  <2> HIDE DEF g, Value
  <2> QED BY <2>1, <2>2
<1>3. PICK c : c = Sums(fs, size) /\ Is(c)
  <2> HIDE DEF Is
  <2> QED BY <1>1, <1>2
<1>4. \A k \in 0 .. m : c[k] = Value(c, k)
  <2> HIDE DEF Value
  <2> QED BY <1>3
<1> DEFINE S == {k \in 0 .. m : c[k] # v[k] - v[0]}
<1>5. S = {}
  <2> SUFFICES ASSUME S # {} PROVE FALSE
    OBVIOUS
  <2>1. PICK k \in S : \A y \in S : k <= y
    <3>1. S \in SUBSET Nat
      OBVIOUS
    <3> HIDE DEF S
    <3> QED BY <3>1, LeastElement
  <2>2. k # 0
    BY <1>4, <2>1
  <2>3. k \in 1 .. m /\ k - 1 \in 0 .. m /\ k - 1 \notin S
    BY <2>1, <2>2
  <2>4. c[k - 1] = v[k - 1] - v[0] /\ c[k] = c[k - 1] + size[fs[k]]
    BY <1>4, <2>2, <2>3
  <2>5. size[fs[k]] = v[k] - v[k - 1]
    BY <1>d, <2>3
  <2>6. v[k] \in Nat /\ v[k - 1] \in Nat /\ v[0] \in Nat
    BY <2>3
  <2>7. c[k] = v[k] - v[0]
    BY <2>4, <2>5, <2>6
  <2> QED BY <2>1, <2>7
<1> QED BY <1>3, <1>5

LEMMA Between ==
  ASSUME NEW m \in Nat, NEW v \in [0 .. m -> Nat], NEW p \in Nat, v[0] <= p, p < v[m]
  PROVE  \E j \in 1 .. m : v[j - 1] <= p /\ p < v[j]
<1> DEFINE S == {j \in 0 .. m : p < v[j]}
<1>1. PICK j \in S : \A y \in S : j <= y
  <2>1. S \in SUBSET Nat /\ m \in S
    OBVIOUS
  <2> HIDE DEF S
  <2> QED BY <2>1, LeastElement
<1>2. j # 0
  BY <1>1
<1>3. j \in 1 .. m /\ j - 1 \in 0 .. m /\ j - 1 \notin S
  BY <1>1, <1>2
<1>4. v[j - 1] \in Nat
  BY <1>3
<1> QED BY <1>1, <1>3, <1>4
-----------------------------------------------------------------------------
(* Where the file of an attachment is cut on every level: the k-th         *)
(* fragment of level n is what lies between Cuts(a)[n][k - 1] and          *)
(* Cuts(a)[n][k].                                                          *)
LeafCuts(a) == [j \in Nat |-> Lesser(j * ChunkSize, TotalSize[a])]
Coarser == [s \in [Nat -> Nat] |-> [j \in Nat |-> s[j * MaxFanout]]]
Cuts(a) == CHOOSE g : Goes(g, [Nat -> Nat], Height(a), LeafCuts(a), Coarser)

LEMMA CutsAre ==
  ASSUME NEW a \in Atts
  PROVE  /\ Cuts(a) \in [0 .. Height(a) -> [Nat -> Nat]]
         /\ \A j \in Nat : Cuts(a)[0][j] = Lesser(j * ChunkSize, TotalSize[a])
         /\ \A n \in 1 .. Height(a) : \A j \in Nat : Cuts(a)[n][j] = Cuts(a)[n - 1][j * MaxFanout]
<1>1. PICK h \in Nat : h = Height(a)
  BY HeightIs, ChunkCountIs
<1>2. PICK T : T = [Nat -> Nat]
  OBVIOUS
<1>3. PICK base \in T : base = LeafCuts(a)
  <2>1. \A j \in Nat : Lesser(j * ChunkSize, TotalSize[a]) \in Nat
    <3> SUFFICES ASSUME NEW j \in Nat PROVE Lesser(j * ChunkSize, TotalSize[a]) \in Nat
      OBVIOUS
    <3>1. j * ChunkSize \in Nat /\ TotalSize[a] \in Nat
      BY TreeShape, SizesAreNat
    <3> QED BY <3>1 DEF Lesser
  <2>2. LeafCuts(a) \in T
    BY <1>2, <2>1 DEF LeafCuts
  <2> QED BY <2>2
<1>4. PICK step \in [T -> T] : step = Coarser
  <2>1. \A j \in Nat : j * MaxFanout \in Nat
    BY TreeShape
  <2>2. \A s \in T : [j \in Nat |-> s[j * MaxFanout]] \in T
    BY <1>2, <2>1
  <2>3. Coarser \in [T -> T]
    BY <1>2, <2>2 DEF Coarser
  <2> QED BY <2>3
<1>5. Goes(Cuts(a), T, h, base, step)
  <2>1. \E g : Goes(g, T, h, base, step)
    BY GoesExists
  <2>2. Cuts(a) = CHOOSE g : Goes(g, T, h, base, step)
    BY <1>1, <1>2, <1>3, <1>4 DEF Cuts
  <2> QED BY <2>1, <2>2
<1>6. PICK c : c = Cuts(a)
  OBVIOUS
<1>7. c \in [0 .. h -> T] /\ c[0] = base /\ \A i \in 1 .. h : c[i] = step[c[i - 1]]
  BY <1>5, <1>6 DEF Goes
<1>8. \A j \in Nat : c[0][j] = Lesser(j * ChunkSize, TotalSize[a])
  BY <1>3, <1>7 DEF LeafCuts
<1>9. ASSUME NEW n \in 1 .. h, NEW j \in Nat PROVE c[n][j] = c[n - 1][j * MaxFanout]
  <2>1. c[n - 1] \in T /\ c[n] = step[c[n - 1]]
    BY <1>7
  <2>2. step[c[n - 1]] = [i \in Nat |-> c[n - 1][i * MaxFanout]]
    BY <1>2, <1>4, <2>1 DEF Coarser
  <2> QED BY <2>1, <2>2
<1> QED BY <1>1, <1>2, <1>6, <1>7, <1>8, <1>9

LEMMA CutIsNat ==
  ASSUME NEW a \in Atts, NEW n \in 0 .. Height(a), NEW j \in Nat
  PROVE  Cuts(a)[n][j] \in Nat
BY CutsAre

(* They go up from 0 to the size of the file.                              *)
LEMMA CutsGoUp ==
  ASSUME NEW a \in Atts, NEW n \in 0 .. Height(a), NEW i \in Nat, NEW j \in Nat, i <= j
  PROVE  Cuts(a)[n][i] <= Cuts(a)[n][j]
<1>1. PICK h \in Nat : h = Height(a)
  BY HeightIs, ChunkCountIs
<1> DEFINE S == {m \in 0 .. h : \E x \in Nat, y \in Nat : x <= y /\ ~(Cuts(a)[m][x] <= Cuts(a)[m][y])}
<1> SUFFICES ASSUME S # {} PROVE FALSE
  BY <1>1
<1>2. PICK k \in S : \A y \in S : k <= y
  <2>1. S \in SUBSET Nat
    OBVIOUS
  <2> HIDE DEF S
  <2> QED BY <2>1, LeastElement
<1>3. PICK x \in Nat, y \in Nat : x <= y /\ ~(Cuts(a)[k][x] <= Cuts(a)[k][y])
  BY <1>2
<1>4. CASE k = 0
  <2>1. PICK u \in Nat, w \in Nat : u = x * ChunkSize /\ w = y * ChunkSize /\ u <= w
    BY <1>3, TreeShape
  <2>2. Cuts(a)[0][x] = Lesser(u, TotalSize[a]) /\ Cuts(a)[0][y] = Lesser(w, TotalSize[a])
    BY <2>1, CutsAre
  <2>3. TotalSize[a] \in Nat
    BY SizesAreNat
  <2> QED BY <1>3, <1>4, <2>1, <2>2, <2>3 DEF Lesser
<1>5. CASE k # 0
  <2>1. k \in 1 .. h /\ k - 1 \in 0 .. h /\ k - 1 \notin S
    BY <1>2, <1>5
  <2>2. PICK u \in Nat, w \in Nat : u = x * MaxFanout /\ w = y * MaxFanout /\ u <= w
    BY <1>3, TreeShape
  <2>3. Cuts(a)[k - 1][u] <= Cuts(a)[k - 1][w]
    BY <2>1, <2>2
  <2>4. Cuts(a)[k][x] = Cuts(a)[k - 1][u] /\ Cuts(a)[k][y] = Cuts(a)[k - 1][w]
    BY <1>1, <2>1, <2>2, CutsAre, ZenonT(60)
  <2> QED BY <1>3, <2>3, <2>4
<1> QED BY <1>4, <1>5

LEMMA CutsFromTo ==
  ASSUME NEW a \in Atts, NEW n \in 0 .. Height(a)
  PROVE  /\ Cuts(a)[n][0] = 0
         /\ Cuts(a)[n][Counts[a][n]] = TotalSize[a]
         /\ \A j \in Nat : Cuts(a)[n][j] <= TotalSize[a]
<1>1. PICK h \in Nat : h = Height(a) /\ h <= ChunkCount(a) /\ ChunkCount(a) \in Nat
  BY HeightIs, ChunkCountIs
<1>2. PICK F \in Nat \ {0, 1} : F = MaxFanout
  BY TreeShape
<1>3. PICK t \in Nat : t = TotalSize[a]
  BY SizesAreNat
<1>c. \A m \in 0 .. h : Counts[a][m] \in Nat
  <2>1. \A m \in 0 .. h : m \in 0 .. ChunkCount(a)
    BY <1>1
  <2>2. Counts[a] \in [0 .. ChunkCount(a) -> Nat]
    BY CountsAre
  <2> QED BY <2>1, <2>2
<1> DEFINE Fine(m) == /\ Cuts(a)[m][0] = 0 /\ Cuts(a)[m][Counts[a][m]] = t
                      /\ \A j \in Nat : Cuts(a)[m][j] <= t
           S == {m \in 0 .. h : ~Fine(m)}
<1> SUFFICES ASSUME S # {} PROVE FALSE
  BY <1>1, <1>3
<1>4. PICK k \in S : \A y \in S : k <= y
  <2>1. S \in SUBSET Nat
    OBVIOUS
  <2> HIDE DEF S
  <2> QED BY <2>1, LeastElement
<1>5. CASE k = 0
  <2>1. \A j \in Nat : Cuts(a)[0][j] = Lesser(j * ChunkSize, t)
    BY <1>3, CutsAre
  <2>2. PICK b \in Nat \ {0} : b = ChunkSize
    BY TreeShape
  <2>3. PICK c \in Nat : c = Counts[a][0] /\ t <= b * c
    BY <1>3, <2>2, CountsAre, CeilIs DEF ChunkCount
  <2>4. Cuts(a)[0][0] = 0
    <3>1. Cuts(a)[0][0] = Lesser(0 * b, t) /\ 0 * b = 0
      BY <2>1, <2>2
    <3> QED BY <3>1 DEF Lesser
  <2>5. Cuts(a)[0][c] = t
    <3>1. Cuts(a)[0][c] = Lesser(c * b, t)
      BY <2>1, <2>2
    <3>2. c * b \in Nat /\ t <= c * b
      BY <2>3
    <3> QED BY <3>1, <3>2 DEF Lesser
  <2>6. ASSUME NEW j \in Nat PROVE Cuts(a)[0][j] <= t
    <3>1. PICK u \in Nat : u = j * b
      OBVIOUS
    <3> QED BY <2>1, <2>2, <3>1 DEF Lesser
  <2> QED BY <1>4, <1>5, <2>3, <2>4, <2>5, <2>6
<1>6. CASE k # 0
  <2>1. k \in 1 .. h /\ k - 1 \in 0 .. h /\ k - 1 \notin S
    BY <1>4, <1>6
  <2>2. Fine(k - 1)
    BY <2>1
  <2>3. PICK x \in Nat, y \in Nat : x = Counts[a][k - 1] /\ y = Counts[a][k]
    BY <1>c, <2>1
  <2>4. y = Ceil(x, F)
    <3>1. k \in 1 .. ChunkCount(a) /\ k - 1 < Height(a) /\ k - 1 \in 0 .. ChunkCount(a)
      BY <1>1, <2>1
    <3> QED BY <1>2, <2>3, <3>1, CountsAre, HeightIs
  <2>5. PICK z \in Nat : z = y * F /\ x <= z
    <3>1. x <= F * y /\ F * y = y * F
      BY <2>4, CeilIs
    <3> QED BY <3>1
  <2>6. ASSUME NEW j \in Nat PROVE j * F \in Nat /\ Cuts(a)[k][j] = Cuts(a)[k - 1][j * F]
    <3>1. j * F \in Nat
      OBVIOUS
    <3>2. Cuts(a)[k][j] = Cuts(a)[k - 1][j * MaxFanout]
      BY <1>1, <2>1, CutsAre, ZenonT(60)
    <3> QED BY <1>2, <3>1, <3>2
  <2>7. Cuts(a)[k][0] = 0
    <3>1. Cuts(a)[k][0] = Cuts(a)[k - 1][0 * F] /\ 0 * F = 0
      BY <2>6
    <3> QED BY <2>2, <3>1
  <2>8. \A j \in Nat : Cuts(a)[k][j] <= t
    BY <2>2, <2>6
  <2>9. Cuts(a)[k][y] = t
    <3>1. Cuts(a)[k][y] = Cuts(a)[k - 1][z]
      BY <2>5, <2>6
    <3>2. Cuts(a)[k - 1][x] = t /\ Cuts(a)[k - 1][z] <= t
      BY <2>2, <2>3
    <3>3. k - 1 \in 0 .. Height(a)
      BY <1>1, <2>1
    <3>4. Cuts(a)[k - 1][x] <= Cuts(a)[k - 1][z] /\ Cuts(a)[k - 1][z] \in Nat
      BY <2>5, <3>3, CutsGoUp, CutIsNat
    <3> QED BY <3>1, <3>2, <3>4
  <2>10. Fine(k)
    BY <2>3, <2>7, <2>8, <2>9
  <2> QED BY <1>4, <2>10
<1> QED BY <1>5, <1>6
-----------------------------------------------------------------------------
(* Where a fragment begins and ends in its file.                           *)
Begin(f) == Cuts(f[1])[f[2]][f[3] - 1]
End(f) == Cuts(f[1])[f[2]][f[3]]

AllFrags == UNION {Leaves[a] \cup Nodes[a] : a \in Atts}
SizeOf == [f \in AllFrags |-> End(f) - Begin(f)]

LEMMA LevelIs ==
  ASSUME NEW a \in Atts, NEW n \in 0 .. Height(a)
  PROVE  Counts[a][n] \in Nat /\ \A k \in 1 .. Counts[a][n] : <<a, n, k>> \in AllFrags
<1>1. Counts[a][n] \in Nat
  <2>1. n \in 0 .. ChunkCount(a)
    BY HeightIs, ChunkCountIs
  <2> QED BY <2>1, CountsAre
<1> QED BY <1>1, LevelIn DEF Tree, AllFrags

LEMMA FragIs ==
  ASSUME NEW f \in AllFrags
  PROVE  \E a \in Atts : \E n \in 0 .. Height(a) : \E k \in 1 .. Counts[a][n] :
           /\ f = <<a, n, k>> /\ (IsNode(f) <=> n # 0)
<1>1. PICK a \in Atts : f \in Leaves[a] \cup Nodes[a]
  BY DEF AllFrags
<1>2. Height(a) \in Nat
  BY HeightIs, ChunkCountIs
<1>3. CASE f \in Leaves[a]
  <2>1. PICK i \in 1 .. Counts[a][0] : f = <<a, 0, i>>
    BY <1>3, TreeIs
  <2>2. 0 \in 0 .. Height(a) /\ ~IsNode(f)
    BY <1>2, <2>1 DEF IsNode
  <2> QED BY <2>1, <2>2
<1>4. CASE f \in Nodes[a]
  <2>1. PICK n \in 1 .. Height(a) : \E k \in 1 .. Counts[a][n] : f = <<a, n, k>>
    BY <1>4, TreeIs
  <2>2. PICK k \in 1 .. Counts[a][n] : f = <<a, n, k>>
    BY <2>1
  <2>3. n \in 0 .. Height(a) /\ n # 0 /\ IsNode(f)
    BY <1>2, <2>2 DEF IsNode
  <2> QED BY <2>2, <2>3
<1> QED BY <1>1, <1>3, <1>4

LEMMA BeginIs ==
  ASSUME NEW f \in AllFrags
  PROVE  Begin(f) \in Nat /\ End(f) \in Nat /\ Begin(f) <= End(f)
<1>1. PICK a \in Atts : \E n \in 0 .. Height(a) : \E k \in 1 .. Counts[a][n] : f = <<a, n, k>>
  BY FragIs
<1>2. PICK n \in 0 .. Height(a) : \E k \in 1 .. Counts[a][n] : f = <<a, n, k>>
  BY <1>1
<1>3. PICK k \in 1 .. Counts[a][n] : f = <<a, n, k>>
  BY <1>2
<1>4. k \in Nat /\ k - 1 \in Nat /\ k - 1 <= k
  BY LevelIs
<1> QED BY <1>3, <1>4, CutIsNat, CutsGoUp DEF Begin, End

(* The children of a node fill it, one after the other.                    *)
Fills(f, m, v) ==
  LET ch == Children[f] IN
  /\ Len(ch) = m /\ DOMAIN ch = 1 .. m
  /\ v[0] = Begin(f) /\ v[m] = End(f)
  /\ \A j \in 1 .. m :
       /\ ch[j] \in Tree(f[1]) /\ ch[j][1] = f[1] /\ ch[j][2] = f[2] - 1
       /\ Begin(ch[j]) = v[j - 1] /\ End(ch[j]) = v[j]

LEMMA ChildrenFill ==
  ASSUME NEW a \in Atts, NEW n \in 1 .. Height(a), NEW k \in 1 .. Counts[a][n]
  PROVE  \E m \in Nat \ {0} : \E v \in [0 .. m -> Nat] : Fills(<<a, n, k>>, m, v)
<1>1. PICK m \in Nat \ {0}, lo \in Nat :
        /\ lo = (k - 1) * MaxFanout /\ lo + m = Lesser(k * MaxFanout, Counts[a][n - 1])
        /\ Len(Children[<<a, n, k>>]) = m /\ DOMAIN Children[<<a, n, k>>] = 1 .. m
        /\ \A j \in 1 .. m : Children[<<a, n, k>>][j] = <<a, n - 1, lo + j>>
  BY ChildAt
<1>2. PICK g \in [Nat -> Nat] : g = Cuts(a)[n - 1]
  <2>1. n - 1 \in 0 .. Height(a)
    BY HeightIs, ChunkCountIs
  <2> QED BY <2>1, CutsAre
<1>3. n - 1 \in 0 .. Height(a) /\ n \in 0 .. Height(a) /\ k \in Nat \ {0} /\ k - 1 \in Nat
  BY LevelIs, HeightIs, ChunkCountIs
<1>4. PICK x \in Nat : x = Counts[a][n - 1]
  BY <1>3, LevelIs
<1>5. PICK top \in Nat : top = k * MaxFanout
  BY <1>3, TreeShape
<1>6. lo + m <= x /\ lo + m <= top /\ lo + m \in {x, top}
  <2>1. lo + m = Lesser(top, x)
    BY <1>1, <1>4, <1>5
  <2>2. Lesser(top, x) = (IF top < x THEN top ELSE x)
    BY DEF Lesser
  <2> QED BY <2>1, <2>2
<1> DEFINE v == [j \in 0 .. m |-> g[lo + j]]
           f == <<a, n, k>>
           ch == Children[f]
<1>7. v \in [0 .. m -> Nat]
  OBVIOUS
<1>8. v[0] = Begin(f)
  <2>1. Begin(f) = Cuts(a)[n][k - 1]
    BY DEF Begin
  <2>2. Cuts(a)[n][k - 1] = g[lo]
    BY <1>1, <1>2, <1>3, CutsAre, ZenonT(60)
  <2> QED BY <2>1, <2>2
<1>9. v[m] = End(f)
  <2>1. End(f) = Cuts(a)[n][k]
    BY DEF End
  <2>2. Cuts(a)[n][k] = g[top]
    BY <1>2, <1>3, <1>5, CutsAre
  <2>3. g[x] = TotalSize[a] /\ (x <= top => g[x] <= g[top]) /\ g[top] <= TotalSize[a]
    BY <1>2, <1>3, <1>4, CutsFromTo, CutsGoUp
  <2>4. g[lo + m] = g[top]
    <3>1. CASE lo + m = top
      BY <3>1
    <3>2. CASE lo + m = x
      <4>1. g[x] \in Nat /\ g[top] \in Nat
        OBVIOUS
      <4> QED BY <1>6, <2>3, <3>2, <4>1
    <3> QED BY <1>6, <3>1, <3>2
  <2> QED BY <2>1, <2>2, <2>4
<1>10. ASSUME NEW j \in 1 .. m
       PROVE  /\ ch[j] \in Tree(a) /\ ch[j][1] = a /\ ch[j][2] = n - 1
              /\ Begin(ch[j]) = v[j - 1] /\ End(ch[j]) = v[j]
  <2>1. ch[j] = <<a, n - 1, lo + j>>
    BY <1>1
  <2>2. lo + j \in 1 .. x /\ (lo + j) - 1 = lo + (j - 1) /\ j - 1 \in 0 .. m /\ j \in 0 .. m
    BY <1>6
  <2>3. ch[j] \in Tree(a)
    BY <1>3, <1>4, <2>1, <2>2, LevelIn
  <2>4. Begin(ch[j]) = g[lo + j - 1] /\ End(ch[j]) = g[lo + j]
    BY <1>2, <2>1 DEF Begin, End
  <2>5. v[j - 1] = g[lo + (j - 1)] /\ v[j] = g[lo + j]
    BY <2>2
  <2> QED BY <2>1, <2>2, <2>3, <2>4, <2>5
<1> HIDE DEF v
<1>11. Fills(f, m, v)
  BY <1>1, <1>8, <1>9, <1>10 DEF Fills
<1> HIDE DEF f
<1> QED BY <1>7, <1>11 DEF f

(* FragmentNode::total_size: the sizes of the children add up to the piece *)
(* of the file that the node stands for, if theirs are right.              *)
LEMMA NodeSize ==
  ASSUME NEW a \in Atts, NEW n \in 1 .. Height(a), NEW k \in 1 .. Counts[a][n], NEW size,
         \A i \in 1 .. Counts[a][n - 1] : size[<<a, n - 1, i>>] = SizeOf[<<a, n - 1, i>>]
  PROVE  LET ch == Children[<<a, n, k>>] IN
         Sums(ch, size)[Len(ch)] = SizeOf[<<a, n, k>>]
<1>1. PICK f : f = <<a, n, k>> /\ f \in AllFrags
  <2>1. n \in 0 .. Height(a)
    BY HeightIs
  <2> QED BY <2>1, LevelIs
<1>2. PICK ch : ch = Children[f]
  OBVIOUS
<1>m. PICK m \in Nat \ {0} : \E v \in [0 .. m -> Nat] : Fills(f, m, v)
  BY <1>1, ChildrenFill
<1>v. PICK v \in [0 .. m -> Nat] : Fills(f, m, v)
  BY <1>m
<1>3. /\ Len(ch) = m /\ v[0] = Begin(f) /\ v[m] = End(f)
      /\ \A j \in 1 .. m :
           /\ ch[j] \in Tree(a) /\ ch[j][1] = a /\ ch[j][2] = n - 1
           /\ Begin(ch[j]) = v[j - 1] /\ End(ch[j]) = v[j]
  BY <1>1, <1>2, <1>v DEF Fills
<1>4. ASSUME NEW j \in 1 .. m PROVE size[ch[j]] = v[j] - v[j - 1]
  <2>1. ch[j] \in AllFrags /\ ch[j][1] = a /\ ch[j][2] = n - 1
    BY <1>3 DEF Tree, AllFrags
  <2>2. SizeOf[ch[j]] = v[j] - v[j - 1]
    BY <1>3, <2>1 DEF SizeOf
  <2>3. \E i \in 1 .. Counts[a][n - 1] : ch[j] = <<a, n - 1, i>>
    <3>1. PICK b \in Atts : \E l \in 0 .. Height(b) : \E i \in 1 .. Counts[b][l] : ch[j] = <<b, l, i>>
      BY <2>1, FragIs
    <3>2. PICK l \in 0 .. Height(b) : \E i \in 1 .. Counts[b][l] : ch[j] = <<b, l, i>>
      BY <3>1
    <3>3. PICK i \in 1 .. Counts[b][l] : ch[j] = <<b, l, i>>
      BY <3>2
    <3> QED BY <2>1, <3>3
  <2> QED BY <2>2, <2>3
<1>5. m \in 0 .. m /\ m \in Nat
  OBVIOUS
<1>6. Sums(ch, size)[m] = v[m] - v[0]
  <2>1. Differences(ch, size, m, v)
    BY <1>3, <1>4 DEF Differences
  <2>2. \A j \in 0 .. m : Sums(ch, size)[j] = v[j] - v[0]
    <3>1. v \in [0 .. m -> Nat] /\ m \in Nat
      BY <1>v
    <3> QED BY <2>1, <3>1, SumsAre
  <2> QED BY <1>5, <2>2
<1>7. SizeOf[f] = v[m] - v[0]
  BY <1>1, <1>3 DEF SizeOf
<1> QED BY <1>1, <1>2, <1>3, <1>6, <1>7

LEMMA LeafSize ==
  ASSUME NEW a \in Atts, NEW i \in 1 .. Counts[a][0]
  PROVE  /\ SizeOf[<<a, 0, i>>] = ChunkLen(<<a, 0, i>>)
         /\ Begin(<<a, 0, i>>) = (i - 1) * ChunkSize
         /\ Begin(<<a, 0, i>>) < TotalSize[a]
<1>1. PICK t \in Nat, b \in Nat \ {0} : t = TotalSize[a] /\ b = ChunkSize
  BY SizesAreNat, TreeShape
<1>2. i \in 1 .. Ceil(t, b)
  BY <1>1, CountsAre DEF ChunkCount
<1>3. PICK u \in Nat : u = (i - 1) * b /\ u < t
  BY <1>2, PartBegins
<1>4. i \in Nat \ {0} /\ i - 1 \in Nat
  BY <1>2, <1>1, CeilIs
<1>5. PICK w \in Nat : w = i * b /\ w = u + b
  <2>1. i * b = (i - 1) * b + b /\ i * b \in Nat
    BY <1>4
  <2> QED BY <1>3, <2>1
<1>6. Begin(<<a, 0, i>>) = u
  <2>1. Begin(<<a, 0, i>>) = Lesser(u, t)
    BY <1>1, <1>3, <1>4, CutsAre DEF Begin
  <2> QED BY <2>1, <1>3 DEF Lesser
<1>7. End(<<a, 0, i>>) = Lesser(w, t)
  <2>1. End(<<a, 0, i>>) = Cuts(a)[0][i]
    BY DEF End
  <2>2. \A j \in Nat : Cuts(a)[0][j] = Lesser(j * b, t)
    BY <1>1, CutsAre
  <2> QED BY <1>4, <1>5, <2>1, <2>2
<1>8. <<a, 0, i>> \in AllFrags
  <2>1. 0 \in 0 .. Height(a)
    BY HeightIs, ChunkCountIs
  <2> QED BY <2>1, LevelIs
<1>9. SizeOf[<<a, 0, i>>] = Lesser(w, t) - u
  BY <1>6, <1>7, <1>8 DEF SizeOf
<1>10. ChunkLen(<<a, 0, i>>) = Lesser(b, t - u)
  BY <1>1, <1>3 DEF ChunkLen
<1>11. Lesser(w, t) - u = Lesser(b, t - u)
  BY <1>3, <1>5 DEF Lesser
<1> QED BY <1>1, <1>3, <1>6, <1>9, <1>10, <1>11

(* The sizes kept with the hashes are those of the pieces.                 *)
LEMMA SizesAre == Sizes = SizeOf
<1> DEFINE Value(s, f) == IF IsNode(f) THEN Sums(Children[f], s)[Len(Children[f])] ELSE ChunkLen(f)
           Is(s) == s = [f \in AllFrags |-> Value(s, f)]
<1>1. Sizes = CHOOSE s : Is(s)
  BY DEF Sizes, AllFrags
<1>2. ASSUME NEW s, NEW a \in Atts, NEW n \in 0 .. Height(a), NEW k \in 1 .. Counts[a][n],
             n # 0 => \A i \in 1 .. Counts[a][n - 1] : s[<<a, n - 1, i>>] = SizeOf[<<a, n - 1, i>>]
      PROVE  Value(s, <<a, n, k>>) = SizeOf[<<a, n, k>>]
  <2>1. CASE n = 0
    <3>1. ~IsNode(<<a, n, k>>)
      BY <2>1 DEF IsNode
    <3> QED BY <2>1, <3>1, LeafSize
  <2>2. CASE n # 0
    <3>1. n \in 1 .. Height(a) /\ IsNode(<<a, n, k>>)
      BY <2>2, HeightIs, ChunkCountIs DEF IsNode
    <3> QED BY <1>2, <2>2, <3>1, NodeSize
  <2> QED BY <2>1, <2>2
<1>3. Is(SizeOf)
  <2>1. ASSUME NEW f \in AllFrags PROVE SizeOf[f] = Value(SizeOf, f)
    <3> HIDE DEF Value
    <3>1. PICK a \in Atts : \E n \in 0 .. Height(a) : \E k \in 1 .. Counts[a][n] : f = <<a, n, k>>
      BY FragIs
    <3>2. PICK n \in 0 .. Height(a) : \E k \in 1 .. Counts[a][n] : f = <<a, n, k>>
      BY <3>1
    <3>3. PICK k \in 1 .. Counts[a][n] : f = <<a, n, k>>
      BY <3>2
    <3> QED BY <1>2, <3>3
  <2>2. SizeOf = [f \in AllFrags |-> SizeOf[f]]
    BY DEF SizeOf
  <2> HIDE DEF Value
  <2> QED BY <2>1, <2>2
<1>4. PICK s : s = Sizes /\ Is(s)
  <2> HIDE DEF Is
  <2> QED BY <1>1, <1>3
<1>5. \A f \in AllFrags : s[f] = Value(s, f)
  <2> HIDE DEF Value
  <2> QED BY <1>4
<1> DEFINE Wrong(a, n) == n <= Height(a) /\ \E k \in 1 .. Counts[a][n] : s[<<a, n, k>>] # SizeOf[<<a, n, k>>]
           S == {n \in Nat : \E a \in Atts : Wrong(a, n)}
<1>6. S = {}
  <2> SUFFICES ASSUME S # {} PROVE FALSE
    OBVIOUS
  <2>1. PICK n \in S : \A y \in S : n <= y
    <3>1. S \in SUBSET Nat
      OBVIOUS
    <3> HIDE DEF S
    <3> QED BY <3>1, LeastElement
  <2>2. PICK a \in Atts : Wrong(a, n)
    BY <2>1
  <2>3. n \in 0 .. Height(a)
    BY <2>1, <2>2, HeightIs, ChunkCountIs
  <2>4. PICK k \in 1 .. Counts[a][n] : s[<<a, n, k>>] # SizeOf[<<a, n, k>>]
    BY <2>2
  <2>5. n # 0 => \A i \in 1 .. Counts[a][n - 1] : s[<<a, n - 1, i>>] = SizeOf[<<a, n - 1, i>>]
    <3> SUFFICES ASSUME n # 0
                 PROVE  \A i \in 1 .. Counts[a][n - 1] : s[<<a, n - 1, i>>] = SizeOf[<<a, n - 1, i>>]
      OBVIOUS
    <3>1. n - 1 \in Nat /\ n - 1 <= Height(a) /\ ~(n <= n - 1)
      BY <2>1, <2>3, HeightIs, ChunkCountIs
    <3>2. n - 1 \notin S
      BY <2>1, <3>1
    <3>3. ~Wrong(a, n - 1)
      BY <3>1, <3>2
    <3> QED BY <3>1, <3>3
  <2>6. <<a, n, k>> \in AllFrags
    BY <2>3, LevelIs
  <2> HIDE DEF Value
  <2> QED BY <1>2, <1>5, <2>3, <2>4, <2>5, <2>6
<1>7. ASSUME NEW f \in AllFrags PROVE s[f] = SizeOf[f]
  <2>1. PICK a \in Atts : \E n \in 0 .. Height(a) : \E k \in 1 .. Counts[a][n] : f = <<a, n, k>>
    BY FragIs
  <2>2. PICK n \in 0 .. Height(a) : \E k \in 1 .. Counts[a][n] : f = <<a, n, k>>
    BY <2>1
  <2>3. PICK k \in 1 .. Counts[a][n] : f = <<a, n, k>>
    BY <2>2
  <2>4. n \in Nat /\ n <= Height(a)
    BY HeightIs, ChunkCountIs
  <2>5. n \notin S
    BY <1>6
  <2>6. ~Wrong(a, n)
    BY <2>4, <2>5
  <2> QED BY <2>3, <2>4, <2>6
<1>8. s = [f \in AllFrags |-> s[f]]
  <2> HIDE DEF Value
  <2> QED BY <1>4
<1> QED BY <1>4, <1>7, <1>8 DEF SizeOf
-----------------------------------------------------------------------------
(* What is left to fetch: fragments of the tree, each with the offset at   *)
(* which it begins in the file.                                            *)
Items(a) == {[frag |-> f, offset |-> Begin(f)] : f \in Tree(a)}

(* Fragments that lie one after the other.                                 *)
InARow(a, fs, m, v) ==
  /\ Len(fs) = m /\ DOMAIN fs = 1 .. m
  /\ \A j \in 1 .. m : fs[j] \in Tree(a) /\ Begin(fs[j]) = v[j - 1] /\ End(fs[j]) = v[j]

(* A leaf that is below a fragment.                                        *)
Above(item, i) ==
  Begin(item.frag) <= (i - 1) * ChunkSize /\ (i - 1) * ChunkSize < End(item.frag)

LEMMA OffsetsAre ==
  ASSUME NEW a \in Atts, NEW fs, NEW m \in Nat, NEW v \in [0 .. m -> Nat], InARow(a, fs, m, v)
  PROVE  /\ WithOffsets(fs, v[0]) \in [1 .. m -> Items(a)]
         /\ \A i \in Nat : v[0] <= (i - 1) * ChunkSize /\ (i - 1) * ChunkSize < v[m] /\ i # 0 =>
              \E j \in 1 .. m : Above(WithOffsets(fs, v[0])[j], i)
<1>1. /\ Len(fs) = m /\ DOMAIN fs = 1 .. m
      /\ \A j \in 1 .. m : fs[j] \in Tree(a) /\ Begin(fs[j]) = v[j - 1] /\ End(fs[j]) = v[j]
  BY DEF InARow
<1>2. Differences(fs, SizeOf, m, v)
  <2>1. ASSUME NEW j \in 1 .. m PROVE SizeOf[fs[j]] = v[j] - v[j - 1]
    <3>1. fs[j] \in AllFrags
      BY <1>1 DEF Tree, AllFrags
    <3> QED BY <1>1, <3>1 DEF SizeOf
  <2> QED BY <1>1, <2>1 DEF Differences
<1>3. \A k \in 0 .. m : Sums(fs, SizeOf)[k] = v[k] - v[0]
  BY <1>2, SumsAre
<1> DEFINE items == WithOffsets(fs, v[0])
<1>4. items = [k \in 1 .. m |-> [frag |-> fs[k], offset |-> v[0] + Sums(fs, SizeOf)[k - 1]]]
  BY <1>1, SizesAre DEF WithOffsets
<1>5. ASSUME NEW j \in 1 .. m PROVE items[j] = [frag |-> fs[j], offset |-> Begin(fs[j])]
  <2>1. j - 1 \in 0 .. m /\ 0 \in 0 .. m
    OBVIOUS
  <2>2. v[j - 1] \in Nat /\ v[0] \in Nat
    BY <2>1
  <2>3. v[0] + Sums(fs, SizeOf)[j - 1] = Begin(fs[j])
    BY <1>1, <1>3, <2>1, <2>2
  <2> HIDE DEF items
  <2> QED BY <1>4, <2>3
<1>6. \A j \in 1 .. m : items[j] \in Items(a)
  <2> HIDE DEF items
  <2> QED BY <1>1, <1>5 DEF Items
<1>7. items \in [1 .. m -> Items(a)]
  <2> HIDE DEF items
  <2> QED BY <1>4, <1>6
<1>8. ASSUME NEW i \in Nat, i # 0, v[0] <= (i - 1) * ChunkSize, (i - 1) * ChunkSize < v[m]
      PROVE  \E j \in 1 .. m : Above(items[j], i)
  <2>1. PICK p \in Nat : p = (i - 1) * ChunkSize
    BY <1>8, TreeShape
  <2>2. PICK j \in 1 .. m : v[j - 1] <= p /\ p < v[j]
    BY <1>8, <2>1, Between
  <2> HIDE DEF items
  <2>3. items[j].frag = fs[j]
    <3>1. items[j] = [frag |-> fs[j], offset |-> Begin(fs[j])]
      BY <1>5
    <3> QED BY <3>1
  <2>4. Above(items[j], i)
    BY <1>1, <2>1, <2>2, <2>3 DEF Above
  <2> QED BY <2>4
<1> QED BY <1>7, <1>8

LEMMA LeafBegins ==
  ASSUME NEW a \in Atts, NEW i \in 1 .. ChunkCount(a)
  PROVE  /\ i \in Nat \ {0} /\ (i - 1) * ChunkSize \in Nat /\ (i - 1) * ChunkSize < TotalSize[a]
         /\ <<a, 0, i>> \in Leaves[a]
<1>1. i \in 1 .. Counts[a][0] /\ i \in Nat \ {0}
  BY CountsAre, ChunkCountIs
<1> QED BY <1>1, LeafSize, TreeShape, TreeIs

(* Every leaf is below a child of the root ...                             *)
LEMMA RootCovers ==
  ASSUME NEW a \in Atts
  PROVE  \E m \in Nat :
           /\ WithOffsets(Root[a], 0) \in [1 .. m -> Items(a)]
           /\ \A i \in 1 .. ChunkCount(a) : \E j \in 1 .. m : Above(WithOffsets(Root[a], 0)[j], i)
<1>1. PICK h \in 0 .. Height(a) : h = Height(a)
  BY HeightIs, ChunkCountIs
<1>2. PICK m \in Nat : m = Counts[a][h]
  BY LevelIs
<1>3. PICK g \in [Nat -> Nat] : g = Cuts(a)[h]
  BY CutsAre
<1> DEFINE v == [j \in 0 .. m |-> g[j]]
           fs == Root[a]
<1>4. v \in [0 .. m -> Nat] /\ v[0] = 0 /\ v[m] = TotalSize[a]
  BY <1>1, <1>2, <1>3, CutsFromTo, SMTT(60)
<1>5. fs = [k \in 1 .. m |-> <<a, h, k>>]
  BY <1>1, <1>2 DEF Root, Level
<1>6. ASSUME NEW j \in 1 .. m
      PROVE  fs[j] \in Tree(a) /\ Begin(fs[j]) = v[j - 1] /\ End(fs[j]) = v[j]
  <2>1. fs[j] = <<a, h, j>>
    BY <1>5
  <2>2. j - 1 \in 0 .. m /\ j \in 0 .. m
    OBVIOUS
  <2>3. v[j - 1] = g[j - 1] /\ v[j] = g[j]
    BY <2>2
  <2>4. Begin(<<a, h, j>>) = g[j - 1] /\ End(<<a, h, j>>) = g[j]
    BY <1>3 DEF Begin, End
  <2>5. <<a, h, j>> \in Tree(a)
    BY <1>1, <1>2, LevelIn
  <2> QED BY <2>1, <2>3, <2>4, <2>5
<1>7. Len(fs) = m /\ DOMAIN fs = 1 .. m
  BY <1>5
<1> HIDE DEF v, fs
<1>8. InARow(a, fs, m, v)
  BY <1>6, <1>7 DEF InARow
<1>9. /\ WithOffsets(fs, 0) \in [1 .. m -> Items(a)]
      /\ \A i \in Nat : 0 <= (i - 1) * ChunkSize /\ (i - 1) * ChunkSize < TotalSize[a] /\ i # 0 =>
           \E j \in 1 .. m : Above(WithOffsets(fs, 0)[j], i)
  <2>1. /\ WithOffsets(fs, v[0]) \in [1 .. m -> Items(a)]
        /\ \A i \in Nat : v[0] <= (i - 1) * ChunkSize /\ (i - 1) * ChunkSize < v[m] /\ i # 0 =>
             \E j \in 1 .. m : Above(WithOffsets(fs, v[0])[j], i)
    BY <1>4, <1>8, OffsetsAre
  <2> QED BY <1>4, <2>1
<1>10. ASSUME NEW i \in 1 .. ChunkCount(a)
       PROVE  \E j \in 1 .. m : Above(WithOffsets(fs, 0)[j], i)
  <2>1. /\ i \in Nat /\ i # 0 /\ 0 <= (i - 1) * ChunkSize
        /\ (i - 1) * ChunkSize < TotalSize[a]
    <3>1. /\ i \in Nat \ {0} /\ (i - 1) * ChunkSize \in Nat
          /\ (i - 1) * ChunkSize < TotalSize[a]
      BY LeafBegins
    <3> QED BY <3>1
  <2> QED BY <1>9, <2>1
<1> QED BY <1>9, <1>10 DEF fs

(* ... one below a node is below one of its children ...                   *)
LEMMA BelowCovers ==
  ASSUME NEW a \in Atts, NEW item \in Items(a), IsNode(item.frag)
  PROVE  /\ Below(item) \in Seq(Items(a))
         /\ \A i \in 1 .. ChunkCount(a) :
              Above(item, i) => \E j \in 1 .. Len(Below(item)) : Above(Below(item)[j], i)
<1>1. PICK f \in Tree(a) : item = [frag |-> f, offset |-> Begin(f)]
  BY DEF Items
<1>2. PICK n \in 1 .. Height(a) : \E k \in 1 .. Counts[a][n] : f = <<a, n, k>>
  BY <1>1, TreeIs DEF Tree
<1>3. PICK k \in 1 .. Counts[a][n] : f = <<a, n, k>>
  BY <1>2
<1>4. PICK m \in Nat \ {0} : \E v \in [0 .. m -> Nat] : Fills(f, m, v)
  BY <1>3, ChildrenFill
<1>5. PICK v \in [0 .. m -> Nat] : Fills(f, m, v)
  BY <1>4
<1>6. InARow(a, Children[f], m, v) /\ v[0] = Begin(f) /\ v[m] = End(f)
  BY <1>3, <1>5 DEF Fills, InARow
<1>7. Below(item) = WithOffsets(Children[f], v[0])
  BY <1>1, <1>6 DEF Below
<1>8. m \in Nat
  OBVIOUS
<1>9. /\ Below(item) \in [1 .. m -> Items(a)]
      /\ \A i \in Nat : v[0] <= (i - 1) * ChunkSize /\ (i - 1) * ChunkSize < v[m] /\ i # 0 =>
           \E j \in 1 .. m : Above(Below(item)[j], i)
  <2>1. /\ WithOffsets(Children[f], v[0]) \in [1 .. m -> Items(a)]
        /\ \A i \in Nat : v[0] <= (i - 1) * ChunkSize /\ (i - 1) * ChunkSize < v[m] /\ i # 0 =>
             \E j \in 1 .. m : Above(WithOffsets(Children[f], v[0])[j], i)
    BY <1>6, <1>8, OffsetsAre
  <2> QED BY <1>7, <2>1
<1>10. Below(item) \in Seq(Items(a)) /\ Len(Below(item)) = m
  BY <1>8, <1>9
<1>11. ASSUME NEW i \in 1 .. ChunkCount(a), Above(item, i)
       PROVE  \E j \in 1 .. m : Above(Below(item)[j], i)
  <2>1. i \in Nat /\ i # 0
    BY LeafBegins
  <2>2. v[0] <= (i - 1) * ChunkSize /\ (i - 1) * ChunkSize < v[m]
    BY <1>1, <1>6, <1>11 DEF Above
  <2> QED BY <1>9, <2>1, <2>2
<1> QED BY <1>10, <1>11

(* ... and the only one below a leaf is itself, written where it belongs.  *)
LeafAt(a, i) == <<(i - 1) * ChunkSize, <<a, 0, i>>>>

LEMMA ContentIs ==
  ASSUME NEW a \in Atts
  PROVE  /\ \A i \in 1 .. ChunkCount(a) : LeafAt(a, i) \in Content[a]
         /\ \A w \in Content[a] : \E i \in 1 .. ChunkCount(a) : w = LeafAt(a, i)
<1>1. Leaves[a] = {<<a, 0, i>> : i \in 1 .. ChunkCount(a)}
  BY DEF Leaves
<1>2. Content[a] = {<<(f[3] - 1) * ChunkSize, f>> : f \in Leaves[a]}
  BY DEF Content
<1>3. ASSUME NEW i \in 1 .. ChunkCount(a) PROVE LeafAt(a, i) \in Content[a]
  <2>1. <<a, 0, i>> \in Leaves[a] /\ <<a, 0, i>>[3] = i
    BY <1>1
  <2> QED BY <1>2, <2>1 DEF LeafAt
<1>4. ASSUME NEW w \in Content[a] PROVE \E i \in 1 .. ChunkCount(a) : w = LeafAt(a, i)
  <2>1. PICK f \in Leaves[a] : w = <<(f[3] - 1) * ChunkSize, f>>
    BY <1>2
  <2>2. PICK i \in 1 .. ChunkCount(a) : f = <<a, 0, i>>
    BY <1>1
  <2> QED BY <2>1, <2>2 DEF LeafAt
<1> QED BY <1>3, <1>4

LEMMA SamePart ==
  ASSUME NEW x \in Nat, NEW y \in Nat, NEW d \in Nat \ {0}, x * d <= y * d, y * d < x * d + d
  PROVE  x = y
<1>1. CASE x < y
  <2>1. PICK z \in Nat : y = x + 1 + z
    <3>1. y - x - 1 \in Nat /\ y = x + 1 + (y - x - 1)
      BY <1>1
    <3> QED BY <3>1
  <2>2. y * d = x * d + d + z * d /\ z * d \in Nat
    BY <2>1
  <2> QED BY <2>2
<1>2. CASE y < x
  <2>1. PICK z \in Nat : x = y + 1 + z
    <3>1. x - y - 1 \in Nat /\ x = y + 1 + (x - y - 1)
      BY <1>2
    <3> QED BY <3>1
  <2>2. x * d = y * d + d + z * d /\ z * d \in Nat /\ y * d \in Nat
    BY <2>1
  <2> QED BY <2>2
<1> QED BY <1>1, <1>2

LEMMA LeafItem ==
  ASSUME NEW a \in Atts, NEW item \in Items(a), ~IsNode(item.frag)
  PROVE  /\ <<item.offset, item.frag>> \in Content[a]
         /\ \A i \in 1 .. ChunkCount(a) : Above(item, i) => LeafAt(a, i) = <<item.offset, item.frag>>
<1>1. PICK f \in Tree(a) : item = [frag |-> f, offset |-> Begin(f)]
  BY DEF Items
<1>2. PICK k \in 1 .. Counts[a][0] : f = <<a, 0, k>>
  BY <1>1, TreeIs DEF Tree
<1>3. k \in 1 .. ChunkCount(a)
  BY CountsAre
<1>4. k \in Nat \ {0}
  BY <1>3, LeafBegins
<1>5. Begin(f) = (k - 1) * ChunkSize
  BY <1>2, LeafSize
<1>6. <<item.offset, item.frag>> = LeafAt(a, k)
  BY <1>1, <1>2, <1>5 DEF LeafAt
<1>7. ASSUME NEW i \in 1 .. ChunkCount(a), Above(item, i) PROVE i = k
  <2>1. PICK d \in Nat \ {0} : d = ChunkSize
    BY TreeShape
  <2>2. PICK x \in Nat, y \in Nat : x = k - 1 /\ y = i - 1
    BY <1>4, LeafBegins
  <2>3. x * d <= y * d
    BY <1>1, <1>5, <1>7, <2>1, <2>2 DEF Above
  <2>4. End(f) <= k * d
    <3>1. End(f) = Lesser(k * d, TotalSize[a])
      <4>1. End(f) = Cuts(a)[0][k]
        BY <1>2 DEF End
      <4> QED BY <1>4, <2>1, <4>1, CutsAre
    <3>2. PICK w \in Nat, t \in Nat : w = k * d /\ t = TotalSize[a]
      BY <1>4, SizesAreNat
    <3> QED BY <3>1, <3>2 DEF Lesser
  <2>5. y * d < End(f) /\ End(f) \in Nat
    <3>1. f \in AllFrags
      BY DEF Tree, AllFrags
    <3> QED BY <1>1, <1>7, <2>1, <2>2, <3>1, BeginIs DEF Above
  <2>6. k * d = x * d + d /\ k * d \in Nat /\ y * d \in Nat
    BY <1>4, <2>2
  <2>7. y * d < x * d + d
    BY <2>4, <2>5, <2>6
  <2>8. x = y
    BY <2>3, <2>7, SamePart
  <2>9. i \in Nat
    BY LeafBegins
  <2> QED BY <1>4, <2>2, <2>8, <2>9
<1> QED BY <1>3, <1>6, <1>7, ContentIs
-----------------------------------------------------------------------------
(* What the final files rest on: a download is after every leaf that its   *)
(* temporary file does not have yet, in the streams it has left.           *)
DownloadPaths(a) == {p \in Paths : p[1] = "cache" => p[2] = a}
Download(a) ==
  [pc : {"fetch", "check", "rename", "record"}, path : DownloadPaths(a),
   temp : SUBSET Content[a], streams : UNION {[1 .. m -> Seq(Items(a))] : m \in Nat}]

Awaited(streams, i) ==
  \E k \in DOMAIN streams : \E j \in 1 .. Len(streams[k]) : Above(streams[k][j], i)

Fetching(a, r) ==
  /\ r \in Download(a)
  /\ r.pc = "fetch" =>
       \A i \in 1 .. ChunkCount(a) : LeafAt(a, i) \in r.temp \/ Awaited(r.streams, i)
  /\ r.pc \in {"check", "rename"} => r.temp = Content[a]

Whole(p, x) == \E a \in Atts : x = Holding(a, Content[a]) /\ (p[1] = "cache" => p[2] = a)

DownloadsInv ==
  /\ fetch = [d \in Fetches |-> fetch[d]]
  /\ \A d \in Fetches : fetch[d] = Idle \/ Fetching(d[1], fetch[d])
  /\ disk = [p \in Paths |-> disk[p]]
  /\ \A p \in Paths : disk[p] = NoFile \/ Whole(p, disk[p])
  /\ saved \in [Atts -> {NoPath} \cup Paths]

LEMMA FetchIs ==
  ASSUME NEW d \in Fetches
  PROVE  d[1] \in Atts /\ (d[2] # "save" => d \in OneShots)
BY OneShotsType DEF Fetches

LEMMA TargetIs ==
  ASSUME NEW d \in Fetches, d[2] = "save" => \E n \in 0 .. MaxPaths : disk[SavePath(n)] = NoFile
  PROVE  Target(d) \in DownloadPaths(d[1])
<1>1. CASE d[2] = "save"
  <2> DEFINE S == {n \in 0 .. MaxPaths : disk[SavePath(n)] = NoFile}
  <2>1. PICK n \in S : \A m \in S : n <= m
    <3>1. S \in SUBSET Nat /\ S # {}
      BY <1>1
    <3> HIDE DEF S
    <3> QED BY <3>1, LeastElement
  <2>2. \A m \in 0 .. n - 1 : m \in 0 .. MaxPaths /\ ~(n <= m)
    BY MaxPathsIsNat
  <2>3. disk[SavePath(n)] = NoFile /\ \A m \in 0 .. n - 1 : disk[SavePath(m)] # NoFile
    BY <2>1, <2>2
  <2>4. UniquePath \in 0 .. MaxPaths
    BY <2>3 DEF UniquePath
  <2>5. Target(d) = SavePath(UniquePath)
    BY <1>1 DEF Target
  <2>6. SavePath(UniquePath) \in Paths
    BY <2>4 DEF Paths
  <2>7. SavePath(UniquePath)[1] = "saved"
    BY DEF SavePath
  <2> QED BY <2>5, <2>6, <2>7 DEF DownloadPaths
<1>2. CASE d[2] # "save"
  <2>1. Target(d) = CachePath(d[1]) /\ d \in OneShots
    BY <1>2, FetchIs DEF Target
  <2>2. CachePath(d[1]) \in Paths
    BY <2>1 DEF Paths
  <2> QED BY <2>1, <2>2 DEF DownloadPaths, CachePath
<1> QED BY <1>1, <1>2

LEMMA Started ==
  ASSUME NEW a \in Atts, NEW p \in DownloadPaths(a), NEW root, root = WithOffsets(Root[a], 0)
  PROVE  Fetching(a, [pc |-> "fetch", path |-> p, temp |-> {},
                      streams |-> [k \in DOMAIN root |-> <<root[k]>>]])
<1>1. PICK m \in Nat :
        /\ root \in [1 .. m -> Items(a)]
        /\ \A i \in 1 .. ChunkCount(a) : \E j \in 1 .. m : Above(root[j], i)
  BY RootCovers
<1>2. PICK st : st = [k \in 1 .. m |-> <<root[k]>>]
  OBVIOUS
<1>3. st \in [1 .. m -> Seq(Items(a))]
  <2>1. \A k \in 1 .. m : <<root[k]>> \in Seq(Items(a))
    BY <1>1
  <2> QED BY <1>2, <2>1
<1>4. ASSUME NEW i \in 1 .. ChunkCount(a) PROVE Awaited(st, i)
  <2>1. PICK j \in 1 .. m : Above(root[j], i)
    BY <1>1
  <2>2. st[j] = <<root[j]>> /\ j \in DOMAIN st
    BY <1>2
  <2>3. 1 \in 1 .. Len(st[j]) /\ st[j][1] = root[j]
    BY <2>2
  <2> QED BY <2>1, <2>2, <2>3 DEF Awaited
<1>5. PICK r : r = [pc |-> "fetch", path |-> p, temp |-> {}, streams |-> st]
  OBVIOUS
<1>6. r \in Download(a)
  <2>1. st \in UNION {[1 .. l -> Seq(Items(a))] : l \in Nat}
    BY <1>3
  <2> QED BY <1>5, <2>1 DEF Download
<1>7. r.pc = "fetch" /\ r.streams = st
  BY <1>5
<1>8. Fetching(a, r)
  BY <1>4, <1>6, <1>7 DEF Fetching
<1> QED BY <1>1, <1>2, <1>5, <1>8

LEMMA StreamIs ==
  ASSUME NEW a \in Atts, NEW r, Fetching(a, r)
  PROVE  /\ r = [pc |-> r.pc, path |-> r.path, temp |-> r.temp, streams |-> r.streams]
         /\ r.path \in DownloadPaths(a) /\ r.temp \subseteq Content[a]
         /\ r.pc \in {"fetch", "check", "rename", "record"}
         /\ \E m \in Nat : r.streams \in [1 .. m -> Seq(Items(a))]
BY DEF Fetching, Download

Has(z, b) == \A n \in 1 .. Len(b) : \E x \in 1 .. Len(z) : z[x] = b[n]

LEMMA Joined ==
  ASSUME NEW T, NEW b \in Seq(T), NEW t \in Seq(T)
  PROVE  b \o t \in Seq(T) /\ Has(b \o t, b) /\ Has(b \o t, t)
<1>1. Len(b) \in Nat /\ Len(t) \in Nat /\ Len(b \o t) = Len(b) + Len(t)
  OBVIOUS
<1>2. ASSUME NEW n \in 1 .. Len(b) PROVE n \in 1 .. Len(b \o t) /\ (b \o t)[n] = b[n]
  BY <1>1
<1>3. ASSUME NEW n \in 1 .. Len(t)
      PROVE  Len(b) + n \in 1 .. Len(b \o t) /\ (b \o t)[Len(b) + n] = t[n]
  BY <1>1
<1> QED BY <1>2, <1>3 DEF Has

(* download_fragment keeps all that is still to come.                      *)
LEMMA FetchedOne ==
  ASSUME NEW a \in Atts, NEW r, Fetching(a, r), r.pc = "fetch",
         NEW k \in DOMAIN r.streams, r.streams[k] # <<>>,
         NEW item, item = Head(r.streams[k]), NEW s, NEW tm,
         s = (IF IsNode(item.frag) THEN Below(item) \o Tail(r.streams[k]) ELSE Tail(r.streams[k])),
         tm = (IF IsNode(item.frag) THEN r.temp ELSE r.temp \cup {<<item.offset, item.frag>>})
  PROVE  Fetching(a, [pc |-> r.pc, path |-> r.path, temp |-> tm,
                      streams |-> [r.streams EXCEPT ![k] = s]])
<1>1. PICK m \in Nat : r.streams \in [1 .. m -> Seq(Items(a))]
  BY StreamIs
<1>2. PICK q \in Seq(Items(a)) : q = r.streams[k] /\ q # <<>>
  BY <1>1
<1>3. item \in Items(a) /\ item = q[1] /\ Tail(q) \in Seq(Items(a)) /\ Len(q) \in Nat \ {0}
  BY <1>2
<1>4. Len(Tail(q)) = Len(q) - 1 /\ \A j \in 1 .. Len(q) - 1 : Tail(q)[j] = q[j + 1]
  BY <1>2
<1>5. ASSUME IsNode(item.frag)
      PROVE  /\ tm = r.temp /\ s \in Seq(Items(a))
             /\ Has(s, Below(item)) /\ Has(s, Tail(q))
  <2>1. PICK b \in Seq(Items(a)) : b = Below(item)
    BY <1>3, <1>5, BelowCovers
  <2>2. PICK t \in Seq(Items(a)) : t = Tail(q)
    BY <1>3
  <2>3. s = b \o t /\ tm = r.temp
    BY <1>2, <1>5, <2>1, <2>2
  <2>4. b \o t \in Seq(Items(a)) /\ Has(b \o t, b) /\ Has(b \o t, t)
    BY Joined
  <2>5. s \in Seq(Items(a)) /\ Has(s, Below(item)) /\ Has(s, Tail(q))
    BY <2>1, <2>2, <2>3, <2>4
  <2> QED BY <2>3, <2>5
<1>6. ASSUME ~IsNode(item.frag)
      PROVE  s = Tail(q) /\ tm = r.temp \cup {<<item.offset, item.frag>>} /\ tm \subseteq Content[a]
  BY <1>2, <1>3, <1>6, LeafItem, StreamIs
<1>7. PICK st : st = [r.streams EXCEPT ![k] = s]
  OBVIOUS
<1>8. s \in Seq(Items(a)) /\ tm \subseteq Content[a] /\ r.temp \subseteq tm
  BY <1>3, <1>5, <1>6, StreamIs
<1>9. st \in [1 .. m -> Seq(Items(a))] /\ st[k] = s /\ \A l \in 1 .. m : l # k => st[l] = r.streams[l]
  BY <1>1, <1>7, <1>8
<1>10. ASSUME NEW i \in 1 .. ChunkCount(a), Awaited(r.streams, i)
       PROVE  LeafAt(a, i) \in tm \/ Awaited(st, i)
  <2>1. PICK l \in 1 .. m : \E j \in 1 .. Len(r.streams[l]) : Above(r.streams[l][j], i)
    BY <1>1, <1>10 DEF Awaited
  <2>2. PICK j \in 1 .. Len(r.streams[l]) : Above(r.streams[l][j], i)
    BY <2>1
  <2>e. ASSUME NEW n \in 1 .. Len(s), Above(s[n], i) PROVE Awaited(st, i)
    <3>1. k \in DOMAIN st /\ st[k] = s
      BY <1>1, <1>9
    <3> QED BY <2>e, <3>1 DEF Awaited
  <2>3. CASE l # k
    <3>1. l \in DOMAIN st /\ st[l] = r.streams[l]
      BY <1>9, <2>3
    <3> QED BY <2>2, <3>1 DEF Awaited
  <2>4. CASE l = k /\ j # 1
    <3>1. j \in 1 .. Len(q) /\ Above(q[j], i)
      BY <1>2, <2>2, <2>4
    <3>2. PICK n \in 1 .. Len(Tail(q)) : n = j - 1 /\ Above(Tail(q)[n], i)
      <4>1. j - 1 \in 1 .. Len(Tail(q)) /\ (j - 1) + 1 = j
        BY <1>3, <1>4, <2>4, <3>1
      <4>2. Tail(q)[j - 1] = q[j]
        BY <1>4, <4>1
      <4> QED BY <3>1, <4>1, <4>2
    <3>3. CASE IsNode(item.frag)
      <4>1. PICK x \in 1 .. Len(s) : s[x] = Tail(q)[n]
        BY <1>5, <3>3 DEF Has
      <4> QED BY <2>e, <3>2, <4>1
    <3>4. CASE ~IsNode(item.frag)
      BY <1>6, <2>e, <3>2, <3>4
    <3> QED BY <3>3, <3>4
  <2>5. CASE l = k /\ j = 1
    <3>1. Above(item, i)
      BY <1>2, <1>3, <2>2, <2>5
    <3>2. CASE IsNode(item.frag)
      <4>1. PICK n \in 1 .. Len(Below(item)) : Above(Below(item)[n], i)
        BY <1>3, <3>1, <3>2, BelowCovers
      <4>2. PICK x \in 1 .. Len(s) : s[x] = Below(item)[n]
        BY <1>5, <3>2, <4>1 DEF Has
      <4> QED BY <2>e, <4>1, <4>2
    <3>3. CASE ~IsNode(item.frag)
      BY <1>3, <1>6, <3>1, <3>3, LeafItem
    <3> QED BY <3>2, <3>3
  <2> QED BY <2>3, <2>4, <2>5
<1>11. PICK r1 : r1 = [pc |-> r.pc, path |-> r.path, temp |-> tm, streams |-> st]
  OBVIOUS
<1>12. r1 \in Download(a)
  <2>1. st \in UNION {[1 .. l -> Seq(Items(a))] : l \in Nat}
    BY <1>9
  <2>2. r.pc \in {"fetch", "check", "rename", "record"} /\ r.path \in DownloadPaths(a)
    BY StreamIs
  <2> QED BY <1>8, <1>11, <2>1, <2>2 DEF Download
<1>13. r1.pc = "fetch" /\ r1.temp = tm /\ r1.streams = st
  BY <1>11
<1>14. ASSUME NEW i \in 1 .. ChunkCount(a) PROVE LeafAt(a, i) \in tm \/ Awaited(st, i)
  <2>1. LeafAt(a, i) \in r.temp \/ Awaited(r.streams, i)
    BY DEF Fetching
  <2> QED BY <1>8, <1>10, <2>1
<1>15. Fetching(a, r1)
  BY <1>12, <1>13, <1>14 DEF Fetching
<1> QED BY <1>7, <1>11, <1>15

(* Nothing left to fetch: the temporary file has every leaf.               *)
LEMMA FetchedAll ==
  ASSUME NEW a \in Atts, NEW r, Fetching(a, r), r.pc = "fetch",
         \A k \in DOMAIN r.streams : r.streams[k] = <<>>
  PROVE  r.temp = Content[a]
<1>1. ASSUME NEW i \in 1 .. ChunkCount(a) PROVE ~Awaited(r.streams, i)
  BY DEF Awaited
<1>2. \A i \in 1 .. ChunkCount(a) : LeafAt(a, i) \in r.temp
  BY <1>1 DEF Fetching
<1>3. r.temp \subseteq Content[a]
  BY StreamIs
<1>4. ASSUME NEW w \in Content[a] PROVE w \in r.temp
  BY <1>2, ContentIs
<1> QED BY <1>3, <1>4

LEMMA InitDownloads == Init => DownloadsInv
<1> SUFFICES ASSUME Init PROVE DownloadsInv
  OBVIOUS
<1>1. fetch = [d \in Fetches |-> Idle] /\ disk = [p \in Paths |-> NoFile] /\ saved = [a \in Atts |-> NoPath]
  BY DEF Init
<1> QED BY <1>1 DEF DownloadsInv

(* A step of one download.                                                 *)
LEMMA FetchStep ==
  ASSUME DownloadsInv, NEW d \in Fetches, NEW r, r = Idle \/ Fetching(d[1], r),
         fetch' = [fetch EXCEPT ![d] = r]
  PROVE  /\ fetch' = [e \in Fetches |-> fetch'[e]]
         /\ \A e \in Fetches : fetch'[e] = Idle \/ Fetching(e[1], fetch'[e])
<1>1. fetch = [e \in Fetches |-> fetch[e]] /\ \A e \in Fetches : fetch[e] = Idle \/ Fetching(e[1], fetch[e])
  BY DEF DownloadsInv
<1>2. fetch' = [e \in Fetches |-> IF e = d THEN r ELSE fetch[e]]
  BY <1>1
<1>3. fetch' = [e \in Fetches |-> fetch'[e]]
  BY <1>2
<1>4. ASSUME NEW e \in Fetches PROVE fetch'[e] = Idle \/ Fetching(e[1], fetch'[e])
  <2>1. fetch'[e] = IF e = d THEN r ELSE fetch[e]
    BY <1>2
  <2> QED BY <1>1, <2>1
<1> QED BY <1>3, <1>4

LEMMA StepOfFetch ==
  ASSUME DownloadsInv, NEW d \in Fetches, NEW r, r = Idle \/ Fetching(d[1], r),
         fetch' = [fetch EXCEPT ![d] = r], UNCHANGED <<disk, saved>>
  PROVE  DownloadsInv'
<1>1. /\ fetch' = [e \in Fetches |-> fetch'[e]]
      /\ \A e \in Fetches : fetch'[e] = Idle \/ Fetching(e[1], fetch'[e])
  BY FetchStep
<1> QED BY <1>1 DEF DownloadsInv

(* The same download, further on.                                          *)
LEMMA Further ==
  ASSUME NEW a \in Atts, NEW r, Fetching(a, r), NEW pc \in {"check", "rename", "record"},
         pc \in {"check", "rename"} => r.temp = Content[a]
  PROVE  Fetching(a, [r EXCEPT !.pc = pc])
<1>1. PICK p, tm, st : r = [pc |-> r.pc, path |-> p, temp |-> tm, streams |-> st]
                       /\ p = r.path /\ tm = r.temp /\ st = r.streams
  BY StreamIs
<1>2. [r EXCEPT !.pc = pc] = [pc |-> pc, path |-> p, temp |-> tm, streams |-> st]
  BY <1>1
<1>3. [pc |-> pc, path |-> p, temp |-> tm, streams |-> st] \in Download(a)
  <2>1. p \in DownloadPaths(a) /\ tm \in SUBSET Content[a]
        /\ st \in UNION {[1 .. m -> Seq(Items(a))] : m \in Nat}
    BY <1>1, StreamIs
  <2> QED BY <2>1 DEF Download
<1> QED BY <1>1, <1>2, <1>3 DEF Fetching

LEMMA AfterFileIs ==
  ASSUME NEW d \in Fetches, Fetching(d[1], fetch[d])
  PROVE  AfterFile(d) = Idle \/ Fetching(d[1], AfterFile(d))
<1>1. AfterFile(d) \in {Idle, [fetch[d] EXCEPT !.pc = "record"]}
  BY DEF AfterFile
<1>2. Fetching(d[1], [fetch[d] EXCEPT !.pc = "record"])
  BY FetchIs, Further
<1> QED BY <1>1, <1>2

LEMMA DownloadStep ==
  ASSUME DownloadsInv, NEW d \in Fetches,
         \/ Start(d) \/ FetchFails(d) \/ Fetched(d) \/ FinalExists(d) \/ FinalFree(d)
         \/ FinalRename(d) \/ Record(d)
         \/ fetch[d].pc = "fetch" /\ \E k \in Active(d) : FetchOne(d, k) \/ FetchMissing(d, k)
  PROVE  DownloadsInv'
<1>a. PICK a \in Atts : a = d[1]
  BY FetchIs
<1>f. fetch = [e \in Fetches |-> fetch[e]] /\ (fetch[d] = Idle \/ Fetching(a, fetch[d]))
  BY <1>a DEF DownloadsInv
<1>r. ASSUME fetch[d].pc # "idle" PROVE Fetching(a, fetch[d])
  BY <1>f, <1>r DEF Idle
<1>1. CASE Start(d)
  <2>1. PICK root : root = WithOffsets(Root[a], 0)
    OBVIOUS
  <2>2. /\ fetch' = [fetch EXCEPT ![d] =
             [pc |-> "fetch", path |-> Target(d), temp |-> {},
              streams |-> [k \in DOMAIN root |-> <<root[k]>>]]]
        /\ UNCHANGED <<disk, saved>>
    BY <1>1, <1>a, <2>1 DEF Start
  <2>3. Target(d) \in DownloadPaths(a)
    BY <1>1, <1>a, TargetIs DEF Start
  <2>4. Fetching(a, [pc |-> "fetch", path |-> Target(d), temp |-> {},
                     streams |-> [k \in DOMAIN root |-> <<root[k]>>]])
    BY <2>1, <2>3, Started
  <2> QED BY <1>a, <2>2, <2>4, StepOfFetch
<1>2. CASE FetchFails(d) \/ \E k \in Active(d) : FetchMissing(d, k)
  <2>1. fetch' = [fetch EXCEPT ![d] = Idle] /\ UNCHANGED <<disk, saved>>
    BY <1>2 DEF FetchFails, FetchMissing
  <2> QED BY <2>1, StepOfFetch
<1>3. ASSUME fetch[d].pc = "fetch", NEW k \in Active(d), FetchOne(d, k) PROVE DownloadsInv'
  <2>1. Fetching(a, fetch[d]) /\ k \in DOMAIN fetch[d].streams /\ fetch[d].streams[k] # <<>>
    BY <1>3, <1>r DEF Active
  <2>2. PICK r : r = fetch[d]
    OBVIOUS
  <2>3. PICK item : item = Head(r.streams[k])
    OBVIOUS
  <2>4. PICK s : s = IF IsNode(item.frag) THEN Below(item) \o Tail(r.streams[k]) ELSE Tail(r.streams[k])
    OBVIOUS
  <2>5. PICK tm : tm = IF IsNode(item.frag) THEN r.temp ELSE r.temp \cup {<<item.offset, item.frag>>}
    OBVIOUS
  <2>6. Fetching(a, [pc |-> r.pc, path |-> r.path, temp |-> tm,
                     streams |-> [r.streams EXCEPT ![k] = s]])
    BY <1>3, <2>1, <2>2, <2>3, <2>4, <2>5, FetchedOne
  <2>7. r = [pc |-> r.pc, path |-> r.path, temp |-> r.temp, streams |-> r.streams]
    BY <2>1, <2>2, StreamIs
  <2>8. /\ fetch' = [fetch EXCEPT ![d].streams[k] = s,
              ![d].temp = IF IsNode(item.frag) THEN @ ELSE @ \cup {<<item.offset, item.frag>>}]
        /\ UNCHANGED <<disk, saved>>
    BY <1>3, <2>2, <2>3, <2>4 DEF FetchOne
  <2>9. fetch' = [fetch EXCEPT ![d] = [pc |-> r.pc, path |-> r.path, temp |-> tm,
                                       streams |-> [r.streams EXCEPT ![k] = s]]]
    <3>1. PICK r1 : r1 = [r EXCEPT !.streams[k] = s, !.temp = tm]
      OBVIOUS
    <3>2. r1 = [pc |-> r.pc, path |-> r.path, temp |-> tm, streams |-> [r.streams EXCEPT ![k] = s]]
      BY <2>7, <3>1
    <3>3. fetch' = [fetch EXCEPT ![d] = r1]
      BY <1>f, <2>2, <2>5, <2>7, <2>8, <3>1
    <3> QED BY <3>2, <3>3
  <2> QED BY <1>a, <2>6, <2>8, <2>9, StepOfFetch
<1>4. CASE Fetched(d)
  <2>1. fetch[d].pc = "fetch" /\ \A k \in DOMAIN fetch[d].streams : fetch[d].streams[k] = <<>>
    BY <1>4 DEF Fetched
  <2>2. Fetching(a, fetch[d])
    BY <1>r, <2>1
  <2>3. Fetching(a, [fetch[d] EXCEPT !.pc = "check"])
    BY <2>1, <2>2, FetchedAll, Further
  <2>4. PICK r \in {Idle, [fetch[d] EXCEPT !.pc = "check"]} : fetch' = [fetch EXCEPT ![d] = r]
    <3>1. CASE Downloaded(d) = TotalSize[d[1]]
      BY <1>4, <1>f, <3>1 DEF Fetched
    <3>2. CASE Downloaded(d) # TotalSize[d[1]]
      BY <1>4, <1>f, <3>2 DEF Fetched
    <3> QED BY <3>1, <3>2
  <2>5. UNCHANGED <<disk, saved>>
    BY <1>4 DEF Fetched
  <2> QED BY <1>a, <2>3, <2>4, <2>5, StepOfFetch
<1>5. CASE FinalExists(d)
  <2>1. Fetching(a, fetch[d])
    BY <1>5, <1>r DEF FinalExists
  <2>2. fetch' = [fetch EXCEPT ![d] = AfterFile(d)] /\ UNCHANGED <<disk, saved>>
    BY <1>5 DEF FinalExists
  <2>3. AfterFile(d) = Idle \/ Fetching(d[1], AfterFile(d))
    BY <1>a, <2>1, AfterFileIs
  <2> QED BY <2>2, <2>3, StepOfFetch
<1>6. CASE FinalFree(d)
  <2>1. Fetching(a, fetch[d]) /\ fetch[d].temp = Content[a]
    BY <1>6, <1>r DEF FinalFree, Fetching
  <2>2. Fetching(a, [fetch[d] EXCEPT !.pc = "rename"])
    BY <2>1, Further
  <2>3. fetch' = [fetch EXCEPT ![d] = [fetch[d] EXCEPT !.pc = "rename"]] /\ UNCHANGED <<disk, saved>>
    BY <1>6, <1>f DEF FinalFree
  <2> QED BY <1>a, <2>2, <2>3, StepOfFetch
<1>7. CASE FinalRename(d)
  <2>1. Fetching(a, fetch[d]) /\ fetch[d].temp = Content[a]
    BY <1>7, <1>r DEF FinalRename, Fetching
  <2>2. PICK p \in DownloadPaths(a) : p = fetch[d].path
    BY <2>1, StreamIs
  <2>3. /\ fetch' = [fetch EXCEPT ![d] = AfterFile(d)]
        /\ disk' = [disk EXCEPT ![p] = Holding(a, Content[a])] /\ saved' = saved
    BY <1>7, <1>a, <2>1, <2>2 DEF FinalRename
  <2>4. AfterFile(d) = Idle \/ Fetching(d[1], AfterFile(d))
    BY <1>a, <2>1, AfterFileIs
  <2>5. /\ fetch' = [e \in Fetches |-> fetch'[e]]
        /\ \A e \in Fetches : fetch'[e] = Idle \/ Fetching(e[1], fetch'[e])
    BY <2>3, <2>4, FetchStep
  <2>6. Whole(p, Holding(a, Content[a]))
    BY <2>2 DEF DownloadPaths, Whole
  <2>7. disk = [x \in Paths |-> disk[x]] /\ \A x \in Paths : disk[x] = NoFile \/ Whole(x, disk[x])
    BY DEF DownloadsInv
  <2>8. disk' = [x \in Paths |-> IF x = p THEN Holding(a, Content[a]) ELSE disk[x]]
    BY <2>3, <2>7
  <2>9. disk' = [x \in Paths |-> disk'[x]]
    BY <2>8
  <2>10. ASSUME NEW x \in Paths PROVE disk'[x] = NoFile \/ Whole(x, disk'[x])
    <3>1. disk'[x] = IF x = p THEN Holding(a, Content[a]) ELSE disk[x]
      BY <2>8
    <3> QED BY <2>6, <2>7, <3>1
  <2>11. saved' \in [Atts -> {NoPath} \cup Paths]
    BY <2>3 DEF DownloadsInv
  <2> QED BY <2>5, <2>9, <2>10, <2>11 DEF DownloadsInv
<1>8. CASE Record(d)
  <2>1. Fetching(a, fetch[d])
    BY <1>8, <1>r DEF Record
  <2>2. PICK p \in Paths : p = fetch[d].path
    BY <2>1, StreamIs DEF DownloadPaths
  <2>3. fetch' = [fetch EXCEPT ![d] = Idle] /\ saved' = [saved EXCEPT ![a] = p] /\ disk' = disk
    BY <1>8, <1>a, <2>2 DEF Record
  <2>4. /\ fetch' = [e \in Fetches |-> fetch'[e]]
        /\ \A e \in Fetches : fetch'[e] = Idle \/ Fetching(e[1], fetch'[e])
    BY <2>3, FetchStep
  <2>5. saved' \in [Atts -> {NoPath} \cup Paths]
    BY <2>3 DEF DownloadsInv
  <2> QED BY <2>3, <2>4, <2>5 DEF DownloadsInv
<1> QED BY <1>1, <1>2, <1>3, <1>4, <1>5, <1>6, <1>7, <1>8

LEMMA NextDownloads == DownloadsInv /\ [Next]_vars => DownloadsInv'
<1> SUFFICES ASSUME DownloadsInv, [Next]_vars PROVE DownloadsInv'
  OBVIOUS
<1>1. CASE UNCHANGED <<fetch, disk, saved>>
  BY <1>1 DEF DownloadsInv
<1>2. CASE ShareNext
  BY <1>1, <1>2 DEF ShareNext, Share, AllLeavesSent, AllNodesSent, ShareFails, SendLeaf, SendNode,
                    clientVars
<1>3. CASE \E r \in Renewals : Renew(r)
  BY <1>1, <1>3 DEF Renew, clientVars
<1>4. CASE FetchNext
  BY <1>4, DownloadStep DEF FetchNext
<1>5. CASE ClientCrash
  <2>1. fetch' = [d \in Fetches |-> Idle] /\ UNCHANGED <<disk, saved>>
    BY <1>5 DEF ClientCrash
  <2> QED BY <2>1 DEF DownloadsInv
<1>6. CASE UNCHANGED vars \/ UNCHANGED clientVars
  BY <1>1, <1>6 DEF vars, clientVars
<1> QED BY <1>2, <1>3, <1>4, <1>5, <1>6 DEF Next

(* finalize_atomic_file and attachment_status: a file with a final name is *)
(* a whole attachment, every leaf where it belongs, whatever fails, is     *)
(* cancelled or comes in between.                                          *)
THEOREM DownloadedFilesWhole == Spec => []FinalFilesWhole
<1>1. SharedInv /\ DownloadsInv => FinalFilesWhole
  <2> SUFFICES ASSUME SharedInv, DownloadsInv PROVE FinalFilesWhole
    OBVIOUS
  <2>1. \A p \in Paths : disk[p] = NoFile \/ Whole(p, disk[p])
    BY DEF DownloadsInv
  <2>2. ASSUME NEW d \in Fetches
        PROVE  fetch[d].pc \in {"idle", "fetch", "check", "rename", "record"}
    <3>1. CASE fetch[d] = Idle
      BY <3>1 DEF Idle
    <3>2. CASE Fetching(d[1], fetch[d])
      BY <3>2, FetchIs, StreamIs
    <3> QED BY <3>1, <3>2 DEF DownloadsInv
  <2>3. ASSUME NEW p \in Paths, Whole(p, disk[p])
        PROVE  \E a \in Atts :
                 /\ disk[p] = Holding(a, Content[a]) /\ disk[p].content = Content[a]
                 /\ disk[p].size = TotalSize[a] /\ (p[1] = "cache" => p[2] = a)
    BY <2>3 DEF Whole, Holding
  <2>4. ASSUME NEW p \in Paths
        PROVE  disk[p] = NoFile \/ \E a \in Atts : disk[p] \in {Holding(a, c) : c \in SUBSET Content[a]}
    <3>1. CASE Whole(p, disk[p])
      <4>1. PICK a \in Atts : disk[p] = Holding(a, Content[a])
        BY <3>1, <2>3
      <4>2. Content[a] \in SUBSET Content[a]
        OBVIOUS
      <4> QED BY <4>1, <4>2
    <3> QED BY <2>1, <3>1
  <2>5. ClientTypeOK
    BY <2>2, <2>4 DEF ClientTypeOK, SharedInv, DownloadsInv, Stages
  <2>6. ASSUME NEW p \in Paths, disk[p] # NoFile
        PROVE  \E a \in Atts : disk[p].content = Content[a] /\ (p[1] = "cache" => p[2] = a)
    BY <2>1, <2>3, <2>6
  <2>7. ASSUME NEW a \in Atts, SavedTo(a) # NoPath
        PROVE  \E b \in Atts : disk[SavedTo(a)].content = Content[b] /\ TotalSize[b] = TotalSize[a]
    <3>1. /\ SavedTo(a) = saved[a] /\ saved[a] # NoPath /\ disk[saved[a]] # NoFile
          /\ disk[saved[a]].size = TotalSize[a]
      BY <2>7 DEF SavedTo
    <3>2. PICK p \in Paths : p = saved[a]
      BY <3>1 DEF DownloadsInv
    <3>3. PICK b \in Atts : disk[p].content = Content[b] /\ disk[p].size = TotalSize[b]
      BY <2>1, <2>3, <3>1, <3>2
    <3> QED BY <3>1, <3>2, <3>3
  <2> QED BY <2>5, <2>6, <2>7 DEF FinalFilesWhole
<1>2. Spec => [](SharedInv /\ DownloadsInv)
  <2>1. Init => SharedInv /\ DownloadsInv
    BY InitShared, InitDownloads
  <2>2. Inv /\ (SharedInv /\ DownloadsInv) /\ [Next]_vars => (SharedInv /\ DownloadsInv)'
    BY NextShared, NextDownloads
  <2> QED BY <2>1, <2>2, Invariance, PTL DEF Spec
<1> QED BY <1>1, <1>2, PTL
=============================================================================
