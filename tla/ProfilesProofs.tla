---------------------------- MODULE ProfilesProofs ---------------------------
(***************************************************************************)
(* Proofs about DeviceKeys and Profiles, for any devices, callers, bundles,*)
(* workloads and bounds.                                                   *)
(***************************************************************************)
EXTENDS Profiles, WellFoundedInduction, FiniteSetTheorems, SequenceTheorems, TLAPS

Cert == [dev : Devices, by : Devices, expiry : Nat, canIssue : BOOLEAN]
Keys == [Devices -> Nat]
LookUpType ==
  [pc : {"idle", "pks", "time", "fetch", "send", "profile"},
   chains : SUBSET Devices, pks : Keys, got : SUBSET {"chains", "pks"},
   newChains : SUBSET Devices, newPks : Keys,
   since : Keys, known : SUBSET Devices, valid : SUBSET Devices]
CacheType ==
  [chains : SUBSET Devices, pks : Keys, fresh : BOOLEAN, since : Keys, known : SUBSET Devices]
MessageType == [keys : Keys, since : Keys, known : SUBSET Devices, valid : SUBSET Devices]
SetType == [by : Devices, created : Nat \ {0}]

Types ==
  /\ workload \in Workloads /\ now \in Nat /\ overtaken \in BOOLEAN
  /\ phase \in [Devices -> {"none", "bundle", "enrolled", "active"}]
  /\ chain \in [Devices -> SUBSET Cert]
  /\ {made, cur, prev, up, pk, read} \subseteq Keys
  /\ enrolled \subseteq Devices /\ uploads \subseteq Devices \X Nat
  /\ cache \in CacheType /\ call \in [Callers -> LookUpType]
  /\ messages \in Seq(MessageType)

(* A chain leads from the root to its device: each device of it issued the *)
(* next one's certificate, and none occurs twice.                          *)
IsPath(p, k, d) ==
  /\ p[1].dev = Root /\ p[k].dev = d
  /\ \A i \in 1 .. k - 1 : p[i].canIssue /\ p[i + 1].by = p[i].dev
  /\ \A i, j \in 1 .. k : p[i].dev = p[j].dev => i = j
PathOf(certs, p, k, d) ==
  /\ IsPath(p, k, d)
  /\ \A i \in 1 .. k : p[i] \in certs
  /\ \A c \in certs : \E i \in 1 .. k : c = p[i]
Chained(d) ==
  /\ IsFiniteSet(chain[d]) /\ Cardinality(chain[d]) # 0
  /\ \E p \in [1 .. Cardinality(chain[d]) -> chain[d]] :
       PathOf(chain[d], p, Cardinality(chain[d]), d)
  /\ \A c \in chain[d] : phase[c.dev] # "none"
Chains == phase[Root] = "active" /\ \A d \in Devices : phase[d] # "none" => Chained(d)

(* No upload of a device's keys up to n has failed.                        *)
NoneFailed(d, n) == \A j \in 1 .. n : <<d, j>> \notin failed

(* What a device has made, it has uploaded, is uploading, or has failed to *)
(* upload; once it is active it holds the last two keys, unless all before *)
(* its last have failed.                                                   *)
Holds(d) ==
  /\ {cur[d], prev[d], pk[d]} \subseteq 0 .. made[d] /\ up[d] \in {0, made[d]}
  /\ made[d] # 0 => d \in enrolled
  /\ d \in enrolled => phase[d] # "none"
  /\ phase[d] = "enrolled" => d \in enrolled
  /\ up[d] # 0 => phase[d] \in {"enrolled", "active"}
  /\ phase[d] # "active" => \A j \in 1 .. made[d] : j = up[d] \/ <<d, j>> \in failed
  /\ phase[d] = "active" =>
       /\ d \in enrolled /\ cur[d] = made[d] /\ made[d] # 0 /\ prev[d] # 0
       /\ \/ prev[d] + 1 = made[d]
          \/ prev[d] = made[d] /\ \A j \in 1 .. made[d] - 1 : <<d, j>> \in failed

(* The server has a device's newest key, or the one before and will get    *)
(* the newest, as far as no upload has failed.                             *)
PkFollows(d) ==
  \A n \in 0 .. made[d] :
    NoneFailed(d, n) => \/ pk[d] >= n
                        \/ n = up[d] /\ <<d, n>> \in uploads /\ pk[d] + 1 >= n

Uploading ==
  \A u \in uploads : /\ u[1] \in enrolled /\ u[2] \in 1 .. made[u[1]]
                     /\ u[2] = up[u[1]] \/ u \in failed

DevicesInv == Uploading /\ \A d \in Devices : Holds(d) /\ PkFollows(d)

(* Keys that were looked up when a device had made `since' keys.           *)
Recent(pks, since) ==
  \A d \in Devices : since[d] <= made[d] /\ (NoneFailed(d, since[d]) => pks[d] + 1 >= since[d])
Made(pks) == \A d \in Devices : pks[d] <= made[d]

CacheInv ==
  /\ cache.known \subseteq cache.chains /\ cache.chains \subseteq enrolled
  /\ \A d \in cache.known : cache.pks[d] # 0
  /\ Recent(cache.pks, cache.since) /\ Made(cache.pks)

(* Until a task stores what it has fetched, it has the cache's content,    *)
(* if no other stores before; and it fetches no less than was there.       *)
LookUpOk(c, r) ==
  /\ r.chains \subseteq enrolled /\ r.newChains \subseteq enrolled
  /\ r.known \subseteq enrolled
  /\ Made(r.pks) /\ Made(r.newPks) /\ Made(r.since)
  /\ ~overtaken /\ r.pc \in {"pks", "time", "fetch"} => r.chains = cache.chains
  /\ ~overtaken /\ r.pc \in {"time", "fetch"} => r.pks = cache.pks
  /\ r.pc \in {"pks", "time", "fetch"} => \A d \in r.known : pk[d] # 0
  /\ r.pc \in {"pks", "time"} => r.got = {}
  /\ r.pc = "fetch" =>
       /\ "chains" \in r.got => r.known \subseteq r.newChains
       /\ "pks" \in r.got =>
            /\ \A d \in r.known : r.newPks[d] # 0
            /\ Recent(r.newPks, r.since)
  /\ r.pc = "send" => c = Sender
  /\ r.pc = "profile" /\ ~overtaken => r.known \cap r.valid \subseteq r.chains
LookUpInv(c) == LookUpOk(c, call[c])

(* The keys of a message, or of one about to be sent.                      *)
Encrypted(m) ==
  /\ Made(m.keys) /\ Made(m.since)
  /\ {d \in Devices : m.keys[d] # 0} \subseteq m.valid
  /\ ~overtaken =>
       /\ m.known \cap m.valid \subseteq {d \in Devices : m.keys[d] # 0}
       /\ \A d \in Devices :
            /\ m.keys[d] <= cache.pks[d]
            /\ m.keys[d] # 0 /\ NoneFailed(d, m.since[d]) => m.keys[d] + 1 >= m.since[d]
NotBefore(keys, n) ==
  ~overtaken => \A i \in 1 .. n : \A d \in Devices : keys[d] # 0 => messages[i].keys[d] <= keys[d]
Sending(info) == [keys |-> info.pks, since |-> info.since, known |-> info.known, valid |-> info.valid]
MessagesInv ==
  /\ \A n \in 1 .. Len(messages) : Encrypted(messages[n]) /\ NotBefore(messages[n].keys, n - 1)
  /\ call[Sender].pc = "send" =>
       Encrypted(Sending(call[Sender])) /\ NotBefore(call[Sender].pks, Len(messages))

Unopened(e) ==
  /\ e[1] \in Devices /\ e[2] \in 1 .. Len(messages)
  /\ \/ e[3] > messages[e[2]].since[e[1]]
     \/ \E j \in 1 .. messages[e[2]].since[e[1]] : <<e[1], j>> \in failed
     \/ overtaken
ReceivedInv ==
  (\A e \in missed : Unopened(e)) /\ \A d \in Devices : read[d] \in 0 .. Len(messages)

(* A profile about to be written is newer than the one it was checked over.*)
ProfilesInv ==
  /\ profile.created = newest /\ newest \in Nat
  /\ sets \subseteq SetType
  /\ \A t \in checked : t.set \in SetType /\ t.set.created > t.over.created

Inv ==
  /\ Types /\ Chains /\ DevicesInv
  /\ CacheInv /\ \A c \in Callers : LookUpInv(c)
  /\ MessagesInv /\ ReceivedInv /\ ProfilesInv
-----------------------------------------------------------------------------
(* A set of numbers that is not empty has a least one.                     *)
LEMMA LeastElement ==
  ASSUME NEW S \in SUBSET Nat, S # {}
  PROVE  \E x \in S : \A y \in S : x <= y
<1>1. PICK x \in S : \A y \in S : <<y, x>> \notin OpToRel(<, Nat)
  BY NatLessThanWellFounded, WFMin
<1>2. \A y \in S : ~(y < x)
  BY <1>1 DEF OpToRel
<1> QED BY <1>2

(* The signers that `Signers' starts from, and those that each step adds;  *)
(* g is the function that it defines.                                      *)
RootSigners(certs) == {c.dev : c \in {r \in certs : r.dev = Root /\ Trusting(r)}}
SignedBy(certs, signers) == {c.dev : c \in {s \in certs : s.by \in signers /\ Trusting(s)}}
Grows(g, certs, n) ==
  g = [i \in 0 .. n |-> IF i = 0 THEN RootSigners(certs)
                        ELSE g[i - 1] \cup SignedBy(certs, g[i - 1])]

LEMMA GrowsExists ==
  ASSUME NEW certs, NEW n \in Nat
  PROVE  \E g : Grows(g, certs, n)
<1> DEFINE S == {k \in Nat : ~\E g : Grows(g, certs, k)}
<1> SUFFICES ASSUME S # {} PROVE FALSE
  OBVIOUS
<1>1. PICK k \in S : \A y \in S : k <= y
  <2>1. S \in SUBSET Nat
    OBVIOUS
  <2> HIDE DEF S
  <2> QED BY <2>1, LeastElement
<1>2. k # 0
  <2>1. Grows([i \in 0 .. 0 |-> RootSigners(certs)], certs, 0)
    BY DEF Grows
  <2> QED BY <1>1, <2>1
<1>3. k - 1 \in Nat /\ k - 1 \notin S
  BY <1>1, <1>2
<1>4. PICK f : Grows(f, certs, k - 1)
  BY <1>3
<1> DEFINE last == f[k - 1] \cup SignedBy(certs, f[k - 1])
           g == [i \in 0 .. k |-> IF i < k THEN f[i] ELSE last]
<1>5. \A i \in 0 .. k - 1 :
        f[i] = IF i = 0 THEN RootSigners(certs) ELSE f[i - 1] \cup SignedBy(certs, f[i - 1])
  BY <1>4 DEF Grows
<1>6. ASSUME NEW i \in 0 .. k
      PROVE  g[i] = IF i = 0 THEN RootSigners(certs) ELSE g[i - 1] \cup SignedBy(certs, g[i - 1])
  <2> HIDE DEF last
  <2>1. i \in 0 .. k - 1 => g[i] = f[i]
    BY <1>3
  <2>2. i # 0 => g[i - 1] = f[i - 1]
    BY <1>3
  <2>3. CASE i \in 0 .. k - 1
    BY <1>5, <2>1, <2>2, <2>3
  <2>4. CASE i = k
    <3>1. g[k] = last
      BY <1>3
    <3> QED BY <1>2, <2>2, <2>4, <3>1 DEF last
  <2> QED BY <1>3, <2>3, <2>4
<1>7. Grows(g, certs, k)
  <2>1. g = [i \in 0 .. k |-> g[i]]
    OBVIOUS
  <2> HIDE DEF g
  <2> QED BY <1>6, <2>1 DEF Grows
<1> HIDE DEF g
<1> QED BY <1>1, <1>7

LEMMA SignersAre ==
  ASSUME NEW certs, Cardinality(certs) \in Nat
  PROVE  \E g : /\ Signers(certs) = g[Cardinality(certs)]
                /\ g[0] = RootSigners(certs)
                /\ \A i \in 1 .. Cardinality(certs) : g[i] = g[i - 1] \cup SignedBy(certs, g[i - 1])
<1>1. PICK n : n = Cardinality(certs)
  OBVIOUS
<1>2. PICK g : g = CHOOSE h : Grows(h, certs, n)
  OBVIOUS
<1>3. Grows(g, certs, n)
  BY <1>1, <1>2, GrowsExists
<1>4. Signers(certs) = g[n]
  BY <1>1, <1>2 DEF Signers, Grows, RootSigners, SignedBy
<1>5. \A i \in 0 .. n :
        g[i] = IF i = 0 THEN RootSigners(certs) ELSE g[i - 1] \cup SignedBy(certs, g[i - 1])
  BY <1>3 DEF Grows
<1>6. /\ Signers(certs) = g[Cardinality(certs)]
      /\ g[0] = RootSigners(certs)
      /\ \A i \in 1 .. Cardinality(certs) : g[i] = g[i - 1] \cup SignedBy(certs, g[i - 1])
  <2>1. n \in Nat /\ 0 \in 0 .. n /\ \A i \in 1 .. n : i \in 0 .. n /\ i # 0
    BY <1>1
  <2>2. g[0] = RootSigners(certs)
    BY <1>5, <2>1
  <2>3. \A i \in 1 .. n : g[i] = g[i - 1] \cup SignedBy(certs, g[i - 1])
    BY <1>5, <2>1
  <2> QED BY <1>1, <1>4, <2>2, <2>3
<1> QED BY <1>6, Zenon

(* Every signer has a certificate that gives trust.                        *)
LEMMA SignersAreTrusted ==
  ASSUME NEW certs, Cardinality(certs) \in Nat, NEW d \in Signers(certs)
  PROVE  \E c \in certs : c.dev = d /\ Trusting(c)
<1>1. PICK n : n = Cardinality(certs)
  OBVIOUS
<1>2. PICK g : /\ Signers(certs) = g[n]
               /\ g[0] = RootSigners(certs)
               /\ \A i \in 1 .. n : g[i] = g[i - 1] \cup SignedBy(certs, g[i - 1])
  BY <1>1, SignersAre
<1> DEFINE Trusted(x) == \E c \in certs : c.dev = x /\ Trusting(c)
           S == {i \in 0 .. n : \E x \in g[i] : ~Trusted(x)}
<1> SUFFICES ASSUME S # {} PROVE FALSE
  BY <1>1, <1>2
<1>3. PICK k \in S : \A y \in S : k <= y
  <2>1. S \in SUBSET Nat
    BY <1>1
  <2> HIDE DEF S
  <2> QED BY <2>1, LeastElement
<1>4. PICK x \in g[k] : ~Trusted(x)
  BY <1>3
<1>5. k \in 0 .. n /\ n \in Nat
  BY <1>1, <1>3
<1>6. CASE k = 0
  BY <1>2, <1>4, <1>6 DEF RootSigners
<1>7. CASE k # 0
  <2>1. k \in 1 .. n /\ k - 1 \in 0 .. n
    BY <1>5, <1>7
  <2>2. x \in g[k - 1] \/ x \in SignedBy(certs, g[k - 1])
    BY <1>2, <1>4, <2>1
  <2>3. x \notin SignedBy(certs, g[k - 1])
    BY <1>4 DEF SignedBy
  <2>4. k - 1 \in S
    BY <1>4, <2>1, <2>2, <2>3
  <2> QED BY <1>3, <1>5, <2>4
<1> QED BY <1>6, <1>7

(* While no certificate has expired, all but the last device of a path are *)
(* signers.                                                                *)
LEMMA PathSigners ==
  ASSUME NEW certs, NEW n \in Nat, n = Cardinality(certs), NEW p, NEW d,
         PathOf(certs, p, n, d), \A c \in certs : c.expiry > now
  PROVE  \A i \in 1 .. n - 1 : p[i].dev \in Signers(certs)
<1>1. PICK g : /\ Signers(certs) = g[n]
               /\ g[0] = RootSigners(certs)
               /\ \A i \in 1 .. n : g[i] = g[i - 1] \cup SignedBy(certs, g[i - 1])
  BY SignersAre
<1> DEFINE S == {m \in 0 .. n : \E i \in 1 .. n - 1 : i <= m + 1 /\ p[i].dev \notin g[m]}
<1> SUFFICES ASSUME S # {} PROVE FALSE
  BY <1>1
<1>2. PICK k \in S : \A y \in S : k <= y
  <2>1. S \in SUBSET Nat
    OBVIOUS
  <2> HIDE DEF S
  <2> QED BY <2>1, LeastElement
<1>3. PICK i \in 1 .. n - 1 : i <= k + 1 /\ p[i].dev \notin g[k]
  BY <1>2
<1>4. k \in 0 .. n
  BY <1>2
<1>5. p[i] \in certs /\ Trusting(p[i])
  BY <1>3 DEF PathOf, IsPath, Trusting
<1>6. CASE k = 0
  <2>1. i = 1 /\ p[i].dev = Root
    BY <1>3, <1>6 DEF PathOf, IsPath
  <2> QED BY <1>1, <1>3, <1>5, <1>6, <2>1 DEF RootSigners
<1>7. CASE k # 0
  <2>1. k \in 1 .. n /\ k - 1 \in 0 .. n /\ k - 1 \notin S
    BY <1>2, <1>4, <1>7
  <2>2. \A j \in 1 .. n - 1 : j <= k => p[j].dev \in g[k - 1]
    BY <2>1
  <2>3. i = k + 1
    BY <1>1, <1>3, <2>1, <2>2
  <2>4. k \in 1 .. n - 1 /\ p[i].by = p[k].dev
    BY <1>3, <2>1, <2>3 DEF PathOf, IsPath
  <2>5. p[i].dev \in SignedBy(certs, g[k - 1])
    BY <1>5, <2>2, <2>4 DEF SignedBy
  <2> QED BY <1>1, <1>3, <2>1, <2>5
<1> QED BY <1>6, <1>7

(* A device's chain is verified as long as none of it has expired.         *)
LEMMA VerifiedIs ==
  ASSUME NEW d \in Devices, Chained(d)
  PROVE  Verified(chain[d], d) <=> \A c \in chain[d] : c.expiry > now
<1>1. PICK n : n = Cardinality(chain[d])
  OBVIOUS
<1>2. n \in Nat \ {0}
  BY <1>1, FS_CardinalityType DEF Chained
<1>3. PICK p \in [1 .. n -> chain[d]] : PathOf(chain[d], p, n, d)
  BY <1>1 DEF Chained
<1>4. ASSUME Verified(chain[d], d), NEW c \in chain[d] PROVE c.expiry > now
  <2>1. PICK i \in 1 .. n : c = p[i]
    BY <1>3 DEF PathOf
  <2>2. CASE i = n
    <3>1. PICK own \in chain[d] : own.dev = d /\ own.expiry > now
      BY <1>4 DEF Verified
    <3>2. PICK j \in 1 .. n : own = p[j]
      BY <1>3 DEF PathOf
    <3>3. j = n
      BY <1>2, <1>3, <3>1, <3>2 DEF PathOf, IsPath
    <3> QED BY <2>1, <2>2, <3>1, <3>2, <3>3
  <2>3. CASE i # n
    <3>1. i \in 1 .. n - 1 /\ i + 1 \in 2 .. n /\ 1 \in 1 .. n
      BY <1>2, <2>1, <2>3
    <3>2. p[i + 1].by = p[i].dev /\ p[i + 1].dev # Root /\ p[i + 1] \in chain[d]
      BY <1>2, <1>3, <3>1 DEF PathOf, IsPath
    <3>3. p[i].dev \in Signers(chain[d])
      BY <1>4, <3>2 DEF Verified
    <3>4. PICK s \in chain[d] : s.dev = p[i].dev /\ Trusting(s)
      BY <1>1, <1>2, <3>3, SignersAreTrusted
    <3>5. PICK j \in 1 .. n : s = p[j]
      BY <1>3 DEF PathOf
    <3>6. j = i
      BY <1>3, <3>4, <3>5 DEF PathOf, IsPath
    <3> QED BY <2>1, <3>4, <3>5, <3>6 DEF Trusting
  <2> QED BY <2>2, <2>3
<1>5. ASSUME \A c \in chain[d] : c.expiry > now PROVE Verified(chain[d], d)
  <2>1. 1 \in 1 .. n /\ n \in 1 .. n
    BY <1>2
  <2>2. \E c \in chain[d] : c.dev = Root /\ c.expiry > now
    BY <1>3, <1>5, <2>1 DEF PathOf, IsPath
  <2>3. \E c \in chain[d] : c.dev = d /\ c.expiry > now
    BY <1>3, <1>5, <2>1 DEF PathOf, IsPath
  <2>4. ASSUME NEW c \in chain[d] PROVE c.dev = Root \/ c.by \in Signers(chain[d])
    <3>1. PICK i \in 1 .. n : c = p[i]
      BY <1>3 DEF PathOf
    <3>2. CASE i = 1
      BY <1>3, <3>1, <3>2 DEF PathOf, IsPath
    <3>3. CASE i # 1
      <4>1. i - 1 \in 1 .. n - 1 /\ i = (i - 1) + 1
        BY <1>2, <3>1, <3>3
      <4>2. c.by = p[i - 1].dev
        BY <1>3, <3>1, <4>1 DEF PathOf, IsPath
      <4>3. p[i - 1].dev \in Signers(chain[d])
        BY <1>1, <1>2, <1>3, <1>5, <4>1, PathSigners
      <4> QED BY <4>2, <4>3
    <3> QED BY <3>2, <3>3
  <2> QED BY <2>2, <2>3, <2>4 DEF Verified
<1> QED BY <1>4, <1>5
-----------------------------------------------------------------------------
(* What a look-up ends with.                                               *)
Unexpired == {d \in Devices : \A c \in chain[d] : c.expiry > now}
Ends(found, pc, chains, pks, info) ==
  /\ found.pc = pc /\ found.chains = chains /\ found.pks = pks /\ found.newChains = {}
  /\ found.newPks = NoKeys /\ found.since = info.since /\ found.known = info.known
  /\ found.valid = Unexpired

LEMMA FoundIs ==
  ASSUME NEW c, NEW info \in LookUpType
  PROVE  /\ Found(c, info) \in LookUpType
         /\ \/ Found(c, info) = Idle
            \/ c = Sender /\ Ends(Found(c, info), "send", {}, Recipients(info.chains, info.pks), info)
            \/ c = Reader /\ Ends(Found(c, info), "profile", Valid(info.chains), NoKeys, info)
<1> DEFINE keys == Recipients(info.chains, info.pks)
           found == [Idle EXCEPT !.since = info.since, !.known = info.known, !.valid = Unexpired]
           sender == [found EXCEPT !.pc = "send", !.pks = keys]
           reader == [found EXCEPT !.pc = "profile", !.chains = Valid(info.chains)]
<1>1. Idle \in LookUpType
  BY DEF Idle, LookUpType, NoKeys, Keys
<1>2. info.since \in Keys /\ info.known \in SUBSET Devices /\ Unexpired \in SUBSET Devices
  BY DEF LookUpType, Unexpired
<1>3. keys \in Keys /\ Valid(info.chains) \in SUBSET Devices
  BY DEF Recipients, LookUpType, Keys, Valid
<1>4. found \in LookUpType
  <2> HIDE DEF Idle, Unexpired
  <2> QED BY <1>1, <1>2 DEF LookUpType
<1>5. /\ found.chains = {} /\ found.pks = NoKeys /\ found.newChains = {} /\ found.newPks = NoKeys
      /\ found.since = info.since /\ found.known = info.known /\ found.valid = Unexpired
  BY DEF Idle
<1>6. \/ Found(c, info) = Idle
      \/ c = Sender /\ Found(c, info) = sender
      \/ c = Reader /\ Found(c, info) = reader
  BY DEF Found, Unexpired
<1> HIDE DEF keys, found
<1>7. sender \in LookUpType /\ reader \in LookUpType
  BY <1>3, <1>4 DEF LookUpType
<1>8. Ends(sender, "send", {}, keys, info)
  BY <1>4, <1>5 DEF Ends, LookUpType
<1>9. Ends(reader, "profile", Valid(info.chains), NoKeys, info)
  BY <1>4, <1>5 DEF Ends, LookUpType
<1> HIDE DEF sender, reader
<1> QED BY <1>1, <1>6, <1>7, <1>8, <1>9 DEF keys
-----------------------------------------------------------------------------
(* The types are kept.                                                     *)
LEMMA DeviceTypes ==
  ASSUME Types, NEW d \in Devices,
         \/ \E n \in Devices : NewDeviceBundle(d, n)
         \/ Enrol(d) \/ FirstKey(d) \/ Rotate(d)
         \/ \E k \in 1 .. made[d] : StoreKey(d, k)
         \/ UploadDone(d) \/ UploadFails(d) \/ Receive(d)
  PROVE  Types'
<1> USE DEF Types
<1>1. ASSUME NEW n \in Devices, NewDeviceBundle(d, n) PROVE Types'
  <2>1. PICK b \in Bundles :
          chain' = [chain EXCEPT ![n] = chain[d] \cup {Certificate(n, d, b.expiry, b.can)}]
    BY <1>1 DEF NewDeviceBundle
  <2>2. Certificate(n, d, b.expiry, b.can) \in Cert
    BY WorkloadBounds DEF Certificate, Cert
  <2>3. chain' \in [Devices -> SUBSET Cert]
    BY <2>1, <2>2
  <2> QED BY <1>1, <2>3 DEF NewDeviceBundle, serverVars, senderVars, mailVars
<1>2. CASE Enrol(d)
  BY <1>2 DEF Enrol, senderVars, mailVars
<1>3. ASSUME NewKey(d) PROVE made' \in Keys /\ up' \in Keys /\ uploads' \subseteq Devices \X Nat
  BY <1>3 DEF NewKey, Keys
<1>4. CASE FirstKey(d)
  BY <1>3, <1>4 DEF FirstKey, senderVars, mailVars
<1>5. CASE Rotate(d)
  <2>1. cur' \in Keys /\ prev' \in Keys
    BY <1>3, <1>5 DEF Rotate, Keys, Shifted
  <2> QED BY <1>3, <1>5, <2>1 DEF Rotate, senderVars, mailVars
<1>6. ASSUME NEW k \in 1 .. made[d], StoreKey(d, k) PROVE Types'
  <2>1. pk' \in Keys
    BY <1>6 DEF StoreKey, Keys
  <2> QED BY <1>6, <2>1 DEF StoreKey, deviceVars, senderVars, mailVars
<1>7. CASE UploadDone(d)
  <2>1. up' \in Keys /\ cur' \in Keys /\ prev' \in Keys
    BY <1>7 DEF UploadDone, Keys
  <2> QED BY <1>7, <2>1 DEF UploadDone, serverVars, senderVars, mailVars
<1>8. CASE UploadFails(d)
  <2>1. up' \in Keys
    BY <1>8 DEF UploadFails, Keys
  <2> QED BY <1>8, <2>1 DEF UploadFails, senderVars, mailVars
<1>9. CASE Receive(d)
  <2>1. read' \in Keys
    BY <1>9 DEF Receive, Keys
  <2> QED BY <1>9, <2>1 DEF Receive, deviceVars, serverVars, senderVars
<1> QED BY <1>1, <1>2, <1>4, <1>5, <1>6, <1>7, <1>8, <1>9

LEMMA LookUpTypes ==
  ASSUME Types, NEW c \in Callers,
         \/ LookUp(c) \/ LoadPks(c) \/ LoadTime(c)
         \/ FetchChains(c) \/ FetchPks(c) \/ FetchFails(c) \/ Store(c)
  PROVE  Types'
<1> USE DEF Types
<1>1. call[c] \in LookUpType /\ cache \in CacheType
  OBVIOUS
<1>2. Idle \in LookUpType
  BY DEF Idle, LookUpType, NoKeys, Keys
<1>3. CASE LookUp(c)
  <2>1. {d \in enrolled : pk[d] # 0} \in SUBSET Devices
    OBVIOUS
  <2>2. [Idle EXCEPT !.pc = "pks", !.chains = cache.chains, !.since = made,
                     !.known = {d \in enrolled : pk[d] # 0}] \in LookUpType
    BY <1>1, <1>2, <2>1 DEF CacheType, LookUpType
  <2>3. call' \in [Callers -> LookUpType]
    BY <1>3, <2>2 DEF LookUp
  <2> QED BY <1>3, <2>3 DEF LookUp, deviceVars, serverVars, mailVars
<1>4. CASE LoadPks(c)
  <2>1. call' \in [Callers -> LookUpType]
    BY <1>1, <1>4 DEF LoadPks, LookUpType, CacheType
  <2> QED BY <1>4, <2>1 DEF LoadPks, deviceVars, serverVars, mailVars
<1>5. CASE LoadTime(c)
  <2>1. [call[c] EXCEPT !.since = cache.since, !.known = cache.known] \in LookUpType
    BY <1>1 DEF LookUpType, CacheType
  <2>2. call' \in [Callers -> LookUpType]
    <3>1. CASE cache.fresh /\ call[c].chains # {}
      BY <1>5, <2>1, <3>1, FoundIs DEF LoadTime
    <3>2. CASE ~(cache.fresh /\ call[c].chains # {})
      BY <1>1, <1>5, <3>2 DEF LoadTime, LookUpType
    <3> QED BY <3>1, <3>2
  <2> QED BY <1>5, <2>2 DEF LoadTime, deviceVars, serverVars, mailVars
<1>6. CASE FetchChains(c)
  <2>1. call[c].got \cup {"chains"} \in SUBSET {"chains", "pks"}
    BY <1>1 DEF LookUpType
  <2>2. call' \in [Callers -> LookUpType]
    BY <1>1, <1>6, <2>1 DEF FetchChains, LookUpType
  <2> QED BY <1>6, <2>2 DEF FetchChains, deviceVars, serverVars, mailVars
<1>7. CASE FetchPks(c)
  <2>1. call[c].got \cup {"pks"} \in SUBSET {"chains", "pks"}
    BY <1>1 DEF LookUpType
  <2>2. [d \in Devices |-> IF d \in enrolled THEN pk[d] ELSE 0] \in Keys
    BY DEF Keys
  <2>3. call' \in [Callers -> LookUpType]
    BY <1>1, <1>7, <2>1, <2>2 DEF FetchPks, LookUpType
  <2> QED BY <1>7, <2>3 DEF FetchPks, deviceVars, serverVars, mailVars
<1>8. CASE FetchFails(c)
  BY <1>2, <1>8 DEF FetchFails, deviceVars, serverVars, mailVars
<1>9. CASE Store(c)
  <2>1. Merged(call[c].pks, call[c].newPks) \in Keys
    BY <1>1 DEF Merged, LookUpType, Keys
  <2>2. cache' \in CacheType
    BY <1>1, <1>9, <2>1 DEF Store, CacheType, LookUpType
  <2>3. [call[c] EXCEPT !.chains = call[c].newChains, !.pks = Merged(call[c].pks, call[c].newPks)]
          \in LookUpType
    BY <1>1, <2>1 DEF LookUpType
  <2>4. call' \in [Callers -> LookUpType]
    BY <1>9, <2>3, FoundIs DEF Store
  <2>5. overtaken' \in BOOLEAN
    BY <1>9 DEF Store
  <2> QED BY <1>9, <2>2, <2>4, <2>5 DEF Store, deviceVars, serverVars, mailVars
<1> QED BY <1>3, <1>4, <1>5, <1>6, <1>7, <1>8, <1>9

LEMMA OtherTypes ==
  ASSUME Types, Tick \/ GoesStale \/ Post \/ GetProfile \/ UNCHANGED vars
  PROVE  Types'
<1> USE DEF Types
<1>1. CASE Tick
  BY <1>1 DEF Tick, deviceVars, serverVars, senderVars, mailVars
<1>2. CASE GoesStale
  <2>1. cache' \in CacheType
    BY <1>2 DEF GoesStale, CacheType
  <2> QED BY <1>2, <2>1 DEF GoesStale, deviceVars, serverVars, mailVars
<1>3. Idle \in LookUpType
  BY DEF Idle, LookUpType, NoKeys, Keys
<1>4. CASE Post
  <2>1. call[Sender] \in LookUpType /\ Sender \in Callers
    BY RootIsDevice
  <2>2. [keys |-> call[Sender].pks, since |-> call[Sender].since, known |-> call[Sender].known,
         valid |-> call[Sender].valid] \in MessageType
    BY <2>1 DEF LookUpType, MessageType
  <2>3. messages' \in Seq(MessageType)
    BY <1>4, <2>2, AppendProperties DEF Post
  <2>4. call' \in [Callers -> LookUpType]
    BY <1>3, <1>4 DEF Post
  <2> QED BY <1>4, <2>3, <2>4 DEF Post, deviceVars, serverVars
<1>5. CASE GetProfile
  BY <1>3, <1>5 DEF GetProfile, deviceVars, serverVars, mailVars
<1>6. CASE UNCHANGED vars
  BY <1>6 DEF vars, deviceVars, serverVars, senderVars, mailVars
<1> QED BY <1>1, <1>2, <1>4, <1>5, <1>6
-----------------------------------------------------------------------------
(* What never goes back, and what therefore stays true of a look-up, of a  *)
(* message and of a missed one while the sender's state is the same.       *)
Growth ==
  /\ enrolled \subseteq enrolled' /\ failed \subseteq failed'
  /\ \A d \in Devices : made[d] <= made'[d] /\ (pk[d] # 0 => pk'[d] # 0)

LEMMA RecentStays ==
  ASSUME Types, Types', Growth, NEW pks \in Keys, NEW since \in Keys
  PROVE  /\ Made(pks) => Made(pks)'
         /\ Recent(pks, since) => Recent(pks, since)'
<1> USE DEF Growth
<1>1. \A d \in Devices : made[d] \in Nat /\ made'[d] \in Nat /\ pks[d] \in Nat /\ since[d] \in Nat
  BY DEF Types, Keys
<1>2. ASSUME NEW d \in Devices PROVE NoneFailed(d, since[d])' => NoneFailed(d, since[d])
  BY DEF NoneFailed
<1>3. ASSUME Made(pks), NEW d \in Devices PROVE pks[d] <= made'[d]
  BY <1>1, <1>3 DEF Made
<1>4. ASSUME Recent(pks, since), NEW d \in Devices
      PROVE  since[d] <= made'[d] /\ (NoneFailed(d, since[d])' => pks[d] + 1 >= since[d])
  BY <1>1, <1>2, <1>4 DEF Recent
<1> QED BY <1>3, <1>4 DEF Made, Recent

LEMMA LookUpStays ==
  ASSUME Types, Types', Growth, NEW c \in Callers, NEW r \in LookUpType, LookUpOk(c, r),
         ~overtaken' => ~overtaken /\ (r.pc \in {"pks", "time", "fetch"} =>
                                         cache'.chains = cache.chains /\ cache'.pks = cache.pks)
  PROVE  LookUpOk(c, r)'
<1>1. /\ r.pks \in Keys /\ r.newPks \in Keys /\ r.since \in Keys
      /\ r.known \subseteq Devices
  BY DEF LookUpType
<1>2. Made(r.pks)' /\ Made(r.newPks)' /\ Made(r.since)'
  BY <1>1, RecentStays DEF LookUpOk
<1>3. Recent(r.newPks, r.since) => Recent(r.newPks, r.since)'
  BY <1>1, RecentStays
<1>4. enrolled \subseteq enrolled' /\ \A d \in r.known : pk[d] # 0 => pk'[d] # 0
  BY <1>1 DEF Growth
<1> HIDE DEF Growth
<1> QED BY <1>2, <1>3, <1>4 DEF LookUpOk

LEMMA EncryptedStays ==
  ASSUME Types, Types', Growth, NEW m \in MessageType, Encrypted(m),
         ~overtaken' => ~overtaken /\ \A d \in Devices : cache.pks[d] <= cache'.pks[d]
  PROVE  Encrypted(m)'
<1>1. m.keys \in Keys /\ m.since \in Keys
  BY DEF MessageType
<1>2. Made(m.keys)' /\ Made(m.since)'
  BY <1>1, RecentStays DEF Encrypted
<1>3. \A d \in Devices : NoneFailed(d, m.since[d])' => NoneFailed(d, m.since[d])
  BY DEF NoneFailed, Growth
<1>4. \A d \in Devices : m.keys[d] \in Nat /\ cache.pks[d] \in Nat /\ cache'.pks[d] \in Nat
  BY <1>1 DEF Types, CacheType, Keys
<1>5. ~overtaken' => \A d \in Devices : m.keys[d] <= cache'.pks[d]
  BY <1>4 DEF Encrypted
<1> QED BY <1>2, <1>3, <1>5 DEF Encrypted

LEMMA SenderKept ==
  ASSUME Inv, Types', Growth, UNCHANGED <<call, overtaken, messages>>,
         /\ cache'.chains = cache.chains /\ cache'.pks = cache.pks
         /\ cache'.since = cache.since /\ cache'.known = cache.known
  PROVE  CacheInv' /\ (\A c \in Callers : LookUpInv(c)') /\ MessagesInv'
<1>1. Types
  BY DEF Inv
<1>2. CacheInv'
  <2>1. cache.pks \in Keys /\ cache.since \in Keys
    BY <1>1 DEF Types, CacheType
  <2>2. Recent(cache.pks, cache.since) /\ Made(cache.pks)
    BY DEF Inv, CacheInv
  <2>3. PICK r : r = cache
    OBVIOUS
  <2>4. Recent(r.pks, r.since)' /\ Made(r.pks)'
    BY <1>1, <2>1, <2>2, <2>3, RecentStays
  <2>5. /\ cache = r /\ cache'.chains = r.chains /\ cache'.pks = r.pks
        /\ cache'.since = r.since /\ cache'.known = r.known
    BY <2>3
  <2>6. enrolled \subseteq enrolled'
    BY DEF Growth
  <2> QED BY <2>4, <2>5, <2>6 DEF Inv, CacheInv, Recent, Made
<1>3. ASSUME NEW c \in Callers PROVE LookUpInv(c)'
  <2>1. PICK r : r = call[c]
    OBVIOUS
  <2>2. r \in LookUpType /\ LookUpOk(c, r) /\ call'[c] = r
    BY <1>1, <2>1 DEF Types, Inv, LookUpInv
  <2>3. LookUpOk(c, r)'
    BY <1>1, <2>2, LookUpStays
  <2> QED BY <2>2, <2>3 DEF LookUpInv, LookUpOk, Made, Recent, NoneFailed
<1>4. ASSUME NEW m \in MessageType, Encrypted(m) PROVE Encrypted(m)'
  <2>1. \A d \in Devices : cache.pks[d] \in Nat
    BY <1>1 DEF Types, CacheType, Keys
  <2>2. \A d \in Devices : cache.pks[d] <= cache'.pks[d]
    BY <2>1
  <2> QED BY <1>1, <1>4, <2>2, EncryptedStays
<1>5. MessagesInv'
  <2>1. MessagesInv
    BY DEF Inv
  <2>2. ASSUME NEW n \in 1 .. Len(messages) PROVE Encrypted(messages[n])' /\ NotBefore(messages[n].keys, n - 1)'
    <3>1. PICK m : m = messages[n]
      OBVIOUS
    <3>2. m \in MessageType /\ Encrypted(m) /\ messages'[n] = m
      BY <1>1, <2>1, <3>1, ElementOfSeq DEF Types, MessagesInv
    <3>3. Encrypted(m)'
      BY <1>4, <3>2
    <3>4. NotBefore(messages[n].keys, n - 1)'
      BY <2>1 DEF MessagesInv, NotBefore
    <3> QED BY <3>2, <3>3, <3>4 DEF Encrypted, Made, NoneFailed
  <2>3. ASSUME call[Sender].pc = "send"
        PROVE  Encrypted(Sending(call[Sender]))' /\ NotBefore(call[Sender].pks, Len(messages))'
    <3>1. PICK m : m = Sending(call[Sender])
      OBVIOUS
    <3>2. call[Sender] \in LookUpType
      BY <1>1, RootIsDevice DEF Types
    <3>3. m \in MessageType
      BY <3>1, <3>2 DEF Sending, LookUpType, MessageType
    <3>4. Encrypted(m) /\ NotBefore(call[Sender].pks, Len(messages))
      BY <2>1, <2>3, <3>1 DEF MessagesInv
    <3>5. Encrypted(m)'
      BY <1>4, <3>3, <3>4
    <3>6. NotBefore(call[Sender].pks, Len(messages))'
      BY <3>4 DEF NotBefore
    <3>7. m = Sending(call'[Sender])
      BY <3>1
    <3> QED BY <3>5, <3>6, <3>7 DEF Encrypted, Made, NoneFailed, Sending
  <2> QED BY <2>2, <2>3 DEF MessagesInv
<1> QED BY <1>2, <1>3, <1>5

LEMMA ReceivedKept ==
  ASSUME Inv, Types', Growth, overtaken => overtaken', UNCHANGED <<read, missed>>,
         Len(messages) <= Len(messages'),
         \A n \in 1 .. Len(messages) : messages'[n] = messages[n]
  PROVE  ReceivedInv'
<1>1. Len(messages) \in Nat /\ Len(messages') \in Nat /\ ReceivedInv
  BY DEF Inv, Types
<1>2. ASSUME NEW e \in missed PROVE Unopened(e)'
  BY <1>1 DEF ReceivedInv, Unopened, Growth
<1>3. ASSUME NEW d \in Devices PROVE read'[d] \in 0 .. Len(messages')
  BY <1>1 DEF ReceivedInv
<1> QED BY <1>2, <1>3 DEF ReceivedInv

LEMMA DevicesKept ==
  ASSUME Inv, UNCHANGED <<deviceVars, serverVars, failed>>
  PROVE  Chains' /\ DevicesInv' /\ Growth
<1> USE DEF deviceVars, serverVars
<1>1. Chains'
  BY DEF Inv, Chains, Chained
<1>2. DevicesInv'
  BY DEF Inv, DevicesInv, Uploading, Holds, PkFollows, NoneFailed
<1>3. Growth
  BY DEF Inv, Types, Growth, Keys
<1> QED BY <1>1, <1>2, <1>3
-----------------------------------------------------------------------------
(* The devices: chains grow by a new device only, and a step of one device *)
(* leaves the others as they are.                                          *)
LEMMA ChainsKept ==
  ASSUME Inv, chain' = chain, phase'[Root] = "active",
         \A d \in Devices : phase'[d] # "none" <=> phase[d] # "none"
  PROVE  Chains'
<1>1. ASSUME NEW d \in Devices, phase'[d] # "none" PROVE Chained(d)'
  <2>1. Chained(d) /\ \A c \in chain[d] : c.dev \in Devices
    BY <1>1 DEF Inv, Chains, Types, Cert
  <2> QED BY <2>1 DEF Chained
<1> QED BY <1>1 DEF Chains

LEMMA ChainGrows ==
  ASSUME Inv, NEW d \in Devices, NEW n \in Devices, NewDeviceBundle(d, n)
  PROVE  Chains'
<1>1. PICK b \in Bundles :
        chain' = [chain EXCEPT ![n] = chain[d] \cup {Certificate(n, d, b.expiry, b.can)}]
  BY DEF NewDeviceBundle
<1>2. PICK c : c = Certificate(n, d, b.expiry, b.can)
  OBVIOUS
<1>3. c.dev = n /\ c.by = d
  BY <1>2 DEF Certificate
<1>4. PICK certs : certs = chain[d]
  OBVIOUS
<1>5. /\ chain'[n] = certs \cup {c}
      /\ \A e \in Devices \ {n} : chain'[e] = chain[e]
  BY <1>1, <1>2, <1>4 DEF Inv, Types
<1>6. /\ phase[d] = "active" /\ phase[n] = "none" /\ phase'[n] = "bundle"
      /\ \A e \in Devices \ {n} : phase'[e] = phase[e]
  BY DEF NewDeviceBundle, Inv, Types, Registered
<1>7. n # Root
  BY <1>6 DEF Inv, Chains
<1>8. Chained(d) /\ \A s \in certs : s.dev \in Devices /\ s.dev # n
  BY <1>4, <1>6 DEF Inv, Chains, Chained, Types, Cert
<1>9. PICK k : k = Cardinality(certs)
  OBVIOUS
<1>10. IsFiniteSet(certs) /\ k \in Nat \ {0} /\ c \notin certs
  BY <1>3, <1>4, <1>8, <1>9, FS_CardinalityType DEF Chained
<1>11. IsFiniteSet(certs \cup {c}) /\ Cardinality(certs \cup {c}) = k + 1
  BY <1>9, <1>10, FS_AddElement
<1>12. PICK p \in [1 .. k -> certs] : PathOf(certs, p, k, d)
  BY <1>4, <1>8, <1>9 DEF Chained
<1>13. PICK q : q = [i \in 1 .. k + 1 |-> IF i <= k THEN p[i] ELSE c]
  OBVIOUS
<1>14. /\ \A i \in 1 .. k : q[i] = p[i] /\ p[i] \in certs
       /\ q[k + 1] = c
       /\ q \in [1 .. k + 1 -> certs \cup {c}]
  BY <1>10, <1>12, <1>13
<1>15. PathOf(certs \cup {c}, q, k + 1, n)
  <2>1. q[1].dev = Root /\ q[k + 1].dev = n
    BY <1>3, <1>10, <1>12, <1>14 DEF PathOf, IsPath
  <2>2. ASSUME NEW i \in 1 .. k PROVE q[i].canIssue /\ q[i + 1].by = q[i].dev
    <3>1. CASE i = k
      <4>1. PICK own \in certs : own.dev = d /\ own.canIssue
        BY <1>4 DEF NewDeviceBundle
      <4>2. PICK j \in 1 .. k : own = p[j]
        BY <1>12 DEF PathOf
      <4>3. p[k].dev = d /\ j = k
        BY <1>10, <1>12, <4>1, <4>2 DEF PathOf, IsPath
      <4> QED BY <1>3, <1>14, <3>1, <4>1, <4>2, <4>3
    <3>2. CASE i # k
      <4>1. i \in 1 .. k - 1 /\ i + 1 \in 1 .. k
        BY <1>10, <3>2
      <4> QED BY <1>12, <1>14, <4>1 DEF PathOf, IsPath
    <3> QED BY <3>1, <3>2
  <2>3. ASSUME NEW i \in 1 .. k + 1, NEW j \in 1 .. k + 1, q[i].dev = q[j].dev PROVE i = j
    <3>1. (i \in 1 .. k \/ i = k + 1) /\ (j \in 1 .. k \/ j = k + 1)
      BY <1>10
    <3>2. \A m \in 1 .. k : q[m].dev # n
      BY <1>8, <1>14
    <3> QED BY <1>3, <1>12, <1>14, <2>3, <3>1, <3>2 DEF PathOf, IsPath
  <2>4. \A i \in 1 .. k + 1 : q[i] \in certs \cup {c}
    BY <1>14
  <2>5. ASSUME NEW s \in certs \cup {c} PROVE \E i \in 1 .. k + 1 : s = q[i]
    <3>1. CASE s = c
      BY <1>10, <1>14, <3>1
    <3>2. CASE s \in certs
      <4>1. PICK i \in 1 .. k : s = p[i]
        BY <1>12, <3>2 DEF PathOf
      <4>2. i \in 1 .. k + 1 /\ s = q[i]
        BY <1>10, <1>14, <4>1
      <4> QED BY <4>2
    <3> QED BY <3>1, <3>2
  <2>6. \A i \in 1 .. (k + 1) - 1 : i \in 1 .. k
    BY <1>10
  <2> QED BY <2>1, <2>2, <2>3, <2>4, <2>5, <2>6 DEF PathOf, IsPath
<1>16. Chained(n)'
  <2>1. \A s \in certs \cup {c} : phase'[s.dev] # "none"
    BY <1>3, <1>4, <1>6, <1>8 DEF Chained
  <2>2. PICK all : all = certs \cup {c}
    OBVIOUS
  <2>3. chain'[n] = all /\ IsFiniteSet(all) /\ Cardinality(all) = k + 1 /\ k + 1 # 0
    BY <1>5, <1>10, <1>11, <2>2
  <2>4. q \in [1 .. Cardinality(all) -> all] /\ PathOf(all, q, Cardinality(all), n)
    BY <1>14, <1>15, <2>2, <2>3
  <2>5. \A s \in all : phase'[s.dev] # "none"
    BY <2>1, <2>2
  <2> QED BY <2>3, <2>4, <2>5 DEF Chained
<1>17. ASSUME NEW e \in Devices \ {n}, phase'[e] # "none" PROVE Chained(e)'
  <2>1. Chained(e) /\ chain'[e] = chain[e] /\ \A s \in chain[e] : s.dev \in Devices
    BY <1>5, <1>6, <1>17 DEF Inv, Chains, Types, Cert
  <2>2. \A s \in chain[e] : phase'[s.dev] # "none"
    BY <1>6, <2>1 DEF Chained
  <2> QED BY <2>1, <2>2 DEF Chained
<1> QED BY <1>6, <1>7, <1>16, <1>17, RootIsDevice DEF Chains, Inv

LEMMA OtherDevicesKept ==
  ASSUME Inv, NEW d \in Devices, NEW e \in Devices \ {d},
         /\ made'[e] = made[e] /\ cur'[e] = cur[e] /\ prev'[e] = prev[e] /\ up'[e] = up[e]
         /\ pk'[e] = pk[e] /\ phase'[e] = phase[e] /\ (e \in enrolled <=> e \in enrolled'),
         \A n \in Nat : /\ <<e, n>> \in uploads => <<e, n>> \in uploads'
                        /\ <<e, n>> \in failed <=> <<e, n>> \in failed'
  PROVE  Holds(e)' /\ PkFollows(e)'
<1>1. Holds(e) /\ PkFollows(e) /\ made[e] \in Nat
  BY DEF Inv, DevicesInv, Types, Keys
<1>2. Holds(e)'
  BY <1>1 DEF Holds
<1>3. \A n \in 0 .. made[e] : NoneFailed(e, n)' => NoneFailed(e, n)
  BY <1>1 DEF NoneFailed
<1>4. PkFollows(e)'
  BY <1>1, <1>3 DEF PkFollows
<1> QED BY <1>2, <1>4
-----------------------------------------------------------------------------
(* Each step of a device.                                                  *)
LEMMA BundleStep ==
  ASSUME Inv, NEW d \in Devices, NEW n \in Devices, NewDeviceBundle(d, n)
  PROVE  Chains' /\ DevicesInv' /\ Growth
<1>1. /\ phase[n] = "none" /\ phase'[n] = "bundle" /\ \A e \in Devices \ {n} : phase'[e] = phase[e]
      /\ UNCHANGED <<made, cur, prev, up, enrolled, pk, uploads, failed>>
  BY DEF NewDeviceBundle, Inv, Types, serverVars
<1>2. Holds(n)
  BY DEF Inv, DevicesInv
<1>3. Holds(n)' /\ PkFollows(n)'
  BY <1>1, <1>2 DEF Holds, PkFollows, NoneFailed, Inv, DevicesInv
<1>4. \A e \in Devices \ {n} : Holds(e)' /\ PkFollows(e)'
  BY <1>1, OtherDevicesKept
<1>5. Uploading'
  BY <1>1 DEF Inv, DevicesInv, Uploading
<1>6. Growth
  BY <1>1 DEF Growth, Inv, Types, Keys
<1> QED BY <1>3, <1>4, <1>5, <1>6, ChainGrows DEF DevicesInv

LEMMA EnrolStep ==
  ASSUME Inv, NEW d \in Devices, Enrol(d)
  PROVE  Chains' /\ DevicesInv' /\ Growth
<1>1. /\ phase[d] = "bundle" /\ phase'[d] \in {"bundle", "enrolled"}
      /\ \A e \in Devices \ {d} : phase'[e] = phase[e]
      /\ enrolled' = enrolled \cup {d}
      /\ UNCHANGED <<chain, made, cur, prev, up, pk, uploads, failed>>
  BY DEF Enrol, Inv, Types
<1>2. Holds(d) /\ PkFollows(d)
  BY DEF Inv, DevicesInv
<1>3. Holds(d)'
  BY <1>1, <1>2 DEF Holds
<1>4. PkFollows(d)'
  BY <1>1, <1>2 DEF PkFollows, NoneFailed
<1>5. \A e \in Devices \ {d} : Holds(e)' /\ PkFollows(e)'
  BY <1>1, OtherDevicesKept
<1>6. Uploading'
  BY <1>1 DEF Inv, DevicesInv, Uploading
<1>7. Growth
  BY <1>1 DEF Growth, Inv, Types, Keys
<1>8. Chains'
  BY <1>1, ChainsKept, RootIsDevice DEF Inv, Chains
<1> QED BY <1>3, <1>4, <1>5, <1>6, <1>7, <1>8 DEF DevicesInv

(* A new key, whatever else the device does at once.                       *)
LEMMA NewKeyStep ==
  ASSUME Inv, NEW d \in Devices, NewKey(d), UNCHANGED <<chain, phase, enrolled, pk, failed>>,
         \/ phase[d] = "enrolled" /\ UNCHANGED <<cur, prev>>
         \/ /\ phase[d] = "active"
            /\ cur' = [cur EXCEPT ![d] = made'[d]] /\ prev' = [prev EXCEPT ![d] = cur[d]]
  PROVE  Chains' /\ DevicesInv' /\ Growth
<1>1. PICK k : k = made[d]
  OBVIOUS
<1>2. /\ k \in Nat /\ up[d] = 0 /\ made'[d] = k + 1 /\ up'[d] = k + 1
      /\ uploads' = uploads \cup {<<d, k + 1>>}
      /\ \A e \in Devices \ {d} : made'[e] = made[e] /\ up'[e] = up[e]
  BY <1>1 DEF NewKey, Inv, Types, Keys
<1>3. Holds(d) /\ PkFollows(d) /\ pk[d] \in Nat /\ cur[d] \in Nat /\ prev[d] \in Nat
  BY DEF Inv, DevicesInv, Types, Keys
<1>4. \/ phase[d] = "enrolled" /\ cur'[d] = cur[d] /\ prev'[d] = prev[d]
      \/ phase[d] = "active" /\ cur'[d] = k + 1 /\ prev'[d] = cur[d]
  BY <1>2 DEF Inv, Types, Keys
<1>5. \A e \in Devices \ {d} : cur'[e] = cur[e] /\ prev'[e] = prev[e]
  BY DEF Inv, Types, Keys
<1>6. Holds(d)'
  <2>1. d \in enrolled
    BY <1>3, <1>4 DEF Holds
  <2>2. {cur'[d], prev'[d], pk[d]} \subseteq 0 .. k + 1
    BY <1>1, <1>2, <1>3, <1>4 DEF Holds
  <2>3. phase[d] # "active" => \A j \in 1 .. k + 1 : j = k + 1 \/ <<d, j>> \in failed
    BY <1>1, <1>2, <1>3 DEF Holds
  <2>4. phase[d] = "active" => cur'[d] = k + 1 /\ prev'[d] # 0 /\ prev'[d] + 1 = k + 1
    BY <1>1, <1>3, <1>4 DEF Holds
  <2>5. phase[d] \in {"enrolled", "active"} /\ k + 1 # 0
    BY <1>2, <1>4
  <2> QED BY <1>2, <2>1, <2>2, <2>3, <2>4, <2>5 DEF Holds
<1>7. PkFollows(d)'
  <2>1. ASSUME NEW n \in 0 .. k, NoneFailed(d, n) PROVE pk[d] >= n
    <3>1. \/ pk[d] >= n
          \/ n = up[d] /\ <<d, n>> \in uploads /\ pk[d] + 1 >= n
      BY <1>1, <1>3, <2>1 DEF PkFollows
    <3> QED BY <1>2, <1>3, <3>1
  <2>2. NoneFailed(d, k + 1) => NoneFailed(d, k)
    BY <1>2 DEF NoneFailed
  <2>3. \A n \in 0 .. k + 1 :
          NoneFailed(d, n) => pk[d] >= n \/ (n = k + 1 /\ pk[d] + 1 >= n)
    BY <1>2, <1>3, <2>1, <2>2
  <2>4. <<d, k + 1>> \in uploads'
    BY <1>2
  <2>5. \A n : NoneFailed(d, n)' <=> NoneFailed(d, n)
    BY DEF NoneFailed
  <2> QED BY <1>2, <2>3, <2>4, <2>5 DEF PkFollows
<1>8. \A e \in Devices \ {d} : Holds(e)' /\ PkFollows(e)'
  BY <1>2, <1>5, OtherDevicesKept
<1>9. Uploading'
  <2>1. d \in enrolled /\ Uploading /\ uploads \subseteq Devices \X Nat
    BY <1>3, <1>4 DEF Holds, Inv, DevicesInv, Types
  <2>2. ASSUME NEW u \in uploads
        PROVE  u[1] \in enrolled /\ u[2] \in 1 .. made'[u[1]] /\ (u[2] = up'[u[1]] \/ u \in failed)
    <3>1. u[1] \in Devices /\ u[2] \in Nat /\ u[2] \in 1 .. made[u[1]]
      BY <2>1 DEF Uploading
    <3>2. u[1] = d => u \in failed
      BY <1>2, <2>1, <3>1 DEF Uploading
    <3> QED BY <1>1, <1>2, <2>1, <3>1, <3>2 DEF Uploading
  <2>3. ASSUME NEW u \in uploads', u \notin uploads
        PROVE  u[1] \in enrolled /\ u[2] \in 1 .. made'[u[1]] /\ u[2] = up'[u[1]]
    BY <1>2, <2>1, <2>3
  <2> QED BY <2>2, <2>3 DEF Uploading
<1>10. Growth
  <2>1. \A e \in Devices : made[e] \in Nat
    BY DEF Inv, Types, Keys
  <2>2. \A e \in Devices : made[e] <= made'[e]
    <3>1. made[d] <= made'[d]
      BY <1>1, <1>2
    <3>2. \A e \in Devices \ {d} : made[e] <= made'[e]
      BY <1>2, <2>1
    <3> QED BY <3>1, <3>2
  <2> QED BY <2>2 DEF Growth
<1>11. Chains'
  BY ChainsKept DEF Inv, Chains
<1> QED BY <1>6, <1>7, <1>8, <1>9, <1>10, <1>11 DEF DevicesInv

LEMMA StoreKeyStep ==
  ASSUME Inv, NEW d \in Devices, NEW k \in 1 .. made[d], StoreKey(d, k)
  PROVE  Chains' /\ DevicesInv' /\ Growth
<1>1. /\ <<d, k>> \in uploads /\ uploads' = uploads \ {<<d, k>>}
      /\ pk'[d] = k /\ \A e \in Devices \ {d} : pk'[e] = pk[e]
      /\ UNCHANGED <<chain, phase, made, cur, prev, up, enrolled, failed>>
  BY DEF StoreKey, Inv, Types, Keys, deviceVars
<1>2. Holds(d) /\ PkFollows(d) /\ made[d] \in Nat /\ k \in Nat
  BY DEF Inv, DevicesInv, Types, Keys
<1>3. k = up[d] \/ <<d, k>> \in failed
  BY <1>1 DEF Inv, DevicesInv, Uploading
<1>4. Holds(d)'
  BY <1>1, <1>2 DEF Holds
<1>5. ASSUME NEW n \in 0 .. made[d], NoneFailed(d, n) PROVE k >= n
  <2>1. CASE k = up[d]
    BY <1>2, <2>1 DEF Holds
  <2>2. CASE <<d, k>> \in failed
    <3>1. k \notin 1 .. n
      BY <1>5, <2>2 DEF NoneFailed
    <3> QED BY <1>2, <3>1
  <2> QED BY <1>3, <2>1, <2>2
<1>6. PkFollows(d)'
  BY <1>1, <1>5 DEF PkFollows, NoneFailed
<1>7. \A e \in Devices \ {d} : Holds(e)' /\ PkFollows(e)'
  BY <1>1, OtherDevicesKept
<1>8. Uploading'
  BY <1>1 DEF Inv, DevicesInv, Uploading
<1>9. Growth
  BY <1>1, <1>2 DEF Growth, Inv, Types, Keys
<1>10. Chains'
  BY <1>1, ChainsKept DEF Inv, Chains
<1> QED BY <1>4, <1>6, <1>7, <1>8, <1>9, <1>10 DEF DevicesInv

LEMMA UploadDoneStep ==
  ASSUME Inv, NEW d \in Devices, UploadDone(d)
  PROVE  Chains' /\ DevicesInv' /\ Growth
<1>1. /\ up[d] # 0 /\ <<d, up[d]>> \notin uploads
      /\ up'[d] = 0 /\ phase'[d] = "active"
      /\ \A e \in Devices \ {d} : up'[e] = up[e] /\ phase'[e] = phase[e]
                                  /\ cur'[e] = cur[e] /\ prev'[e] = prev[e]
      /\ UNCHANGED <<chain, made, enrolled, pk, uploads, failed>>
  BY DEF UploadDone, Inv, Types, Keys, serverVars
<1>2. Holds(d) /\ PkFollows(d) /\ made[d] \in Nat /\ pk[d] \in Nat
  BY DEF Inv, DevicesInv, Types, Keys
<1>3. up[d] = made[d] /\ phase[d] # "none"
  BY <1>1, <1>2 DEF Holds
<1>4. \/ phase[d] = "active" /\ cur'[d] = cur[d] /\ prev'[d] = prev[d]
      \/ phase[d] # "active" /\ cur'[d] = made[d] /\ prev'[d] = made[d]
  BY <1>3 DEF UploadDone, Inv, Types, Keys, Registered
<1>5. Holds(d)'
  <2>1. d \in enrolled /\ made[d] # 0
    BY <1>1, <1>2, <1>3 DEF Holds
  <2>2. phase[d] # "active" => \A j \in 1 .. made[d] - 1 : <<d, j>> \in failed
    BY <1>2, <1>3 DEF Holds
  <2>3. CASE phase[d] = "active"
    BY <1>1, <1>2, <1>4, <2>1, <2>3 DEF Holds
  <2>4. CASE phase[d] # "active"
    <3>1. {cur'[d], prev'[d], pk[d]} \subseteq 0 .. made[d]
      BY <1>2, <1>4, <2>4 DEF Holds
    <3> QED BY <1>1, <1>4, <2>1, <2>2, <2>4, <3>1 DEF Holds
  <2> QED BY <2>3, <2>4
<1>6. PkFollows(d)'
  <2>1. \A n \in 0 .. made[d] : NoneFailed(d, n) => pk[d] >= n
    BY <1>1, <1>2 DEF PkFollows
  <2> QED BY <1>1, <2>1 DEF PkFollows, NoneFailed
<1>7. \A e \in Devices \ {d} : Holds(e)' /\ PkFollows(e)'
  BY <1>1, OtherDevicesKept
<1>8. Uploading'
  <2>1. ASSUME NEW u \in uploads PROVE u[2] = up'[u[1]] \/ u \in failed
    <3>1. u = <<u[1], u[2]>> /\ u[1] \in Devices /\ (u[2] = up[u[1]] \/ u \in failed)
      BY DEF Inv, DevicesInv, Uploading, Types
    <3> QED BY <1>1, <3>1
  <2> QED BY <1>1, <2>1 DEF Inv, DevicesInv, Uploading
<1>9. Growth
  BY <1>1, <1>2 DEF Growth, Inv, Types, Keys
<1>10. Chains'
  BY <1>1, <1>3, ChainsKept, RootIsDevice DEF Inv, Chains
<1> QED BY <1>5, <1>6, <1>7, <1>8, <1>9, <1>10 DEF DevicesInv

LEMMA UploadFailsStep ==
  ASSUME Inv, NEW d \in Devices, UploadFails(d)
  PROVE  Chains' /\ DevicesInv' /\ Growth
<1>1. PICK k : k = up[d]
  OBVIOUS
<1>2. /\ k # 0 /\ up'[d] = 0
      /\ uploads' \subseteq uploads /\ uploads \subseteq uploads' \cup {<<d, k>>}
      /\ failed' = failed \cup {<<d, k>>}
      /\ phase'[d] = IF phase[d] = "active" THEN "active" ELSE "bundle"
      /\ \A e \in Devices \ {d} : up'[e] = up[e] /\ phase'[e] = phase[e]
      /\ UNCHANGED <<chain, made, cur, prev, enrolled, pk>>
  BY <1>1 DEF UploadFails, Inv, Types, Keys, Registered
<1>3. Holds(d) /\ PkFollows(d) /\ made[d] \in Nat /\ pk[d] \in Nat
  BY DEF Inv, DevicesInv, Types, Keys
<1>4. k = made[d] /\ phase[d] \in {"enrolled", "active"} /\ d \in enrolled
  BY <1>1, <1>2, <1>3 DEF Holds
<1>5. Holds(d)'
  <2>1. \A j \in 1 .. made[d] : phase[d] # "active" => <<d, j>> \in failed'
    BY <1>1, <1>2, <1>3 DEF Holds
  <2>2. CASE phase[d] = "active"
    BY <1>2, <1>3, <1>4, <2>2 DEF Holds
  <2>3. CASE phase[d] # "active"
    BY <1>2, <1>3, <1>4, <2>1, <2>3 DEF Holds
  <2> QED BY <2>2, <2>3
<1>6. PkFollows(d)'
  <2>1. ASSUME NEW n \in 0 .. made[d], NoneFailed(d, n)' PROVE pk[d] >= n
    <3>1. NoneFailed(d, n) /\ k \notin 1 .. n
      BY <1>2, <2>1 DEF NoneFailed
    <3>2. n # up[d]
      BY <1>1, <1>2, <1>3, <1>4, <3>1
    <3> QED BY <1>3, <3>1, <3>2 DEF PkFollows
  <2> QED BY <1>2, <2>1 DEF PkFollows
<1>7. \A e \in Devices \ {d} : Holds(e)' /\ PkFollows(e)'
  BY <1>2, OtherDevicesKept
<1>8. Uploading'
  <2>1. ASSUME NEW u \in uploads' PROVE u[2] = up'[u[1]] \/ u \in failed'
    <3>1. u = <<u[1], u[2]>> /\ u[1] \in Devices /\ (u[2] = up[u[1]] \/ u \in failed)
      BY <1>2 DEF Inv, DevicesInv, Uploading, Types
    <3> QED BY <1>1, <1>2, <3>1
  <2> QED BY <1>2, <2>1 DEF Inv, DevicesInv, Uploading
<1>9. Growth
  BY <1>2, <1>3 DEF Growth, Inv, Types, Keys
<1>10. Chains'
  <2>1. \A e \in Devices : phase'[e] # "none" <=> phase[e] # "none"
    BY <1>2, <1>4
  <2> QED BY <1>2, <2>1, ChainsKept, RootIsDevice DEF Inv, Chains
<1> QED BY <1>5, <1>6, <1>7, <1>8, <1>9, <1>10 DEF DevicesInv
-----------------------------------------------------------------------------
(* The sender's look-ups.                                                  *)
LEMMA ValidIs ==
  ASSUME Inv, NEW chains \in SUBSET enrolled
  PROVE  Valid(chains) = chains \cap Unexpired
<1>1. ASSUME NEW d \in chains PROVE d \in Devices /\ Chained(d)
  BY DEF Inv, DevicesInv, Holds, Chains, Types
<1>2. ASSUME NEW d \in chains PROVE Verified(chain[d], d) <=> d \in Unexpired
  BY <1>1, VerifiedIs DEF Unexpired
<1> QED BY <1>2 DEF Valid

LEMMA FoundOk ==
  ASSUME Inv, NEW c \in Callers, NEW info \in LookUpType, NEW over \in BOOLEAN,
         info.chains \subseteq enrolled, info.known \subseteq enrolled,
         Made(info.pks), Made(info.since),
         ~over => /\ info.known \subseteq info.chains /\ \A d \in info.known : info.pks[d] # 0
                  /\ Recent(info.pks, info.since)
  PROVE  LET r == Found(c, info)
         IN  /\ r \in LookUpType /\ r.pc \in {"idle", "send", "profile"}
             /\ r.chains \subseteq enrolled /\ r.newChains \subseteq enrolled /\ r.known \subseteq enrolled
             /\ Made(r.pks) /\ Made(r.newPks) /\ Made(r.since)
             /\ r.pc = "profile" /\ ~over => r.known \cap r.valid \subseteq r.chains
             /\ r.pc = "send" =>
                  /\ c = Sender /\ {d \in Devices : r.pks[d] # 0} \subseteq r.valid
                  /\ ~over =>
                       /\ r.known \cap r.valid \subseteq {d \in Devices : r.pks[d] # 0}
                       /\ \A d \in Devices :
                            /\ r.pks[d] \in {0, info.pks[d]}
                            /\ r.pks[d] # 0 /\ NoneFailed(d, r.since[d]) => r.pks[d] + 1 >= r.since[d]
<1>1. PICK r : r = Found(c, info)
  OBVIOUS
<1>2. /\ r \in LookUpType
      /\ \/ r = Idle
         \/ c = Sender /\ Ends(r, "send", {}, Recipients(info.chains, info.pks), info)
         \/ c = Reader /\ Ends(r, "profile", Valid(info.chains), NoKeys, info)
  BY <1>1, FoundIs
<1>3. Valid(info.chains) = info.chains \cap Unexpired
  BY ValidIs
<1>4. info.pks \in Keys /\ info.since \in Keys /\ info.known \in SUBSET Devices
  BY DEF LookUpType
<1>5. \A d \in Devices : made[d] \in Nat
  BY DEF Inv, Types, Keys
<1>6. Made(NoKeys)
  BY <1>5 DEF Made, NoKeys
<1>7. CASE r = Idle
  BY <1>1, <1>2, <1>6, <1>7 DEF Idle
<1>8. CASE c = Sender /\ Ends(r, "send", {}, Recipients(info.chains, info.pks), info)
  <2>1. /\ r.pc = "send" /\ r.chains = {} /\ r.newChains = {} /\ r.newPks = NoKeys
        /\ r.since = info.since /\ r.known = info.known /\ r.valid = Unexpired
        /\ \A d \in Devices :
             r.pks[d] = IF d \in info.chains \cap Unexpired THEN info.pks[d] ELSE 0
    BY <1>3, <1>8 DEF Ends, Recipients
  <2>2. Made(r.pks)
    BY <1>5, <2>1 DEF Made
  <2>3. {d \in Devices : r.pks[d] # 0} \subseteq r.valid
    BY <2>1
  <2>4. ASSUME ~over PROVE r.known \cap r.valid \subseteq {d \in Devices : r.pks[d] # 0}
    BY <1>4, <2>1, <2>4
  <2>5. ASSUME ~over, NEW d \in Devices, r.pks[d] # 0, NoneFailed(d, r.since[d])
        PROVE  r.pks[d] + 1 >= r.since[d]
    <3>1. Recent(info.pks, info.since)
      BY <2>5
    <3>2. r.pks[d] = info.pks[d] /\ r.since[d] = info.since[d]
      BY <2>1, <2>5
    <3>3. NoneFailed(d, info.since[d])
      BY <2>5, <3>2
    <3> QED BY <3>1, <3>2, <3>3 DEF Recent
  <2>6. \A d \in Devices : r.pks[d] \in {0, info.pks[d]}
    BY <2>1
  <2> QED BY <1>1, <1>2, <1>6, <1>8, <2>1, <2>2, <2>3, <2>4, <2>5, <2>6
<1>9. CASE c = Reader /\ Ends(r, "profile", Valid(info.chains), NoKeys, info)
  <2>1. /\ r.pc = "profile" /\ r.chains = info.chains \cap Unexpired /\ r.pks = NoKeys
        /\ r.newChains = {} /\ r.newPks = NoKeys
        /\ r.since = info.since /\ r.known = info.known /\ r.valid = Unexpired
    BY <1>3, <1>9 DEF Ends
  <2>2. ~over => r.known \cap r.valid \subseteq r.chains
    BY <2>1
  <2> QED BY <1>1, <1>2, <1>6, <2>1, <2>2
<1> QED BY <1>2, <1>7, <1>8, <1>9

(* A step of one look-up, before anything is stored.                       *)
LEMMA CallStep ==
  ASSUME Inv, NEW c \in Callers, NEW r \in LookUpType, call' = [call EXCEPT ![c] = r],
         UNCHANGED <<deviceVars, serverVars, failed, cache, overtaken, messages>>,
         LookUpOk(c, r),
         c = Sender /\ r.pc = "send" => Encrypted(Sending(r)) /\ NotBefore(r.pks, Len(messages))
  PROVE  CacheInv' /\ (\A o \in Callers : LookUpInv(o)') /\ MessagesInv'
<1> USE DEF deviceVars, serverVars
<1>1. call \in [Callers -> LookUpType] /\ call'[c] = r
  BY DEF Inv, Types
<1>2. CacheInv'
  BY DEF Inv, CacheInv, Recent, Made, NoneFailed
<1>3. ASSUME NEW o \in Callers PROVE LookUpInv(o)'
  <2>1. PICK s : s = call'[o]
    OBVIOUS
  <2>2. LookUpOk(o, s)
    BY <1>1, <2>1 DEF Inv, LookUpInv
  <2>3. call'[o] = s
    BY <2>1
  <2> QED BY <2>2, <2>3 DEF LookUpInv, LookUpOk, Made, Recent, NoneFailed
<1>4. ASSUME NEW n \in 1 .. Len(messages)
      PROVE  Encrypted(messages[n])' /\ NotBefore(messages[n].keys, n - 1)'
  <2>1. Encrypted(messages[n]) /\ NotBefore(messages[n].keys, n - 1)
    BY DEF Inv, MessagesInv
  <2> QED BY <2>1 DEF Encrypted, NotBefore, Made, NoneFailed
<1>5. ASSUME call'[Sender].pc = "send"
      PROVE  Encrypted(Sending(call[Sender]))' /\ NotBefore(call[Sender].pks, Len(messages))'
  <2>1. PICK s : s = call'[Sender]
    OBVIOUS
  <2>2. Encrypted(Sending(s)) /\ NotBefore(s.pks, Len(messages))
    BY <1>1, <1>5, <2>1, RootIsDevice DEF Inv, MessagesInv
  <2>3. call'[Sender] = s
    BY <2>1
  <2> QED BY <2>2, <2>3 DEF Encrypted, NotBefore, Made, NoneFailed, Sending
<1> QED BY <1>2, <1>3, <1>4, <1>5 DEF MessagesInv
-----------------------------------------------------------------------------
LEMMA IdleOk ==
  ASSUME Inv, NEW c \in Callers
  PROVE  Idle \in LookUpType /\ Idle.pc = "idle" /\ LookUpOk(c, Idle)
<1>1. Idle \in LookUpType /\ Idle.pc = "idle"
  BY DEF Idle, LookUpType, NoKeys, Keys
<1>2. \A d \in Devices : made[d] \in Nat
  BY DEF Inv, Types, Keys
<1>3. Made(NoKeys)
  BY <1>2 DEF Made, NoKeys
<1>4. /\ Idle.chains = {} /\ Idle.newChains = {} /\ Idle.known = {}
      /\ Idle.pks = NoKeys /\ Idle.newPks = NoKeys /\ Idle.since = NoKeys
  BY DEF Idle
<1> QED BY <1>1, <1>3, <1>4 DEF LookUpOk

LEMMA LookUpSteps ==
  ASSUME Inv, NEW c \in Callers,
         \/ LookUp(c) \/ LoadPks(c) \/ LoadTime(c) \/ FetchChains(c) \/ FetchPks(c) \/ FetchFails(c)
  PROVE  CacheInv' /\ (\A o \in Callers : LookUpInv(o)') /\ MessagesInv'
<1>1. /\ call[c] \in LookUpType /\ LookUpOk(c, call[c]) /\ cache \in CacheType /\ CacheInv
      /\ call \in [Callers -> LookUpType]
      /\ \A d \in Devices : made[d] \in Nat
  BY DEF Inv, Types, LookUpInv, Keys
<1>2. PICK s : s = call[c]
  OBVIOUS
<1>3. s \in LookUpType /\ LookUpOk(c, s)
  BY <1>1, <1>2
<1>4. CASE LookUp(c)
  <2>1. PICK r : r = [Idle EXCEPT !.pc = "pks", !.chains = cache.chains, !.since = made,
                                  !.known = {d \in enrolled : pk[d] # 0}]
    OBVIOUS
  <2>2. /\ r.pc = "pks" /\ r.chains = cache.chains /\ r.since = made /\ r.pks = NoKeys
        /\ r.newPks = NoKeys /\ r.newChains = {} /\ r.known = {d \in enrolled : pk[d] # 0}
        /\ r.got = {}
    BY <2>1 DEF Idle
  <2>3. r \in LookUpType
    BY <1>1, <2>1, IdleOk DEF LookUpType, CacheType, Inv, Types
  <2>4. Made(NoKeys) /\ Made(made)
    BY <1>1 DEF Made, NoKeys
  <2>5. LookUpOk(c, r)
    BY <1>1, <2>2, <2>4 DEF LookUpOk, CacheInv
  <2> QED BY <1>4, <2>1, <2>2, <2>3, <2>5, CallStep DEF LookUp, mailVars
<1>5. CASE LoadPks(c)
  <2>1. PICK r : r = [s EXCEPT !.pc = "time", !.pks = cache.pks]
    OBVIOUS
  <2>2. /\ r \in LookUpType /\ r.pc = "time" /\ r.pks = cache.pks /\ r.chains = s.chains /\ r.got = s.got
        /\ r.since = s.since /\ r.known = s.known /\ r.newPks = s.newPks /\ r.newChains = s.newChains
    BY <1>1, <1>3, <2>1 DEF LookUpType, CacheType
  <2>3. s.pc = "pks" /\ call' = [call EXCEPT ![c] = r]
    BY <1>1, <1>2, <1>5, <2>1 DEF LoadPks
  <2>4. LookUpOk(c, r)
    BY <1>1, <1>3, <2>2, <2>3 DEF LookUpOk, CacheInv
  <2> QED BY <1>5, <2>2, <2>3, <2>4, CallStep DEF LoadPks, mailVars
<1>6. CASE LoadTime(c)
  <2>1. s.pc = "time"
    BY <1>2, <1>6 DEF LoadTime
  <2>2. CASE cache.fresh /\ call[c].chains # {}
    <3>1. PICK info : info = [s EXCEPT !.since = cache.since, !.known = cache.known]
      OBVIOUS
    <3>2. /\ info \in LookUpType /\ info.chains = s.chains /\ info.pks = s.pks
          /\ info.since = cache.since /\ info.known = cache.known
      BY <1>1, <1>3, <3>1 DEF LookUpType, CacheType
    <3>3. PICK r : r = Found(c, info)
      OBVIOUS
    <3>4. call' = [call EXCEPT ![c] = r]
      BY <1>2, <1>6, <2>2, <3>1, <3>3 DEF LoadTime
    <3>5. /\ info.chains \subseteq enrolled /\ info.known \subseteq enrolled
          /\ Made(info.pks) /\ Made(info.since)
      BY <1>1, <1>3, <3>2 DEF LookUpOk, CacheInv, Recent, Made
    <3>6. ~overtaken => /\ info.chains = cache.chains /\ info.pks = cache.pks
                        /\ info.known \subseteq info.chains /\ \A d \in info.known : info.pks[d] # 0
                        /\ Recent(info.pks, info.since)
      BY <1>1, <1>3, <2>1, <3>2 DEF LookUpOk, CacheInv
    <3>7. /\ r \in LookUpType /\ r.pc \in {"idle", "send", "profile"}
          /\ r.chains \subseteq enrolled /\ r.newChains \subseteq enrolled /\ r.known \subseteq enrolled
          /\ Made(r.pks) /\ Made(r.newPks) /\ Made(r.since)
          /\ r.pc = "profile" /\ ~overtaken => r.known \cap r.valid \subseteq r.chains
          /\ r.pc = "send" =>
               /\ c = Sender /\ {d \in Devices : r.pks[d] # 0} \subseteq r.valid
               /\ ~overtaken =>
                    /\ r.known \cap r.valid \subseteq {d \in Devices : r.pks[d] # 0}
                    /\ \A d \in Devices :
                         /\ r.pks[d] \in {0, info.pks[d]}
                         /\ r.pks[d] # 0 /\ NoneFailed(d, r.since[d]) => r.pks[d] + 1 >= r.since[d]
      <4>1. overtaken \in BOOLEAN
        BY DEF Inv, Types
      <4> QED BY <3>2, <3>3, <3>5, <3>6, <4>1, FoundOk
    <3>8. LookUpOk(c, r)
      BY <3>7 DEF LookUpOk
    <3>9. ASSUME c = Sender, r.pc = "send"
          PROVE  Encrypted(Sending(r)) /\ NotBefore(r.pks, Len(messages))
      <4>1. ASSUME ~overtaken, NEW d \in Devices PROVE r.pks[d] = 0 \/ r.pks[d] = cache.pks[d]
        BY <3>6, <3>7, <3>9, <4>1
      <4>2. \A d \in Devices : cache.pks[d] \in Nat
        BY <1>1 DEF CacheType, Keys
      <4>3. Encrypted(Sending(r))
        BY <3>7, <3>9, <4>1, <4>2 DEF Encrypted, Sending
      <4>4. ASSUME ~overtaken, NEW i \in 1 .. Len(messages), NEW d \in Devices
            PROVE  messages[i].keys[d] <= cache.pks[d]
        BY <4>4 DEF Inv, MessagesInv, Encrypted
      <4>5. NotBefore(r.pks, Len(messages))
        BY <4>1, <4>4 DEF NotBefore
      <4> QED BY <4>3, <4>5
    <3> QED BY <1>6, <3>4, <3>7, <3>8, <3>9, CallStep DEF LoadTime, mailVars
  <2>3. CASE ~(cache.fresh /\ call[c].chains # {})
    <3>1. PICK r : r = [s EXCEPT !.pc = "fetch"]
      OBVIOUS
    <3>2. /\ r \in LookUpType /\ r.pc = "fetch" /\ r.pks = s.pks /\ r.chains = s.chains /\ r.got = s.got
          /\ r.since = s.since /\ r.known = s.known /\ r.newPks = s.newPks /\ r.newChains = s.newChains
      BY <1>3, <3>1 DEF LookUpType
    <3>3. call' = [call EXCEPT ![c] = r]
      BY <1>1, <1>2, <1>6, <2>3, <3>1 DEF LoadTime
    <3>4. LookUpOk(c, r)
      BY <1>3, <2>1, <3>2 DEF LookUpOk
    <3> QED BY <1>6, <3>2, <3>3, <3>4, CallStep DEF LoadTime, mailVars
  <2> QED BY <2>2, <2>3
<1>7. CASE FetchChains(c)
  <2>1. PICK r : r = [s EXCEPT !.newChains = enrolled, !.got = s.got \cup {"chains"}]
    OBVIOUS
  <2>2. s.got \cup {"chains"} \in SUBSET {"chains", "pks"} /\ enrolled \in SUBSET Devices
    BY <1>3 DEF LookUpType, Inv, Types
  <2>3. /\ r \in LookUpType /\ r.pc = s.pc /\ r.pks = s.pks /\ r.chains = s.chains
        /\ r.got = s.got \cup {"chains"}
        /\ r.since = s.since /\ r.known = s.known /\ r.newPks = s.newPks /\ r.newChains = enrolled
    BY <1>3, <2>1, <2>2 DEF LookUpType
  <2>4. s.pc = "fetch" /\ call' = [call EXCEPT ![c] = r]
    BY <1>1, <1>2, <1>7, <2>1 DEF FetchChains
  <2>5. LookUpOk(c, r)
    BY <1>3, <2>3, <2>4 DEF LookUpOk
  <2> QED BY <1>7, <2>3, <2>4, <2>5, CallStep DEF FetchChains, mailVars
<1>8. CASE FetchPks(c)
  <2>1. PICK keys : keys = [d \in Devices |-> IF d \in enrolled THEN pk[d] ELSE 0]
    OBVIOUS
  <2>2. PICK r : r = [s EXCEPT !.newPks = keys, !.got = s.got \cup {"pks"}]
    OBVIOUS
  <2>3. s.got \cup {"pks"} \in SUBSET {"chains", "pks"} /\ keys \in Keys
    BY <1>3, <2>1 DEF LookUpType, Inv, Types, Keys
  <2>4. /\ r \in LookUpType /\ r.pc = s.pc /\ r.pks = s.pks /\ r.chains = s.chains
        /\ r.got = s.got \cup {"pks"}
        /\ r.since = s.since /\ r.known = s.known /\ r.newPks = keys /\ r.newChains = s.newChains
    BY <1>3, <2>2, <2>3 DEF LookUpType
  <2>5. s.pc = "fetch" /\ call' = [call EXCEPT ![c] = r]
    BY <1>1, <1>2, <1>8, <2>1, <2>2 DEF FetchPks
  <2>6. /\ \A d \in Devices : Holds(d) /\ PkFollows(d) /\ pk[d] \in Nat
        /\ s.since \in Keys /\ s.known \subseteq Devices
    BY <1>3 DEF Inv, DevicesInv, LookUpType, Types, Keys
  <2>7. Made(keys)
    BY <1>1, <2>1, <2>6 DEF Made, Holds
  <2>8. Recent(keys, s.since)
    <3>1. ASSUME NEW d \in Devices
          PROVE  s.since[d] <= made[d] /\ (NoneFailed(d, s.since[d]) => keys[d] + 1 >= s.since[d])
      <4>1. s.since[d] <= made[d] /\ s.since[d] \in 0 .. made[d]
        BY <1>1, <1>3, <2>6 DEF LookUpOk, Made, Keys
      <4>2. d \notin enrolled => made[d] = 0
        BY <2>6 DEF Holds
      <4>3. NoneFailed(d, s.since[d]) => pk[d] + 1 >= s.since[d]
        <5>1. PICK n : n = s.since[d]
          OBVIOUS
        <5>2. n \in 0 .. made[d] /\ pk[d] \in Nat /\ PkFollows(d)
          BY <2>6, <4>1, <5>1
        <5>3. NoneFailed(d, n) => pk[d] >= n \/ pk[d] + 1 >= n
          BY <5>2 DEF PkFollows
        <5> QED BY <5>1, <5>2, <5>3
      <4>4. keys[d] = IF d \in enrolled THEN pk[d] ELSE 0
        BY <2>1
      <4> QED BY <4>1, <4>2, <4>3, <4>4
    <3> QED BY <3>1 DEF Recent
  <2>9. \A d \in s.known : keys[d] # 0
    BY <1>3, <2>1, <2>5, <2>6 DEF LookUpOk
  <2>10. LookUpOk(c, r)
    BY <1>3, <2>4, <2>5, <2>7, <2>8, <2>9 DEF LookUpOk
  <2> QED BY <1>8, <2>4, <2>5, <2>10, CallStep DEF FetchPks, mailVars
<1>9. CASE FetchFails(c)
  BY <1>9, IdleOk, CallStep DEF FetchFails, mailVars
<1> QED BY <1>4, <1>5, <1>6, <1>7, <1>8, <1>9
-----------------------------------------------------------------------------
(* What a task stores is no older than what was there, unless another task *)
(* has stored since this one read it.                                      *)
LEMMA StoreStep ==
  ASSUME Inv, Types', NEW c \in Callers, Store(c)
  PROVE  CacheInv' /\ (\A o \in Callers : LookUpInv(o)') /\ MessagesInv'
<1>1. Types /\ CacheInv /\ call[c] \in LookUpType /\ LookUpOk(c, call[c])
  BY DEF Inv, Types, LookUpInv
<1>2. PICK s : s = call[c]
  OBVIOUS
<1>3. PICK keys : keys = Merged(s.pks, s.newPks)
  OBVIOUS
<1>4. PICK info : info = [s EXCEPT !.chains = s.newChains, !.pks = keys]
  OBVIOUS
<1>5. PICK r : r = Found(c, info)
  OBVIOUS
<1>6. PICK over \in BOOLEAN : over = overtaken'
  BY DEF Types
<1>7. s \in LookUpType /\ LookUpOk(c, s) /\ s.pc = "fetch" /\ s.got = {"chains", "pks"}
  BY <1>1, <1>2 DEF Store
<1>8. /\ s.pks \in Keys /\ s.newPks \in Keys /\ s.since \in Keys /\ s.known \subseteq Devices
      /\ s.newChains \in SUBSET Devices
  BY <1>7 DEF LookUpType
<1>9. /\ keys \in Keys
      /\ \A d \in Devices : keys[d] \in {s.pks[d], s.newPks[d]}
                            /\ s.pks[d] <= keys[d] /\ s.newPks[d] <= keys[d]
  <2>1. \A d \in Devices : /\ s.pks[d] \in Nat /\ s.newPks[d] \in Nat
                           /\ keys[d] = IF s.newPks[d] < s.pks[d] THEN s.pks[d] ELSE s.newPks[d]
    BY <1>3, <1>8 DEF Merged, Keys
  <2>2. keys \in Keys
    BY <1>3, <1>8 DEF Merged, Keys
  <2> QED BY <2>1, <2>2
<1>10. /\ cache'.chains = s.newChains /\ cache'.pks = keys
       /\ cache'.since = s.since /\ cache'.known = s.known
       /\ call' = [call EXCEPT ![c] = r]
       /\ ~over => ~overtaken /\ \A o \in Callers \ {c} : call[o].pc \notin {"pks", "time", "fetch"}
  BY <1>2, <1>3, <1>4, <1>5, <1>6 DEF Store
<1>11. Growth /\ UNCHANGED <<made, enrolled, pk, failed, chain, messages>>
  BY DevicesKept DEF Store, deviceVars, serverVars, mailVars
<1>12. /\ info \in LookUpType /\ info.chains = s.newChains /\ info.pks = keys
       /\ info.since = s.since /\ info.known = s.known
  BY <1>4, <1>7, <1>8, <1>9 DEF LookUpType
<1>13. Made(keys) /\ Made(s.since)
  BY <1>7, <1>9 DEF LookUpOk, Made
<1>14. /\ s.known \subseteq s.newChains /\ s.newChains \subseteq enrolled
       /\ \A d \in s.known : keys[d] # 0
  <2>1. /\ s.known \subseteq s.newChains /\ s.newChains \subseteq enrolled
        /\ \A d \in s.known : s.newPks[d] # 0
    BY <1>7 DEF LookUpOk
  <2>2. \A d \in Devices : s.newPks[d] \in Nat /\ keys[d] \in Nat
    BY <1>8, <1>9 DEF Keys
  <2> QED BY <1>8, <1>9, <2>1, <2>2
<1>15. Recent(keys, s.since)
  <2>1. Recent(s.newPks, s.since)
    BY <1>7 DEF LookUpOk
  <2>2. \A d \in Devices : s.newPks[d] \in Nat /\ keys[d] \in Nat /\ s.since[d] \in Nat
    BY <1>8, <1>9 DEF Keys
  <2> QED BY <1>9, <2>1, <2>2 DEF Recent
<1>16. CacheInv'
  <2>1. Recent(keys, s.since)' /\ Made(keys)'
    BY <1>1, <1>8, <1>9, <1>11, <1>13, <1>15, RecentStays
  <2> QED BY <1>10, <1>11, <1>14, <2>1 DEF CacheInv, Recent, Made
<1>17. /\ r \in LookUpType /\ r.pc \in {"idle", "send", "profile"}
       /\ r.chains \subseteq enrolled /\ r.newChains \subseteq enrolled /\ r.known \subseteq enrolled
       /\ Made(r.pks) /\ Made(r.newPks) /\ Made(r.since)
       /\ r.pc = "profile" /\ ~over => r.known \cap r.valid \subseteq r.chains
       /\ r.pc = "send" =>
            /\ c = Sender /\ {d \in Devices : r.pks[d] # 0} \subseteq r.valid
            /\ ~over =>
                 /\ r.known \cap r.valid \subseteq {d \in Devices : r.pks[d] # 0}
                 /\ \A d \in Devices :
                      /\ r.pks[d] \in {0, info.pks[d]}
                      /\ r.pks[d] # 0 /\ NoneFailed(d, r.since[d]) => r.pks[d] + 1 >= r.since[d]
  <2>1. /\ info.chains \subseteq enrolled /\ info.known \subseteq enrolled
        /\ Made(info.pks) /\ Made(info.since)
        /\ info.known \subseteq info.chains /\ \A d \in info.known : info.pks[d] # 0
        /\ Recent(info.pks, info.since)
    BY <1>12, <1>13, <1>14, <1>15
  <2> QED BY <1>5, <1>12, <2>1, FoundOk
<1>18. \A o \in Callers : call'[o] = IF o = c THEN r ELSE call[o]
  BY <1>1, <1>10 DEF Types
<1>19. ASSUME NEW o \in Callers PROVE LookUpInv(o)'
  <2>1. PICK q : q = call'[o]
    OBVIOUS
  <2>2. LookUpOk(o, q)'
    <3>1. CASE o = c
      <4>1. q = r
        BY <1>18, <2>1, <3>1
      <4> QED BY <1>6, <1>11, <1>17, <3>1, <4>1 DEF LookUpOk, Made
    <3>2. CASE o # c
      <4>1. q = call[o] /\ q \in LookUpType /\ LookUpOk(o, q)
        BY <1>1, <1>18, <2>1, <3>2 DEF Types, Inv, LookUpInv
      <4>2. ~over => ~overtaken /\ q.pc \notin {"pks", "time", "fetch"}
        BY <1>10, <3>2, <4>1
      <4> QED BY <1>1, <1>6, <1>11, <4>1, <4>2, LookUpStays
    <3> QED BY <3>1, <3>2
  <2>3. call'[o] = q
    BY <2>1
  <2> QED BY <2>2, <2>3 DEF LookUpInv, LookUpOk, Made, Recent, NoneFailed
<1>20. ~over => ~overtaken /\ \A d \in Devices : cache.pks[d] <= cache'.pks[d]
  <2>1. ~over => ~overtaken /\ s.pks = cache.pks
    BY <1>7, <1>10 DEF LookUpOk
  <2> QED BY <1>9, <1>10, <2>1
<1>21. ASSUME NEW m \in MessageType, Encrypted(m) PROVE Encrypted(m)'
  BY <1>1, <1>6, <1>11, <1>20, <1>21, EncryptedStays
<1>22. ASSUME NEW n \in 1 .. Len(messages)
       PROVE  /\ Encrypted(messages[n])' /\ NotBefore(messages[n].keys, n - 1)'
              /\ ~over => \A d \in Devices : messages[n].keys[d] <= keys[d]
  <2>1. PICK m : m = messages[n]
    OBVIOUS
  <2>2. m \in MessageType /\ Encrypted(m) /\ NotBefore(messages[n].keys, n - 1) /\ messages'[n] = m
    BY <1>1, <1>11, <2>1, ElementOfSeq DEF Types, Inv, MessagesInv
  <2>3. Encrypted(m)'
    BY <1>21, <2>2
  <2>4. NotBefore(messages[n].keys, n - 1)'
    BY <1>6, <1>11, <1>20, <2>2 DEF NotBefore
  <2>5. ~over => \A d \in Devices : m.keys[d] <= keys[d]
    BY <1>6, <1>10, <2>3 DEF Encrypted
  <2> QED BY <2>1, <2>2, <2>3, <2>4, <2>5 DEF Encrypted, Made, NoneFailed
<1>23. ASSUME call'[Sender].pc = "send"
       PROVE  Encrypted(Sending(call[Sender]))' /\ NotBefore(call[Sender].pks, Len(messages))'
  <2>1. CASE c = Sender
    <3>1. call'[Sender] = r /\ r.pc = "send"
      BY <1>18, <1>23, <2>1
    <3>2. ASSUME ~over, NEW d \in Devices PROVE r.pks[d] = 0 \/ r.pks[d] = keys[d]
      BY <1>12, <1>17, <3>1, <3>2
    <3>3. \A d \in Devices : keys[d] \in Nat
      BY <1>9 DEF Keys
    <3>4. ASSUME ~over, NEW d \in Devices PROVE r.pks[d] <= cache'.pks[d]
      BY <1>10, <3>2, <3>3, <3>4
    <3>5. Encrypted(Sending(r))'
      BY <1>6, <1>11, <1>17, <3>1, <3>4 DEF Encrypted, Sending, Made, NoneFailed
    <3>6. NotBefore(r.pks, Len(messages))'
      BY <1>6, <1>11, <1>22, <3>2 DEF NotBefore
    <3> QED BY <3>1, <3>5, <3>6 DEF Encrypted, NotBefore, Sending, Made, NoneFailed
  <2>2. CASE c # Sender
    <3>1. PICK q : q = call[Sender]
      OBVIOUS
    <3>2. call'[Sender] = q /\ q \in LookUpType /\ q.pc = "send"
      BY <1>1, <1>18, <1>23, <2>2, <3>1, RootIsDevice DEF Types
    <3>3. PICK m : m = Sending(q)
      OBVIOUS
    <3>4. m \in MessageType
      BY <3>2, <3>3 DEF Sending, LookUpType, MessageType
    <3>5. Encrypted(m) /\ NotBefore(q.pks, Len(messages))
      BY <3>1, <3>2, <3>3 DEF Inv, MessagesInv
    <3>6. Encrypted(m)'
      BY <1>21, <3>4, <3>5
    <3>7. NotBefore(q.pks, Len(messages))'
      BY <1>6, <1>11, <1>20, <3>5 DEF NotBefore
    <3> QED BY <3>2, <3>3, <3>6, <3>7 DEF Encrypted, NotBefore, Sending, Made, NoneFailed
  <2> QED BY <2>1, <2>2
<1>24. MessagesInv'
  BY <1>11, <1>22, <1>23 DEF MessagesInv
<1> QED BY <1>16, <1>19, <1>24

LEMMA PostStep ==
  ASSUME Inv, Types', Post
  PROVE  CacheInv' /\ (\A o \in Callers : LookUpInv(o)') /\ MessagesInv'
<1>1. PICK s : s = call[Sender]
  OBVIOUS
<1>2. PICK m : m = Sending(s)
  OBVIOUS
<1>3. /\ Sender \in Callers /\ messages \in Seq(MessageType) /\ call \in [Callers -> LookUpType]
      /\ s \in LookUpType /\ s.pc = "send" /\ Encrypted(m) /\ NotBefore(s.pks, Len(messages))
  BY <1>1, <1>2, RootIsDevice DEF Inv, Types, MessagesInv, Post
<1>4. m \in MessageType /\ m.keys = s.pks
  BY <1>2, <1>3 DEF Sending, LookUpType, MessageType
<1>5. /\ messages' = Append(messages, m) /\ call' = [call EXCEPT ![Sender] = Idle]
      /\ UNCHANGED <<made, enrolled, pk, failed, cache, overtaken>>
  BY <1>1, <1>2 DEF Post, Sending, deviceVars, serverVars
<1>6. PICK k : k = Len(messages)
  OBVIOUS
<1>7. /\ k \in Nat /\ Len(messages') = k + 1 /\ messages'[k + 1] = m
      /\ \A n \in 1 .. k : messages'[n] = messages[n]
  BY <1>3, <1>4, <1>5, <1>6, AppendProperties, LenProperties
<1>8. CacheInv'
  BY <1>5 DEF Inv, CacheInv, Recent, Made, NoneFailed
<1>9. ASSUME NEW o \in Callers PROVE LookUpInv(o)'
  <2>1. PICK q : q = call'[o]
    OBVIOUS
  <2>2. LookUpOk(o, q)
    BY <1>3, <1>5, <2>1, IdleOk DEF Inv, LookUpInv
  <2>3. call'[o] = q
    BY <2>1
  <2> QED BY <1>5, <2>2, <2>3 DEF LookUpInv, LookUpOk, Made, Recent, NoneFailed
<1>10. ASSUME NEW n \in 1 .. k + 1
       PROVE  Encrypted(messages[n])' /\ NotBefore(messages[n].keys, n - 1)'
  <2>1. PICK e : e = messages'[n]
    OBVIOUS
  <2>2. Encrypted(e) /\ NotBefore(e.keys, n - 1)
    <3>1. CASE n = k + 1
      BY <1>3, <1>4, <1>6, <1>7, <2>1, <3>1
    <3>2. CASE n \in 1 .. k
      BY <1>6, <1>7, <2>1, <3>2 DEF Inv, MessagesInv
    <3> QED BY <1>7, <3>1, <3>2
  <2>3. Encrypted(messages[n])'
    BY <1>5, <2>1, <2>2 DEF Encrypted, Made, NoneFailed
  <2>4. \A i \in 1 .. n - 1 : messages'[i] = messages[i]
    BY <1>7
  <2>5. NotBefore(messages[n].keys, n - 1)'
    BY <1>5, <2>1, <2>2, <2>4 DEF NotBefore
  <2> QED BY <2>3, <2>5
<1>11. call'[Sender].pc # "send"
  BY <1>3, <1>5, IdleOk
<1>12. MessagesInv'
  BY <1>7, <1>10, <1>11 DEF MessagesInv
<1> QED BY <1>8, <1>9, <1>12

(* A device that cannot open a message has made a key since, or an upload  *)
(* of one before has failed.                                               *)
LEMMA ReceiveStep ==
  ASSUME Inv, NEW d \in Devices, Receive(d)
  PROVE  ReceivedInv'
<1>1. PICK n : n = read[d] + 1
  OBVIOUS
<1>2. PICK m : m = messages[n]
  OBVIOUS
<1>3. PICK key : key = m.keys[d]
  OBVIOUS
<1>4. /\ phase[d] = "active" /\ n <= Len(messages) /\ read' = [read EXCEPT ![d] = n]
      /\ missed' = IF key \in {0, cur[d], prev[d]} THEN missed ELSE missed \cup {<<d, n, made[d]>>}
      /\ UNCHANGED <<messages, failed, overtaken>>
  BY <1>1, <1>2, <1>3 DEF Receive, Registered, senderVars
<1>5. /\ read \in Keys /\ messages \in Seq(MessageType) /\ Len(messages) \in Nat /\ n \in 1 .. Len(messages)
  BY <1>1, <1>4, LenProperties DEF Inv, Types, Keys
<1>6. m \in MessageType /\ Encrypted(m)
  BY <1>2, <1>5, ElementOfSeq DEF Inv, MessagesInv
<1>7. /\ Holds(d) /\ key \in Nat /\ m.since[d] \in Nat /\ made[d] \in Nat
      /\ cur[d] \in Nat /\ prev[d] \in Nat
      /\ key <= made[d] /\ m.since[d] <= made[d]
  BY <1>3, <1>6 DEF Inv, DevicesInv, MessageType, Types, Keys, Encrypted, Made
<1>8. ASSUME key \notin {0, cur[d], prev[d]}, ~overtaken, NoneFailed(d, m.since[d])
      PROVE  made[d] > m.since[d]
  <2>1. key + 1 >= m.since[d]
    BY <1>3, <1>6, <1>8 DEF Encrypted
  <2>2. /\ cur[d] = made[d]
        /\ \/ prev[d] + 1 = made[d]
           \/ prev[d] = made[d] /\ \A j \in 1 .. made[d] - 1 : <<d, j>> \in failed
    BY <1>4, <1>7 DEF Holds
  <2> SUFFICES ASSUME m.since[d] = made[d] PROVE FALSE
    BY <1>7
  <2>3. key + 1 = made[d] /\ key \in 1 .. made[d] - 1
    BY <1>7, <1>8, <2>1, <2>2
  <2>4. <<d, key>> \in failed
    BY <1>7, <1>8, <2>2, <2>3
  <2>5. key \in 1 .. m.since[d]
    BY <1>7, <2>3
  <2> QED BY <1>8, <2>4, <2>5 DEF NoneFailed
<1>9. ASSUME NEW e \in missed' PROVE Unopened(e)'
  <2>1. CASE e \in missed
    BY <1>4, <2>1 DEF Inv, ReceivedInv, Unopened
  <2>2. CASE e \notin missed
    <3>1. e = <<d, n, made[d]>> /\ key \notin {0, cur[d], prev[d]}
      BY <1>4, <1>9, <2>2
    <3>2. \/ made[d] > m.since[d]
          \/ \E j \in 1 .. m.since[d] : <<d, j>> \in failed
          \/ overtaken
      BY <1>8, <3>1 DEF NoneFailed
    <3>3. e[1] = d /\ e[2] = n /\ e[3] = made[d] /\ messages'[n] = m
      BY <1>2, <1>4, <3>1
    <3> QED BY <1>4, <1>5, <3>2, <3>3 DEF Unopened
  <2> QED BY <2>1, <2>2
<1>10. \A e \in Devices : read'[e] \in 0 .. Len(messages')
  BY <1>4, <1>5 DEF Inv, ReceivedInv, Keys
<1> QED BY <1>9, <1>10 DEF ReceivedInv
-----------------------------------------------------------------------------
LEMMA InitInv == ProfilesInit => Inv
<1> SUFFICES ASSUME ProfilesInit PROVE Inv
  OBVIOUS
<1> USE RootIsDevice
<1>1. PICK root : root = Certificate(Root, Root, Never, TRUE)
  OBVIOUS
<1>2. /\ workload \in Workloads /\ now = 0 /\ overtaken = FALSE
      /\ chain = [d \in Devices |-> IF d = Root THEN {root} ELSE {}]
      /\ phase = [d \in Devices |-> IF d = Root THEN "active" ELSE "none"]
      /\ made = [d \in Devices |-> IF d = Root THEN 1 ELSE 0]
      /\ cur = made /\ prev = made /\ pk = made /\ up = NoKeys /\ read = NoKeys
      /\ enrolled = {Root} /\ uploads = {} /\ failed = {} /\ missed = {} /\ messages = <<>>
      /\ cache = [chains |-> {}, pks |-> NoKeys, fresh |-> FALSE, since |-> NoKeys, known |-> {}]
      /\ call = [c \in Callers |-> Idle]
      /\ profile = NoProfile /\ sets = {} /\ checked = {} /\ newest = 0
  BY <1>1 DEF ProfilesInit, Init
<1>3. Never \in Nat
  BY <1>2, WorkloadBounds DEF Never
<1>4. root \in Cert /\ root.dev = Root
  BY <1>1, <1>3 DEF Certificate, Cert
<1>5. Types
  <2>1. chain \in [Devices -> SUBSET Cert]
    BY <1>2, <1>4
  <2>2. NoKeys \in Keys /\ made \in Keys
    BY <1>2 DEF NoKeys, Keys
  <2>3. cache \in CacheType
    BY <1>2, <2>2 DEF CacheType
  <2>4. Idle \in LookUpType
    BY <2>2 DEF Idle, LookUpType
  <2>5. call \in [Callers -> LookUpType]
    BY <1>2, <2>4
  <2>6. phase \in [Devices -> {"none", "bundle", "enrolled", "active"}]
    BY <1>2
  <2>7. {made, cur, prev, up, pk, read} \subseteq Keys
    BY <1>2, <2>2
  <2>8. messages \in Seq(MessageType)
    BY <1>2
  <2> QED BY <1>2, <2>1, <2>3, <2>5, <2>6, <2>7, <2>8 DEF Types
<1>6. Chains
  <2>1. chain[Root] = {root}
    BY <1>2
  <2>2. IsFiniteSet({root}) /\ Cardinality({root}) = 1
    BY FS_Singleton
  <2>3. PICK p : p = [i \in 1 .. 1 |-> root]
    OBVIOUS
  <2>4. p \in [1 .. 1 -> {root}] /\ p[1] = root
    BY <2>3
  <2>5. PathOf({root}, p, 1, Root)
    BY <1>4, <2>4 DEF PathOf, IsPath
  <2>6. \A c \in {root} : phase[c.dev] # "none"
    BY <1>2, <1>4
  <2>7. Chained(Root)
    <3>1. PICK certs : certs = {root}
      OBVIOUS
    <3>2. /\ chain[Root] = certs /\ IsFiniteSet(certs) /\ Cardinality(certs) = 1
          /\ p \in [1 .. Cardinality(certs) -> certs]
          /\ PathOf(certs, p, Cardinality(certs), Root)
          /\ \A c \in certs : phase[c.dev] # "none"
      BY <2>1, <2>2, <2>4, <2>5, <2>6, <3>1
    <3> QED BY <3>2 DEF Chained
  <2>8. \A d \in Devices : phase[d] # "none" => d = Root
    BY <1>2
  <2> QED BY <1>2, <2>7, <2>8 DEF Chains
<1>7. DevicesInv
  <2>1. ASSUME NEW d \in Devices PROVE Holds(d) /\ PkFollows(d)
    <3>1. /\ made[d] = (IF d = Root THEN 1 ELSE 0) /\ up[d] = 0
          /\ phase[d] = IF d = Root THEN "active" ELSE "none"
      BY <1>2 DEF NoKeys
    <3> QED BY <1>2, <3>1 DEF Holds, PkFollows
  <2> QED BY <1>2, <2>1 DEF DevicesInv, Uploading
<1>8. \A d \in Devices : made[d] \in Nat /\ NoKeys[d] = 0 /\ read[d] = 0
  BY <1>2 DEF NoKeys
<1>9. CacheInv
  BY <1>2, <1>8 DEF CacheInv, Recent, Made
<1>10. ASSUME NEW c \in Callers PROVE LookUpInv(c) /\ call[c].pc # "send"
  <2>1. Made(NoKeys)
    BY <1>8 DEF Made
  <2>2. call[c] = Idle
    BY <1>2
  <2>3. /\ Idle.pc = "idle" /\ Idle.chains = {} /\ Idle.newChains = {} /\ Idle.known = {}
        /\ Idle.pks = NoKeys /\ Idle.newPks = NoKeys /\ Idle.since = NoKeys
    BY DEF Idle
  <2>4. LookUpOk(c, Idle)
    BY <2>1, <2>3 DEF LookUpOk
  <2> QED BY <2>2, <2>3, <2>4 DEF LookUpInv
<1>11. MessagesInv /\ ReceivedInv
  <2>1. Len(messages) = 0
    BY <1>2
  <2> QED BY <1>2, <1>8, <1>10, <2>1 DEF MessagesInv, ReceivedInv
<1>12. ProfilesInv
  BY <1>2 DEF ProfilesInv, NoProfile
<1> QED BY <1>5, <1>6, <1>7, <1>9, <1>10, <1>11, <1>12 DEF Inv

LEMMA NextInv == Inv /\ [ProfilesNext]_allVars => Inv'
<1> SUFFICES ASSUME Inv, [ProfilesNext]_allVars PROVE Inv'
  OBVIOUS
<1>1. Types /\ ProfilesInv
  BY DEF Inv
(* What the steps of one part leave to the lemmas about the others.        *)
<1>2. ASSUME UNCHANGED profileVars PROVE ProfilesInv'
  BY <1>1, <1>2 DEF profileVars, ProfilesInv
<1>3. ASSUME Types', Chains', DevicesInv', Growth, UNCHANGED <<senderVars, mailVars, profileVars>>
      PROVE  Inv'
  <2>1. CacheInv' /\ (\A c \in Callers : LookUpInv(c)') /\ MessagesInv'
    BY <1>3, SenderKept DEF senderVars, mailVars
  <2>2. ReceivedInv'
    <3>1. Len(messages) \in Nat
      BY <1>1, LenProperties DEF Types
    <3> QED BY <1>3, <3>1, ReceivedKept DEF senderVars, mailVars
  <2> QED BY <1>2, <1>3, <2>1, <2>2 DEF Inv
<1>4. ASSUME Types', CacheInv', \A c \in Callers : LookUpInv(c)', MessagesInv', overtaken => overtaken',
             UNCHANGED <<deviceVars, serverVars, failed, mailVars, profileVars>>
      PROVE  Inv'
  <2>1. Chains' /\ DevicesInv' /\ Growth
    BY <1>4, DevicesKept
  <2>2. ReceivedInv'
    <3>1. Len(messages) \in Nat
      BY <1>1, LenProperties DEF Types
    <3> QED BY <1>4, <2>1, <3>1, ReceivedKept DEF mailVars
  <2> QED BY <1>2, <1>4, <2>1, <2>2 DEF Inv
<1>5. ASSUME UNCHANGED vars, ProfilesInv' PROVE Inv'
  <2>1. Types'
    BY <1>1, <1>5, OtherTypes
  <2>2. UNCHANGED <<deviceVars, serverVars, senderVars, mailVars, failed>>
    BY <1>5 DEF vars
  <2>3. Chains' /\ DevicesInv' /\ Growth
    BY <2>2, DevicesKept
  <2>4. CacheInv' /\ (\A c \in Callers : LookUpInv(c)') /\ MessagesInv'
    BY <2>1, <2>2, <2>3, SenderKept DEF senderVars, mailVars
  <2>5. ReceivedInv'
    <3>1. Len(messages) \in Nat
      BY <1>1, LenProperties DEF Types
    <3> QED BY <2>1, <2>2, <2>3, <3>1, ReceivedKept DEF senderVars, mailVars
  <2> QED BY <1>5, <2>1, <2>3, <2>4, <2>5 DEF Inv
(* The devices.                                                            *)
<1>6. ASSUME UNCHANGED profileVars, NEW d \in Devices,
             \/ \E n \in Devices : NewDeviceBundle(d, n)
             \/ Enrol(d) \/ FirstKey(d) \/ Rotate(d)
             \/ \E k \in 1 .. made[d] : StoreKey(d, k)
             \/ UploadDone(d) \/ UploadFails(d)
      PROVE  Inv'
  <2>1. Types'
    BY <1>1, <1>6, DeviceTypes
  <2>2. CASE \E n \in Devices : NewDeviceBundle(d, n)
    BY <1>3, <1>6, <2>1, <2>2, BundleStep, ZenonT(60) DEF NewDeviceBundle
  <2>3. CASE Enrol(d)
    BY <1>3, <1>6, <2>1, <2>3, EnrolStep DEF Enrol
  <2>4. CASE FirstKey(d)
    <3>1. Chains' /\ DevicesInv' /\ Growth
      BY <2>4, NewKeyStep DEF FirstKey
    <3> QED BY <1>3, <1>6, <2>1, <2>4, <3>1 DEF FirstKey
  <2>5. CASE Rotate(d)
    <3>1. Chains' /\ DevicesInv' /\ Growth
      BY <2>5, NewKeyStep DEF Rotate, Shifted, Registered
    <3> QED BY <1>3, <1>6, <2>1, <2>5, <3>1 DEF Rotate
  <2>6. CASE \E k \in 1 .. made[d] : StoreKey(d, k)
    BY <1>3, <1>6, <2>1, <2>6, StoreKeyStep DEF StoreKey
  <2>7. CASE UploadDone(d)
    BY <1>3, <1>6, <2>1, <2>7, UploadDoneStep DEF UploadDone
  <2>8. CASE UploadFails(d)
    BY <1>3, <1>6, <2>1, <2>8, UploadFailsStep DEF UploadFails
  <2> QED BY <1>6, <2>2, <2>3, <2>4, <2>5, <2>6, <2>7, <2>8
<1>7. ASSUME UNCHANGED profileVars, NEW d \in Devices, Receive(d) PROVE Inv'
  <2>1. Types'
    BY <1>1, <1>7, DeviceTypes
  <2>2. UNCHANGED <<deviceVars, serverVars, senderVars, messages, failed>>
    BY <1>7 DEF Receive
  <2>3. Chains' /\ DevicesInv' /\ Growth
    BY <2>2, DevicesKept
  <2>4. CacheInv' /\ (\A c \in Callers : LookUpInv(c)') /\ MessagesInv'
    BY <2>1, <2>2, <2>3, SenderKept DEF senderVars
  <2> QED BY <1>2, <1>7, <2>1, <2>3, <2>4, ReceiveStep DEF Inv
(* The sender.                                                             *)
<1>8. ASSUME UNCHANGED profileVars, NEW c \in Callers,
             \/ LookUp(c) \/ LoadPks(c) \/ LoadTime(c)
             \/ FetchChains(c) \/ FetchPks(c) \/ FetchFails(c) \/ Store(c)
      PROVE  Inv'
  <2>1. Types'
    BY <1>1, <1>8, LookUpTypes
  <2>2. CacheInv' /\ (\A o \in Callers : LookUpInv(o)') /\ MessagesInv'
    BY <1>8, <2>1, LookUpSteps, StoreStep
  <2>3. /\ overtaken => overtaken'
        /\ UNCHANGED <<deviceVars, serverVars, failed, mailVars>>
    <3>1. CASE Store(c)
      BY <3>1, Zenon DEF Store
    <3>2. CASE ~Store(c)
      BY <1>8, <3>2 DEF LookUp, LoadPks, LoadTime, FetchChains, FetchPks, FetchFails
    <3> QED BY <3>1, <3>2
  <2> QED BY <1>4, <1>8, <2>1, <2>2, <2>3
<1>9. CASE UNCHANGED profileVars /\ Tick
  <2>1. Types' /\ UNCHANGED <<deviceVars, serverVars, senderVars, mailVars, failed>>
    BY <1>1, <1>9, OtherTypes DEF Tick
  <2>2. Chains' /\ DevicesInv' /\ Growth
    BY <2>1, DevicesKept
  <2> QED BY <1>3, <1>9, <2>1, <2>2
<1>10. CASE UNCHANGED profileVars /\ GoesStale
  <2>1. Types' /\ UNCHANGED <<deviceVars, serverVars, call, overtaken, mailVars, failed>>
    BY <1>1, <1>10, OtherTypes DEF GoesStale
  <2>2. /\ cache'.chains = cache.chains /\ cache'.pks = cache.pks
        /\ cache'.since = cache.since /\ cache'.known = cache.known
    BY <1>1, <1>10 DEF GoesStale, Types, CacheType
  <2>3. Growth
    BY <2>1, DevicesKept
  <2>4. CacheInv' /\ (\A c \in Callers : LookUpInv(c)') /\ MessagesInv'
    BY <2>1, <2>2, <2>3, SenderKept DEF mailVars
  <2> QED BY <1>4, <1>10, <2>1, <2>4
<1>11. CASE UNCHANGED profileVars /\ Post
  <2>1. Types' /\ UNCHANGED <<deviceVars, serverVars, overtaken, read, missed, failed>>
    BY <1>1, <1>11, OtherTypes DEF Post
  <2>2. CacheInv' /\ (\A c \in Callers : LookUpInv(c)') /\ MessagesInv'
    BY <1>11, <2>1, PostStep
  <2>3. Chains' /\ DevicesInv' /\ Growth
    BY <2>1, DevicesKept
  <2>4. ReceivedInv'
    <3>1. PICK m \in MessageType : messages' = Append(messages, m)
      <4>1. call[Sender] \in LookUpType
        BY <1>1, RootIsDevice DEF Types
      <4>2. Sending(call[Sender]) \in MessageType
        BY <4>1 DEF Sending, LookUpType, MessageType
      <4> QED BY <1>11, <4>2 DEF Post, Sending
    <3>2. /\ Len(messages) <= Len(messages')
          /\ \A n \in 1 .. Len(messages) : messages'[n] = messages[n]
      BY <1>1, <3>1, AppendProperties, LenProperties DEF Types
    <3> QED BY <2>1, <2>3, <3>2, ReceivedKept
  <2> QED BY <1>2, <1>11, <2>1, <2>2, <2>3, <2>4 DEF Inv
(* The profile.                                                            *)
<1>12. ASSUME NEW d \in Devices, OwnProfileSet(d) PROVE Inv'
  <2>1. [by |-> d, created |-> now + 1] \in SetType
    BY <1>1 DEF Types, SetType
  <2>2. ProfilesInv'
    BY <1>1, <1>12, <2>1 DEF OwnProfileSet, ProfilesInv
  <2> QED BY <1>5, <1>12, <2>2 DEF OwnProfileSet
<1>13. ASSUME NEW s \in sets, SetChecks(s) PROVE Inv'
  <2>1. s \in SetType /\ (Accepted(s) => s.created > profile.created)
    BY <1>1 DEF ProfilesInv, Accepted, NoProfile, SetType
  <2>2. ASSUME NEW t \in checked' PROVE t.set \in SetType /\ t.set.created > t.over.created
    BY <1>1, <1>13, <2>1 DEF SetChecks, ProfilesInv
  <2>3. ProfilesInv'
    BY <1>1, <1>13, <2>2 DEF SetChecks, ProfilesInv
  <2> QED BY <1>5, <1>13, <2>3 DEF SetChecks
<1>14. ASSUME NEW t \in checked, SetStores(t) PROVE Inv'
  <2>1. t.set \in SetType /\ t.set.created > t.over.created /\ t.set.created \in Nat
    BY <1>1 DEF ProfilesInv, SetType
  <2>2. profile'.created = newest' /\ newest' \in Nat
    BY <1>1, <1>14, <2>1 DEF SetStores, ProfilesInv
  <2>3. ProfilesInv'
    BY <1>1, <1>14, <2>2 DEF SetStores, ProfilesInv
  <2> QED BY <1>5, <1>14, <2>3 DEF SetStores
<1>15. CASE SetFails
  <2>1. ProfilesInv'
    BY <1>1, <1>15 DEF SetFails, ProfilesInv
  <2> QED BY <1>5, <1>15, <2>1 DEF SetFails
<1>16. CASE GetProfile
  <2>1. Types' /\ UNCHANGED <<deviceVars, serverVars, failed, cache, overtaken, mailVars, profileVars>>
    BY <1>1, <1>16, OtherTypes DEF GetProfile
  <2>2. CacheInv' /\ (\A c \in Callers : LookUpInv(c)') /\ MessagesInv'
    BY <1>16, <2>1, IdleOk, CallStep, RootIsDevice DEF GetProfile, mailVars
  <2> QED BY <1>4, <2>1, <2>2
<1>17. CASE UNCHANGED allVars
  BY <1>2, <1>5, <1>17 DEF allVars
<1>18. CASE Next /\ UNCHANGED profileVars
  BY <1>6, <1>7, <1>8, <1>9, <1>10, <1>11, <1>18 DEF Next
<1> QED BY <1>12, <1>13, <1>14, <1>15, <1>16, <1>17, <1>18 DEF ProfilesNext

(* Every reachable state is one the inductive invariant describes.         *)
THEOREM Invariance == ProfilesSpec => []Inv
<1>1. ProfilesInit => Inv
  BY InitInv
<1>2. Inv /\ [ProfilesNext]_allVars => Inv'
  BY NextInv
<1> QED BY <1>1, <1>2, PTL DEF ProfilesSpec

(* Whatever uploads are late or fail and however look-ups of the sender    *)
(* overlap, a device cannot open a message only for the named reasons      *)
(* (medium_keys.rs's rotate_once, dm_recv.rs's process_mailbox_entry).     *)
THEOREM MessagesOpened == ProfilesSpec => []UnopenedOnlyIfRotatedOrFailed
<1>1. Inv => UnopenedOnlyIfRotatedOrFailed
  <2> SUFFICES ASSUME Inv PROVE UnopenedOnlyIfRotatedOrFailed
    OBVIOUS
  <2>1. TypeOK
    <3>1. ASSUME NEW d \in Devices
          PROVE  /\ {cur[d], prev[d], pk[d], up[d]} \subseteq 0 .. made[d]
                 /\ phase[d] = "active" => cur[d] # 0 /\ prev[d] # 0 /\ d \in enrolled
                 /\ read[d] \in 0 .. Len(messages)
      <4>1. Holds(d) /\ made[d] \in Nat /\ read[d] \in 0 .. Len(messages)
        BY DEF Inv, DevicesInv, ReceivedInv, Types, Keys
      <4> QED BY <4>1 DEF Holds
    <3>2. \A u \in uploads : u[1] \in enrolled /\ u[2] \in 1 .. made[u[1]]
      BY DEF Inv, DevicesInv, Uploading
    <3>3. cache.chains \subseteq Devices
      BY DEF Inv, Types, CacheType
    <3> QED BY <3>1, <3>2, <3>3 DEF TypeOK, Inv, Types
  <2>2. ASSUME NEW e \in missed
        PROVE  \/ e[3] > messages[e[2]].since[e[1]]
               \/ \E j \in 1 .. messages[e[2]].since[e[1]] : <<e[1], j>> \in failed
               \/ overtaken
    BY DEF Inv, ReceivedInv, Unopened
  <2> QED BY <2>1, <2>2 DEF UnopenedOnlyIfRotatedOrFailed
<1> QED BY <1>1, Invariance, PTL

(* A late upload may put an earlier key back at the server, but a message  *)
(* is not encrypted to it (send.rs's merge_monotonic_medium_pks).          *)
THEOREM KeysGoForward == ProfilesSpec => []KeysNeverGoBack
<1>1. Inv => KeysNeverGoBack
  <2> SUFFICES ASSUME Inv, ~overtaken, NEW j \in DOMAIN messages, NEW i \in 1 .. j - 1,
                      NEW d \in Devices, messages[j].keys[d] # 0
               PROVE  messages[i].keys[d] <= messages[j].keys[d]
    BY DEF KeysNeverGoBack
  <2>1. j \in 1 .. Len(messages)
    BY LenProperties DEF Inv, Types
  <2>2. NotBefore(messages[j].keys, j - 1)
    BY <2>1 DEF Inv, MessagesInv
  <2> QED BY <2>2 DEF NotBefore
<1> QED BY <1>1, Invariance, PTL

(* A message goes to no device with an expired certificate in its chain,   *)
(* and to every other registered one (certificate.rs's verify, send.rs's   *)
(* collect_recipients), whatever chains the devices have given each other. *)
THEOREM RecipientsCertified == ProfilesSpec => []RecipientsAreCertified
<1>1. Inv => RecipientsAreCertified
  <2> SUFFICES ASSUME Inv, NEW n \in DOMAIN messages
               PROVE  /\ {d \in Devices : messages[n].keys[d] # 0} \subseteq messages[n].valid
                      /\ \/ overtaken
                         \/ messages[n].known \cap messages[n].valid
                              \subseteq {d \in Devices : messages[n].keys[d] # 0}
    BY DEF RecipientsAreCertified
  <2>1. n \in 1 .. Len(messages)
    BY LenProperties DEF Inv, Types
  <2>2. Encrypted(messages[n])
    BY <2>1 DEF Inv, MessagesInv
  <2> QED BY <2>2 DEF Encrypted
<1> QED BY <1>1, Invariance, PTL

(* The stored profile is the newest ever stored, and its signature can be  *)
(* checked but for the named reasons (profile.rs of client and server).    *)
THEOREM ProfileVerified == ProfilesSpec => []NewestProfileVerifies
<1>1. Inv => NewestProfileVerifies
  <2> SUFFICES ASSUME Inv PROVE NewestProfileVerifies
    OBVIOUS
  <2>1. Reader \in Callers
    BY RootIsDevice
  <2>2. LookUpOk(Reader, call[Reader])
    BY <2>1 DEF Inv, LookUpInv
  <2>3. profile.created = newest
    BY DEF Inv, ProfilesInv
  <2>4. ASSUME call[Reader].pc = "profile", ProfileError
        PROVE  profile.by \notin call[Reader].known \cap call[Reader].valid \/ overtaken
    BY <2>2, <2>4 DEF LookUpOk, ProfileError
  <2> QED BY <2>3, <2>4 DEF NewestProfileVerifies
<1> QED BY <1>1, Invariance, PTL
=============================================================================
