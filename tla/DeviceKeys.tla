----------------------------- MODULE DeviceKeys -----------------------------
(***************************************************************************)
(* One user's devices, their certificates and medium-term keys at the      *)
(* user's server, and a client that sends the user direct messages         *)
(* (nullspace-client: medium_keys.rs, user_info.rs, send.rs, dm_recv.rs;   *)
(* nullspace-server: device.rs; nullspace-structs: certificate.rs).        *)
(*                                                                         *)
(* A device makes keys 1, 2, ... and keeps the last two.  The root device  *)
(* is registered; others get a certificate chain from a device that may    *)
(* issue one, and register with it.  The sender keeps chains and keys in a *)
(* cache that two of its tasks refresh.                                    *)
(***************************************************************************)
EXTENDS Naturals, Sequences, FiniteSets

CONSTANTS
  Devices, Root,  (* devices of the user; the first one                   *)
  Callers,        (* tasks of the sender that look the user up            *)
  Sender, Reader, (* those that send messages and that read the profile   *)
  Workloads,      (* what a behaviour is about: who calls, and the bounds *)
  Calling,
  MaxKeys,        (* keys of each device in each workload                 *)
  Bundles,        (* what a new device may be given: expiry, can_issue    *)
  MaxMessages, MaxFaults, MaxTime

ASSUME RootIsDevice == Root \in Devices /\ {Sender, Reader} \subseteq Callers
ASSUME WorkloadBounds ==
  /\ Calling \in [Workloads -> SUBSET Callers]
  /\ MaxKeys \in [Workloads -> [Devices -> Nat]]
  /\ \A b \in Bundles : b.expiry \in Nat /\ b.can \in BOOLEAN
  /\ {MaxMessages, MaxFaults, MaxTime} \subseteq [Workloads -> Nat]

VARIABLES
  workload, faults, now,
  chain,      (* the chain each device or its bundle has                  *)
  phase,      (* how far each device is registered                        *)
  made,       (* how many keys each device has made                       *)
  cur, prev,  (* medium_sk_current and medium_sk_prev, or 0               *)
  up,         (* the key whose upload a device waits for, or 0            *)
  enrolled,   (* server: device_certificates and device_auth_tokens       *)
  pk,         (* server: device_medium_pks, or 0                          *)
  uploads,    (* calls of device_add_medium_pk that the server may handle *)
  cache,      (* user_device_certs_cache, user_device_medium_pks_cache    *)
  call,       (* get_user_info of each task of the sender                 *)
  messages,   (* the user's direct mailbox: the keys of each message      *)
  read,       (* the cursor of each device                                *)
  missed,     (* history: messages a device could not open                *)
  failed,     (* history: uploads whose device saw an error               *)
  overtaken   (* history: a task stored while another looked up           *)

deviceVars == <<chain, phase, made, cur, prev, up>>
serverVars == <<enrolled, pk, uploads>>
senderVars == <<cache, call, overtaken>>
mailVars == <<messages, read, missed>>
vars == <<workload, faults, now, deviceVars, serverVars, senderVars, mailVars, failed>>

Never == MaxTime[workload] + 1
Fault == faults < MaxFaults[workload] /\ faults' = faults + 1

(* DeviceCertificate; chains are sets, in which the root's signs itself.   *)
Certificate(d, by, expiry, can) == [dev |-> d, by |-> by, expiry |-> expiry, canIssue |-> can]

(* Variant: any certificate of a trusted signer gives trust. *)
Trusting_Expired(c) == c.canIssue
Trusting(c) == c.canIssue /\ c.expiry > now

(* CertificateChain::verify: the trusted signers grow from the root; then  *)
(* every certificate must be signed by one, and the device's own be valid. *)
Signers(certs) ==
  LET grow[n \in 0 .. Cardinality(certs)] ==
        IF n = 0 THEN {c.dev : c \in {r \in certs : r.dev = Root /\ Trusting(r)}}
        ELSE grow[n - 1] \cup {c.dev : c \in {s \in certs : s.by \in grow[n - 1] /\ Trusting(s)}}
  IN  grow[Cardinality(certs)]

Verified(certs, d) ==
  /\ \E c \in certs : c.dev = Root /\ c.expiry > now
  /\ \A c \in certs : c.dev = Root \/ c.by \in Signers(certs)
  /\ \E c \in certs : c.dev = d /\ c.expiry > now

Registered == {d \in Devices : phase[d] = "active"}

NoKeys == [d \in Devices |-> 0]

(* A look-up: what it has read of the cache and of the server; history:    *)
(* keys made and devices known to the server when it began, and devices    *)
(* whose certificates had not expired when it ended.                       *)
Idle ==
  [pc |-> "idle", chains |-> {}, pks |-> NoKeys, got |-> {}, newChains |-> {}, newPks |-> NoKeys,
   since |-> NoKeys, known |-> {}, valid |-> {}]

Init ==
  LET atRoot(x, y) == [d \in Devices |-> IF d = Root THEN x ELSE y]
  IN  /\ workload \in Workloads /\ faults = 0 /\ now = 0
      /\ chain = atRoot({Certificate(Root, Root, Never, TRUE)}, {})
      /\ phase = atRoot("active", "none")
      /\ made = atRoot(1, 0) /\ cur = made /\ prev = made /\ pk = made
      /\ up = NoKeys
      /\ enrolled = {Root} /\ uploads = {}
      /\ cache = [chains |-> {}, pks |-> NoKeys, fresh |-> FALSE, since |-> NoKeys, known |-> {}]
      /\ call = [c \in Callers |-> Idle]
      /\ messages = <<>> /\ read = NoKeys /\ missed = {}
      /\ failed = {} /\ overtaken = FALSE

Tick ==
  /\ now < MaxTime[workload] /\ now' = now + 1
  /\ UNCHANGED <<workload, faults, deviceVars, serverVars, senderVars, mailVars, failed>>

-----------------------------------------------------------------------------
(* new_device_bundle                                                       *)
NewDeviceBundle(d, n) ==
  /\ d \in Registered /\ phase[n] = "none" /\ MaxKeys[workload][n] > 0
  /\ \E own \in chain[d] : own.dev = d /\ own.canIssue
  /\ \E b \in Bundles :
       chain' = [chain EXCEPT ![n] = chain[d] \cup {Certificate(n, d, b.expiry, b.can)}]
  /\ phase' = [phase EXCEPT ![n] = "bundle"]
  /\ UNCHANGED <<workload, faults, now, made, cur, prev, up, serverVars, senderVars, mailVars,
                 failed>>

(* register_add_device checks the chain, and so does v1_device_auth.       *)
Enrol(n) ==
  /\ phase[n] = "bundle" /\ Verified(chain[n], n)
  /\ enrolled' = enrolled \cup {n}
  /\ \/ phase' = [phase EXCEPT ![n] = "enrolled"] /\ UNCHANGED faults
     \/ phase' = phase /\ n \notin enrolled /\ Fault
  /\ UNCHANGED <<workload, now, chain, made, cur, prev, up, pk, uploads, senderVars, mailVars,
                 failed>>

NewKey(d) ==
  /\ up[d] = 0 /\ made[d] < MaxKeys[workload][d]
  /\ made' = [made EXCEPT ![d] = @ + 1]
  /\ up' = [up EXCEPT ![d] = made'[d]]
  /\ uploads' = uploads \cup {<<d, made'[d]>>}

(* register_medium_key: the key is stored locally only after the answer.   *)
FirstKey(n) ==
  /\ phase[n] = "enrolled"
  /\ NewKey(n)
  /\ UNCHANGED <<workload, faults, now, chain, phase, cur, prev, enrolled, pk, senderVars,
                 mailVars, failed>>

(* Variant: the previous key stays the one before. *)
Shifted_KeepsPrev(d) == prev[d]
Shifted(d) == cur[d]

(* rotate_once: the new key is stored locally, then uploaded.  A device    *)
(* rotates every hour.  What the sender looks up takes at most 600 seconds *)
(* and is fresh for 60: both began after the device's last rotation.       *)
Rotate(d) ==
  /\ d \in Registered
  /\ cache.fresh => cache.since[d] = made[d]
  /\ \A c \in Callers : call[c].pc # "idle" => call[c].since[d] = made[d]
  /\ NewKey(d)
  /\ prev' = [prev EXCEPT ![d] = Shifted(d)]
  /\ cur' = [cur EXCEPT ![d] = made'[d]]
  /\ UNCHANGED <<workload, faults, now, chain, phase, enrolled, pk, senderVars, mailVars, failed>>

(* device_add_medium_pk: INSERT OR REPLACE, whatever key is there.         *)
StoreKey(d, k) ==
  /\ <<d, k>> \in uploads /\ d \in enrolled
  /\ pk' = [pk EXCEPT ![d] = k]
  /\ uploads' = uploads \ {<<d, k>>}
  /\ UNCHANGED <<workload, faults, now, deviceVars, enrolled, senderVars, mailVars, failed>>

(* The answer; persist_identity when the device registers.                 *)
UploadDone(d) ==
  /\ up[d] # 0 /\ <<d, up[d]>> \notin uploads
  /\ up' = [up EXCEPT ![d] = 0]
  /\ phase' = [phase EXCEPT ![d] = "active"]
  /\ IF d \in Registered THEN UNCHANGED <<cur, prev>>
     ELSE cur' = [cur EXCEPT ![d] = up[d]] /\ prev' = [prev EXCEPT ![d] = up[d]]
  /\ UNCHANGED <<workload, faults, now, chain, made, serverVars, senderVars, mailVars, failed>>

(* The call fails or the process ends: the server has handled it, never    *)
(* gets it, or handles it later.  A registration starts over.              *)
UploadFails(d) ==
  /\ up[d] # 0
  /\ Fault
  /\ uploads' \in {uploads, uploads \ {<<d, up[d]>>}}
  /\ failed' = failed \cup {<<d, up[d]>>}
  /\ up' = [up EXCEPT ![d] = 0]
  /\ phase' = [phase EXCEPT ![d] = IF d \in Registered THEN @ ELSE "bundle"]
  /\ UNCHANGED <<workload, now, chain, made, cur, prev, enrolled, pk, senderVars, mailVars>>

-----------------------------------------------------------------------------
(* get_user_info reads the cache with three statements: chains, keys, and  *)
(* when they were fetched.                                                 *)
LookUp(c) ==
  /\ c \in Calling[workload] /\ call[c].pc = "idle"
  /\ c = Sender => Len(messages) < MaxMessages[workload]
  /\ call' = [call EXCEPT ![c] =
       [Idle EXCEPT !.pc = "pks", !.chains = cache.chains, !.since = made,
                    !.known = {d \in enrolled : pk[d] # 0}]]
  /\ UNCHANGED <<workload, faults, now, deviceVars, serverVars, cache, overtaken, mailVars, failed>>

LoadPks(c) ==
  /\ call[c].pc = "pks"
  /\ call' = [call EXCEPT ![c].pc = "time", ![c].pks = cache.pks]
  /\ UNCHANGED <<workload, faults, now, deviceVars, serverVars, cache, overtaken, mailVars, failed>>

Valid(chains) == {d \in chains : Verified(chain[d], d)}

(* collect_recipients: the devices that have a valid chain and a key.      *)
Recipients(chains, pks) ==
  [d \in Devices |-> IF d \in Valid(chains) THEN pks[d] ELSE 0]

(* What a look-up ends with: the sender has the message's recipients, the  *)
(* reader the devices whose signature it takes.                            *)
Found(c, info) ==
  LET keys == Recipients(info.chains, info.pks)
      found == [Idle EXCEPT !.since = info.since, !.known = info.known,
                            !.valid = {d \in Devices : \A s \in chain[d] : s.expiry > now}]
  IN  CASE c = Sender /\ (\E d \in Devices : keys[d] # 0) ->
             [found EXCEPT !.pc = "send", !.pks = keys]
        [] c = Reader /\ Valid(info.chains) # {} ->
             [found EXCEPT !.pc = "profile", !.chains = Valid(info.chains)]
        [] OTHER -> Idle

(* Fresh chains and keys are used; others are fetched again.               *)
LoadTime(c) ==
  /\ call[c].pc = "time"
  /\ IF cache.fresh /\ call[c].chains # {}
       THEN call' = [call EXCEPT ![c] =
              Found(c, [call[c] EXCEPT !.since = cache.since, !.known = cache.known])]
       ELSE call' = [call EXCEPT ![c].pc = "fetch"]
  /\ UNCHANGED <<workload, faults, now, deviceVars, serverVars, cache, overtaken, mailVars, failed>>

(* device_list and device_medium_pks, in any order.                        *)
FetchChains(c) ==
  /\ call[c].pc = "fetch" /\ "chains" \notin call[c].got
  /\ call' = [call EXCEPT ![c].newChains = enrolled, ![c].got = @ \cup {"chains"}]
  /\ UNCHANGED <<workload, faults, now, deviceVars, serverVars, cache, overtaken, mailVars, failed>>

FetchPks(c) ==
  /\ call[c].pc = "fetch" /\ "pks" \notin call[c].got
  /\ call' = [call EXCEPT ![c].newPks = [d \in Devices |-> IF d \in enrolled THEN pk[d] ELSE 0],
                          ![c].got = @ \cup {"pks"}]
  /\ UNCHANGED <<workload, faults, now, deviceVars, serverVars, cache, overtaken, mailVars, failed>>

FetchFails(c) ==
  /\ call[c].pc = "fetch"
  /\ Fault
  /\ call' = [call EXCEPT ![c] = Idle]
  /\ UNCHANGED <<workload, now, deviceVars, serverVars, cache, overtaken, mailVars, failed>>

(* Variant: what the server says replaces what is cached. *)
Merged_Replaces(cached, fetched) == [d \in Devices |-> IF fetched[d] # 0 THEN fetched[d] ELSE cached[d]]

(* merge_monotonic_medium_pks: the later key stays.                        *)
Merged(cached, fetched) ==
  [d \in Devices |-> IF fetched[d] < cached[d] THEN cached[d] ELSE fetched[d]]

(* The merge with what was read before the fetch is stored, and used.      *)
Store(c) ==
  LET pks == Merged(call[c].pks, call[c].newPks)
      info == [call[c] EXCEPT !.chains = call[c].newChains, !.pks = pks]
  IN  /\ call[c].pc = "fetch" /\ call[c].got = {"chains", "pks"}
      /\ cache' = [chains |-> call[c].newChains, pks |-> pks, fresh |-> TRUE,
                   since |-> call[c].since, known |-> call[c].known]
      /\ call' = [call EXCEPT ![c] = Found(c, info)]
      /\ overtaken' = (overtaken \/ \E o \in Callers \ {c} : call[o].pc \in {"pks", "time", "fetch"})
      /\ UNCHANGED <<workload, faults, now, deviceVars, serverVars, mailVars, failed>>

(* USER_CACHE_TTL_SECONDS have passed.                                     *)
GoesStale ==
  /\ cache.fresh
  /\ cache' = [cache EXCEPT !.fresh = FALSE]
  /\ UNCHANGED <<workload, faults, now, deviceVars, serverVars, call, overtaken, mailVars, failed>>

(* send_dm_once: the message is posted, encrypted to the keys.             *)
Post ==
  /\ call[Sender].pc = "send"
  /\ messages' = Append(messages, [keys |-> call[Sender].pks, since |-> call[Sender].since,
                                   known |-> call[Sender].known, valid |-> call[Sender].valid])
  /\ call' = [call EXCEPT ![Sender] = Idle]
  /\ UNCHANGED <<workload, faults, now, deviceVars, serverVars, cache, overtaken, read, missed,
                 failed>>

-----------------------------------------------------------------------------
(* process_mailbox_entry tries the current and then the previous key.      *)
Receive(d) ==
  LET n == read[d] + 1
      key == messages[n].keys[d]
  IN  /\ d \in Registered /\ n <= Len(messages)
      /\ read' = [read EXCEPT ![d] = n]
      /\ missed' = IF key \in {0, cur[d], prev[d]} THEN missed ELSE missed \cup {<<d, n, made[d]>>}
      /\ UNCHANGED <<workload, faults, now, deviceVars, serverVars, senderVars, messages, failed>>

Next ==
  \/ Tick
  \/ \E d, n \in Devices : NewDeviceBundle(d, n)
  \/ \E d \in Devices :
       \/ Enrol(d) \/ FirstKey(d) \/ Rotate(d)
       \/ \E k \in 1 .. made[d] : StoreKey(d, k)
       \/ UploadDone(d) \/ UploadFails(d) \/ Receive(d)
  \/ \E c \in Callers :
       \/ LookUp(c) \/ LoadPks(c) \/ LoadTime(c)
       \/ FetchChains(c) \/ FetchPks(c) \/ FetchFails(c) \/ Store(c)
  \/ GoesStale \/ Post

Spec == Init /\ [][Next]_vars

-----------------------------------------------------------------------------
TypeOK ==
  /\ workload \in Workloads
  /\ phase \in [Devices -> {"none", "bundle", "enrolled", "active"}]
  /\ \A d \in Devices :
       /\ {cur[d], prev[d], pk[d], up[d]} \subseteq 0 .. made[d]
       /\ phase[d] = "active" => cur[d] # 0 /\ prev[d] # 0 /\ d \in enrolled
       /\ read[d] \in 0 .. Len(messages)
  /\ enrolled \subseteq Devices /\ cache.chains \subseteq Devices
  /\ \A u \in uploads : u[1] \in enrolled /\ u[2] \in 1 .. made[u[1]]

(* A device cannot open a message that was encrypted to one of its keys    *)
(* only if it has rotated since the sender looked the key up, or if an     *)
(* upload of one of its keys had failed before (a failed upload may also   *)
(* arrive late, over a newer key), or if two tasks of the sender looked up *)
(* at once.  In particular a message encrypted while an upload is under    *)
(* way can be opened.                                                      *)
UnopenedOnlyIfRotatedOrFailed ==
  /\ TypeOK
  /\ \A e \in missed :
       LET m == messages[e[2]]
       IN  \/ e[3] > m.since[e[1]]
           \/ \E j \in 1 .. m.since[e[1]] : <<e[1], j>> \in failed
           \/ overtaken

(* Later messages do not go back to an earlier key of a device, although a *)
(* delayed upload may put that key back at the server, unless two tasks    *)
(* of the sender looked up at once: what one stored, the other's merge,    *)
(* which began before, may overwrite.                                      *)
KeysNeverGoBack ==
  overtaken \/ \A j \in DOMAIN messages : \A i \in 1 .. j - 1 : \A d \in Devices :
                 messages[j].keys[d] # 0 => messages[i].keys[d] <= messages[j].keys[d]

(* A message is encrypted only to devices none of whose certificates, from *)
(* the root's on, had expired when the sender looked up, and to every such *)
(* device that had finished registering before.                            *)
RecipientsAreCertified ==
  \A n \in DOMAIN messages :
    LET m == messages[n]
        to == {d \in Devices : m.keys[d] # 0}
    IN  to \subseteq m.valid /\ (overtaken \/ m.known \cap m.valid \subseteq to)
=============================================================================
