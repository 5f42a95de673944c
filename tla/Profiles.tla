------------------------------ MODULE Profiles ------------------------------
(***************************************************************************)
(* The profile of the user of DeviceKeys (nullspace-server: profile.rs;    *)
(* nullspace-client: profile.rs and internal.rs).  Every device may set    *)
(* it; a client that shows it looks the user up first, in its cache or at  *)
(* the server, and checks the profile's signature with what it has found.  *)
(***************************************************************************)
EXTENDS DeviceKeys

CONSTANTS
  MaxSets     (* calls of profile_set under way at a time in each workload *)

ASSUME SetsBound == MaxSets \in [Workloads -> Nat]

VARIABLES
  profile,    (* user_profiles: whose profile it is and its time, or none  *)
  sets,       (* calls of profile_set that the server may handle           *)
  checked,    (* those whose transaction has read the table, and what      *)
  newest      (* history: the newest profile stored so far                 *)

profileVars == <<profile, sets, checked, newest>>
allVars == <<vars, profileVars>>

NoProfile == [by |-> "none", created |-> 0]

ProfilesInit ==
  /\ Init
  /\ profile = NoProfile /\ sets = {} /\ checked = {} /\ newest = 0

(* own_profile_set: created is the second the call is made in, from 1 on.  *)
OwnProfileSet(d) ==
  /\ d \in Registered
  /\ Cardinality(sets) + Cardinality(checked) < MaxSets[workload]
  /\ sets' = sets \cup {[by |-> d, created |-> now + 1]}
  /\ UNCHANGED <<vars, profile, checked, newest>>

(* Variant: every profile of a device of the user is accepted. *)
Accepted_Any(s) == TRUE
Accepted(s) == profile = NoProfile \/ s.created > profile.created

(* profile_set: the signer must have a row in device_certificates, whatever*)
(* its chain says; then a transaction reads the row that is there.         *)
SetChecks(s) ==
  /\ s \in sets
  /\ sets' = sets \ {s}
  /\ checked' = IF s.by \in enrolled /\ Accepted(s)
                  THEN checked \cup {[set |-> s, over |-> profile]} ELSE checked
  /\ UNCHANGED <<vars, profile, newest>>

(* It writes, unless another one has written since: SQLite refuses then.   *)
SetStores(t) ==
  /\ t \in checked
  /\ checked' = checked \ {t}
  /\ IF profile = t.over
       THEN /\ profile' = t.set
            /\ newest' = IF t.set.created > newest THEN t.set.created ELSE newest
       ELSE UNCHANGED <<profile, newest>>
  /\ UNCHANGED <<vars, sets>>

(* The connection or the transaction fails.                                *)
SetFails ==
  /\ \/ \E s \in sets : sets' = sets \ {s} /\ checked' = checked
     \/ \E t \in checked : checked' = checked \ {t} /\ sets' = sets
  /\ UNCHANGED <<vars, profile, newest>>

(* get_profile: an error if the signer is not among the devices found.     *)
ProfileError == profile # NoProfile /\ profile.by \notin call[Reader].chains

GetProfile ==
  /\ call[Reader].pc = "profile"
  /\ call' = [call EXCEPT ![Reader] = Idle]
  /\ UNCHANGED <<workload, faults, now, deviceVars, serverVars, cache, overtaken, mailVars, failed,
                 profileVars>>

ProfilesNext ==
  \/ Next /\ UNCHANGED profileVars
  \/ \E d \in Devices : OwnProfileSet(d)
  \/ \E s \in sets : SetChecks(s)
  \/ \E t \in checked : SetStores(t)
  \/ SetFails \/ GetProfile

ProfilesSpec == ProfilesInit /\ [][ProfilesNext]_allVars

-----------------------------------------------------------------------------
(* A reader gets the newest profile that was ever stored, however calls to *)
(* set it overlap or are late.  It cannot check that profile's signature   *)
(* only if the signer finished registering after the reader's chains were  *)
(* asked for, which may be a minute ago, or if a certificate of the        *)
(* signer's chain had expired, or if two tasks looked up at once.          *)
NewestProfileVerifies ==
  /\ profile.created = newest
  /\ call[Reader].pc = "profile" /\ ProfileError =>
       profile.by \notin call[Reader].known \cap call[Reader].valid \/ overtaken
=============================================================================
