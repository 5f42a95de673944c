----------------------------- MODULE Registration ---------------------------
(***************************************************************************)
(* How names get into the directory: register_bootstrap for a new user and *)
(* register_add_device for a further device (nullspace-client,             *)
(* internal.rs), and init_name for a server (nullspace-server,             *)
(* dir_client.rs), each a sequence of lookups and inserts of the directory *)
(* client, then of calls to the user's server.                             *)
(***************************************************************************)
EXTENDS DirClient

CONSTANTS
  KindOf,     (* "user", "device", "server" or "reader", per task         *)
  PkOf,       (* the signing key a task registers                         *)
  BundleOf,   (* for a device, the task whose identity issued its bundle  *)
  Workloads,  (* the sets of tasks that run together                      *)
  Restarted   (* bound: the servers that are started again                *)

Kinds == {"user", "device", "server", "reader"}
ASSUME KindOfType == KindOf \in [Tasks -> Kinds]
ASSUME PkOfType == PkOf \in [Tasks -> Pks]
ASSUME BundleOfType == BundleOf \in [Tasks -> Tasks]
ASSUME WorkloadsType == Workloads \subseteq SUBSET Tasks
ASSUME RestartedType == \A t \in Restarted : t \in Tasks /\ KindOf[t] = "server"

VARIABLES
  identity,   (* table client_identity of each database                   *)
  running     (* the tasks of this behaviour                              *)

registrationVars == <<directory, headers, task, overtaken, faults, identity, running>>

(* "query" looks the name up, "add" and "describe" look it up again to     *)
(* build an update and wait for it; "auth", "upload" and "persist" are the *)
(* calls to the user's server and the row of the identity.                 *)
Stages == {"query", "add", "adding", "describe", "describing", "auth", "upload", "persist"}

RegistrationTypeOK ==
  /\ ClientTypeOK(Stages)
  /\ identity \in [Databases -> Tasks \cup {Nobody}]
  /\ running \in Workloads

RegistrationInit ==
  /\ ClientInit("query")
  /\ identity = [d \in Databases |-> Nobody]
  /\ running \in Workloads

unchanged == <<directory, headers, overtaken, faults, identity, running>>

-----------------------------------------------------------------------------
(* register_finish goes on without an identity; a bundle is issued by a    *)
(* device that has one (new_device_bundle).                                *)
Start(t) ==
  /\ t \in running /\ At(t, "off")
  /\ KindOf[t] \in {"user", "device"} => identity[Db(t)] = Nobody
  /\ KindOf[t] = "device" => identity[Db(BundleOf[t])] = BundleOf[t]
  /\ task' = Goto(t, "item")
  /\ UNCHANGED unchanged

(* A server that failed to register is started again.                      *)
StartAgain(t) ==
  /\ t \in Restarted /\ At(t, "failed")
  /\ task' = [task EXCEPT ![t] = [pc |-> "item", stage |-> "query", at |-> 0, anchor |-> 0,
                                  sent |-> NothingSent, read |-> 0, why |-> ""]]
  /\ UNCHANGED unchanged

Got(t, stage) == At(t, "got") /\ task[t].stage = stage

NextStage(t, pc, stage) ==
  task' = [task EXCEPT ![t].pc = pc, ![t].stage = stage, ![t].sent = NothingSent]

(* The name is free: add the owner.                                        *)
NameFree(t) ==
  /\ KindOf[t] \in {"user", "server"} /\ Got(t, "query")
  /\ Descriptor(History(t)) = NoDescriptor
  /\ NextStage(t, "item", "add")
  /\ UNCHANGED unchanged

(* A server finds its own descriptor.                                      *)
NameIsMine(t) ==
  /\ KindOf[t] = "server" /\ Got(t, "query")
  /\ Descriptor(History(t)) = PkOf[t]
  /\ NextStage(t, "ok", "query")
  /\ UNCHANGED unchanged

(* A further device checks its chain against the root in the descriptor.   *)
BundleFits(t) ==
  /\ KindOf[t] = "device" /\ Got(t, "query")
  /\ Descriptor(History(t)) = PkOf[BundleOf[t]]
  /\ NextStage(t, "between", "auth")
  /\ UNCHANGED unchanged

NameTaken(t) ==
  /\ Got(t, "query")
  /\ CASE KindOf[t] = "user" -> Descriptor(History(t)) # NoDescriptor
       [] KindOf[t] = "server" -> Descriptor(History(t)) \notin {NoDescriptor, PkOf[t]}
       [] KindOf[t] = "device" -> Descriptor(History(t)) # PkOf[BundleOf[t]]
       [] OTHER -> FALSE
  /\ task' = Failed(t, "other")
  /\ UNCHANGED unchanged

(* add_owner and insert_user_descriptor, or add_server_owner and           *)
(* insert_server_descriptor, on the history that was looked up for each.   *)
AddOwner(t) ==
  /\ Got(t, "add")
  /\ InsertBegin(t, "add", PkOf[t], "adding")
  /\ UNCHANGED unchanged

OwnerAdded(t) ==
  /\ Got(t, "adding") /\ Landed(t)
  /\ NextStage(t, "item", "describe")
  /\ UNCHANGED unchanged

Describe(t) ==
  /\ Got(t, "describe")
  /\ InsertBegin(t, "update", PkOf[t], "describing")
  /\ UNCHANGED unchanged

Described(t) ==
  /\ Got(t, "describing") /\ Landed(t)
  /\ IF KindOf[t] = "server" THEN NextStage(t, "ok", "describing")
     ELSE NextStage(t, "between", "auth")
  /\ UNCHANGED unchanged

(* v1_device_auth, then v1_device_add_medium_pk at the user's server.      *)
ServerCall(t) ==
  /\ At(t, "between") /\ task[t].stage \in {"auth", "upload"}
  /\ task' = [task EXCEPT ![t].stage = IF @ = "auth" THEN "upload" ELSE "persist"]
  /\ UNCHANGED unchanged

ServerCallFails(t) ==
  /\ At(t, "between") /\ task[t].stage \in {"auth", "upload"}
  /\ faults < MaxFaults
  /\ faults' = faults + 1
  /\ task' = Failed(t, "other")
  /\ UNCHANGED <<directory, headers, overtaken, identity, running>>

(* persist_identity: the table takes one row.                              *)
Persist(t) ==
  /\ At(t, "between") /\ task[t].stage = "persist"
  /\ IF identity[Db(t)] = Nobody
     THEN /\ identity' = [identity EXCEPT ![Db(t)] = t]
          /\ task' = Goto(t, "ok")
     ELSE /\ task' = Failed(t, "other")
          /\ UNCHANGED identity
  /\ UNCHANGED <<directory, headers, overtaken, faults, running>>

TaskNext(t) ==
  \/ CallNext(t) /\ UNCHANGED <<identity, running>>
  \/ Start(t) \/ StartAgain(t)
  \/ NameFree(t) \/ NameIsMine(t) \/ BundleFits(t) \/ NameTaken(t)
  \/ AddOwner(t) \/ OwnerAdded(t) \/ Describe(t) \/ Described(t)
  \/ ServerCall(t) \/ ServerCallFails(t) \/ Persist(t)

RegistrationNext ==
  \/ DirectoryNext /\ UNCHANGED <<identity, running>>
  \/ \E t \in Tasks : TaskNext(t)
  \/ \E d \in Databases : ProcessCrash(d) /\ UNCHANGED <<identity, running>>

RegistrationSpec == RegistrationInit /\ [][RegistrationNext]_registrationVars

-----------------------------------------------------------------------------
Now(k) == ledger[Len(ledger)][k]

(* A registration that was answered Ok holds: the name has the registrant  *)
(* as its only owner, its descriptor is the registrant's, and no other key *)
(* is ever told the same, however registrations of one name race with each *)
(* other and with the chunks that are refused or lost.  The identity a     *)
(* client stores is one whose name it has.                                 *)
RegisteredMeansOwned ==
  /\ RegistrationTypeOK
  /\ \A t \in Tasks :
       At(t, "ok") /\ KindOf[t] \in {"user", "server"} =>
         Owners(Now(KeyOf[t])) = {PkOf[t]} /\ Descriptor(Now(KeyOf[t])) = PkOf[t]
  /\ \A d \in Databases :
       identity[d] # Nobody =>
         /\ Db(identity[d]) = d /\ At(identity[d], "ok")
         /\ Descriptor(Now(KeyOf[identity[d]]))
              = PkOf[IF KindOf[identity[d]] = "device" THEN BundleOf[identity[d]] ELSE identity[d]]
=============================================================================
