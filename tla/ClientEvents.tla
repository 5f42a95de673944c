----------------------------- MODULE ClientEvents ---------------------------
(***************************************************************************)
(* How one client learns of its own database (nullspace-client,            *)
(* database.rs): DbNotify wakes the loops after a write, the event loop    *)
(* turns changed rows of convo_messages into events, and the open          *)
(* conversation of the desktop application refreshes on an event           *)
(* (nullspace-egui, widgets/convo.rs, convo_state.rs).                     *)
(*                                                                         *)
(* The loops run in one task and give way to each other only where they    *)
(* await.  Requests of the application run in tasks of their own, on other *)
(* threads, so their touch may fall anywhere, also between the two         *)
(* statements of wait_for_change.  The rows are those of one conversation; *)
(* received_at comes from the user's mailbox or, for a failed send, from   *)
(* the local clock; here these clocks are one.  A counter that is only     *)
(* compared with an earlier reading of itself is whether they differ:      *)
(* behind for DB_NOTIFY_GEN, view.due for the count of events.             *)
(***************************************************************************)
EXTENDS Integers, Sequences, FiniteSets, FiniteSetsExt, Functions

CONSTANTS
  PageLimit,   (* rows per page of a refresh: 10 in the code              *)
  MaxOwn,      (* bound: messages the user sends                          *)
  MaxForeign,  (* bound: messages that come in                            *)
  MaxErrors    (* bound: database errors                                  *)

ASSUME PageLimitPositive == PageLimit \in Nat \ {0}
ASSUME BoundsAreNat == {MaxOwn, MaxForeign, MaxErrors} \subseteq Nat

VARIABLES
  rows,     (* table convo_messages; an id is a position                  *)
  clock,    (* the last received_at given                                 *)
  inbox,    (* the user's direct mailbox                                  *)
  taken,    (* how much of it the receive loop has processed              *)
  sender,   (* the send loop, but for its waiting                         *)
  waits,    (* wait_for_change of the two loops that matter here          *)
  behind,   (* the loops whose last_seen is not DB_NOTIFY_GEN             *)
  touch,    (* touches that writers owe                                   *)
  event,    (* message_event_loop: its watermarks and what it has found   *)
  view,     (* ConvoState of the open conversation                        *)
  changed,  (* history: rows changed since the last event                 *)
  errors    (* history: how many database errors there were               *)

dbVars == <<rows, clock, inbox, taken, changed>>
loopVars == <<sender, waits, behind, touch>>
eventsVars == <<dbVars, loopVars, event, view, errors>>

Loops == {"send", "event"}
Writers == {"request", "recv", "send"}
Unread == 0  (* received_at IS NULL                                        *)

Row == [own : BOOLEAN, at : Nat]
IdleSender == [pc |-> "idle", row |-> 0, at |-> 0]
ClosedView == [pc |-> "closed", latest |-> 0, next |-> 0, due |-> FALSE, msgs |-> <<>>]

(* Every value has its type, and: the send loop works on a row that is     *)
(* pending, as nobody else settles it; watermarks and counts are never     *)
(* ahead of what they follow.                                              *)
TypeOK ==
  /\ rows \in Seq(Row) /\ inbox \in Seq(Row)
  /\ {clock, errors} \subseteq Nat
  /\ taken \in 0..Len(inbox)
  /\ sender \in [pc : {"idle", "sending", "answered"}, row : 0..Len(rows), at : 0..clock]
  /\ sender.row # 0 => rows[sender.row] = [own |-> TRUE, at |-> Unread]
  /\ waits \in [Loops -> {"run", "check", "gap", "sleep"}]
  /\ behind \subseteq Loops
  /\ touch \in [Writers -> {"none", "due", "notify"}]
  /\ event \in [pc : {"ids", "stamps"}, lastId : 0..Len(rows), lastAt : 0..clock,
                found : BOOLEAN]
  /\ view.pc \in {"closed", "open", "refresh"} /\ view.due \in BOOLEAN
  /\ {view.latest, view.next - 1} \subseteq -1..Len(rows)
  /\ DOMAIN view.msgs \subseteq DOMAIN rows /\ Range(view.msgs) \subseteq 0..clock
  /\ changed \subseteq DOMAIN rows

EventsInit ==
  /\ rows = <<>> /\ inbox = <<>>
  /\ clock = 0 /\ taken = 0 /\ errors = 0
  /\ sender = IdleSender
  /\ waits = [l \in Loops |-> IF l = "send" THEN "run" ELSE "check"]
  /\ behind = {}
  /\ touch = [w \in Writers |-> "none"]
  /\ event = [pc |-> "ids", lastId |-> 0, lastAt |-> 0, found |-> FALSE]
  /\ view = ClosedView
  /\ changed = {}

(* The loops' task awaits.                                                 *)
Yielded == \A l \in Loops : waits[l] # "gap"

OwnRows == {i \in DOMAIN rows : rows[i].own}
NewRow(own, at) == rows' = Append(rows, [own |-> own, at |-> at])
Change(i) == changed' = changed \cup {i}

-----------------------------------------------------------------------------
(* convo_send: the row is inserted, then DbNotify::touch, whose two        *)
(* statements the loops' task may see one by one.                          *)
Compose ==
  /\ touch["request"] = "none"
  /\ Cardinality(OwnRows) < MaxOwn
  /\ NewRow(TRUE, Unread) /\ Change(Len(rows) + 1)
  /\ touch' = [touch EXCEPT !["request"] = "due"]
  /\ UNCHANGED <<clock, inbox, taken, sender, waits, behind, event, view, errors>>

RequestTouch ==
  /\ touch["request"] = "due"
  /\ behind' = Loops
  /\ touch' = [touch EXCEPT !["request"] = "notify"]
  /\ UNCHANGED <<dbVars, sender, waits, event, view, errors>>

(* notify_waiters wakes those that are registered now.                     *)
Woken == [l \in Loops |-> IF waits[l] = "sleep" THEN "check" ELSE waits[l]]

RequestNotify ==
  /\ touch["request"] = "notify"
  /\ waits' = Woken
  /\ touch' = [touch EXCEPT !["request"] = "none"]
  /\ UNCHANGED <<dbVars, sender, behind, event, view, errors>>

(* DbNotify::touch of a loop, in the task of all loops.                    *)
LoopTouch(w) ==
  /\ Yielded /\ w # "request"
  /\ touch[w] = "due"
  /\ behind' = Loops
  /\ waits' = Woken
  /\ touch' = [touch EXCEPT ![w] = "none"]
  /\ UNCHANGED <<dbVars, sender, event, view, errors>>

-----------------------------------------------------------------------------
(* Fault variant: a DbNotify::new() per wait.                              *)
WaitCheck_Fresh(l) ==
  /\ Yielded /\ waits[l] = "check"
  /\ waits' = [waits EXCEPT ![l] = "gap"]
  /\ behind' = behind \ {l}
  /\ UNCHANGED <<dbVars, sender, touch, event, view, errors>>

(* wait_for_change compares the generation ...                             *)
WaitCheck(l) ==
  /\ Yielded /\ waits[l] = "check"
  /\ waits' = [waits EXCEPT ![l] = IF l \in behind THEN "run" ELSE "gap"]
  /\ behind' = behind \ {l}
  /\ UNCHANGED <<dbVars, sender, touch, event, view, errors>>

(* ... and then registers with notified().                                 *)
WaitSleep(l) ==
  /\ waits[l] = "gap"
  /\ waits' = [waits EXCEPT ![l] = "sleep"]
  /\ UNCHANGED <<dbVars, sender, behind, touch, event, view, errors>>

-----------------------------------------------------------------------------
PendingRows == {i \in OwnRows : rows[i].at = Unread}

(* send_loop_once: the next pending row, or wait.                          *)
SendPick ==
  /\ Yielded /\ waits["send"] = "run" /\ sender = IdleSender /\ touch["send"] = "none"
  /\ IF PendingRows = {}
       THEN waits' = [waits EXCEPT !["send"] = "check"] /\ UNCHANGED sender
       ELSE sender' = [IdleSender EXCEPT !.pc = "sending", !.row = Min(PendingRows)]
            /\ UNCHANGED waits
  /\ UNCHANGED <<dbVars, behind, touch, event, view, errors>>

(* The message's own copy is in the mailbox and its stamp on the way.      *)
SendServed ==
  /\ sender.pc = "sending"
  /\ clock' = clock + 1
  /\ inbox' = Append(inbox, [own |-> TRUE, at |-> clock'])
  /\ sender' = [sender EXCEPT !.pc = "answered", !.at = clock']
  /\ UNCHANGED <<rows, taken, changed, waits, behind, touch, event, view, errors>>

Settle(at) ==
  /\ rows' = [rows EXCEPT ![sender.row].at = at]
  /\ Change(sender.row)
  /\ sender' = IdleSender
  /\ touch' = [touch EXCEPT !["send"] = "due"]

(* mark_message_sent writes the server's stamp, mark_message_failed a      *)
(* local one.                                                              *)
MarkSent ==
  /\ Yielded /\ sender.pc = "answered"
  /\ Settle(sender.at)
  /\ UNCHANGED <<clock, inbox, taken, waits, behind, event, view, errors>>

MarkFailed ==
  /\ Yielded /\ sender.pc = "sending"
  /\ clock' = clock + 1
  /\ Settle(clock')
  /\ UNCHANGED <<inbox, taken, waits, behind, event, view, errors>>

(* A message of the other user comes into the mailbox.                     *)
Arrive ==
  /\ Cardinality({n \in DOMAIN inbox : ~inbox[n].own}) < MaxForeign
  /\ clock' = clock + 1
  /\ inbox' = Append(inbox, [own |-> FALSE, at |-> clock'])
  /\ UNCHANGED <<rows, taken, changed, loopVars, event, view, errors>>

(* dm_recv_loop_once: one's own message is there already.                  *)
Recv ==
  /\ Yielded /\ touch["recv"] = "none"
  /\ taken < Len(inbox)
  /\ taken' = taken + 1
  /\ IF inbox[taken'].own THEN UNCHANGED <<rows, changed>>
     ELSE NewRow(FALSE, inbox[taken'].at) /\ Change(Len(rows) + 1)
  /\ touch' = [touch EXCEPT !["recv"] = "due"]
  /\ UNCHANGED <<clock, inbox, sender, waits, behind, event, view, errors>>

-----------------------------------------------------------------------------
(* message_event_loop, first query: new_message_convos.                    *)
EventIds ==
  /\ Yielded /\ waits["event"] = "run" /\ event.pc = "ids"
  /\ event' = [event EXCEPT !.pc = "stamps", !.lastId = Len(rows),
                            !.found = Len(rows) > event.lastId]
  /\ UNCHANGED <<dbVars, loopVars, view, errors>>

(* Fault variant: the watermark is the time of the query.                  *)
NextStamp_Now == clock

(* The greatest received_at, or the old watermark.                         *)
NextStamp == Max({event.lastAt} \cup {rows[i].at : i \in DOMAIN rows})

(* Second query: new_received_convos, then the event.                      *)
EventStamps ==
  /\ Yielded /\ event.pc = "stamps"
  /\ event' = [event EXCEPT !.pc = "ids", !.found = FALSE, !.lastAt = NextStamp]
  /\ IF event.found \/ \E i \in DOMAIN rows : rows[i].at > event.lastAt
       THEN view' = [view EXCEPT !.due = TRUE] /\ changed' = {}
       ELSE UNCHANGED <<view, changed>>
  /\ waits' = [waits EXCEPT !["event"] = "check"]
  /\ UNCHANGED <<rows, clock, inbox, taken, sender, behind, touch, errors>>

(* A query fails: the round ends, and what the first one found is lost.    *)
EventFails ==
  /\ Yielded /\ waits["event"] = "run"
  /\ errors < MaxErrors /\ errors' = errors + 1
  /\ event' = [event EXCEPT !.pc = "ids", !.found = FALSE]
  /\ waits' = [waits EXCEPT !["event"] = "check"]
  /\ UNCHANGED <<dbVars, sender, behind, touch, view>>

-----------------------------------------------------------------------------
(* Fault variant: a row counts as received when it is shown.               *)
Latest_Any(ids) == Max({view.latest} \cup ids)

(* apply_messages: the greatest id with a received_at.                     *)
Latest(ids) == Max({view.latest} \cup {i \in ids : rows[i].at # Unread})

Apply(ids) ==
  [view EXCEPT
     !.latest = Latest(ids),
     !.msgs = [i \in ids \cup DOMAIN @ |-> IF i \in ids THEN rows[i].at ELSE @[i]]]

(* The conversation is opened: load_initial.  INITIAL_LIMIT exceeds all    *)
(* that is bounded here.                                                   *)
ViewOpen ==
  /\ view.pc = "closed"
  /\ view' = [Apply(DOMAIN rows) EXCEPT !.pc = "open", !.due = FALSE]
  /\ UNCHANGED <<dbVars, loopVars, event, errors>>

(* A frame that saw new updates: refresh_newer starts ...                  *)
RefreshStart ==
  /\ view.pc = "open" /\ view.due
  /\ view' = [view EXCEPT !.pc = "refresh", !.due = FALSE, !.next = view.latest + 1]
  /\ UNCHANGED <<dbVars, loopVars, event, errors>>

RefreshEnd == [view EXCEPT !.pc = "open", !.next = 0]

(* convo_history: of the rows from next on, the newest PageLimit.          *)
NewPage == {i \in DOMAIN rows : i >= view.next /\ i > Len(rows) - PageLimit}

(* ... and asks for pages until one is empty.                              *)
RefreshPage ==
  /\ view.pc = "refresh"
  /\ view' = IF NewPage = {} THEN RefreshEnd ELSE [Apply(NewPage) EXCEPT !.next = Max(NewPage) + 1]
  /\ UNCHANGED <<dbVars, loopVars, event, errors>>

RefreshFails ==
  /\ view.pc = "refresh"
  /\ errors < MaxErrors /\ errors' = errors + 1
  /\ view' = RefreshEnd
  /\ UNCHANGED <<dbVars, loopVars, event>>

-----------------------------------------------------------------------------
Send == SendPick \/ SendServed \/ MarkSent \/ MarkFailed
EventStep == EventIds \/ EventStamps
Wake == \E w \in Writers \ {"request"} : LoopTouch(w)
Refresh == RefreshStart \/ RefreshPage

EventsNext ==
  \/ Compose \/ RequestTouch \/ RequestNotify
  \/ Wake
  \/ \E l \in Loops : WaitCheck(l) \/ WaitSleep(l)
  \/ Send
  \/ Arrive \/ Recv
  \/ EventStep \/ EventFails
  \/ ViewOpen \/ Refresh \/ RefreshFails

EventsSpec == EventsInit /\ [][EventsNext]_eventsVars

(* The runtime polls every ready task, a call is answered or given up, and *)
(* an open window is drawn.  Nobody has to write, and nothing has to fail. *)
Fairness ==
  /\ WF_eventsVars(RequestTouch) /\ WF_eventsVars(RequestNotify)
  /\ \A w \in Writers \ {"request"} : WF_eventsVars(LoopTouch(w))
  /\ \A l \in Loops : WF_eventsVars(WaitCheck(l)) /\ WF_eventsVars(WaitSleep(l))
  /\ WF_eventsVars(Send) /\ WF_eventsVars(Recv) /\ WF_eventsVars(EventStep) /\ WF_eventsVars(Refresh)

EventsFairSpec == EventsSpec /\ Fairness

-----------------------------------------------------------------------------
(* All that was written is touched and the event loop has looked since.    *)
EventLoopAtRest ==
  /\ waits["event"] \in {"gap", "sleep"} /\ "event" \notin behind
  /\ \A w \in Writers : touch[w] # "due"

(* Once the event loop rests, without a database error, the only changes   *)
(* no event told of are rows whose received_at is below another row's:     *)
(* the watermark had passed the server's stamp before mark_message_sent    *)
(* wrote it (database.rs:207).  (And the variables have their types.)      *)
UnannouncedOnlyIfOvertaken ==
  /\ TypeOK
  /\ EventLoopAtRest /\ errors = 0 =>
       \A i \in changed :
         rows[i].at # Unread /\ \E j \in DOMAIN rows : rows[j].at > rows[i].at

(* A loop sleeps through a touch that fell between its look at the         *)
(* generation and its registration.                                        *)
MissedWake(l) == waits[l] = "sleep" /\ l \in behind /\ touch["request"] # "notify"

IsPending(i) == i \in DOMAIN rows /\ rows[i].at = Unread

(* A message the user wrote is sent or marked failed in the end, unless    *)
(* the send loop missed the wake-up of the request that queued it          *)
(* (database.rs:45); then it waits for another write.                      *)
PendingSettles ==
  \A i \in 1..(MaxOwn + MaxForeign) : IsPending(i) ~> (~IsPending(i) \/ MissedWake("send"))

(* Once the open view has seen all events and nothing else changed, a row  *)
(* it lacks or shows as it was lies below the last received row it had, or *)
(* among those that a page with more new rows than the limit left out      *)
(* (convo_state.rs:66, internal.rs:816).                                   *)
ViewStaleOnlyBehind ==
  view.pc = "open" /\ ~view.due /\ changed = {} /\ errors = 0 =>
    \A i \in DOMAIN rows :
      \/ i \in DOMAIN view.msgs /\ view.msgs[i] = rows[i].at
      \/ i < view.latest
      \/ i <= Len(rows) - PageLimit
=============================================================================
