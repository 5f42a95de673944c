# xirtam (nullspace): a TLA+ verification project

Models of the nullspace messenger's own core logic: the message server and its
fragment store, the directory service with its mirror and clients, the RPC
transport, and the client's direct messages, groups, events, attachments,
device keys and profiles. Each is written from the Rust code at this commit;
`PROJECT.json` maps every definition to the lines it models. TLC checks them on
small instances, and eight modules of proofs, checked by TLAPS, carry most of
their safety properties to every instance (section 6). Paths below are relative
to `src/`.

## 1. Inventory

| component | state | operations | interacts with |
|---|---|---|---|
| **server mailboxes** `binaries/nullspace-server/src/mailbox.rs`, `mailbox/pubsub.rs`, `device.rs` | SQLite tables `mailboxes`, `mailbox_entries`, `mailbox_acl`, `device_auth_tokens`, `device_medium_pks`; in memory one notification counter per mailbox | `mailbox_send`, `mailbox_multirecv` (a future per mailbox, raced), `mailbox_acl_edit`, `register_group`, `device_auth`, `device_add_medium_pk` | clients over RPC; reads the directory in `device_auth` |
| **server fragments** `fragment.rs` | table of fragments, one file each | upload, download, janitor | attachments of clients |
| **directory primary** `binaries/nullspace-directory/src/{server,state,db,merkle,main}.rs` | tables of headers and chunks, sparse Merkle nodes in a store of their own, `staging` in memory | `v1_insert_update`, `commit_chunk` every 30 s, read calls | clients, servers, mirrors |
| **directory mirror** `mirror.rs` | copies of headers, chunks and nodes; `anchor` in memory | `sync_once` / `apply_chunk` in a loop | polls the primary |
| **directory client** `libraries/nullspace-dirclient` | header table, anchor cache per instance, one sync at a time per process | verified lookups, header sync, `insert_raw`, `wait_for_update` | primary or mirror |
| **client groups** `libraries/nullspace-client/src/convo/{group,group_recv,rekey,roster}.rs` | tables `groups`, `group_members`, `mailbox_state` | create, invite, accept, send, receive loops, rekey loop | mailboxes of the group's server; invites travel as direct messages |
| **client direct messages** `convo/{send,dm_recv,dm_common}.rs` | table `convo_messages` with a send queue in it | queue, send loop with retries, self copy, receive loop | mailboxes, directory, events |
| **client database and events** `database.rs`, `events.rs` | generation counter, three watermarks | `DbNotify`, `message_event_loop` | every loop of the client |
| **client long poller** `long_poll.rs` | pending requests and one poll per server | `recv`, one worker per server | receive loops, `mailbox_multirecv` |
| **client keys** `medium_keys.rs`, `auth_tokens.rs`, `identity.rs`, `user_info.rs` | medium-term key pair now and before, token cache, cached chains and keys of other users | rotation loop, cached look-ups, registration of a user and of a device | server, directory |
| **attachments** `attachments.rs` | upload and download tasks, files, table `attachment_paths` | upload, download, rename | fragments |
| **certificates, e2ee** `libraries/nullspace-structs/src/{certificate,e2ee}.rs` | none | chain verification, encryption | everything that trusts a device |
| **profiles** server and client `profile.rs` | table `user_profiles` | `profile_set`, `profile_get`, checked against chains looked up before | look-ups of a user |
| **RPC transport** `libraries/nullspace-nanorpc`, `nullspace-rpc-pool`, client `server.rs`, server `rpc.rs` | one transport per url and process, in-flight calls per transport | call, cancel, reconnect, requests passed on by one's own server | everything |
| **front ends** egui, multitool, FFI | user interface state | - | client library |

What is hard here:

* *Concurrency in the server.* Handlers sample the clock and counters before
  they hold SQLite's write lock; transactions that begin with a SELECT are
  snapshots whose upgrade may be refused; a long poll must be woken by a send
  that commits at any point of its loop.
* *Concurrency in the directory.* Inserts check a history that the chunker may
  be growing; a chunk is written to two stores; a mirror follows a moving
  primary through failed rounds and restarts.
* *Distribution in groups.* There is no server-side group logic: every device
  derives roster and keys from two mailboxes, with tasks of its own that read,
  await and then write; an entry whose processing fails is not seen again.
* *Files and rows.* Fragments and downloads live in files that no transaction
  covers, and expire or meet under one name.
* *Caches.* Chains, keys, headers and anchors are read, refreshed over the
  network and stored again with nothing locked.
* *Failure.* Crashes, lost answers, retries and refused transactions anywhere.

What makes each part correct: entries reach every reader that is allowed to
read them, once each, and no sleeper is forgotten (mailboxes); one token per
device, and rights never grow out of nothing (access); the directory is an
append-only ledger of verified histories, nothing accepted is lost without a
fault, and mirrors serve only what they hold (directory); rosters are the
replay of the mailbox, bans stick, members can read what is sent to them and
banned users cannot (groups); what the store has acknowledged can be downloaded
until it expires, and a final file name is a whole file (fragments,
attachments); a registration that succeeded owns its name, and look-ups fail
for stated reasons only (directory client); no entry is skipped and no request
carried out twice, whatever breaks (poller, transport); devices can open what
is sent to them, and only certified ones are sent to (keys). Every line where
one of these could fail is listed under `hazards`, with the properties that
watch it.

## 2. Plan

| step | module | models | state |
|---|---|---|---|
| 1 | `MailboxAcl`, `Mailbox` | delivery through a mailbox | done, proved |
| 2 | `ServerAccess` | who may use which mailbox | done, proved |
| 3 | `DirectoryHistory`, `Registry`, `Directory` | primary and mirror, implementing the ledger `Registry` | done, proved with the refinement |
| 4 | `Roster`, `Group` | the group protocol | done, proved |
| 5 | `Conversation`, `Delivery` | send queue, retries and own copies of direct messages, receive loop; implements the shared conversation `Conversation` | done, proved with the refinement |
| 6 | `ClientEvents` | `DbNotify`, `message_event_loop`, the open conversation | done, safety proved |
| 7 | `Fragments`, `Attachments` | file and row against the janitor; uploads and downloads over the store | done, proved |
| 8 | `DirClient`, `Registration` | header sync under concurrent look-ups, anchor cache, `wait_for_update`; the registrations that use them | done, proved |
| 9 | `Transport`, `Proxying`, `LongPoll` | calls over pooled connections; the proxy; the worker that polls for several tasks | done, safety proved |
| 10 | `DeviceKeys`, `Profiles` | certificates and their verification, key rotation against late uploads and cached look-ups; profiles | done, proved |

Compositions: `Attachments` extends `Fragments`, `Registration` extends
`DirClient`, `LongPoll` extends `Proxying` and that `Transport`, `Profiles`
extends `DeviceKeys`. `Directory` implements `Registry`, `Delivery` implements
`Conversation`; `DirClient` sees of the directory what `Directory` shows of
it: a growing ledger, staged updates that a chunk takes or drops, and an anchor
that may lag.

Every safety invariant and action property that a passing run checks is proved. Liveness
is left to TLC (section 6).

## 3. The modules and the code

**`MailboxAcl`** - the rows of `mailbox_acl` for one mailbox, a function from
tokens to a set of rights or `Absent`, with `acl_for_token` (own row, else the
anonymous row, else nothing) and `acl_is_subset`. Used by the next two.

**`Mailbox`** - `mailbox_send` is `SendStamp` (the clock is sampled), then
`SendCommit` or `SendReject` (purge, access check, insert and commit under the
write lock), then `SendNotify` (`PubSub::incr`). A `mailbox_multirecv` is one
`arm` per mailbox, the loop `ArmCount`, `ArmStamp`, `ArmAnswer`/`ArmEmpty`/
`ArmDenied`, `ArmWake`; the first arm with a page answers. `PollGivesUp` is the
timeout or a lost answer, `TakeEntry` the client that uses the first entry of
a page, moves its cursor and polls again, `Restart` the server. Every
transaction of these handlers starts with the purge's DELETE and is therefore
one step. ACL edits appear as their committed effect.

**`ServerAccess`** - `device_auth`, `register_group` and `mailbox_acl_edit`
start with SELECTs, so each is a step that reads and decides and a step that
takes the lock, writes and commits. `stale` marks a snapshot that another
commit has overtaken; SQLite refuses its upgrade and the handler gives up
(`Abort`, which is also a client that goes away). Handlers that answer without
writing change nothing and are not steps.

**`DirectoryHistory`** - `verify_history`: hashes chain, and an update is
signed by an owner of that point. **`Registry`** - the abstract ledger: an
append-only sequence of registry states in which each key's verified history
only grows, and a replica that follows it one state at a time.
**`Directory`** - an insert is `InsertRead` (the key's committed history) and
`InsertStage`/`InsertReject` under the staging lock; `commit_chunk` is
`CommitTake`, `CommitVerify`/`CommitReject`, `CommitFlush`, `CommitInsert`;
`sync_once` is `SyncAnchor`, (`SyncFlush`, `SyncInsert`) per chunk,
`SyncAdopt`. Errors and crashes come between any two of them. A Merkle root
stands for the map it commits to and a header hash for the chain it ends.

**`Roster`** - `apply_manage_message`, one operator per kind of message.
**`Group`** - the two mailboxes are sequences; a device record is its row of
`groups`, its roster and its two cursors. What a task holds between a database
read and the call that uses it is an element of `flight`: an invite's key, a
send's key, a rekey's decision and recipients, a roster load of three
statements (`LoadRead`, `LoadPut`, `LoadVersion`). `SkipManage` and
`SkipMessage` are the entries whose cursor was saved (`group_recv.rs:138`) and
whose processing then failed: a directory lookup, a refused or busy
transaction, or the end of the process. This client itself posts only
invitations and acceptances; bans, leaving and admin changes come from other
clients of the protocol and are `Post`.

**`Conversation`** - the abstract promise of direct messages: a message is
queued once, its sending ends once, devices of its two users show it, and what
is shown stays. **`Delivery`** - `Queue` is `convo_send`; the send loop is
`SendPick`, then per call of `send_dm_once` `Serve` (the server's part) and
`Answered` (the client's), then `Mark`; the peer's leg comes first, then one's
own. `CallFails` is a call that fails before it is carried out or after,
`CallDelayed` and `LateServe` one that is carried out once its client has given
it up; both go to `Retry`, which starts at the peer's leg again or gives up.
`MarkFails` is a database error in the send loop. The receive loop is `Recv`,
or `RecvFails` when processing fails; `after` is the loop's cursor, `saved` the
one in the database that `Crash` goes back to.

**`ClientEvents`** - one client. `Compose` inserts the row of `convo_send`, and
`RequestTouch`, `RequestNotify` are the two statements of its
`DbNotify::touch`, which runs on another thread than the loops; a loop's own
touch is `LoopTouch`. `WaitCheck` and `WaitSleep` are the two halves of
`wait_for_change`. The send loop keeps of its work what the events depend on
(`SendPick`, `SendServed`, `MarkSent`, `MarkFailed`), the receive loop is `Recv`.
The event loop is `EventIds`, then `EventStamps` with the event, or
`EventFails`. The open conversation is `ViewOpen`, `RefreshStart`, `RefreshPage`
until a page is empty, `RefreshFails`. A generation is only ever compared with
the last one seen, so `behind` holds the loops for which the two differ, and
`view.due` the same for the count of updates.

**`Fragments`** - `upload_frag` writes the file (`tokio::fs::write` empties it
first, so a file may be "torn" for a time, or for good after a crash) and then
commits the row. The janitor's transaction is a SELECT, the removal of files one
by one, and the commit, which SQLite refuses when an upload has committed since
the SELECT. **`Attachments`** - `attachment_upload` cuts a file into leaves and a
tree of nodes and sends them, leaves first; downloads walk the tree into a
temporary file and give it its final name (`unique_path`, the size check,
`finalize_atomic_file`, the row of `attachment_paths`). Each fragment that is
sent or fetched is an operation of `Fragments`.

**`DirClient`** - a look-up is `GetItem`, `AnchorCached` or `AnchorFetched`,
`SyncBegin`, `SyncBatch`, `SyncEnds`; headers are in one table per process and
the semaphore is the process's. An insert is `InsertChecked`, `InsertStaged` or
`InsertRefused`, and then look-ups until the update is there or 90 s have
passed. An update is what these clients make: its hash is the list of the updates up to
it, as `prev_update_hash` chains them. **`Registration`** - `register_bootstrap`, `register_add_device` and the
server's `init_name` as sequences of these, ending with the calls to the user's
server and the row of the identity; crashes of a process in between.

**`Transport`** - a pool's slot, the task of a transport (`TakeCall`, `GetAnswer`,
`ClosedSeen`), connections that break, fall silent or are left by their server
after 600 s (`ServerStopsReading`), and callers that time out (`TimesOut`) or drop
the call (`Abandon`). A call that fails takes the transport out of the pool.
**`Proxying`** - `ProxyingTransport`: a request goes to the client's own server,
which passes it on over its own pool, and directly once a server has said that
it does not proxy. **`LongPoll`** - `Ask` is `LongPoller::recv` for each mailbox of a
task; the worker is `TakeRequest` (which drops a poll under way), `StartPoll`,
`PollReturns`; the server's part is `PollServed`, `PollExpires`, `PollFails`. The
first answer ends a task's race; its other request stays with the worker, dead.
`StartPoll` waits until the channel is empty: the worker races the channel
against the call and takes what is in the channel first.

**`DeviceKeys`** - devices of one user get certificates (`NewDeviceBundle`), enrol
(`Enrol`), upload a first key (`FirstKey`) and rotate (`Rotate`: stored locally,
then uploaded). `UploadFails` is an upload whose device sees an error; the server
may have handled it, never does, or does later (`StoreKey`). A sender's look-up
reads its cache with `LookUp`, `LoadPks` and `LoadTime`, fetches what is not fresh
(`FetchChains`, `FetchPks`) and merges and stores it (`Store`); `Verified` is
`CertificateChain::verify`. `Rotate` waits for look-ups and cached entries from
before the last rotation to be over, because a rotation comes once an hour and
these last at most eleven minutes. **`Profiles`** - `OwnProfileSet`, the
server's `SetChecks` and `SetStores` (refused if another write came between), and
`GetProfile` behind a look-up.

## 4. The runs

| run | question | bounds |
|---|---|---|
| `mailbox` | What can a reader miss, be given twice or wait for in vain? Nothing is lost by pages, timeouts, purges or restarts; the one way to miss an entry is a stamp out of commit order (`MissedOnlyIfOvertaken`). With fairness, an entry is passed without the help of a timeout. | one mailbox, two senders, one reader, two entries, two clock values, pages of one entry (so that a second page exists), ttl 0 and 1, one right taken and given back |
| `mailbox_empty_page` | Does an empty page mean caught up, as `server.rs:81` has it? No: see the findings. | the same, ttl 0 |
| `access` | Which tokens and rights can any interleaving of calls produce? | one user with two devices, one group, three tokens besides the anonymous one, two handlers: enough for two `device_auth` of one device, or two edits of one row, to overlap |
| `directory` | Is the pair of primary and mirror an append-only registry; what becomes of an accepted update? With fairness, does the mirror get every chunk? | two keys, an owner's claim and a later update of one of them and a claim of the other, each inserted by one of three calls (`MaxCalls`), three chunks, two handlers, one fault anywhere |
| `group` | What is a roster, do bans stick, where do admins come from? Which messages can a member not read, whom does a rekey reach? | two users with a device each; workload `roster`: four management messages of five kinds, with invites and acceptances, one entry lost, roster loads by two tasks of a device; `keys`: two management messages and three entries of the messages mailbox (a message behind two rekeys fits), two tasks in flight; `skips`: the same with one task at a time and one message that fails to process; `late`: three management messages, one message, two tasks, among them roster loads, so that a ban can overtake a load that a rekey then reads |
| `group_replay` | Is the roster the replay of all messages (groups.md:93), with no failures? No: see the findings. | three management messages |
| `delivery` | Does a device show each message once, in order, and whose fault is it if not? Is "sent" true? Do all tables together implement `Conversation`? | two users with a device each, since a second device gets its user's own copies through the same `Insert`; messages to each other and to oneself; two messages, two tries, two faults of any kind, so that a retry meets a late call or a crash meets a lost entry; two clock values, so that stamps can be equal |
| `client_events` | Which changes does no event tell of, is each queued message settled, what may the open conversation show stale? | one message written and one coming in, a page of one row, one error: each exception the properties name is reached with these (a settled row below the watermark, a missed wake-up, a row below the last received one, a row a page left out) |
| `attachments` | What does the store keep, and for how long? What does an upload that is done mean, and what can be under a final name? | an attachment of three leaves under two nodes, so that a tree has two levels, and one of a single leaf that its uploader keeps for a time and a re-upload for ever; both under one file name; a janitor batch of one; one crash or failed call |
| `registration` | Why can a look-up fail, and what does an Ok of a registration mean? | four workloads: two users want one name in one process; a user and a second device; two servers want one name, restarted when they fail; a server and a reader with a client of its own in one process. Three chunks, batches of one header, one failure or crash, chunks that are refused |
| `long_poll` | Is an entry ever skipped, does each arrive, is a request ever carried out twice? | workloads `direct` (an entry of the direct mailbox, two of a group's messages) and `group` (an entry of each mailbox of a group), with one failure, and `requests` (two requests through the proxy) with two; pages of two entries; two calls for polls, so that an abandoned one meets the next, and four transports |
| `device_keys` | Can a device open what is sent to it, do senders go back to old keys, who is sent to, is the newest profile readable? | workload `rotations`: one device makes three keys (it keeps two), two tasks of the sender, two messages; `longer`: up to five keys, one task, two messages, no time passing, so that a late upload of one key can follow the next one's; `devices`: two more devices, one of which may certify the other, with certificates that may expire, the second key of one, one message; `profiles`: two devices set a profile, two calls at a time; one fault each |

Deadlock is checked in `mailbox`, `mailbox_empty_page` and `access`. The
others stop for good once their bounded messages, mailboxes, fragments, keys or
chain are used up, so their configurations switch it off. Several runs have
workloads: a behaviour has one of them from its first state on, so that bounds
which would be too large together are taken one at a time. The type invariant
of a module is a conjunct of one of the invariants of its run; that of
`ServerAccess` is only proved.

**Fairness.** `Mailbox`: a handler that runs goes on to its next step, and the
client's receive loop starts a new poll whenever none is open (weak). The
steps of a poll are strongly fair, because a timeout or a restart can disable
each of them again and again without ever forbidding the next attempt: the
client repeats the poll for ever. Time, timeouts, restarts, new sends and ACL
edits are not fair. `Directory`: chunker and sync loop are tasks that run for
ever, so their steps are weakly fair; faults are bounded and not fair, and so
are inserts. `ClientEvents`: the runtime polls every ready task, a send is answered
or given up (`retry_backoff` is bounded), and an open window is drawn; all weak.
Nobody has to write and nothing has to fail. `LongPoll`: receiving tasks, the
worker, the tasks of transports and the server's handlers run on (weak), and a
poll that is served nothing expires; connections need not break and calls need
not time out. `EntriesReceived` holds for a client that is refused none of its
mailboxes. The other specifications state only safety.

## 5. Findings

* `mailbox_empty_page`: `mailbox_send` samples `now` at `mailbox.rs:35` and
  takes the write lock at line 36. Of two overlapping sends the later commit
  can carry the earlier `received_at`; a reader that has already moved its
  cursor to the other one asks for `received_at > cursor` and never gets it,
  though `server.rs:81` says an empty page ends the reading.
* `group_replay`: `ensure_initialized` (`roster.rs:212-238`) is a read and two
  writes. Called outside a transaction by the rekey loop and by
  `group_members`, it can put the initial admin back, as an accepted admin,
  after the receive task has applied the admin's departure or ban.

Smaller observations, in the models but without a run of their own:
an acceptance clears the admin flag of its sender, so the last admin can lose
the role by accepting an invite again; `accept_invite` keeps an existing row
and with it the old key, so a user who is invited again reads nothing new; the
version that a late load sets back to 1 can hide a `GroupUpdated` event.
A message marked failed may have been delivered (`Delivery`, which therefore
has no property that a failed message is in no mailbox); of two messages of a
conversation with the same `sent_at` a device keeps the first. A touch between
the generation's check and `notified()` (`database.rs:41-46`) wakes nobody until
the next write; it takes a request on another thread. A message settled with
a stamp below the event loop's watermark raises no event. `refresh_newer`
reads the newest page and then continues behind it, so that rows are left out
when more than `PAGE_LIMIT` are new, and a row settled below the last received
one is not read again.

`upload_frag` answers Ok although the janitor may have removed the file between
the write and the row: `promised` counts only uploads whose file was still there
at the commit. A re-upload empties the file before it fills it, so that a
fragment cannot be read for a moment, or for good after a crash. Two downloads
of one name may end up with one file (`FinalFilesWhole` says which). A look-up
fails when another one of the same process has stored a newer header
(`LookupFailsOnlyIfOvertaken`), and takes a registration's waiting insert with it.
A poll with a refused mailbox in it fails the requests of all others, too.
`get_user_info` has no lock: of two look-ups at once the later `Store` can put
back keys that are older than what is cached, against what
`merge_monotonic_medium_pks` is for. An upload of a device key that failed for the
device and is carried out late can replace a newer key at the server, and what is
sent then cannot be opened until the next rotation
(`UnopenedOnlyIfRotatedOrFailed`). A roster load that a ban overtakes can put the
initial admin back among the recipients of a rekey (`RekeyExcludesBanned`). `profile_set` takes a profile from a device
whose certificate has expired, and every reader then fails to show the user at
all (`NewestProfileVerifies` names this case).

## 6. Proofs

The theorems hold for every value of the constants that satisfies the assumptions
declared with them: types of the constants, bounds that are numbers (some
positive), and what the code guarantees of its own inputs. Of the second kind are:
the anonymous token is a token, the markers for "no row" and "no token" are not rows or
tokens, "nobody" is no task, the zero hash names no update, the initial admin is the creator's user; each
mailbox is polled by one task (`BoxesAreOneTasks`); an upload uses fragments of the
store (`UploadsAreCalls`), and what this client keeps for ever nobody uploads with
another ttl, which is 0 in every client (`RenewalsKeep`). TLC evaluates all of
them in the runs.

Every proof has the same plan. The properties are not inductive alone, because a
step writes what an earlier step of the same handler or task read or decided. The
module's `Inv` adds what is true in between, and three facts give the theorem: `Init` implies `Inv`, each action
preserves each conjunct it can disturb (one lemma per action or conjunct), and `Inv`
implies the property. Action properties and refinements are proved of a step from
`Inv`.

| module | theorems | what the inductive invariant adds, and why it is needed |
|---|---|---|
| `AccountProofs`, of `ServerAccess` | `TypeOK`, `OneTokenPerDevice`, `DirectNeverEditable`, `GrantsFollowRights`, `DirectRowsStable` | `Current`: while a transaction is not stale, what it read is what the tables hold. Every step that changes the tables ages all others, so the row an `EditWrite` replaces is the one it was allowed to replace, and an `AuthNew` has no token to overwrite. |
| `AccountProofs`, of `Registration` | `LookupFailsOnlyIfOvertaken`, `RegisteredMeansOwned` | While a look-up that was not overtaken has its response in hand, the headers stored are not past its proof, and not past its anchor once it holds the semaphore (`Lookups`); an anchor in the cache is not below the height it is kept for (`Heights`). Every history verifies and begins the last one (`Histories`). The updates these clients make are signed by the very key they are about, so a history keeps the owner of its first update, and its descriptors are that owner's (`SaysIsOwned`). A task that goes on to tell its registrant Ok has found its descriptor in a verified history (`Registrations`), which stays in all later ones (`SaysStays`). |
| `MailboxProofs` | `MissedOnlyIfOvertaken`, `NoRedelivery`, `KeptUntilExpired` | A page under way is ahead of all that its reader's cursor would skip, but for entries that came later (`PageLeads`); a cursor is the stamp of a consumed entry (`CursorReached`); ids follow the commits (`RowsUnique`, `IdsBelow`); the clock samples that handlers hold are in the past (`StampsInPast`). |
| `DirectoryProofs` | `RootsStored`, `AcceptedAccountedFor`, `RefusedOnlyAfterRace`, `MirrorAnchorHeld`, `ImplementsRegistry` | Only `commit_chunk` appends to the chain, so what it has verified and flushed stays true until its transaction (`CommitReady`); histories verify and only grow, so updates checked against one history form a chunk that verifies (`ChainVerifies`, `ReadsCommitted`, `StagedFollow`); a mirror holds a beginning of the primary's chain (`MirrorFollows`). How a history is verified is used of the empty history only. The refinement takes the ledger for the roots of the primary's chain and the replica for those of the mirror's. |
| `GroupProofs` | `RosterIsReplayOfProcessed`, `LostOnlyIfOvertaken`, `RekeyExcludesBanned`, `BanSticks`, `NoAdminIsForever` | The roster a device would have once loaded is the replay of what it processed (`ReplayHolds`), which rests on what a roster can be before its first load ends (`VersionZero`) and on who holds loads (`FlightJoined`); the keys a device took, of which it holds the last two (`KeyChain`, `FirstInvited`, `KeysBounded`); and that those banned when a rekey began are banned when it picks its recipients and not among them (`RekeysExclude`). |
| `DeliveryProofs` | `OneRowPerMessage`, `SentMeansPosted`, `OrderKept`, `MissingOnlyIfFailedOrShadowed`, `ImplementsConversation` | Every copy, in a table, a mailbox or a late call, is that of a row of its sender (`RowsOwned`, `CopiesOwned`, `BodyNames`); the position of a send loop tells which mailboxes have the message (`SendProgress`); nothing leaves a device while an older row is pending (`OldestFirst`), so first copies are in order (`InOrder`); saved cursors are not ahead (`CursorsBehind`). The refinement takes what is shown for the rows of all devices. |
| `AttachmentsProofs` | `KeptWhilePromised`, `FilesAccounted`, `SharedIsComplete`, `FinalFilesWhole` | For the store: the row of a fragment outlasts what was promised and its file is there (`RowKeepsPromise`), a batch whose commit may succeed holds expired rows only (`BatchExpired`), an upload that holds its file has one (`LinkedHasFile`, `TornIsWritten`), files without rows are being uploaded (`FilesHaveRows`). For uploads (`SharedInv`): the stages of `upload_inner`, and that what is kept for ever is so in row, promise and running uploads (`Kept`). For downloads (`DownloadsInv`): every leaf the temporary file lacks is below a fragment that a stream has left. |
| `ClientLoopsProofs`, of `LongPoll` | `AtMostOnce`, `NothingSkipped` | A request takes one way, through the proxy or directly (`OneWay`), and while it is on that way nobody has executed it (`NotYetExecuted`, `ExecutedBefore`). A mailbox has one live request or one answer, with the cursor of its task (`LiveOnce`, `AnswerIsNext`), and a reply has all that lies between a request's cursor and any entry in it (`ReplyHasNoGap`). |
| `ClientLoopsProofs`, of `ClientEvents` | `UnannouncedOnlyIfOvertaken`, `ViewStaleOnlyBehind` | A row changed since the last event is in this round of the event loop or there will be another (`Looks`), because every writer owes a touch until the loop's last_seen is behind; else the watermark has passed it (`Announced`). The watermark is a row's stamp and no changed row has it (`Watermark`), as stamps are given once (`StampsFresh`, `SenderAtWork`). A row that the view does not show as it is has changed since the last event, or is still to be read or left out (`ViewLeaves`), and the last received row the view knows it shows (`ViewFollows`). |
| `ProfilesProofs` | `UnopenedOnlyIfRotatedOrFailed`, `KeysNeverGoBack`, `RecipientsAreCertified`, `NewestProfileVerifies` | A stored chain is a path of certificates from the root to its device (`Chains`), so that `Verified` succeeds while none of it has expired; a device holds its last two keys and the server has, or will get, its newest or the one before, except after failed uploads (`DevicesInv`); what is in the cache, in a look-up and in a message is that recent (`CacheInv`, `LookUpInv`, `MessagesInv`), for look-ups as long as no other has stored in between. |

The proofs about recursively defined functions (`OwnersAfter`, `Replay`, `Signers`, `Counts`,
`Reachable`, `Sums`, `Sizes`) need no induction schema: the function that the
definition chooses is shown to exist and to be the one wanted by taking a least
argument at which it is not (`LeastElement`, from the well-foundedness of the
natural numbers). Those about the tree of an attachment are the longest. `Counts`
falls until a level fits under the root, so the tree has a `Height`; each fragment
has a parent on the level above, so every leaf is `Reachable`. `Cuts` says where each
level cuts the file; the children of a fragment fill the piece it stands for, so the
sizes kept with the hashes are those of the pieces, and the offsets that a download
sums up from them put every leaf in its place, for any file size, chunk size and
fanout.

Model-checked only: liveness under fairness (`EventuallyPassed`, `MirrorCatchesUp`,
`PendingSettles`, `EntriesReceived`), which with anything about ENABLED is out of the
prover's reach.

## 7. Not modelled

Cryptography is abstract: keys and hashes are values, decryption succeeds with
the right key, signatures are fields. Proofs of work are taken as solved.
Encodings, parsing, logging and user interfaces are left out, as are
configuration and the command-line tool (with the `del_owner` that only it
calls), which keep no state of their own.

* The directory is honest towards its mirror and its clients, so the rejections of
  a forged header, anchor or proof are not reached.
* Of the transport: ids of calls are distinct, also where one server passes on the
  calls of several clients over one transport, since the library that makes them
  is not in the repository; the HTTP transport, the framing and the compression are
  left out, and so is how the worker adapts the time a poll may wait.
* In `LongPoll` a poll is one step of the server (its own loop is in `Mailbox`),
  equal dead requests count once, and a task that was refused asks again at once.
* In `DeviceKeys` devices have one clock, the user's descriptor and server do not
  change, and a look-up whose post fails is a look-up without a post. Medium-term
  keys are outside `Group`: a rekey is readable by the devices it is addressed to.
* `store_attachment_root`, which keeps the last sender that named an attachment, and
  progress events of attachments are left out.
* In `ClientEvents` a received row's stamp comes from one clock, though a failed send
  is stamped by the device, and there is one conversation; `load_older`, login
  events and group versions are left out.
* The clock of a server does not go backwards, and mailbox cursors are what the
  server stamps, except that an invite starts a member at the end of the mailbox at
  that moment.

`PROJECT.json` lists every component with its status, and every hazard.
