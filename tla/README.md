# TTS29: a verification project

TLA+ specifications of TTS29, the TLC runs that check them on small instances
and the TLAPS proofs of what holds for every instance. Paths are relative to
`src/`. `PROJECT.json` maps every definition to the lines it models.

## 1. The system

An agent gives a request to a producer daemon. The daemon synthesizes speech
(Kokoro), uploads it (Blossom), makes the author a member of a NIP-29 group and
publishes a spoken item through NMP, a library that signs, stores and delivers
Nostr events. Apple clients observe the group through a Rust kernel, play the
items and let their owner answer the questions an item carries.

| Component | State | Operations | Talks to |
|---|---|---|---|
| recovery runner (`daemon/src/runner.rs`) | a job record in memory | `admit`, `advance` (seven stages) | journal, synthesizer, uploader, publisher |
| job journal (`journal.rs`) | one JSON file for each request id | `load`, `insert` (create if absent), `save` (replace) | files |
| production producer (`production.rs`, `identity.rs`, `local_service.rs`) | registered request identities, work directory | `publish`, `publish_as`, `publish_tree`, `wait_for_answer` | runner |
| NMP publisher (`nmp_publisher.rs`, `nmp_receipt.rs`) | `authorized_members` cache | `authorize`, `resume_authorization`, `accept`, `resume` | NMP engine, host |
| synthesis, artifacts (`kokoro.rs`, `blossom.rs`) | audio files | `synthesize`, `make_durable` | HTTP services, files |
| group bootstrap (`group_bootstrap.rs`) | none of its own | `bootstrap_group` | NMP, host |
| daemon identity (`daemon_identity.rs`) | key file | `install`, `persist_new` | files |
| answer wait (`answer_wait.rs`) | cancel flag, observation handle | `wait`, `cancel` | NMP observation |
| local server (`local_server.rs`) | socket file, shutdown flag | `bind`, `serve_until_shutdown`, `shutdown.request` | clients, production producer |
| remote ingress (`mcp/src`) | permits, session limits | `protect`, `publish_speech` | local server |
| protocol (`protocol/src`) | none | parse, compose, `valid_answer`, `select_answer` | - |
| kernel runtime and session (`core/src/runtime.rs`, `session.rs`) | rows, queue, submissions, receipt threads | `update_rows`, `submit_answer`, `receipt_status`, `receipt_closed`, `action_error` | NMP, the Apple store |
| kernel account (`core/src/identity.rs`, `lib.rs`) | account, pending Keychain request | `login`, `logout`, `credential_result`, `restore_failed`, `shutdown` | NMP, the Apple store |
| projection (`core/src/projection.rs`) | none | `project` | protocol |
| Apple store, Keychain (`TTS29Store.swift`, `KeychainCredentialVault.swift`) | snapshot, `pendingSecret`, `lastCredentialRequestID`, saved secret | `run`, `login`, `logout`, `submitAnswer` | kernel FFI |
| Apple playback (`PlaybackController*.swift`, `AVPlayerBackend.swift`) | current item, position, loading task | `toggle`, `synchronize`, `receive`, `seek` | AVPlayer, downloads |

What is hard, and what makes each part correct:

* **Crash recovery of a publication.** The daemon may die between any two
  effects, the synthesizer returns other bytes on every call and the clock has
  moved on; a retried request must still yield one event. Two processes may work
  on one request. Correct: one admission and one item for a request id, no
  submission before its preconditions, equal replies, jobs that only move
  forward, and eventually a publication.
* **Answers.** Taps act on an old screen, receipts of an earlier attempt are
  still in the queue, a status channel may end silently. Correct: published means
  acknowledged, no late event of an answer's own receipt un-publishes it, and what
  the engine says at last in a status channel ends the sending.
* **Account.** Kernel and store exchange events and snapshots through two queues
  while Keychain operations and calls to the engine fail or the app dies. Correct:
  no signer without an owner unless the engine refuses to let it go, a log out
  forgets the saved login first, every request is answered.
* **The local socket.** Several daemons may share one path, each judges and replaces
  what it finds with several system calls, and a signal must end a loop that waits
  in `accept`. Correct, unless two starts meet: a serving daemon keeps its socket
  and only stale ones are removed; in any case a request to stop ends a daemon that
  its path leads to and nothing that comes after it is served.
* **A daemon's start.** Two daemons may find no identity at the same time, any
  start may be cut off between two writes, and the host shows its group late and
  in two parts. Correct: one identity in charge, an installed key that stays, no
  group seized, and a start that succeeds when nothing is really against it.
* **Trees and answer waits.** A tree is many jobs under derived ids, cut off and
  retried at another time over edited files; one server thread waits for an answer
  while another thread cancels. Correct: whole trees, no node twice, parents
  first, no lost cancel, a wait that reports what happened, nobody kept out for
  ever.
* **Reading and showing.** Rows come in any order with ties, the daemon and the
  clients validate and select with separate code, and what the composer accepts
  the parser may refuse. Correct: a screen that depends on the set of rows only,
  one answer for user and agent, published items that are readable.
* **Playback.** Notifications of the player arrive after the item was changed,
  and queues change under it. Correct: what plays is what is selected and shown,
  and playback ends.

The hazards, with the line where each bites and the property that covers it, are
listed in `PROJECT.json`.

## 2. Modules

| Module | Models | Composes |
|---|---|---|
| `Producer` | runner, journal, producer, publisher, files, with NMP and the host around them | `SpokenItemService` (refinement) |
| `ProducerHistory` | a history of the advances of one request that met in two processes, for `NoResubmission` | `Producer` |
| `SpokenItemService` | what the pipeline promises: a request id is admitted once, gets one item, which is published once | |
| `DaemonStart` | daemon identity, group bootstrap, NMP stores and the host, for several daemons | |
| `LocalServer` | socket file, listener, accept loop and shutdown of the daemons on one path | |
| `Trees` | `publish_tree`, `publish_node`, derived request ids, the journal in three stages | |
| `AnswerWait` | `wait`, `install`, `cancel`, the observation and the clock | |
| `Service` | the local publish service: one request at a time, the reply after its wait | `Trees`, `AnswerWait` |
| `Protocol` | composing and parsing of items, answers, acknowledgements and reactions | |
| `Queue` | the client's session rows, projection, answers given, and the daemon's reading of the same rows | `Protocol` |
| `Player` | the playback controller and its player over the changing queue | `Queue` |
| `Account` | identity controller, its queue and snapshots, the Swift store, the Keychain | |
| `Answers` | answer session, receipt threads, NMP's tracked writes, the screen | |
| `*Proofs` | theorems about the module they are named after (`StartProofs` of `DaemonStart`; `ServiceProofs` of `Trees`, `AnswerWait` and `Service`; `QueueProofs` of `Queue` and `Player`) | |
| `MC*` | constant definitions and symmetry for TLC | |

Operators named `Mut...` are mutated forms of the definition that follows them:
each breaks the property `PROJECT.json` names for it, which shows that the
property depends on the code it is about. No specification uses them.

### Producer

A process serves one call at a time: `Receive`, an admission (`AdmitAbsent` and
`Insert`, `AdmitExisting`, `AdmitConflict`), then up to six advances, each a `Load`,
one action for the effect of the stage and a `Save`. Load, effect and save are
separate steps because another process or a crash may come between them. `Fail` is
every error path, the spent budget included; it closes the request identity and
answers the caller. `Crash` empties memory (cache, identities, the job) and keeps
files, the Blossom server, the NMP store and the host. A save either replaces the
record or, when the directory cannot be synced after the rename, replaces it and
fails.

NMP and the host are external and modelled by how the daemon uses them: an
accepted write is durable, it is signed only while its author's signer is
registered, put-user writes are found again by their correlation token, the
processes share one store (`docs/daemon-recovery.md`,
`docs/daemon-production.md`), the host's group-state event lags behind its
members, and the host may refuse a put-user event for a member as a duplicate.
An event id stands for the frozen item it is the hash of. Members are never
removed. The six advances are `StageBudget`; receipts are bounded by
`MaxReceipts`, and `MaxAdvances` bounds a call in the runs with two processes.

`ProducerHistory` adds one variable that no step reads. `crossed` holds a request
id while an advance of it is under way that met another one, in the sense that two
processes were between load and save at the same time; it forgets the id when the
last of them is over, because the next one loads what the journal holds.

### Account

The store's events and the kernel's snapshots are FIFO queues. The kernel takes
one event and emits one snapshot; the store takes one snapshot, executes a
Keychain request it has not seen and takes nothing else until the operation ends.
The user acts on the snapshot that is shown, which may be old. `Kill` leaves only
the Keychain; `Cancel` and `Join` are the orderly end. A Keychain operation and
the report of its result are one step (the store is suspended meanwhile, and
`Kill` may come before it). One store lives as long as its process, as
`ContentView` holds it; a second `run` of the same store is not modelled. Error
texts are left out.

The NMP engine is external and may refuse any call. The kernel sees a refusal to
add or to activate an account; the errors of `remove_account` and
`set_active_account(None)` it discards (`identity.rs:138`, 161, 168, 185, 187).
`Remove` and `Deactivate` therefore have two outcomes, and `unremoved` and
`undetached` remember the refusals, for `SignersAreOwned` alone. A signer that
stays registered signs nothing by itself: `submit_answer` asks for a phase of
signed in, and the next log in replaces the active account.

### Answers

Every item carries questions; which answer is given matters only as far as it is
valid. A frame is any window of the group: some items, some of them answered, or
no rows at all, in which case `reproject` keeps the old queue. The endings of a
write are merged into acknowledged, `undelivered` (rejected, given up, unknown)
and `unsent` (cancelled, in conflict, failed), which the session treats alike.
NMP keeps its writes over a restart of the kernel; submissions and receipt
threads do not survive it. The screen is the set of items whose button is
enabled; it changes only when a snapshot is shown, so a tap may be late. `Stop`
also stands for the end of the observation, which leaves the loop the same way.

### LocalServer

Every system call of `bind`, `remove_stale_socket`, the accept loop, `Drop` and
`shutdown.request` is a step. A socket file is its inode; an inode is free again
when the path no longer names it and no live daemon holds the socket bound to it.
`UnixListener::bind` is two steps, because connections are refused between bind
and listen. A request is abstracted to its connection: `serve_stream` reads,
publishes and answers, or fails, and the loop goes on. A `Kill` is also every
error that ends the process before its listener is complete. Starts may overlap:
nothing in the code or the launcher prevents it. The history `contended` says that
two daemons have met that were both before the listen of their socket; it stays
until no daemon is alive, since what a wrong judgement did to the path may show much
later. `ServingIsReachable` and `OnlyStaleRemoved` excuse what happens while it is
set, and `server_overlap` shows why they have to. `ShutdownEnds` excuses a daemon
whose path was taken from it, which the handler's connection cannot wake, and
`LateNotServed` nothing.

### DaemonStart

A daemon is a configuration with an NMP store of its own; at most one process
runs on it. `Load`, `Generate`, `WriteKey`, `SyncKey` and `Reload` are the system
calls of `install_daemon_identity`; a file that was created and not written is
`torn`, which every later start refuses and none repairs. `Observe` reads the two
group-state events the host has published so far; `CreateGroup` and `Promote`
submit under a correlation token, and a write known under its token is
reattached, whatever became of it. `End` is every kill, stop, failure or time-out;
the identity file and the store survive. The loss of written data in a power
failure and a store that does not persist are not modelled. After a refusal the
token keeps the refused write, so a refused creation is never tried again.

### Trees, AnswerWait, Service

`publish_node` is recursive; its activations are the variable `stack`. The stages
between admission and publication are those of `Producer`, so a job here is
admitted, accepted or published. An id is a sequence of characters and `Keep`
stands for the 60 of `child_request_id`. An event is what it says (its id is a
hash of that), which is why edits, other clocks and other parents show.

In `AnswerWait` the loads and stores of the cancel flag and of the handle under its
mutex are separate steps of two threads, and so are the readings of the clock, the
receive and the evaluation of a frame: a cancel, the deadline or the end of the
stream may come between any two of them. `overdue` (the frame in hand was received
after the flag or the deadline) and `broken` (the engine ended the stream by itself)
are histories that no step reads. A cancel or a deadline that comes after the check
of a frame does not take its answer back, in the code and in the model. The clock
and the observation are external. A frame may be older than the answer. `cancel` is
reached by library callers and tests only; the local service creates a handle nobody
else holds, and the run lets somebody hold it.

`Service` serves one request at a time, and the only server thread sits in the
answer wait. `TreesComplete` excuses a tree whose ids are taken (`Blocked`): the
journal holds one of them for another request, for another node of the same tree
or for an earlier version of its files. The second case is real: an id of at
least 59 characters with a grandchild derives the id of its own parent, and such
a tree ends in `RequestConflict` on every retry. A reply lists a tree's children
when their subtrees are complete, deepest first, where the docs speak of
publication order; no property asks for the order.

### Protocol, Queue

Texts are tokens that say how they compare with the limit of their field. Every
check of `compose_spoken_item`, `compose_answer`, `parse` and the tag readers is
there, and the projection is the code's fold over the rows (`Collect`), then its
pass over the items (`Resolve`) and its trees (`AssembleSubtree`). Because `parse`
is pure, `group` holds what each event parses to, and a row is that or `None`. A map
of the code is the set of its values, with its key inside (`SameKey`); the vectors
of answers by item are one sequence, since only the order among the answers to one
item matters; a sorted list has each item at its place, one more than the number of
those before it. `QueueIsDeterministic` compares that fold with a definition in
terms of sets: latest answers and reactions, the place of an item among its
siblings. The limits of 40 items, depth 3, 12 children, 12 attachments, 3 questions
and 8 options are constants, and small in the runs. An empty frame keeps the old
queue, as in the code, and so nothing is asked of it.

`TextAssumption` and `EventsAssumption` give the values their types and keep
`None` apart from them: `parse` returns an `Option`, and the model writes an option
as the value or `None`. An event has an author and its id, the hash of all the
rest, belongs to no other event; that is Nostr's, and TLC evaluates both
assumptions on the events of the runs.

The definition follows the code where the written contract differs
(disagreement 7 of section 3): the order within a second, dismissed children and the
count of dropped nodes. Nodes deeper than the limit are published and not shown.
The window of rows that NMP's observation keeps is external.

### Player

Everything but the notifications of AVFoundation runs on the main actor. A
notification that is on its way when the player is stopped or loaded again is
still delivered. Positions, rates and the media centre are left out; whether the
duration is known is kept because it guards a seek. The list to play is `screen`,
which follows `Queue` by `Synchronize`. The automatic start of an item is a `Tap`.
`Followed` bounds the groups a device shows: those of the queue's own questions are
looked at in the session only, because the product of all their frames with all
states of a player is out of reach.

## 3. Runs

| Run | Bounds | Shows |
|---|---|---|
| `recovery` | 1 process, 1 request id, 2 authors, 2 audio results, 4 receipts, a host that may refuse | crashes and retries at every point; nothing is submitted unprepared, six advances suffice and five do not; a retried job is published |
| `competing` | 2 processes, 1 request id, 2 authors, 2 audio results, 3 receipts, 2 advances a call | one admission and item whatever is interleaved; `Producer` implements `SpokenItemService`; no second submission after a journaled receipt unless two advances met |
| `resubmission` (violation) | 2 processes, 1 request id, 1 author, 3 receipts, 2 advances a call | two advances meet and an item is submitted again after its receipt was journaled |
| `start` | 2 daemons, 1 key to draw and 1 override, the group absent or in 2 other states | one identity in charge, no group seized, an installed key stays, repeated starts succeed |
| `server` | 2 daemons, 3 inodes, 3 starts that may overlap, 1 client | a serving daemon keeps its path and only stale sockets are removed unless two starts met; shutdown ends a daemon and nothing late is served |
| `server_overlap` (violation) | 2 daemons, 3 inodes, 2 starts, 1 client | two starts meet and one removes the socket of the other |
| `service` | 2 clients with trees of up to 4 nodes, 2 times, 1 edit, ids cut at 4, 1 tick, 2 frames | whole trees, no node twice, parents first, no lost cancel, honest results; waits and requests end |
| `client` | 5 items, 5 answers, 7 foreign events, frames of up to 4; 2100 item sketches one at a time; 4 items on a device, one a child, one unplayable, two at a time | the screen is a function of the set of rows, daemon and client agree, what is composed is readable; what plays is selected and shown, playback ends |
| `label` (violation) | the sketches, with blank and long labels | a published item that no reader accepts |
| `account` | 2 keys and an invalid one, 2 launches, 3 taps, 1 frame | signers, saved logins, the order of a log out; every log in and log out ends |
| `account_mismatch` (violation) | 2 keys, 2 taps | the wrong key is saved |
| `answers` | 1 item, 2 receipts, 3 taps, 1 frame, 2 starts, inbox of 2 | published answers are acknowledged and stay; an answer leaves its sending phase once its channel says so |

The passing runs have up to 0.9 million distinct states and take at most three and
a half minutes each.

Why the bounds are enough. The producer's hazards need two of something: two
processes, authors or results for one request id; two requests of one author are
left to the proofs. Six advances are the code's own bound. In the competing run two
advances a call reach every stage because a job goes on from the journal in the next
call; that calls run out of advances there only is what `BudgetSuffices` says. In
`start` the second daemon may find the file, race for it, or come with a key of its
own; a second key to draw multiplies the states by ten and added no case. In
`service` the pairs of requests are chosen so that ids collide in each of the three
ways, and one edit and two times make every retry differ from the first attempt. A
frame of `client` holds an item, its child and two events about them, or three
competing ones; the sketches cover each text and each list at and beyond its limit.
A device needs two items and a child to lose one, one that pushes another off the
screen, and one that fails. A stale receipt needs two receipts of one item; a stale
login needs two keys and a second launch; a socket is lost to one other daemon, and
three starts allow a crash before two that meet. Deadlock is checked for `recovery`,
`competing`, `start`, `service` and `client`. The others end when the app or the
daemons are gone and the bounds are used up.

Fairness. Producer: the caller retries and the supervisor restarts the daemon
(`docs/daemon-recovery.md`); a call in service goes on because every capability has
a deadline; loads, effects and saves that are tried again and again succeed some
time (strong fairness); NMP signs and delivers what it can again and again, and the
group state catches up. A put-user or spoken write that the host refused excuses the
job. DaemonStart: the supervisor starts the daemon again, its steps and the writes
of its store get their turn, the host publishes its state, and from some time on
nobody is killed and the disk takes the key. Service: the daemon, the clock and NMP
go on, a caller that retries is accepted some time (strong fairness; the backlog of
a socket is a queue), and from some time on no call is cut off; no frame and no
answer is assumed to come. Player: audio that plays comes to its end or fails, the
main queue runs; nothing is assumed of the user. Account: the kernel thread and the
main actor are scheduled and a Keychain operation returns; nothing is assumed of the
user or the relay, and the engine may refuse every call. Answers: the kernel and
receipt threads are scheduled; nothing is assumed about acknowledgements or about
the engine closing a status channel, because `core/src/runtime.rs:201` waits without
a deadline (the daemon uses `recv_timeout`, `nmp_receipt.rs:30`) and nothing
promises an end. `AnswersSettle` begins where the channel has a final status or was
closed. LocalServer: daemons and their signal handlers are scheduled; a connection
in service ends because its reads and writes have a deadline and its request is
bounded.

### Disagreements found

With a run of their own:

1. `save` (`daemon/src/journal.rs:125`) replaces whatever record it finds, and
   nothing keeps two processes out of `advance` for one request. One of them, slow
   since its load, submits an item again after the other journaled its receipt,
   which `docs/daemon-recovery.md:48` excludes (`resubmission`). Whether NMP lets two
   engines share one store is NMP's and not in this repository. The item is the
   same, so there is still one event (`OneItemPerRequest` holds in `competing`).
2. A starting daemon takes a socket that is bound but not yet listening for a
   stale one, or a new socket for the stale one it judged, and removes it
   (`daemon/src/local_server.rs:203`), which `docs/local-producer.md:11-13` excludes
   (`server_overlap`).
3. Two quick log-ins sign in one key and save the other (`account_mismatch`).
4. A blank or overlong attachment label passes every check before publication and
   makes the published item unreadable (`label`).

Seen while modelling, each reachable in the models:

5. A duplicate refusal of a put-user write is answered from the session cache only
   (`nmp_publisher.rs:114`). Two requests of one author both journal a put-user
   write while the host's group state lags; the call of the first ends before it
   resumes its write, by an error, a time-out or a restart, so the cache stays empty;
   the host takes the first write and refuses the second as a duplicate. The second
   job then fails on every retry, until the first is retried in the same process.
6. A log out whose calls to the engine fail is reported as done
   (`core/src/identity.rs:185`, 187) and the signer stays registered; `README.md:76-77`
   says that log out "detaches the signer". `SignersAreOwned` names these signers.
7. `docs/protocol.md:100` orders items by descending `(created_at, event_id)`; within a
   second the code has ascending ids (`core/src/projection.rs:120`). Line 101 excludes
   the dismissed and archived items of a viewer; the code hides top-level ones and
   shows a dismissed child under its parent (115). Lines 107-108 count every dropped
   child; the code counts a child that is cut off and not what hangs below it (172).
   `QueueIsDeterministic` says what the code does in the three cases.
8. A signed-out snapshot that was queued before a log-in drops its secret
   (`TTS29Store.swift:87`), and a valid log-in fails with "The pending login was
   unavailable." It does end (`EventuallySettled`).
9. The refusal of a second answer makes the session forget the first
   (`core/src/session.rs:193`), so a third tap sends another.
10. On iOS a refused audio session fails a resume, and `toggle` then sets the phase
   to playing with nothing in the player (`PlaybackController.swift:131`);
   `PlaybackEnds` therefore speaks of items in the player.

## 4. Proofs

Those of `Protocol`, which has no state, are about its operators; all others are of
the form `Spec => []P` or `Spec => [][A]_vars`. They hold for every value of the
constants under the named assumptions of the modules (bounds are naturals,
`None` and the other special values are distinct from what they stand beside).

* **ProducerProofs.** `Inv` says that whatever a process or the journal believes is
  backed by something durable: a job past synthesis has its audio file, a durable
  job its upload, an authorized job a member, an accepted job a write of its own
  item, a published job an acknowledged one; cache entries name members; and an
  admission is never changed. None of the properties is inductive alone:
  `OneItemPerRequest`, for one, needs that a process that still holds an old job
  holds it about the same admission and the same linked file. Proved from it:
  `TypeCorrect`, `OneItem`, `Published`, `Prepared`, `Replies`, `Frozen` and
  `Refinement` (`Producer` implements `SpokenItemService`). `Resubmission` is about
  any number of processes and the history of `ProducerHistory`: a request that no
  two advances are in is not submitted again once its receipt is journaled. It needs
  `CrossInv` (an advance that met no other holds the record the journal holds until
  it saves) and `ReceiptsInv` (a record names a spoken write only from
  `publication_accepted` on). `Budget` is about a process that has the journal to
  itself (`Procs` has at most one member) and the six advances of the code; with two
  processes it is false, because one of them saves over what the other journaled. It
  rests on `AloneInv`: between its steps the process has in memory what is in the
  journal, and the advances it has left last for the stages that are left (`Left`).
* **AccountProofs.** `SignersAreOwned` needs `PendingInv`: a login is saved only
  while there is no account and a log out only with one, so that the result of a
  Keychain request asks for the removal of exactly the registration it should.
  `RemoveOwned` and `DetachOwned` say what is left after an engine that may refuse
  every removal: owned signers and those whose last removal it refused.
  `SignedInIsSaved` and `LogoutForgetsFirst` relate the core to a Keychain it never
  sees, and the invariant `VaultInv` follows a request all the way round: the
  snapshots in the queue ask for the request already executed or for the pending
  one, in that order (`RequestsFlow`); the store's operation or its single result is
  for the pending request (`AnswersFlow`); a result tells what the Keychain holds,
  and until one does the login of an account is there (`VaultTruthful`); the
  restored login is the first event of a kernel (`RestoredFirst`). `ForgetsFirst` is
  an action property.
* **AnswersProofs.** `PublishedIsAcked` needs that everything on its way is true:
  a status in a channel (`StreamsTruthful`) or in the inbox (`InboxTruthful`) is
  the status of its write, and a submission's receipt is of a write for its item
  (`SubmissionsTracked`). A write's ending never changes, so what was true when
  sent is true when taken. `Stays` is an action property; `TypeCorrect` comes from
  the same invariant.
* **LocalServerProofs.** For any starts, overlapping or not. `TypeCorrect` and `Late`
  are unconditional; `Reachable` and `OnlyStale` are about a path on which no two
  starts have met (`~contended`), and `server_overlap` shows that this is needed.
  `ServingIsReachable` needs that then at most one daemon is before its listen
  (`OneStart`), that a bound daemon is the only one and the path names its socket
  (`BoundIsPublished`), and that a daemon which has
  judged the path has it to itself (`JudgementHolds`), which follows from a
  refused probe only because every bound daemon that is not starting listens
  (`BoundListens`). `Late` rests on `LateIsFlagged`: a late connection belongs to
  a daemon whose flag is set. `OnlyStale` is an action property.
* **StartProofs.** Of `DaemonStart`. `OneInCharge` is not inductive: that a serving
  daemon administers its group rests on the plan it adopted steps earlier
  (`PlansHold`: it creates a group only if it means to promote the owner or is the
  owner, and promotes only as an administrator), on what an acknowledged write
  stands for (`WritesTruthful`: a create token is of its own key and its ending
  means the group has that administrator) and on the host creating a group once
  (`OneCreator`). `KeyKept` needs that the key file is installed by one daemon at
  a time (`Installing`). `NoSeizure` and `Kept` are action properties.
* **ServiceProofs.** Of `Service`, that is `Trees` and `AnswerWait` together.
  `NodesOnceParentsFirst` needs that a node has one job (`OneJobPerNode`), which
  needs that a job of a child has the id the job of its parent derives
  (`IdsDerived`): a node that is about to be admitted under a new id has no job yet,
  because that job would have this very id. It holds for any `Keep`, so cut ids
  cause refusals but no second copy. That the derivation goes through the
  activations is `FrameInv`: each extends the path and the id of the one below,
  whose node is published and journaled. `CancelNotLost` needs the agreement of the
  two threads (`Handover`). `ResultIsHonest` needs what holds of a frame between its
  receipt and the return, while the flag and the clock move on (`FrameInHand`: an
  overdue frame still meets a check that turns it away), and that a stream which
  ended was ended by the engine or, after the flag, by the cancel (`StreamEnd`);
  type correctness that a wait belongs to a published request (`Waiting`).
  `TreeWhole` comes from an invariant of the depth-first walk (`Walk`). The
  activations are one path of the tree and each has moved on to the child after the
  active one (`OnePath`), each hands its event down to the next (`Linked`), and
  every node is either recorded in `published_children`, or under an activation or
  still ahead of one, never two of these (`Walked`). When the last activation
  returns nothing is ahead, so every node but the root is recorded, once; the number
  of children follows from a bijection between the list and the nodes. The proof
  uses that the children of a node are numbered without gaps (`TreesAssumption`), as
  `publish_node` numbers them with `enumerate`.
* **ProtocolProofs.** Reading undoes composing, for every item, every answer and all
  limits. `ItemRoundTrip` says exactly when a published item is readable: it parses
  to itself without the blanks around its texts if every label is bounded, and to
  nothing otherwise, which is the fourth disagreement of section 3 in general form.
  `AnswerRoundTrip` says the same of answers, without exception. The rows of a tag
  are selected (`Where`) and the tags of the questions put together (`FlattenSeq`)
  by recursive functions over lists of any length, so what they compute needs an
  induction. The library's induction theorems cannot be applied by the provers; the
  module derives its own over *sets* of numbers (`LeastNat`, `Induction`) from the
  well-foundedness of the finite sets, and uses it twice for each recursive function:
  to show that a function with its equations exists, and to show what it returns.
* **QueueProofs, the session.** `AnswersAgree` and `ComposedIsReadable` follow from
  `SessionInv`, which relates what was published to what is read much later: the
  group has the parse of each published item and of each answer sent (`Posted`,
  `Delivered`), what is read of an event carries its id (`Identified`), no event is
  twice in a frame (`FrameOf`), the queue is the projection of the last frame with
  rows for the account of now, and an item on the screen asks the published
  questions (`AsksMeant`). The last is not a consequence of the others: after a
  frame without rows the old queue stays, and an answer may be given from it. That
  the two readers agree is then a fact about folds: the last of the latest valid
  answers that the client folds to, and the latest of the set that the daemon
  takes, are one, because ids order any two answers.
* **QueueProofs, the queue.** `QueueDetermined`: the queue is what its *set* of rows
  stands for, for every limit. (1) What `Collect` returns does not depend on the
  order: of the events with one key the one that stays is the latest (`Winners`,
  `Champion`). (2) The items resolved from it are in bijection with the items among
  the rows, and an order carried over by that bijection gives every item the same
  place (`SamePlace`). (3) By induction on the depth, the items drawn at a level of
  the trees, with their places, are those of the definition's `Level`
  (`FirstMatches`, `NextMatches`, `LastMatches`). (4) The number of rejected rows is
  a sum of cardinalities: each kind of row without a meaning is in bijection with
  the part of the collection that is counted, and the children that the recursion
  drops below a node, at every level, form disjoint sets whose union is what hangs
  on a shown item and is not shown (`ListDropped`, `LostAbove`, `ScreenDrops`). The
  code's `visited` set is not in the model, and (4) confirms that it never
  matters: no item is reached twice.
* **QueueProofs, the player.** `PlaysWhatIsShown` of the whole composition of
  `Player` and `Queue`. It needs that the selection is on the screen also when
  nothing is loaded (`SelectionShown`), since a late notification loads the item
  after it, and that the list is a part of the tree the next synchronization
  searches (`ListInTree`).

Every invariant and every action property of the passing runs is stated by a
theorem. Only model-checked: the liveness properties (fairness is outside the
prover's reach), and the runs that expect a violation.

## 5. Not modelled

* Text: formatting, error messages, transcripts, JSON layout and FFI strings. What
  the protocol makes of a text's length and blanks is modelled.
* The HTTP exchanges with Kokoro and Blossom and their size and time limits: each
  is one step that succeeds or fails.
* Views: a snapshot determines them; the guards that matter (which button is
  enabled) are in `Account` and `Answers`.
* Configuration and command lines: the outcome that matters (an override of the
  identity, or a start that fails) is in `DaemonStart`.
* The remote MCP ingress: the crate does not compile at this commit (its match on
  the local response lacks `PublishedTree`), so there is no program to follow.
* The live verification tools: scripts that exercise a deployed system.
* The inside of NMP, the relay and AVPlayer: external.

## 6. Plan

Done: every component with control of its own has its module, and every safety
invariant and action property of the runs has its theorem.

To model when the code allows it: the ingress, with its permits, its deadline and
the blocking call it leaves behind. To prove then: that a permit is returned on
every path.
