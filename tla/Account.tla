------------------------------- MODULE Account -------------------------------
(***************************************************************************)
(* The human account of the Apple client: the identity controller of the   *)
(* Rust kernel, the Swift store that executes its Keychain requests, and   *)
(* the two queues between them.                                            *)
(*                                                                         *)
(* The store sends events to the kernel's inbox; the kernel takes them one *)
(* by one and emits a snapshot after each.  A snapshot carries the phase   *)
(* of the identity and the Keychain request that is pending, if any.  The  *)
(* store takes snapshots one by one and does not take the next while a     *)
(* Keychain operation runs; the user acts on the snapshot that is shown.   *)
(*                                                                         *)
(* A secret stands for its key pair.  Errors shown to the user are left    *)
(* out.                                                                    *)
(***************************************************************************)
EXTENDS Naturals, Sequences

CONSTANTS
  Keys,         \* secrets that are valid nsecs
  BadSecret,    \* a secret that is not
  MaxLaunches,  \* bound: starts of the app
  MaxTaps,      \* bound: log-in and log-out taps in one behaviour
  MaxFrames,    \* bound: snapshots the observation causes in one behaviour
  None

ASSUME SecretsAssumption ==
  /\ BadSecret \notin Keys
  /\ None \notin Keys \cup {BadSecret}

ASSUME BoundsAssumption ==
  MaxLaunches \in Nat /\ MaxTaps \in Nat /\ MaxFrames \in Nat

Secrets == Keys \cup {BadSecret}

\* A Keychain request of the kernel, with the key it is about.
Request == [op : {"store", "delete"}, id : Nat \ {0}, key : Keys]

ASSUME NoneAssumption == None \notin Request /\ None \notin Nat

Phases == {"signedOut", "saving", "signedIn", "loggingOut"}

VARIABLES
  up,          \* kernel thread: down, starting, listening or stopped
  inbox,       \* events sent to the kernel
  phase,       \* phase of the identity
  account,     \* the account of the identity controller
  pending,     \* the Keychain request the kernel waits for
  nextId,      \* next_request_id
  registered,  \* accounts the NMP engine can sign with
  active,      \* the account the NMP engine signs with
  unremoved,   \* accounts whose removal the engine refused
  undetached,  \* the engine refused to have no active account
  shell,       \* the store's run loop: off, loop or closing
  snaps,       \* snapshots the store has not taken
  shown,       \* phase in the snapshot on screen
  secret,      \* pendingSecret
  lastId,      \* lastCredentialRequestID
  vaultOp,     \* the Keychain operation in progress
  vault,       \* the secret in the Keychain
  launches, taps, frames

engineVars == <<registered, active, unremoved, undetached>>
kernelVars == <<phase, account, pending, nextId, engineVars>>
storeVars == <<shown, secret, lastId, vaultOp>>
bounds == <<launches, taps, frames>>
vars == <<up, inbox, kernelVars, shell, snaps, storeVars, vault, bounds>>

-----------------------------------------------------------------------------
(* The queues                                                              *)

Login(s, persist) == [type |-> "login", secret |-> s, persist |-> persist]
Logout == [type |-> "logout"]
LoadFailed == [type |-> "load_failed"]
Result(id, ok) == [type |-> "result", id |-> id, ok |-> ok]
QueryClosed == [type |-> "query_closed"]
Stop == [type |-> "stop"]

\* Control::send: nothing is queued once the handle is being stopped, and
\* nobody receives once the kernel thread has left its loop.
Send(event) ==
  inbox' = IF shell = "loop" /\ up # "stopped" THEN Append(inbox, event) ELSE inbox

Snapshot(ph, request) == [phase |-> ph, request |-> request, last |-> FALSE]
Starting == Snapshot("signedOut", None)
Stopped == [phase |-> "signedOut", request |-> None, last |-> TRUE]

\* The callback yields to the stream as long as the store reads it.
Emit(values) == snaps' = IF shell = "loop" THEN snaps \o values ELSE snaps

\* A kernel event was handled: the snapshot that follows shows the new state.
Handled ==
  /\ inbox' = Tail(inbox)
  /\ Emit(<<Snapshot(phase', pending')>>)
  /\ UNCHANGED <<up, shell, storeVars, vault, bounds>>

Received(type) == up = "listening" /\ inbox # <<>> /\ Head(inbox).type = type

-----------------------------------------------------------------------------
(* Life of the app                                                         *)

Init ==
  /\ up = "down" /\ inbox = <<>>
  /\ phase = "signedOut" /\ account = None /\ pending = None /\ nextId = 1
  /\ registered = {} /\ active = None /\ unremoved = {} /\ undetached = FALSE
  /\ shell = "off" /\ snaps = <<>>
  /\ shown = "signedOut" /\ secret = None /\ lastId = None /\ vaultOp = None
  /\ vault = None
  /\ launches = 0 /\ taps = 0 /\ frames = 0

\* run: the kernel is started and the saved login, if it can be read, is the
\* first event it gets.
Launch ==
  /\ shell = "off"
  /\ launches < MaxLaunches
  /\ launches' = launches + 1
  /\ shell' = "loop"
  /\ up' = "starting"
  /\ snaps' = <<Starting>>
  /\ inbox' \in {<<LoadFailed>>,
                 IF vault = None THEN <<>> ELSE <<Login(vault, FALSE)>>}
  /\ UNCHANGED <<kernelVars, storeVars, vault, taps, frames>>

\* run_inner has its engine and its observation and enters the loop.
KernelReady ==
  /\ up = "starting"
  /\ shell = "loop"
  /\ up' = "listening"
  /\ Emit(<<Snapshot(phase, pending)>>)
  /\ UNCHANGED <<inbox, kernelVars, shell, storeVars, vault, bounds>>

\* run_inner fails to start, or finds that the handle is being stopped.
KernelRefused ==
  /\ up = "starting"
  /\ up' = "stopped"
  /\ inbox' = <<>>
  /\ Emit(<<Starting, Stopped>>)
  /\ UNCHANGED <<kernelVars, shell, storeVars, vault, bounds>>

\* The task of the view is cancelled; stopKernel follows.  A Keychain operation
\* in progress is waited for first.
Cancel ==
  /\ shell = "loop"
  /\ vaultOp = None
  /\ shell' = "closing"
  /\ snaps' = <<>>
  /\ Send(Stop)
  /\ UNCHANGED <<up, kernelVars, storeVars, vault, bounds>>

\* The process is gone; a later start begins with a new kernel and store.
Off ==
  /\ up' = "down" /\ inbox' = <<>>
  /\ phase' = "signedOut" /\ account' = None /\ pending' = None /\ nextId' = 1
  /\ registered' = {} /\ active' = None /\ unremoved' = {} /\ undetached' = FALSE
  /\ shell' = "off" /\ snaps' = <<>>
  /\ shown' = "signedOut" /\ secret' = None /\ lastId' = None /\ vaultOp' = None
  /\ UNCHANGED <<vault, bounds>>

\* stopKernel has joined the thread and the app is closed.
Join == shell = "closing" /\ up = "stopped" /\ Off

\* The process is killed: only the Keychain survives.
Kill == shell # "off" /\ Off

-----------------------------------------------------------------------------
(* The kernel                                                              *)

\* remove_account.  The code discards its error: where the engine refuses, the
\* account stays registered and nothing asks again.
Remove(keys) ==
  \E kept \in SUBSET keys :
    /\ registered' = (registered \ keys) \cup kept
    /\ unremoved' = (unremoved \ keys) \cup kept

\* set_active_account(None), whose error is discarded as well.
Deactivate ==
  \/ active' = None /\ undetached' = FALSE
  \/ UNCHANGED active /\ undetached' = TRUE

\* activate: where the engine refuses the account is removed again.
Activate(key) ==
  \/ /\ account' = key
     /\ active' = key
     /\ registered' = registered \cup {key}
     /\ phase' = "signedIn"
     /\ undetached' = FALSE
     /\ UNCHANGED unremoved
  \/ /\ Remove({key})
     /\ phase' = "signedOut"
     /\ UNCHANGED <<account, active, undetached>>

\* Mutated Unregister: the engine is not asked.
MutKeepRegistration(key) == UNCHANGED <<registered, unremoved>>

\* A login could not be saved: its registration goes.
Unregister(key) == Remove({key})

\* detach: the account goes, whatever the engine says; shutdown also removes
\* others.
Detach(others) ==
  /\ Deactivate
  /\ account' = None
  /\ Remove(({account} \ {None}) \cup others)

\* A login needs an identity with neither an account nor an operation pending.
MayLogin == pending = None /\ account = None

\* login: a new key is registered and waits to be saved; a saved key, which the
\* store restores, is activated at once.
KernelLogin ==
  /\ Received("login")
  /\ LET s == Head(inbox).secret
         persist == Head(inbox).persist
     IN \/ /\ ~MayLogin
           /\ UNCHANGED kernelVars
        \/ /\ MayLogin          \* add_account fails, with a valid key or not
           /\ phase' = "signedOut"
           /\ UNCHANGED <<account, pending, nextId, engineVars>>
        \/ /\ MayLogin /\ s \in Keys /\ ~persist
           /\ Activate(s)
           /\ UNCHANGED <<pending, nextId>>
        \/ /\ MayLogin /\ s \in Keys /\ persist
           /\ registered' = registered \cup {s}
           /\ pending' = [op |-> "store", id |-> nextId, key |-> s]
           /\ nextId' = nextId + 1
           /\ phase' = "saving"
           /\ UNCHANGED <<account, active, unremoved, undetached>>
  /\ Handled

\* Mutated KernelLogout: the account goes before the Keychain item.
MutDetachFirst ==
  /\ Received("logout")
  /\ pending = None /\ account # None
  /\ pending' = [op |-> "delete", id |-> nextId, key |-> account]
  /\ nextId' = nextId + 1
  /\ phase' = "loggingOut"
  /\ Detach({})
  /\ Handled

\* logout asks for the Keychain item to be deleted and keeps the account.
KernelLogout ==
  /\ Received("logout")
  /\ \/ /\ pending # None
        /\ UNCHANGED kernelVars
     \/ /\ pending = None /\ account = None
        /\ phase' = "signedOut"
        /\ UNCHANGED <<account, pending, nextId, engineVars>>
     \/ /\ pending = None /\ account # None
        /\ pending' = [op |-> "delete", id |-> nextId, key |-> account]
        /\ nextId' = nextId + 1
        /\ phase' = "loggingOut"
        /\ UNCHANGED <<account, engineVars>>
  /\ Handled

KernelLoadFailed ==
  /\ Received("load_failed")
  /\ phase' = IF account = None /\ pending = None THEN "signedOut" ELSE phase
  /\ UNCHANGED <<account, pending, nextId, engineVars>>
  /\ Handled

Awaited(id) == pending # None /\ pending.id = id

\* credential_result: only the answer to the pending request counts.
KernelResult ==
  /\ Received("result")
  /\ LET ok == Head(inbox).ok
     IN \/ /\ ~Awaited(Head(inbox).id)
           /\ UNCHANGED kernelVars
        \/ /\ Awaited(Head(inbox).id)
           /\ pending' = None
           /\ UNCHANGED nextId
           /\ \/ /\ pending.op = "store" /\ ok
                 /\ Activate(pending.key)
              \/ /\ pending.op = "store" /\ ~ok
                 /\ Unregister(pending.key)
                 /\ phase' = "signedOut"
                 /\ UNCHANGED <<account, active, undetached>>
              \/ /\ pending.op = "delete" /\ ok
                 /\ Detach({})
                 /\ phase' = "signedOut"
              \/ /\ pending.op = "delete" /\ ~ok
                 /\ phase' = "signedIn"
                 /\ UNCHANGED <<account, engineVars>>
  /\ Handled

\* A frame of the group observation: the snapshot repeats the identity.
KernelFrame ==
  /\ up = "listening"
  /\ shell = "loop"
  /\ frames < MaxFrames
  /\ frames' = frames + 1
  /\ Emit(<<Snapshot(phase, pending)>>)
  /\ UNCHANGED <<up, inbox, kernelVars, shell, storeVars, vault, launches, taps>>

\* The group observation ends by itself.
ObservationEnds ==
  /\ up = "listening"
  /\ shell = "loop"
  /\ ~ \E i \in DOMAIN inbox : inbox[i] = QueryClosed
  /\ Send(QueryClosed)
  /\ UNCHANGED <<up, kernelVars, shell, snaps, storeVars, vault, bounds>>

\* shutdown: a login that is being saved and the account are both forgotten.
Shutdown ==
  /\ pending' = None
  /\ Detach(IF pending # None /\ pending.op = "store" THEN {pending.key} ELSE {})
  /\ inbox' = <<>>
  /\ up' = "stopped"
  /\ UNCHANGED <<phase, nextId, shell, storeVars, vault, bounds>>

KernelStop ==
  /\ Received("stop")
  /\ Shutdown
  /\ UNCHANGED snaps

KernelQueryClosed ==
  /\ Received("query_closed")
  /\ \/ /\ shell = "closing"
        /\ inbox' = Tail(inbox)
        /\ UNCHANGED <<up, kernelVars, shell, snaps, storeVars, vault, bounds>>
     \/ /\ shell = "loop"
        /\ Shutdown
        /\ Emit(<<Snapshot(phase, pending), Stopped>>)

-----------------------------------------------------------------------------
(* The store                                                               *)

\* The user submits a key; the store keeps it until the kernel asks for it.
TapLogin(s) ==
  /\ shell = "loop" /\ shown = "signedOut"
  /\ taps < MaxTaps
  /\ taps' = taps + 1
  /\ secret' = s
  /\ Send(Login(s, TRUE))
  /\ UNCHANGED <<up, kernelVars, shell, snaps, shown, lastId, vaultOp, vault,
                 launches, frames>>

TapLogout ==
  /\ shell = "loop" /\ shown = "signedIn"
  /\ taps < MaxTaps
  /\ taps' = taps + 1
  /\ Send(Logout)
  /\ UNCHANGED <<up, kernelVars, shell, snaps, storeVars, vault, launches, frames>>

IsNew(request) == request # None /\ request.id # lastId

\* Mutated ReportUnavailable: nothing is reported.
MutSilent(id) == UNCHANGED inbox

ReportUnavailable(id) == Send(Result(id, FALSE))

\* Mutated Execute: a missing secret is not noticed.
MutUnchecked(request) ==
  /\ lastId' = request.id
  /\ vaultOp' = [op |-> request.op, id |-> request.id, secret |-> secret]
  /\ UNCHANGED <<secret, inbox>>

\* executeCredentialRequest, up to the point where the operation is started.
Execute(request) ==
  /\ lastId' = request.id
  /\ \/ /\ request.op = "store" /\ secret = None
        /\ ReportUnavailable(request.id)
        /\ UNCHANGED <<secret, vaultOp>>
     \/ /\ request.op = "store" /\ secret # None
        /\ vaultOp' = [op |-> "store", id |-> request.id, secret |-> secret]
        /\ secret' = None
        /\ UNCHANGED inbox
     \/ /\ request.op = "delete"
        /\ vaultOp' = [op |-> "delete", id |-> request.id, secret |-> None]
        /\ UNCHANGED <<secret, inbox>>

\* One turn of the loop over the snapshots; the last one ends it.
TakeSnapshot ==
  /\ shell = "loop" /\ vaultOp = None /\ snaps # <<>>
  /\ LET s == Head(snaps)
     IN /\ ~s.last
        /\ shown' = s.phase
        /\ snaps' = Tail(snaps)
        /\ \/ IsNew(s.request) /\ Execute(s.request)
           \/ /\ ~IsNew(s.request)
              /\ secret' = IF s.phase = "signedOut" /\ s.request = None
                           THEN None ELSE secret
              /\ UNCHANGED <<inbox, lastId, vaultOp>>
  /\ UNCHANGED <<up, kernelVars, shell, vault, bounds>>

TakeLast ==
  /\ shell = "loop" /\ vaultOp = None /\ snaps # <<>>
  /\ Head(snaps).last
  /\ shown' = "signedOut"
  /\ secret' = None
  /\ shell' = "closing"
  /\ snaps' = <<>>
  /\ UNCHANGED <<up, inbox, kernelVars, lastId, vaultOp, vault, bounds>>

\* What a Keychain operation that succeeds leaves behind.
Stored == IF vaultOp.op = "store" THEN vaultOp.secret ELSE None

\* Mutated VaultDone: a failed operation counts as done.
MutSwallow(ok) ==
  /\ vaultOp # None
  /\ vault' = IF ok THEN Stored ELSE vault
  /\ Send(Result(vaultOp.id, TRUE))
  /\ vaultOp' = None
  /\ UNCHANGED <<up, kernelVars, shell, snaps, shown, secret, lastId, bounds>>

\* The Keychain operation ends and its result is reported.
VaultDone(ok) ==
  /\ vaultOp # None
  /\ vault' = IF ok THEN Stored ELSE vault
  /\ Send(Result(vaultOp.id, ok))
  /\ vaultOp' = None
  /\ UNCHANGED <<up, kernelVars, shell, snaps, shown, secret, lastId, bounds>>

-----------------------------------------------------------------------------
KernelStep ==
  \/ KernelReady \/ KernelRefused
  \/ KernelLogin \/ KernelLogout \/ KernelLoadFailed \/ KernelResult
  \/ KernelStop \/ KernelQueryClosed

StoreStep ==
  \/ TakeSnapshot \/ TakeLast
  \/ \E ok \in BOOLEAN : VaultDone(ok)
  \/ Join

User ==
  \/ Launch
  \/ Cancel
  \/ Kill
  \/ \E s \in Secrets : TapLogin(s)
  \/ TapLogout

Next == KernelStep \/ StoreStep \/ User \/ KernelFrame \/ ObservationEnds

Spec == Init /\ [][Next]_vars

\* The kernel thread and the main actor are scheduled, and a Keychain operation
\* returns.  The user and the relay owe nothing.
FairSpec == Spec /\ WF_vars(KernelStep) /\ WF_vars(StoreStep)

-----------------------------------------------------------------------------
(* Properties                                                              *)

\* Type correctness of the kernel, the store and the Keychain.
TypeOK ==
  /\ up \in {"down", "starting", "listening", "stopped"}
  /\ shell \in {"off", "loop", "closing"}
  /\ phase \in Phases /\ shown \in Phases
  /\ account \in Keys \cup {None} /\ active \in Keys \cup {None}
  /\ registered \in SUBSET Keys /\ unremoved \in SUBSET Keys
  /\ undetached \in BOOLEAN
  /\ pending = None \/ pending \in Request
  /\ nextId \in Nat \ {0}
  /\ secret \in Secrets \cup {None} /\ vault \in Secrets \cup {None}
  /\ lastId \in Nat \cup {None}
  /\ vaultOp = None \/ (vaultOp.op = "store" => vaultOp.secret \in Secrets)
  /\ \A i \in DOMAIN snaps : snaps[i].phase \in Phases

\* A key the identity controller answers for: the account, and a login that is
\* being saved.
Owned(k) ==
  \/ k = account
  \/ pending # None /\ pending.op = "store" /\ pending.key = k

\* The engine can sign with nothing but the keys the controller owns and those
\* the engine itself refused to let go, and signs with the account: the code
\* asks for the removal of every key it stops owning, whatever fails first (the
\* Keychain, the activation, a log out, the removal of an earlier key).
SignersAreOwned ==
  /\ account # None => active = account
  /\ account = None => active = None \/ undetached
  /\ registered = {k \in Keys : Owned(k) \/ k \in unremoved}

\* The account is dropped by a log out only when the Keychain no longer holds
\* the login: after a crash at any point a login that is gone from the kernel
\* is not restored, unless its deletion failed and the user is told.
LogoutForgetsFirst ==
  [][account # None /\ account' = None /\ up' = "listening" => vault = None]_vars

\* Someone shown as signed in finds a saved login at the next start.
SignedInIsSaved == up = "listening" /\ phase = "signedIn" => vault # None

\* A log in or a log out comes to an end: the request reaches the store, the
\* store answers it, and the kernel takes the answer.
EventuallySettled ==
  (phase \in {"saving", "loggingOut"} /\ up = "listening")
    ~> (phase \in {"signedOut", "signedIn"} \/ up # "listening")

\* The key the Keychain holds is the key the user is signed in with.
SavedLoginMatches == up = "listening" /\ phase = "signedIn" => vault = account

-----------------------------------------------------------------------------
(* The inductive invariant                                                 *)

\* A login is saved only while there is no account, a log out only with one.
PendingInv ==
  pending # None =>
    /\ pending.op \in {"store", "delete"}
    /\ pending.key \in Keys
    /\ account = None <=> pending.op = "store"

\* What the identity controller knows of its account is what the engine holds.
Inv ==
  /\ account \in Keys \cup {None}
  /\ nextId \in Nat \ {0}
  /\ PendingInv
  /\ SignersAreOwned
=============================================================================
