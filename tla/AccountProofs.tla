---------------------------- MODULE AccountProofs ----------------------------
(***************************************************************************)
(* Proofs about Account: the engine can sign only with keys the identity   *)
(* controller owns, an account shown signed in is saved in the Keychain,   *)
(* and a logout forgets the secret first, for any number of keys,          *)
(* launches, taps and frames.                                              *)
(***************************************************************************)
EXTENDS Account, TLAPS

\* What the invariant reads; a step of the store or the user leaves it alone.
ownedVars == <<account, pending, nextId, engineVars>>

\* A step that leaves the account, the request and the engine alone preserves
\* the invariant (TakeSnapshot, VaultDone, the taps, Launch, Cancel).
LEMMA Untouched ==
  ASSUME Inv, UNCHANGED ownedVars
  PROVE  Inv'
BY DEF Inv, PendingInv, SignersAreOwned, Owned, ownedVars, engineVars

\* When every key the controller owns is removed the engine is left with those
\* it refused to remove, before or now.
LEMMA RemoveOwned ==
  ASSUME Inv, NEW keys \in SUBSET Keys, Remove(keys),
         \A k \in Keys : Owned(k) => k \in keys,
         account' = None, pending' = None, nextId' = nextId,
         active' = None \/ undetached'
  PROVE  Inv'
<1> USE SecretsAssumption
<1>1. PICK kept \in SUBSET keys : /\ registered' = (registered \ keys) \cup kept
                                 /\ unremoved' = (unremoved \ keys) \cup kept
  BY DEF Remove
<1>2. registered = {k \in Keys : Owned(k) \/ k \in unremoved}
  BY DEF Inv, SignersAreOwned
<1>3. \A k \in Keys : ~Owned(k)'
  BY DEF Owned
<1>4. registered' = {k \in Keys : k \in unremoved'}
  BY <1>1, <1>2
<1>5. registered' = {k \in Keys : Owned(k)' \/ k \in unremoved'}
  BY <1>3, <1>4
<1> QED
  BY <1>5 DEF Inv, PendingInv, SignersAreOwned

\* activate leaves the account registered and active, or asks for its removal.
LEMMA ActivateOwned ==
  ASSUME Inv, NEW key \in Keys, Activate(key), account = None, pending' = None,
         nextId' = nextId,
         pending = None \/ (pending.op = "store" /\ pending.key = key)
  PROVE  Inv'
<1> USE SecretsAssumption
<1>1. \A k \in Keys : Owned(k) => k = key
  BY DEF Owned
<1>2. active = None \/ undetached
  BY DEF Inv, SignersAreOwned
<1>3. CASE /\ account' = key /\ active' = key /\ registered' = registered \cup {key}
           /\ unremoved' = unremoved
  <2>1. \A k \in Keys : Owned(k)' <=> k = key
    BY <1>3 DEF Owned
  <2>2. registered' = {k \in Keys : Owned(k)' \/ k \in unremoved'}
    BY <1>1, <1>3, <2>1 DEF Inv, SignersAreOwned
  <2> QED
    BY <1>3, <2>2 DEF Inv, PendingInv, SignersAreOwned
<1>4. CASE Remove({key}) /\ UNCHANGED <<account, active, undetached>>
  BY <1>1, <1>2, <1>4, RemoveOwned
<1> QED
  BY <1>3, <1>4 DEF Activate

\* detach leaves no account, and an active key only where the engine refused to
\* have none.
LEMMA DetachOwned ==
  ASSUME Inv, NEW others \in SUBSET Keys, Detach(others),
         \A k \in Keys : pending # None /\ pending.op = "store" /\ pending.key = k
                          => k \in others,
         pending' = None, nextId' = nextId
  PROVE  Inv'
<1> DEFINE keys == ({account} \ {None}) \cup others
<1>1. keys \in SUBSET Keys
  BY DEF Inv
<1>2. \A k \in Keys : Owned(k) => k \in keys
  BY SecretsAssumption DEF Owned
<1>3. Remove(keys) /\ account' = None /\ (active' = None \/ undetached')
  BY DEF Detach, Deactivate
<1> HIDE DEF keys
<1> QED
  BY <1>1, <1>2, <1>3, RemoveOwned

\* When the process is gone the engine signs with nothing.
LEMMA OffOwned ==
  ASSUME Off
  PROVE  Inv'
BY SecretsAssumption DEF Off, Inv, PendingInv, SignersAreOwned, Owned

\* shutdown asks for the removal of every registration the controller owns.
LEMMA ShutdownOwned ==
  ASSUME Inv, Shutdown
  PROVE  Inv'
<1> DEFINE others == IF pending # None /\ pending.op = "store" THEN {pending.key} ELSE {}
<1>1. Detach(others) /\ pending' = None /\ nextId' = nextId
  BY DEF Shutdown
<1>2. others \in SUBSET Keys
  BY DEF Inv, PendingInv
<1>3. \A k \in Keys : pending # None /\ pending.op = "store" /\ pending.key = k
                       => k \in others
  OBVIOUS
<1> HIDE DEF others
<1> QED
  BY <1>1, <1>2, <1>3, DetachOwned

\* Every step of the specification preserves the invariant.
LEMMA Step ==
  ASSUME Inv, [Next]_vars
  PROVE  Inv'
<1> USE SecretsAssumption
<1>1. CASE KernelReady \/ KernelRefused \/ KernelFrame \/ ObservationEnds
  <2>1. UNCHANGED ownedVars
    BY <1>1 DEF KernelReady, KernelRefused, KernelFrame, ObservationEnds, kernelVars,
                ownedVars
  <2> QED
    BY <2>1, Untouched
<1>2. CASE TakeSnapshot \/ TakeLast \/ \E ok \in BOOLEAN : VaultDone(ok)
  <2>1. UNCHANGED ownedVars
    BY <1>2 DEF TakeSnapshot, TakeLast, VaultDone, kernelVars, ownedVars
  <2> QED
    BY <2>1, Untouched
<1>3. CASE Launch \/ Cancel \/ (\E s \in Secrets : TapLogin(s)) \/ TapLogout
  <2>1. UNCHANGED ownedVars
    BY <1>3 DEF Launch, Cancel, TapLogin, TapLogout, kernelVars, ownedVars
  <2> QED
    BY <2>1, Untouched
<1>4. CASE Join \/ Kill
  BY <1>4, OffOwned DEF Join, Kill
<1>5. CASE KernelLogin
  <2> DEFINE s == Head(inbox).secret
  <2>1. CASE UNCHANGED ownedVars
    BY <2>1, Untouched
  <2>2. CASE MayLogin /\ s \in Keys /\ Activate(s) /\ UNCHANGED <<pending, nextId>>
    BY <2>2, ActivateOwned DEF MayLogin
  <2>3. CASE /\ MayLogin /\ s \in Keys
             /\ registered' = registered \cup {s}
             /\ pending' = [op |-> "store", id |-> nextId, key |-> s]
             /\ nextId' = nextId + 1
             /\ UNCHANGED <<account, active, unremoved, undetached>>
    <3>1. pending' \in Request
      BY <2>3 DEF Inv, Request
    <3>2. pending' # None
      BY <3>1, NoneAssumption
    <3>3. \A k \in Keys : (Owned(k)' <=> k = s) /\ ~Owned(k)
      BY <2>3, <3>2 DEF Owned, MayLogin
    <3>4. registered' = {k \in Keys : Owned(k)' \/ k \in unremoved'}
      BY <2>3, <3>3 DEF Inv, SignersAreOwned
    <3> QED
      BY <2>3, <3>2, <3>4 DEF Inv, PendingInv, SignersAreOwned, MayLogin
  <2> QED
    BY <1>5, <2>1, <2>2, <2>3 DEF KernelLogin, kernelVars, ownedVars
<1>6. CASE KernelLogout
  <2>1. CASE UNCHANGED ownedVars
    BY <2>1, Untouched
  <2>2. CASE /\ pending = None /\ account # None
             /\ pending' = [op |-> "delete", id |-> nextId, key |-> account]
             /\ nextId' = nextId + 1
             /\ UNCHANGED <<account, engineVars>>
    <3>1. \A k \in Keys : Owned(k)' <=> Owned(k)
      BY <2>2 DEF Owned
    <3> QED
      BY <2>2, <3>1 DEF Inv, PendingInv, SignersAreOwned, engineVars
  <2> QED
    BY <1>6, <2>1, <2>2 DEF KernelLogout, kernelVars, ownedVars
<1>7. CASE KernelLoadFailed
  BY <1>7, Untouched DEF KernelLoadFailed, ownedVars
<1>8. CASE KernelResult
  <2>1. CASE UNCHANGED ownedVars
    BY <2>1, Untouched
  <2>2. CASE /\ pending # None /\ pending.op = "store" /\ pending' = None /\ nextId' = nextId
             /\ Activate(pending.key)
    <3>1. pending.key \in Keys /\ account = None
      BY <2>2 DEF Inv, PendingInv
    <3> QED
      BY <2>2, <3>1, ActivateOwned
  <2>3. CASE /\ pending # None /\ pending.op = "store" /\ pending' = None /\ nextId' = nextId
             /\ Unregister(pending.key)
             /\ UNCHANGED <<account, active, undetached>>
    <3>1. pending.key \in Keys /\ account = None /\ (active = None \/ undetached)
      BY <2>3 DEF Inv, PendingInv, SignersAreOwned
    <3>2. \A k \in Keys : Owned(k) => k \in {pending.key}
      BY <3>1, SecretsAssumption DEF Owned
    <3> QED
      BY <2>3, <3>1, <3>2, RemoveOwned DEF Unregister
  <2>4. CASE /\ pending # None /\ pending.op = "delete" /\ pending' = None /\ nextId' = nextId
             /\ Detach({})
    BY <2>4, DetachOwned
  <2>5. CASE /\ pending # None /\ pending.op = "delete" /\ pending' = None /\ nextId' = nextId
             /\ UNCHANGED <<account, engineVars>>
    <3>1. \A k \in Keys : Owned(k)' <=> Owned(k)
      BY <2>5 DEF Owned
    <3> QED
      BY <2>5, <3>1 DEF Inv, PendingInv, SignersAreOwned, engineVars
  <2> QED
    BY <1>8, <2>1, <2>2, <2>3, <2>4, <2>5
       DEF KernelResult, kernelVars, ownedVars, Awaited
<1>9. CASE KernelStop
  BY <1>9, ShutdownOwned DEF KernelStop
<1>10. CASE KernelQueryClosed
  <2>1. CASE UNCHANGED ownedVars
    BY <2>1, Untouched
  <2> QED
    BY <1>10, <2>1, ShutdownOwned DEF KernelQueryClosed, kernelVars, ownedVars
<1>11. CASE UNCHANGED vars
  BY <1>11, Untouched DEF vars, kernelVars, ownedVars
<1> QED
  BY <1>1, <1>2, <1>3, <1>4, <1>5, <1>6, <1>7, <1>8, <1>9, <1>10, <1>11
     DEF Next, KernelStep, StoreStep, User

\* In every reachable state, after any failure of the Keychain, of activation or
\* of a log out, the engine's registrations are the account, the login being
\* saved and the keys whose removal the engine refused when it was asked for,
\* the errors identity.rs discards included.
THEOREM Signers == Spec => []SignersAreOwned
<1>1. Init => Inv
  BY SecretsAssumption DEF Init, Inv, PendingInv, SignersAreOwned, Owned
<1>2. Inv /\ [Next]_vars => Inv'
  BY Step
<1>3. Inv => SignersAreOwned
  BY DEF Inv
<1> QED
  BY <1>1, <1>2, <1>3, PTL DEF Spec

(***************************************************************************)
(* The Keychain.                                                           *)
(***************************************************************************)
Snapshots == [phase : Phases, request : Request \cup {None}, last : BOOLEAN]

Events ==
  [type : {"login"}, secret : Secrets, persist : BOOLEAN]
    \cup [type : {"result"}, id : Nat, ok : BOOLEAN]
    \cup [type : {"logout", "load_failed", "query_closed", "stop"}]

\* The last request the store has executed.
Done == IF lastId = None THEN 0 ELSE lastId

IsResult(k) == inbox[k].type = "result"

\* The requests on their way to the store: one that is executed, and after it
\* in the queue at most one that is not, which is the pending one.
RequestsFlow ==
  /\ pending = None => Done = nextId - 1
  /\ pending # None => pending.id = nextId - 1 /\ Done \in {nextId - 2, nextId - 1}
  /\ \A i \in DOMAIN snaps : snaps[i].request # None =>
       \/ snaps[i].request.id = Done
       \/ pending # None /\ snaps[i].request = pending
  /\ \A i, j \in DOMAIN snaps :
       /\ i < j /\ snaps[i].request # None /\ snaps[j].request # None
       /\ snaps[i].request.id = nextId - 1
       => snaps[j].request.id = nextId - 1

\* Its operation and its result are for the pending request, which the store
\* has executed; there is one of the two, and once.
AnswersFlow ==
  /\ vaultOp # None =>
       /\ pending # None /\ Done = pending.id /\ vaultOp.op = pending.op
       /\ vaultOp.id = pending.id /\ shell = "loop"
       /\ \A k \in DOMAIN inbox : ~IsResult(k)
  /\ \A k \in DOMAIN inbox : IsResult(k) =>
       pending # None /\ Done = pending.id /\ inbox[k].id = pending.id
  /\ \A k, l \in DOMAIN inbox : IsResult(k) /\ IsResult(l) => k = l

\* The Keychain holds a login while there is an account, until its deletion has
\* succeeded; a result tells what became of it.
VaultTruthful ==
  /\ account # None /\ pending = None => vault # None
  /\ pending # None /\ pending.op = "delete"
       /\ ~(\E k \in DOMAIN inbox : IsResult(k) /\ inbox[k].ok) => vault # None
  /\ \A k \in DOMAIN inbox : IsResult(k) /\ inbox[k].ok =>
       (vault = None <=> pending.op = "delete")

\* The saved login is restored before anything else.
RestoredFirst ==
  \A k \in DOMAIN inbox : inbox[k].type = "login" /\ ~inbox[k].persist =>
    k = 1 /\ vault # None /\ nextId = 1 /\ account = None

\* A kernel that has not begun has not touched its state.
Untried ==
  /\ up = "starting" => nextId = 1 /\ account = None /\ phase = "signedOut"
  /\ up = "down" => /\ inbox = <<>> /\ pending = None /\ nextId = 1 /\ lastId = None
                    /\ account = None /\ vaultOp = None /\ snaps = <<>> /\ secret = None
                    /\ phase = "signedOut"
  /\ shell = "off" <=> up = "down"
  /\ phase = "signedIn" /\ up = "listening" => account # None /\ pending = None

QueuesTyped ==
  /\ snaps \in Seq(Snapshots)
  /\ inbox \in Seq(Events)
  /\ vaultOp = None \/ vaultOp \in [op : {"store", "delete"}, id : Nat,
                                    secret : Secrets \cup {None}]

Flow == RequestsFlow /\ AnswersFlow /\ VaultTruthful /\ RestoredFirst

VaultInv == Inv /\ TypeOK /\ QueuesTyped /\ Untried /\ (up # "stopped" => Flow)

-----------------------------------------------------------------------------
\* What a queue holds after a value was put at its end.
LEMMA AppendFacts ==
  ASSUME NEW S, NEW q \in Seq(S), NEW x \in S
  PROVE  /\ Append(q, x) \in Seq(S) /\ q \o <<x>> = Append(q, x)
         /\ Len(q) \in Nat /\ DOMAIN q = 1..Len(q)
         /\ DOMAIN Append(q, x) = 1..(Len(q) + 1)
         /\ Append(q, x)[Len(q) + 1] = x
         /\ \A k \in 1..Len(q) : Append(q, x)[k] = q[k]
OBVIOUS

\* What it holds after its first value was taken.
LEMMA TailFacts ==
  ASSUME NEW S, NEW q \in Seq(S), q # <<>>
  PROVE  /\ Tail(q) \in Seq(S) /\ Head(q) = q[1] /\ q[1] \in S
         /\ Len(q) \in Nat /\ DOMAIN q = 1..Len(q) /\ 1 \in 1..Len(q)
         /\ DOMAIN Tail(q) = 1..(Len(q) - 1)
         /\ \A k \in 1..(Len(q) - 1) : k + 1 \in 1..Len(q) /\ Tail(q)[k] = q[k + 1]
OBVIOUS

\* The values that are put in the queues are of their types.
LEMMA QueueValues ==
  /\ \A s \in Secrets, p \in BOOLEAN :
       /\ Login(s, p) \in Events /\ Login(s, p).type = "login" /\ Login(s, p).persist = p
  /\ \A id \in Nat, ok \in BOOLEAN :
       /\ Result(id, ok) \in Events /\ Result(id, ok).type = "result"
       /\ Result(id, ok).id = id /\ Result(id, ok).ok = ok
  /\ \A e \in {Logout, LoadFailed, QueryClosed, Stop} :
       e \in Events /\ e.type \notin {"result", "login"}
  /\ \A ph \in Phases, r \in Request \cup {None} :
       /\ Snapshot(ph, r) \in Snapshots /\ Snapshot(ph, r).request = r
       /\ Snapshot(ph, r).phase = ph
  /\ Starting \in Snapshots /\ Starting.request = None /\ Stopped \in Snapshots
BY DEF Login, Result, Logout, LoadFailed, QueryClosed, Stop, Snapshot, Starting, Stopped,
       Events, Snapshots, Phases

\* An event other than a result or a restored login, at the end of the inbox.
LEMMA InboxGrows ==
  ASSUME VaultInv, Flow, NEW e \in Events, e.type # "result",
         e.type = "login" => e.persist,
         inbox' = inbox \/ inbox' = Append(inbox, e),
         UNCHANGED <<pending, nextId, lastId, vaultOp, vault, account>>,
         vaultOp # None => shell' = "loop"
  PROVE  AnswersFlow' /\ VaultTruthful' /\ RestoredFirst'
<1>1. CASE inbox' = inbox
  BY <1>1 DEF Flow, AnswersFlow, VaultTruthful, RestoredFirst, IsResult, Done
<1>2. CASE inbox' = Append(inbox, e)
  <2>1. /\ Len(inbox) \in Nat /\ DOMAIN inbox = 1..Len(inbox)
        /\ DOMAIN inbox' = 1..(Len(inbox) + 1)
        /\ inbox'[Len(inbox) + 1] = e
        /\ \A k \in 1..Len(inbox) : inbox'[k] = inbox[k]
    BY <1>2, AppendFacts DEF VaultInv, QueuesTyped
  <2>2. \A k \in DOMAIN inbox' :
          /\ IsResult(k)' => k \in DOMAIN inbox /\ IsResult(k)
          /\ k \in DOMAIN inbox => inbox'[k] = inbox[k]
          /\ k \notin DOMAIN inbox => inbox'[k] = e
    BY <2>1 DEF IsResult
  <2>3. \A k \in DOMAIN inbox : k \in DOMAIN inbox' /\ (IsResult(k)' <=> IsResult(k))
    BY <2>1 DEF IsResult
  <2>4. AnswersFlow'
    BY <2>2 DEF Flow, AnswersFlow, Done
  <2>5. VaultTruthful'
    BY <2>2, <2>3 DEF Flow, VaultTruthful
  <2>6. RestoredFirst'
    BY <2>2 DEF Flow, RestoredFirst
  <2> QED
    BY <2>4, <2>5, <2>6
<1> QED
  BY <1>1, <1>2

\* An event that is not a result leaves the inbox.
LEMMA InboxShrinks ==
  ASSUME VaultInv, Flow, inbox # <<>>, Head(inbox).type # "result", inbox' = Tail(inbox),
         UNCHANGED <<pending, nextId, lastId, vaultOp, vault, account, shell>>
  PROVE  AnswersFlow' /\ VaultTruthful' /\ RestoredFirst'
<1>1. /\ Head(inbox) = inbox[1] /\ Len(inbox) \in Nat /\ DOMAIN inbox = 1..Len(inbox)
      /\ DOMAIN inbox' = 1..(Len(inbox) - 1)
      /\ \A k \in 1..(Len(inbox) - 1) : k + 1 \in 1..Len(inbox) /\ inbox'[k] = inbox[k + 1]
  BY TailFacts DEF VaultInv, QueuesTyped
<1>2. \A k \in DOMAIN inbox' : /\ k \in Nat /\ k + 1 \in DOMAIN inbox /\ k + 1 # 1
                              /\ inbox'[k] = inbox[k + 1]
                              /\ (IsResult(k)' <=> IsResult(k + 1))
  BY <1>1 DEF IsResult
<1>3. \A k \in DOMAIN inbox : IsResult(k) => /\ k - 1 \in DOMAIN inbox' /\ k = (k - 1) + 1
                                            /\ IsResult(k - 1)' /\ inbox'[k - 1] = inbox[k]
  BY <1>1 DEF IsResult
<1>4. AnswersFlow'
  BY <1>2 DEF Flow, AnswersFlow, Done
<1>5. VaultTruthful'
  BY <1>2, <1>3 DEF Flow, VaultTruthful
<1>6. RestoredFirst'
  BY <1>2 DEF Flow, RestoredFirst
<1> QED
  BY <1>4, <1>5, <1>6

\* A snapshot of the identity as it is, at the end of the snapshots.
LEMMA SnapshotsGrow ==
  ASSUME VaultInv, Flow, NEW x \in Snapshots, x.request \in {None, pending},
         snaps' = snaps \/ snaps' = snaps \o <<x>>,
         UNCHANGED <<pending, nextId, lastId>>
  PROVE  RequestsFlow'
<1>1. CASE snaps' = snaps
  BY <1>1 DEF Flow, RequestsFlow, Done
<1>2. CASE snaps' = snaps \o <<x>>
  <2>1. /\ Len(snaps) \in Nat /\ DOMAIN snaps = 1..Len(snaps)
        /\ DOMAIN snaps' = 1..(Len(snaps) + 1)
        /\ snaps'[Len(snaps) + 1] = x
        /\ \A k \in 1..Len(snaps) : snaps'[k] = snaps[k]
    BY <1>2, AppendFacts DEF VaultInv, QueuesTyped
  <2>2. pending # None => pending.id = nextId - 1
    BY DEF Flow, RequestsFlow
  <2>3. \A i \in DOMAIN snaps' : snaps'[i].request # None =>
          \/ snaps'[i].request.id = Done
          \/ pending # None /\ snaps'[i].request = pending
    BY <2>1 DEF Flow, RequestsFlow
  <2>4. \A i, j \in DOMAIN snaps' :
          /\ i < j /\ snaps'[i].request # None /\ snaps'[j].request # None
          /\ snaps'[i].request.id = nextId - 1
          => snaps'[j].request.id = nextId - 1
    BY <2>1, <2>2 DEF Flow, RequestsFlow
  <2> QED
    BY <2>3, <2>4 DEF Flow, RequestsFlow, Done
<1> QED
  BY <1>1, <1>2

\* What Send and Emit may do.
LEMMA QueueMoves ==
  /\ \A e : Send(e) => inbox' = inbox \/ inbox' = Append(inbox, e)
  /\ \A x : Emit(<<x>>) => snaps' = snaps \/ snaps' = snaps \o <<x>>
BY DEF Send, Emit

\* Every step keeps the queues well typed.
LEMMA QueuesStep ==
  ASSUME VaultInv, [Next]_vars, phase' \in Phases, pending' \in Request \cup {None}
  PROVE  QueuesTyped'
<1> USE QueueValues DEF VaultInv, TypeOK, QueuesTyped
<1>1. \A e \in Events : Send(e) => inbox' \in Seq(Events)
  BY QueueMoves, AppendFacts
<1>2. \A x \in Snapshots : Emit(<<x>>) => snaps' \in Seq(Snapshots)
  <2> SUFFICES ASSUME NEW x \in Snapshots, Emit(<<x>>) PROVE snaps' \in Seq(Snapshots)
    OBVIOUS
  <2>1. snaps \o <<x>> \in Seq(Snapshots)
    BY AppendFacts
  <2> QED
    BY <2>1 DEF Emit
<1>3. \A x, y \in Snapshots : Emit(<<x, y>>) => snaps' \in Seq(Snapshots)
  BY DEF Emit
<1>4. inbox # <<>> => Tail(inbox) \in Seq(Events)
  BY TailFacts
<1>5. snaps # <<>> => Tail(snaps) \in Seq(Snapshots)
  BY TailFacts
<1>6. Handled /\ inbox # <<>> => QueuesTyped'
  BY <1>2, <1>4 DEF Handled, storeVars
<1>7. CASE KernelReady \/ KernelFrame
  BY <1>7, <1>2 DEF KernelReady, KernelFrame, storeVars
<1>8. CASE KernelRefused
  BY <1>8, <1>3 DEF KernelRefused, storeVars
<1>9. CASE KernelLogin \/ KernelLogout \/ KernelLoadFailed \/ KernelResult
  BY <1>9, <1>6 DEF KernelLogin, KernelLogout, KernelLoadFailed, KernelResult, Received
<1>10. CASE KernelStop
  BY <1>10 DEF KernelStop, Shutdown, storeVars
<1>11. CASE KernelQueryClosed
  <2>1. CASE inbox' = Tail(inbox) /\ UNCHANGED <<snaps, storeVars>>
    BY <1>11, <1>4, <2>1 DEF KernelQueryClosed, Received, storeVars
  <2>2. CASE Shutdown /\ Emit(<<Snapshot(phase, pending), Stopped>>)
    BY <1>3, <2>2 DEF Shutdown, storeVars
  <2> QED
    BY <1>11, <2>1, <2>2 DEF KernelQueryClosed
<1>12. CASE TakeSnapshot
  <2>1. Head(snaps) \in Snapshots /\ snaps' \in Seq(Snapshots)
    BY <1>12, <1>5, TailFacts DEF TakeSnapshot
  <2>2. CASE IsNew(Head(snaps).request) /\ Execute(Head(snaps).request)
    <3>1. Head(snaps).request.id \in Nat
      BY <2>1, <2>2 DEF IsNew, Snapshots, Request
    <3>2. inbox' \in Seq(Events)
      BY <1>1, <2>2, <3>1 DEF Execute, ReportUnavailable
    <3>3. vaultOp' = None \/ vaultOp' \in [op : {"store", "delete"}, id : Nat,
                                           secret : Secrets \cup {None}]
      BY <1>12, <2>2, <3>1 DEF Execute, TakeSnapshot
    <3> QED
      BY <2>1, <3>2, <3>3
  <2> QED
    BY <1>12, <2>1, <2>2 DEF TakeSnapshot
<1>13. CASE TakeLast
  BY <1>13 DEF TakeLast
<1>14. ASSUME NEW ok \in BOOLEAN, VaultDone(ok) PROVE QueuesTyped'
  <2>1. vaultOp.id \in Nat
    BY <1>14 DEF VaultDone
  <2>2. inbox' \in Seq(Events)
    BY <1>1, <1>14, <2>1 DEF VaultDone
  <2> QED
    BY <1>14, <2>2 DEF VaultDone
<1>15. CASE Join \/ Kill
  <2>1. inbox' = <<>> /\ snaps' = <<>> /\ vaultOp' = None
    BY <1>15 DEF Join, Kill, Off
  <2>2. inbox' \in Seq(Events) /\ snaps' \in Seq(Snapshots)
    BY <2>1
  <2> QED
    BY <2>1, <2>2
<1>16. CASE Launch
  <2>1. vault # None => vault \in Secrets
    OBVIOUS
  <2>2. inbox' = <<>> \/ \E e \in Events : inbox' = <<e>>
    BY <1>16, <2>1 DEF Launch
  <2>3. inbox' \in Seq(Events)
    <3>1. CASE inbox' = <<>>
      BY <3>1
    <3>2. ASSUME NEW e \in Events, inbox' = <<e>> PROVE inbox' \in Seq(Events)
      BY <3>2
    <3> QED
      BY <2>2, <3>1, <3>2, Zenon
  <2>4. snaps' \in Seq(Snapshots)
    BY <1>16 DEF Launch
  <2> QED
    BY <1>16, <2>3, <2>4 DEF Launch, storeVars
<1>17. CASE Cancel
  BY <1>1, <1>17 DEF Cancel, storeVars
<1>18. ASSUME NEW s \in Secrets, TapLogin(s) PROVE QueuesTyped'
  BY <1>1, <1>18 DEF TapLogin
<1>19. CASE TapLogout \/ ObservationEnds
  BY <1>1, <1>19 DEF TapLogout, ObservationEnds, storeVars
<1>20. CASE UNCHANGED vars
  BY <1>20 DEF vars, storeVars
<1> QED
  BY <1>7, <1>8, <1>9, <1>10, <1>11, <1>12, <1>13, <1>14, <1>15, <1>16, <1>17, <1>18, <1>19,
     <1>20
  DEF Next, KernelStep, StoreStep, User

\* Every step keeps the kernel, the store and the Keychain well typed.
LEMMA TypeStep ==
  ASSUME VaultInv, [Next]_vars
  PROVE  TypeOK' /\ phase' \in Phases /\ pending' \in Request \cup {None}
<1> USE SecretsAssumption DEF VaultInv, TypeOK, Inv, Phases
<1>1. /\ phase' \in Phases /\ account' \in Keys \cup {None} /\ active' \in Keys \cup {None}
      /\ registered' \in SUBSET Keys /\ pending' \in Request \cup {None}
      /\ unremoved' \in SUBSET Keys /\ undetached' \in BOOLEAN
      /\ nextId' \in Nat \ {0}
  <2>0. /\ \A keys \in SUBSET Keys : Remove(keys) =>
             registered' \in SUBSET Keys /\ unremoved' \in SUBSET Keys
        /\ \A others \in SUBSET Keys : Detach(others) =>
             /\ registered' \in SUBSET Keys /\ unremoved' \in SUBSET Keys
             /\ account' = None /\ active' \in Keys \cup {None} /\ undetached' \in BOOLEAN
    <3>1. \A keys \in SUBSET Keys : Remove(keys) =>
             registered' \in SUBSET Keys /\ unremoved' \in SUBSET Keys
      BY DEF Remove
    <3>2. \A others \in SUBSET Keys : ({account} \ {None}) \cup others \in SUBSET Keys
      OBVIOUS
    <3> QED
      BY <3>1, <3>2 DEF Detach, Deactivate
  <2>1. \A key \in Keys : Activate(key) =>
          /\ phase' \in Phases /\ account' \in Keys \cup {None} /\ active' \in Keys \cup {None}
          /\ registered' \in SUBSET Keys /\ unremoved' \in SUBSET Keys
          /\ undetached' \in BOOLEAN
    BY <2>0 DEF Activate
  <2>2. CASE UNCHANGED kernelVars
    BY <2>2 DEF kernelVars, engineVars
  <2>3. CASE KernelLogin
    BY <2>1, <2>2, <2>3 DEF KernelLogin, Request, engineVars
  <2>4. CASE KernelLogout
    BY <2>2, <2>4 DEF KernelLogout, Request, engineVars
  <2>5. CASE KernelLoadFailed
    BY <2>5 DEF KernelLoadFailed, engineVars
  <2>6. CASE KernelResult
    <3>1. Awaited(Head(inbox).id) => pending.key \in Keys
      BY DEF Awaited, Request
    <3> QED
      BY <2>0, <2>1, <2>2, <2>6, <3>1 DEF KernelResult, Unregister, engineVars
  <2>7. CASE Shutdown
    <3>1. (IF pending # None /\ pending.op = "store" THEN {pending.key} ELSE {})
            \in SUBSET Keys
      BY DEF Request
    <3> QED
      BY <2>0, <2>7, <3>1 DEF Shutdown
  <2>8. CASE Off
    <3>1. undetached' \in BOOLEAN
      BY <2>8, Zenon DEF Off
    <3> QED
      BY <2>8, <3>1 DEF Off
  <2> QED
    BY <2>2, <2>3, <2>4, <2>5, <2>6, <2>7, <2>8
    DEF Next, KernelStep, StoreStep, User, KernelReady, KernelRefused, KernelStop,
        KernelQueryClosed, TakeSnapshot, TakeLast, VaultDone, Join, Launch, Cancel, Kill,
        TapLogin, TapLogout, KernelFrame, ObservationEnds, vars
<1>2. QueuesTyped'
  BY <1>1, QueuesStep
<1>3. ASSUME NEW i \in DOMAIN snaps' PROVE snaps'[i].phase \in Phases
  <2>1. snaps' \in Seq(Snapshots)
    BY <1>2 DEF QueuesTyped
  <2>2. snaps'[i] \in Snapshots
    BY <2>1
  <2> QED
    BY <2>2 DEF Snapshots
<1>4. /\ up' \in {"down", "starting", "listening", "stopped"}
      /\ shell' \in {"off", "loop", "closing"}
  BY DEF Next, KernelStep, StoreStep, User, KernelReady, KernelRefused, KernelStop,
         KernelLogin, KernelLogout, KernelLoadFailed, KernelResult, Handled, Shutdown, Off,
         KernelQueryClosed, TakeSnapshot, TakeLast, VaultDone, Join, Launch, Cancel, Kill,
         TapLogin, TapLogout, KernelFrame, ObservationEnds, vars
<1>5. /\ shown' \in Phases /\ secret' \in Secrets \cup {None} /\ vault' \in Secrets \cup {None}
      /\ lastId' \in Nat \cup {None}
      /\ vaultOp' = None \/ (vaultOp'.op = "store" => vaultOp'.secret \in Secrets)
  <2>1. CASE UNCHANGED <<storeVars, vault>>
    BY <2>1 DEF storeVars
  <2>2. CASE TakeSnapshot
    <3>1. Head(snaps) \in Snapshots
      BY <2>2, TailFacts DEF TakeSnapshot, QueuesTyped
    <3>2. Head(snaps).phase \in Phases
      BY <3>1 DEF Snapshots
    <3>3. CASE IsNew(Head(snaps).request) /\ Execute(Head(snaps).request)
      <4>1. Head(snaps).request.id \in Nat
        BY <3>1, <3>3 DEF IsNew, Snapshots, Request
      <4> QED
        BY <2>2, <3>2, <3>3, <4>1 DEF TakeSnapshot, Execute
    <3> QED
      BY <2>2, <3>2, <3>3 DEF TakeSnapshot
  <2>3. CASE TakeLast
    BY <2>3 DEF TakeLast
  <2>4. ASSUME NEW ok \in BOOLEAN, VaultDone(ok)
        PROVE  /\ shown' = shown /\ secret' = secret /\ lastId' = lastId /\ vaultOp' = None
               /\ vault' \in Secrets \cup {None}
    BY <2>4 DEF VaultDone, Stored
  <2>5. CASE Off
    BY <2>5 DEF Off
  <2>6. ASSUME NEW s \in Secrets, TapLogin(s)
        PROVE  secret' \in Secrets /\ UNCHANGED <<shown, lastId, vaultOp, vault>>
    BY <2>6 DEF TapLogin
  <2> QED
    BY <2>1, <2>2, <2>3, <2>4, <2>5, <2>6
    DEF Next, KernelStep, StoreStep, User, KernelReady, KernelRefused, KernelStop,
        KernelLogin, KernelLogout, KernelLoadFailed, KernelResult, Handled, Shutdown,
        KernelQueryClosed, Join, Launch, Cancel, Kill, TapLogout, KernelFrame,
        ObservationEnds, vars
<1> QED
  BY <1>1, <1>3, <1>4, <1>5

\* A kernel that has not begun stays untouched, and is signed in only with an
\* account and without a request.
LEMMA UntriedStep ==
  ASSUME VaultInv, [Next]_vars
  PROVE  Untried'
<1> USE SecretsAssumption DEF VaultInv, Untried
<1>1. CASE KernelReady \/ KernelRefused \/ KernelFrame \/ ObservationEnds
  BY <1>1 DEF KernelReady, KernelRefused, KernelFrame, ObservationEnds, kernelVars, storeVars
<1>2. CASE KernelLogin
  <2>1. up = "listening" /\ up' = up /\ shell' = shell
    BY <1>2 DEF KernelLogin, Received, Handled
  <2>2. phase' = "signedIn" => account' # None /\ pending' = None
    BY <1>2, <2>1 DEF KernelLogin, kernelVars, MayLogin, Activate
  <2> QED
    BY <2>1, <2>2
<1>3. CASE KernelLogout \/ KernelLoadFailed
  BY <1>3 DEF KernelLogout, KernelLoadFailed, Received, Handled, kernelVars
<1>4. CASE KernelResult
  <2>1. up = "listening" /\ up' = up /\ shell' = shell
    BY <1>4 DEF KernelResult, Received, Handled
  <2>2. phase' = "signedIn" => account' # None /\ pending' = None
    BY <1>4, <2>1 DEF KernelResult, kernelVars, Awaited, Activate, Inv, PendingInv
  <2> QED
    BY <2>1, <2>2
<1>5. CASE KernelStop \/ KernelQueryClosed
  BY <1>5 DEF KernelStop, KernelQueryClosed, Shutdown, Received, kernelVars
<1>6. CASE TakeSnapshot \/ TakeLast \/ Cancel \/ TapLogout
  BY <1>6 DEF TakeSnapshot, TakeLast, Cancel, TapLogout, kernelVars
<1>7. ASSUME NEW ok \in BOOLEAN, VaultDone(ok) PROVE Untried'
  BY <1>7 DEF VaultDone, kernelVars
<1>8. ASSUME NEW s \in Secrets, TapLogin(s) PROVE Untried'
  BY <1>8 DEF TapLogin, kernelVars
<1>9. CASE Join \/ Kill
  BY <1>9 DEF Join, Kill, Off
<1>10. CASE Launch
  BY <1>10 DEF Launch, kernelVars
<1>11. CASE UNCHANGED vars
  BY <1>11 DEF vars, kernelVars, storeVars
<1> QED
  BY <1>1, <1>2, <1>3, <1>4, <1>5, <1>6, <1>7, <1>8, <1>9, <1>10, <1>11
  DEF Next, KernelStep, StoreStep, User

\* The kernel makes a request: no other is under way.
LEMMA RequestFlow ==
  ASSUME VaultInv, Flow, NEW op \in {"store", "delete"}, NEW key \in Keys,
         pending = None, pending' = [op |-> op, id |-> nextId, key |-> key],
         op = "delete" => account # None, account' = account,
         nextId' = nextId + 1, inbox # <<>>, inbox' = Tail(inbox),
         NEW x \in Snapshots, x.request = pending', snaps' = snaps \/ snaps' = snaps \o <<x>>,
         UNCHANGED <<shell, lastId, vaultOp, vault>>
  PROVE  Flow'
<1>1. nextId \in Nat \ {0} /\ Done = nextId - 1 /\ Done' = Done
  BY DEF VaultInv, TypeOK, Flow, RequestsFlow, Done
<1>2. pending' \in Request /\ pending' # None /\ pending'.id = nextId /\ pending'.op = op
  BY <1>1, NoneAssumption DEF Request
<1>3. \A i \in DOMAIN snaps : snaps[i].request # None => snaps[i].request.id = nextId - 1
  BY <1>1 DEF Flow, RequestsFlow
<1>4. RequestsFlow'
  <2>1. /\ pending'.id = nextId' - 1 /\ Done' \in {nextId' - 2, nextId' - 1}
    BY <1>1, <1>2
  <2>2. CASE snaps' = snaps
    BY <1>1, <1>2, <1>3, <2>1, <2>2 DEF RequestsFlow
  <2>3. CASE snaps' = snaps \o <<x>>
    <3>1. /\ Len(snaps) \in Nat /\ DOMAIN snaps = 1..Len(snaps)
          /\ DOMAIN snaps' = 1..(Len(snaps) + 1)
          /\ snaps'[Len(snaps) + 1] = x
          /\ \A k \in 1..Len(snaps) : snaps'[k] = snaps[k]
      BY <2>3, AppendFacts DEF VaultInv, QueuesTyped
    <3>2. \A i \in DOMAIN snaps' : snaps'[i].request # None =>
            \/ snaps'[i].request.id = Done'
            \/ snaps'[i].request = pending'
      BY <1>1, <1>3, <3>1
    <3>3. \A i, j \in DOMAIN snaps' :
            /\ i < j /\ snaps'[i].request # None /\ snaps'[j].request # None
            /\ snaps'[i].request.id = nextId' - 1
            => snaps'[j].request.id = nextId' - 1
      BY <1>1, <1>3, <3>1
    <3> QED
      BY <1>2, <2>1, <3>2, <3>3 DEF RequestsFlow
  <2> QED
    BY <2>2, <2>3
<1>5. vaultOp = None /\ (\A k \in DOMAIN inbox : ~IsResult(k))
  BY DEF Flow, AnswersFlow
<1>6. /\ Len(inbox) \in Nat /\ DOMAIN inbox = 1..Len(inbox)
      /\ DOMAIN inbox' = 1..(Len(inbox) - 1)
      /\ \A k \in 1..(Len(inbox) - 1) : k + 1 \in 1..Len(inbox) /\ inbox'[k] = inbox[k + 1]
  BY TailFacts DEF VaultInv, QueuesTyped
<1>7. \A k \in DOMAIN inbox' : ~IsResult(k)'
  BY <1>5, <1>6 DEF IsResult
<1>8. AnswersFlow'
  BY <1>5, <1>7 DEF AnswersFlow
<1>9. VaultTruthful'
  BY <1>2, <1>7 DEF Flow, VaultTruthful
<1>10. RestoredFirst'
  BY <1>6 DEF Flow, RestoredFirst
<1> QED
  BY <1>4, <1>8, <1>9, <1>10 DEF Flow

\* The kernel takes a log in.
LEMMA LoginFlow ==
  ASSUME VaultInv, Flow, KernelLogin, TypeOK', QueuesTyped'
  PROVE  Flow'
<1> DEFINE s == Head(inbox).secret
           x == Snapshot(phase', pending')
<1>1. /\ inbox # <<>> /\ Head(inbox).type = "login" /\ inbox' = Tail(inbox)
      /\ Emit(<<x>>) /\ UNCHANGED <<shell, lastId, vaultOp, vault>>
  BY DEF KernelLogin, Received, Handled, storeVars
<1>2. x \in Snapshots /\ x.request = pending' /\ (snaps' = snaps \/ snaps' = snaps \o <<x>>)
  BY <1>1, QueueValues, QueueMoves DEF TypeOK
<1>3. CASE UNCHANGED <<pending, nextId, account>>
  BY <1>1, <1>2, <1>3, InboxShrinks, SnapshotsGrow DEF Flow
<1>4. CASE MayLogin /\ ~Head(inbox).persist /\ UNCHANGED <<pending, nextId>>
  <2>1. RequestsFlow'
    BY <1>1, <1>2, <1>4, SnapshotsGrow
  <2>2. /\ Head(inbox) = inbox[1] /\ Len(inbox) \in Nat /\ DOMAIN inbox = 1..Len(inbox)
        /\ 1 \in 1..Len(inbox) /\ DOMAIN inbox' = 1..(Len(inbox) - 1)
        /\ \A k \in 1..(Len(inbox) - 1) :
             k + 1 \in 1..Len(inbox) /\ inbox'[k] = inbox[k + 1]
    BY <1>1, TailFacts DEF VaultInv, QueuesTyped
  <2>3. vault # None /\ pending = None
    BY <1>1, <1>4, <2>2 DEF Flow, RestoredFirst, MayLogin
  <2>4. \A k \in DOMAIN inbox : ~IsResult(k)
    BY <2>3 DEF Flow, AnswersFlow
  <2>5. \A k \in DOMAIN inbox' : ~IsResult(k)'
    BY <2>2, <2>4 DEF IsResult
  <2>6. AnswersFlow' /\ VaultTruthful'
    BY <1>1, <1>4, <2>3, <2>5 DEF Flow, AnswersFlow, VaultTruthful
  <2>7. RestoredFirst'
    BY <2>2 DEF Flow, RestoredFirst
  <2> QED
    BY <2>1, <2>6, <2>7 DEF Flow
<1>5. CASE /\ MayLogin /\ Head(inbox).persist /\ s \in Keys
           /\ pending' = [op |-> "store", id |-> nextId, key |-> s]
           /\ nextId' = nextId + 1 /\ UNCHANGED account
  BY <1>1, <1>2, <1>5, RequestFlow DEF MayLogin
<1> QED
  BY <1>3, <1>4, <1>5 DEF KernelLogin, kernelVars

\* The kernel takes a log out.
LEMMA LogoutFlow ==
  ASSUME VaultInv, Flow, KernelLogout, TypeOK', QueuesTyped'
  PROVE  Flow'
<1> DEFINE x == Snapshot(phase', pending')
<1>1. /\ inbox # <<>> /\ Head(inbox).type = "logout" /\ inbox' = Tail(inbox)
      /\ Emit(<<x>>) /\ UNCHANGED <<shell, lastId, vaultOp, vault>>
  BY DEF KernelLogout, Received, Handled, storeVars
<1>2. x \in Snapshots /\ x.request = pending' /\ (snaps' = snaps \/ snaps' = snaps \o <<x>>)
  BY <1>1, QueueValues, QueueMoves DEF TypeOK
<1>3. CASE UNCHANGED <<pending, nextId, account>>
  BY <1>1, <1>2, <1>3, InboxShrinks, SnapshotsGrow DEF Flow
<1>4. CASE /\ pending = None /\ account # None
           /\ pending' = [op |-> "delete", id |-> nextId, key |-> account]
           /\ nextId' = nextId + 1 /\ UNCHANGED account
  <2>1. account \in Keys
    BY <1>4 DEF VaultInv, TypeOK
  <2> QED
    BY <1>1, <1>2, <1>4, <2>1, RequestFlow
<1> QED
  BY <1>3, <1>4 DEF KernelLogout, kernelVars

\* The kernel takes a result: it is the one of the pending request.
LEMMA ResultFlow ==
  ASSUME VaultInv, Flow, KernelResult, TypeOK', QueuesTyped'
  PROVE  /\ Flow'
         /\ account # None /\ account' = None => vault = None
<1> DEFINE x == Snapshot(phase', pending')
           ok == Head(inbox).ok
<1>1. /\ inbox # <<>> /\ Head(inbox).type = "result" /\ inbox' = Tail(inbox)
      /\ Emit(<<x>>) /\ UNCHANGED <<shell, lastId, vaultOp, vault>>
  BY DEF KernelResult, Received, Handled, storeVars
<1>2. x \in Snapshots /\ x.request = pending' /\ (snaps' = snaps \/ snaps' = snaps \o <<x>>)
  BY <1>1, QueueValues, QueueMoves DEF TypeOK
<1>3. /\ Head(inbox) = inbox[1] /\ Len(inbox) \in Nat /\ DOMAIN inbox = 1..Len(inbox)
      /\ 1 \in 1..Len(inbox) /\ DOMAIN inbox' = 1..(Len(inbox) - 1)
      /\ \A k \in 1..(Len(inbox) - 1) : k + 1 \in 1..Len(inbox) /\ inbox'[k] = inbox[k + 1]
  BY <1>1, TailFacts DEF VaultInv, QueuesTyped
<1>4. IsResult(1) /\ 1 \in DOMAIN inbox
  BY <1>1, <1>3 DEF IsResult
<1>5. /\ pending # None /\ Done = pending.id /\ Head(inbox).id = pending.id
      /\ vaultOp = None /\ \A k \in DOMAIN inbox : IsResult(k) => k = 1
  BY <1>3, <1>4 DEF Flow, AnswersFlow
<1>6. \A k \in DOMAIN inbox' : ~IsResult(k)'
  BY <1>3, <1>5 DEF IsResult
<1>7. /\ pending' = None /\ nextId' = nextId
      /\ \/ pending.op = "store" /\ ok /\ Activate(pending.key)
         \/ pending.op = "store" /\ ~ok /\ UNCHANGED account
         \/ pending.op = "delete" /\ ok /\ account' = None
         \/ pending.op = "delete" /\ ~ok /\ UNCHANGED account
  BY <1>5 DEF KernelResult, Awaited, Detach
<1>8. pending.op = "store" => account = None
  BY <1>5 DEF VaultInv, Inv, PendingInv
<1>9. /\ ok => (vault = None <=> pending.op = "delete")
      /\ pending.op = "delete" /\ ~ok => vault # None
  BY <1>3, <1>4, <1>5 DEF Flow, VaultTruthful
<1>10. pending.op \in {"store", "delete"}
  BY <1>5 DEF VaultInv, Inv, PendingInv
<1>11. account' # None => vault # None
  BY <1>7, <1>8, <1>9
<1>12. account # None /\ account' = None => vault = None
  BY <1>7, <1>8, <1>9
<1>13. Done = nextId - 1 /\ Done' = Done
  BY <1>1, <1>5 DEF Flow, RequestsFlow, Done
<1>14. \A i \in DOMAIN snaps : snaps[i].request # None => snaps[i].request.id = Done
  BY <1>5 DEF Flow, RequestsFlow
<1>15. RequestsFlow'
  <2>1. CASE snaps' = snaps
    BY <1>7, <1>13, <1>14, <2>1 DEF RequestsFlow
  <2>2. CASE snaps' = snaps \o <<x>>
    <3>1. /\ Len(snaps) \in Nat /\ DOMAIN snaps = 1..Len(snaps)
          /\ DOMAIN snaps' = 1..(Len(snaps) + 1)
          /\ snaps'[Len(snaps) + 1] = x
          /\ \A k \in 1..Len(snaps) : snaps'[k] = snaps[k]
      BY <1>2, <2>2, AppendFacts DEF VaultInv, QueuesTyped
    <3>2. \A i \in DOMAIN snaps' : snaps'[i].request # None => snaps'[i].request.id = Done
      BY <1>2, <1>7, <1>14, <3>1
    <3> QED
      BY <1>7, <1>13, <3>2 DEF RequestsFlow
  <2> QED
    BY <1>2, <2>1, <2>2
<1>16. AnswersFlow'
  BY <1>1, <1>5, <1>6 DEF AnswersFlow
<1>17. VaultTruthful'
  BY <1>1, <1>6, <1>7, <1>11 DEF VaultTruthful
<1>18. RestoredFirst'
  BY <1>3 DEF Flow, RestoredFirst
<1> QED
  BY <1>12, <1>15, <1>16, <1>17, <1>18 DEF Flow

\* The store executes a request that is new to it: the pending one, and the
\* snapshots left ask for nothing else.
LEMMA ExecuteFlow ==
  ASSUME VaultInv, Flow, up # "stopped", TakeSnapshot, TypeOK', QueuesTyped',
         IsNew(Head(snaps).request), Execute(Head(snaps).request)
  PROVE  Flow'
<1> DEFINE r == Head(snaps).request
<1>1. /\ snaps # <<>> /\ snaps' = Tail(snaps) /\ shell = "loop" /\ vaultOp = None
      /\ UNCHANGED <<pending, nextId, account, vault, shell>>
  BY DEF TakeSnapshot, kernelVars
<1>2. /\ Head(snaps) = snaps[1] /\ snaps[1] \in Snapshots
      /\ Len(snaps) \in Nat /\ DOMAIN snaps = 1..Len(snaps)
      /\ 1 \in 1..Len(snaps) /\ DOMAIN snaps' = 1..(Len(snaps) - 1)
      /\ \A k \in 1..(Len(snaps) - 1) : k + 1 \in 1..Len(snaps) /\ snaps'[k] = snaps[k + 1]
  BY <1>1, TailFacts DEF VaultInv, QueuesTyped
<1>3. r # None /\ r \in Request /\ r.id \in Nat \ {0} /\ r.id # lastId /\ r.op \in {"store", "delete"}
  BY <1>2 DEF IsNew, Snapshots, Request
<1>4. r.id # Done
  BY <1>3 DEF Done
<1>5. pending # None /\ r = pending
  BY <1>2, <1>3, <1>4 DEF Flow, RequestsFlow
<1>6. r.id = nextId - 1 /\ nextId \in Nat
  BY <1>5 DEF Flow, RequestsFlow, VaultInv, TypeOK
<1>7. lastId' = r.id /\ Done' = r.id
  BY <1>3, NoneAssumption DEF Execute, Done
<1>8. \A i \in DOMAIN snaps' : snaps'[i].request # None => snaps'[i].request.id = nextId - 1
  <2>1. \A j \in DOMAIN snaps : 1 < j /\ snaps[j].request # None => snaps[j].request.id = nextId - 1
    BY <1>2, <1>3, <1>6 DEF Flow, RequestsFlow
  <2>2. \A i \in DOMAIN snaps' : i + 1 \in DOMAIN snaps /\ 1 < i + 1 /\ snaps'[i] = snaps[i + 1]
    BY <1>2
  <2> QED
    BY <2>1, <2>2
<1>9. RequestsFlow'
  BY <1>1, <1>5, <1>6, <1>7, <1>8 DEF RequestsFlow
<1>10. \A k \in DOMAIN inbox : ~IsResult(k)
  BY <1>4, <1>5 DEF Flow, AnswersFlow
<1>11. CASE r.op = "store" /\ secret = None /\ Send(Result(r.id, FALSE)) /\ UNCHANGED vaultOp
  <2> DEFINE e == Result(r.id, FALSE)
  <2>1. e \in Events /\ e.type = "result" /\ e.id = r.id /\ e.ok = FALSE
    BY <1>3, QueueValues
  <2>2. inbox' = Append(inbox, e)
    BY <1>1, <1>11 DEF Send
  <2> HIDE DEF e
  <2>3. /\ Len(inbox) \in Nat /\ DOMAIN inbox = 1..Len(inbox)
        /\ DOMAIN inbox' = 1..(Len(inbox) + 1)
        /\ inbox'[Len(inbox) + 1] = e
        /\ \A k \in 1..Len(inbox) : inbox'[k] = inbox[k]
    BY <2>1, <2>2, AppendFacts DEF VaultInv, QueuesTyped
  <2>4. \A k \in DOMAIN inbox' : IsResult(k)' => k = Len(inbox) + 1 /\ inbox'[k] = e
    BY <1>10, <2>3 DEF IsResult
  <2>5. AnswersFlow'
    BY <1>1, <1>5, <1>7, <1>11, <2>1, <2>4 DEF AnswersFlow
  <2>6. VaultTruthful'
    BY <1>1, <1>5, <1>11, <2>1, <2>4 DEF Flow, VaultTruthful
  <2>7. RestoredFirst'
    BY <1>1, <2>1, <2>3 DEF Flow, RestoredFirst
  <2> QED
    BY <1>9, <2>5, <2>6, <2>7 DEF Flow
<1>12. CASE /\ vaultOp'.op = r.op /\ vaultOp'.id = r.id /\ UNCHANGED inbox
  <2>1. \A k \in DOMAIN inbox' : ~IsResult(k)'
    BY <1>10, <1>12 DEF IsResult
  <2>2. AnswersFlow'
    BY <1>1, <1>5, <1>7, <1>12, <2>1 DEF AnswersFlow
  <2>3. VaultTruthful'
    BY <1>1, <1>10, <2>1 DEF Flow, VaultTruthful
  <2>4. RestoredFirst'
    BY <1>1, <1>12 DEF Flow, RestoredFirst
  <2> QED
    BY <1>9, <2>2, <2>3, <2>4 DEF Flow
<1>13. CASE r.op = "store" /\ secret # None
  <2>1. vaultOp' = [op |-> "store", id |-> r.id, secret |-> secret] /\ UNCHANGED inbox
    BY <1>13 DEF Execute
  <2> QED
    BY <1>12, <1>13, <2>1
<1>14. CASE r.op = "delete"
  <2>1. vaultOp' = [op |-> "delete", id |-> r.id, secret |-> None] /\ UNCHANGED inbox
    BY <1>14 DEF Execute
  <2> QED
    BY <1>12, <1>14, <2>1
<1>15. CASE r.op = "store" /\ secret = None
  BY <1>11, <1>15 DEF Execute, ReportUnavailable
<1> QED
  BY <1>3, <1>13, <1>14, <1>15

\* A snapshot that asks for nothing new only leaves the queue.
LEMMA TakeFlow ==
  ASSUME VaultInv, Flow, TakeSnapshot, inbox' = inbox, UNCHANGED <<lastId, vaultOp>>
  PROVE  Flow'
<1>1. /\ snaps # <<>> /\ snaps' = Tail(snaps)
      /\ UNCHANGED <<pending, nextId, account, vault, shell>>
  BY DEF TakeSnapshot, kernelVars
<1>2. /\ Len(snaps) \in Nat /\ DOMAIN snaps = 1..Len(snaps)
      /\ DOMAIN snaps' = 1..(Len(snaps) - 1)
      /\ \A k \in 1..(Len(snaps) - 1) : k + 1 \in 1..Len(snaps) /\ snaps'[k] = snaps[k + 1]
  BY <1>1, TailFacts DEF VaultInv, QueuesTyped
<1>3. \A i \in DOMAIN snaps' : snaps'[i].request # None =>
        \/ snaps'[i].request.id = Done
        \/ pending # None /\ snaps'[i].request = pending
  BY <1>2 DEF Flow, RequestsFlow
<1>4. \A i, j \in DOMAIN snaps' :
        /\ i < j /\ snaps'[i].request # None /\ snaps'[j].request # None
        /\ snaps'[i].request.id = nextId - 1
        => snaps'[j].request.id = nextId - 1
  <2>1. \A i, j \in DOMAIN snaps' : i < j =>
          /\ i + 1 \in DOMAIN snaps /\ j + 1 \in DOMAIN snaps /\ i + 1 < j + 1
          /\ snaps'[i] = snaps[i + 1] /\ snaps'[j] = snaps[j + 1]
    BY <1>2
  <2> QED
    BY <2>1 DEF Flow, RequestsFlow
<1>5. RequestsFlow'
  BY <1>1, <1>3, <1>4 DEF Flow, RequestsFlow, Done
<1>6. AnswersFlow' /\ VaultTruthful' /\ RestoredFirst'
  BY <1>1 DEF Flow, AnswersFlow, VaultTruthful, RestoredFirst, IsResult, Done
<1> QED
  BY <1>5, <1>6 DEF Flow

\* A Keychain operation ends: its result tells what the Keychain holds.
LEMMA VaultFlow ==
  ASSUME VaultInv, Flow, up # "stopped", NEW ok \in BOOLEAN, VaultDone(ok)
  PROVE  Flow'
<1> DEFINE e == Result(vaultOp.id, ok)
<1>1. /\ vaultOp # None /\ vaultOp' = None /\ vault' = IF ok THEN Stored ELSE vault
      /\ UNCHANGED <<pending, nextId, account, shell, snaps, lastId>>
  BY DEF VaultDone, kernelVars
<1>2. /\ pending # None /\ Done = pending.id /\ vaultOp.op = pending.op
      /\ vaultOp.id = pending.id /\ shell = "loop"
      /\ \A k \in DOMAIN inbox : ~IsResult(k)
  BY <1>1 DEF Flow, AnswersFlow
<1>3. vaultOp.op \in {"store", "delete"} /\ vaultOp.id \in Nat
  BY <1>1 DEF VaultInv, QueuesTyped
<1>4. e \in Events /\ e.type = "result" /\ e.id = pending.id /\ e.ok = ok
  BY <1>2, <1>3, QueueValues
<1>5. inbox' = Append(inbox, e)
  BY <1>2 DEF VaultDone, Send
<1> HIDE DEF e
<1>6. /\ Len(inbox) \in Nat /\ DOMAIN inbox = 1..Len(inbox)
      /\ DOMAIN inbox' = 1..(Len(inbox) + 1)
      /\ inbox'[Len(inbox) + 1] = e
      /\ \A k \in 1..Len(inbox) : inbox'[k] = inbox[k]
  BY <1>4, <1>5, AppendFacts DEF VaultInv, QueuesTyped
<1>7. \A k \in DOMAIN inbox' : IsResult(k)' => k = Len(inbox) + 1 /\ inbox'[k] = e
  BY <1>2, <1>6 DEF IsResult
<1>8. \E k \in DOMAIN inbox' : IsResult(k)' /\ inbox'[k] = e
  BY <1>4, <1>6 DEF IsResult
<1>9. ok => (vault' = None <=> pending.op = "delete")
  BY <1>1, <1>2, <1>3, SecretsAssumption DEF Stored, VaultInv, TypeOK, Secrets
<1>10. pending.op = "delete" /\ ~ok => vault' # None
  BY <1>1, <1>2 DEF Flow, VaultTruthful
<1>11. RequestsFlow'
  BY <1>1 DEF Flow, RequestsFlow, Done
<1>12. AnswersFlow'
  BY <1>1, <1>2, <1>4, <1>7 DEF AnswersFlow, Done
<1>13. VaultTruthful'
  BY <1>1, <1>2, <1>4, <1>7, <1>8, <1>9, <1>10 DEF VaultTruthful
<1>14. RestoredFirst'
  <2>1. \A k \in DOMAIN inbox : ~(inbox[k].type = "login" /\ ~inbox[k].persist)
    <3>1. nextId # 1
      BY <1>2 DEF VaultInv, TypeOK, Flow, RequestsFlow, Request
    <3> QED
      BY <3>1 DEF Flow, RestoredFirst
  <2> QED
    BY <1>4, <1>6, <2>1 DEF RestoredFirst
<1> QED
  BY <1>11, <1>12, <1>13, <1>14 DEF Flow

\* Every step of a kernel that runs keeps the queues in order.
LEMMA FlowStep ==
  ASSUME VaultInv, [Next]_vars, TypeOK', QueuesTyped', up' # "stopped"
  PROVE  Flow'
<1>1. CASE Join \/ Kill
  <2>1. /\ pending' = None /\ lastId' = None /\ nextId' = 1 /\ vaultOp' = None
        /\ account' = None /\ snaps' = <<>> /\ inbox' = <<>>
    BY <1>1 DEF Join, Kill, Off
  <2> QED
    BY <2>1 DEF Flow, RequestsFlow, AnswersFlow, VaultTruthful, RestoredFirst, Done
<1>2. CASE Launch
  <2>1. /\ pending' = None /\ lastId' = None /\ nextId' = 1 /\ vaultOp' = None
        /\ account' = None /\ vault' = vault
    BY <1>2 DEF Launch, VaultInv, Untried, TypeOK, kernelVars, storeVars
  <2>2. \A i \in DOMAIN snaps' : snaps'[i].request = None
    <3>1. snaps' = <<Starting>>
      BY <1>2 DEF Launch
    <3> QED
      BY <3>1, QueueValues
  <2>3. \A k \in DOMAIN inbox' :
          k = 1 /\ \/ inbox'[k] = LoadFailed
                   \/ vault # None /\ inbox'[k] = Login(vault, FALSE)
    <3>1. \/ inbox' = <<>>
          \/ inbox' = <<LoadFailed>>
          \/ vault # None /\ inbox' = <<Login(vault, FALSE)>>
      BY <1>2 DEF Launch
    <3>2. CASE inbox' = <<>>
      BY <3>2
    <3>3. ASSUME NEW e, inbox' = <<e>>, NEW k \in DOMAIN inbox'
          PROVE  k = 1 /\ inbox'[k] = e
      BY <3>3
    <3>4. CASE inbox' = <<LoadFailed>>
      BY <3>3, <3>4, Zenon
    <3>5. CASE vault # None /\ inbox' = <<Login(vault, FALSE)>>
      BY <3>3, <3>5, Zenon
    <3> QED
      BY <3>1, <3>2, <3>4, <3>5
  <2>4. \A k \in DOMAIN inbox' : inbox'[k].type # "result"
    BY <2>3, QueueValues DEF VaultInv, TypeOK
  <2>5. RestoredFirst'
    BY <2>1, <2>3, QueueValues DEF RestoredFirst
  <2> QED
    BY <2>1, <2>2, <2>4, <2>5
    DEF Flow, RequestsFlow, AnswersFlow, VaultTruthful, IsResult, Done
<1>3. CASE KernelRefused \/ KernelStop
  BY <1>3 DEF KernelRefused, KernelStop, Shutdown
<1> DEFINE others == ~(Join \/ Kill \/ Launch)
<1>4. others => up # "stopped"
  BY DEF Next, KernelStep, StoreStep, User, KernelReady, KernelRefused, KernelStop,
         KernelLogin, KernelLogout, KernelLoadFailed, KernelResult, Received, Shutdown,
         KernelQueryClosed, TakeSnapshot, TakeLast, VaultDone, Cancel,
         TapLogin, TapLogout, KernelFrame, ObservationEnds, vars
<1>5. others => Flow
  BY <1>4 DEF VaultInv
<1>6. CASE others /\ (KernelReady \/ KernelFrame)
  <2> DEFINE x == Snapshot(phase, pending)
  <2>1. x \in Snapshots /\ x.request = pending
    BY QueueValues DEF VaultInv, TypeOK
  <2>2. /\ snaps' = snaps \/ snaps' = snaps \o <<x>>
        /\ UNCHANGED <<pending, nextId, lastId, inbox, vaultOp, vault, account, shell>>
    BY <1>6, QueueMoves DEF KernelReady, KernelFrame, kernelVars, storeVars
  <2>3. RequestsFlow'
    BY <1>5, <1>6, <2>1, <2>2, SnapshotsGrow
  <2> QED
    BY <1>5, <1>6, <2>2, <2>3
    DEF Flow, AnswersFlow, VaultTruthful, RestoredFirst, IsResult, Done
<1>7. CASE KernelLogin
  BY <1>4, <1>5, <1>7, LoginFlow DEF KernelLogin, Received, VaultInv
<1>8. CASE KernelLogout
  BY <1>4, <1>5, <1>8, LogoutFlow DEF KernelLogout, Received, VaultInv
<1>9. CASE KernelResult
  BY <1>4, <1>5, <1>9, ResultFlow DEF KernelResult, Received, VaultInv
<1>10. CASE KernelLoadFailed
  <2> DEFINE x == Snapshot(phase', pending')
  <2>1. /\ inbox # <<>> /\ Head(inbox).type = "load_failed" /\ inbox' = Tail(inbox)
        /\ Emit(<<x>>)
        /\ UNCHANGED <<pending, nextId, account, shell, lastId, vaultOp, vault>>
    BY <1>10 DEF KernelLoadFailed, Received, Handled, storeVars
  <2>2. x \in Snapshots /\ x.request = pending' /\ (snaps' = snaps \/ snaps' = snaps \o <<x>>)
    BY <2>1, QueueValues, QueueMoves DEF TypeOK
  <2>3. Flow
    BY <1>10 DEF KernelLoadFailed, Received, VaultInv
  <2> QED
    BY <2>1, <2>2, <2>3, InboxShrinks, SnapshotsGrow DEF Flow
<1>11. CASE KernelQueryClosed
  <2>1. /\ inbox # <<>> /\ Head(inbox).type = "query_closed" /\ inbox' = Tail(inbox)
        /\ UNCHANGED <<pending, nextId, account, shell, lastId, vaultOp, vault, snaps>>
    BY <1>11 DEF KernelQueryClosed, Received, Shutdown, storeVars, kernelVars
  <2>2. Flow
    BY <1>11 DEF KernelQueryClosed, Received, VaultInv
  <2>3. RequestsFlow'
    BY <2>1, <2>2 DEF Flow, RequestsFlow, Done
  <2> QED
    BY <2>1, <2>2, <2>3, InboxShrinks DEF Flow
<1>12. CASE others /\ TakeSnapshot
  <2>1. CASE IsNew(Head(snaps).request) /\ Execute(Head(snaps).request)
    BY <1>4, <1>5, <1>12, <2>1, ExecuteFlow
  <2>2. CASE inbox' = inbox /\ UNCHANGED <<lastId, vaultOp>>
    BY <1>5, <1>12, <2>2, TakeFlow
  <2> QED
    BY <1>12, <2>1, <2>2 DEF TakeSnapshot
<1>13. CASE others /\ TakeLast
  BY <1>5, <1>13
  DEF TakeLast, kernelVars, Flow, RequestsFlow, AnswersFlow, VaultTruthful, RestoredFirst,
      IsResult, Done
<1>14. ASSUME others, NEW ok \in BOOLEAN, VaultDone(ok) PROVE Flow'
  BY <1>4, <1>5, <1>14, VaultFlow
<1>15. ASSUME others, NEW e \in Events, Send(e), e.type # "result", e.type = "login" => e.persist,
              UNCHANGED <<pending, nextId, lastId, vaultOp, vault, account>>,
              vaultOp # None => shell' = "loop",
              snaps' = snaps \/ snaps' = <<>>
       PROVE  Flow'
  <2>1. inbox' = inbox \/ inbox' = Append(inbox, e)
    BY <1>15, QueueMoves
  <2>2. AnswersFlow' /\ VaultTruthful' /\ RestoredFirst'
    BY <1>5, <1>15, <2>1, InboxGrows
  <2>3. RequestsFlow'
    BY <1>5, <1>15 DEF Flow, RequestsFlow, Done
  <2> QED
    BY <2>2, <2>3 DEF Flow
<1>16. CASE others /\ Cancel
  BY <1>15, <1>16, QueueValues DEF Cancel, kernelVars, storeVars
<1>17. CASE others /\ ObservationEnds
  BY <1>15, <1>17, QueueValues DEF ObservationEnds, kernelVars, storeVars
<1>18. ASSUME others, NEW s \in Secrets, TapLogin(s) PROVE Flow'
  BY <1>15, <1>18, QueueValues DEF TapLogin, kernelVars
<1>19. CASE others /\ TapLogout
  BY <1>15, <1>19, QueueValues DEF TapLogout, kernelVars, storeVars
<1>20. CASE others /\ UNCHANGED vars
  BY <1>5, <1>20
  DEF vars, kernelVars, storeVars, Flow, RequestsFlow, AnswersFlow, VaultTruthful,
      RestoredFirst, IsResult, Done
<1> QED
  BY <1>1, <1>2, <1>3, <1>6, <1>7, <1>8, <1>9, <1>10, <1>11, <1>12, <1>13, <1>14, <1>16,
     <1>17, <1>18, <1>19, <1>20
  DEF Next, KernelStep, StoreStep, User

\* The inductive invariant of the Keychain and the two queues.
THEOREM Invariance == Spec => []VaultInv
<1>1. Init => VaultInv
  <2> SUFFICES ASSUME Init PROVE VaultInv
    OBVIOUS
  <2>1. Inv
    BY SecretsAssumption DEF Init, Inv, PendingInv, SignersAreOwned, Owned
  <2>2. TypeOK
    <3>1. undetached \in BOOLEAN
      BY Zenon DEF Init
    <3> QED
      BY <3>1 DEF Init, TypeOK, Phases
  <2>3. QueuesTyped /\ Untried
    BY DEF Init, QueuesTyped, Untried
  <2>4. Flow
    BY DEF Init, Flow, RequestsFlow, AnswersFlow, VaultTruthful, RestoredFirst, Done
  <2> QED
    BY <2>1, <2>2, <2>3, <2>4 DEF VaultInv
<1>2. VaultInv /\ [Next]_vars => VaultInv'
  <2> SUFFICES ASSUME VaultInv, [Next]_vars PROVE VaultInv'
    OBVIOUS
  <2>1. Inv'
    BY Step DEF VaultInv
  <2>2. TypeOK' /\ QueuesTyped'
    BY TypeStep, QueuesStep
  <2>3. Untried'
    BY UntriedStep
  <2>4. up' # "stopped" => Flow'
    BY <2>2, FlowStep
  <2> QED
    BY <2>1, <2>2, <2>3, <2>4 DEF VaultInv
<1> QED
  BY <1>1, <1>2, PTL DEF Spec

\* Every reachable state of the kernel, the store and the Keychain is well
\* typed; an operation to store has a secret.
THEOREM TypeCorrect == Spec => []TypeOK
<1>1. VaultInv => TypeOK
  BY DEF VaultInv
<1> QED
  BY <1>1, Invariance, PTL

\* Whoever is signed in finds a saved login at the next start, however the
\* Keychain's failures, old snapshots and restarts of the app are interleaved.
THEOREM Saved == Spec => []SignedInIsSaved
<1>1. VaultInv => SignedInIsSaved
  BY DEF VaultInv, Untried, Flow, VaultTruthful, SignedInIsSaved
<1> QED
  BY <1>1, Invariance, PTL

\* A log out drops the account only when the Keychain holds nothing.
THEOREM ForgetsFirst == Spec => LogoutForgetsFirst
<1> DEFINE A == account # None /\ account' = None /\ up' = "listening" => vault = None
<1>1. VaultInv /\ [Next]_vars => [A]_vars
  <2> SUFFICES ASSUME VaultInv, Next, account # None, account' = None, up' = "listening"
               PROVE  vault = None
    BY DEF vars
  <2>1. CASE KernelResult
    <3>1. Flow
      BY <2>1 DEF VaultInv, KernelResult, Received
    <3>2. TypeOK' /\ QueuesTyped'
      BY TypeStep, QueuesStep
    <3> QED
      BY <2>1, <3>1, <3>2, ResultFlow
  <2>2. CASE ~KernelResult
    BY <2>2
    DEF Next, KernelStep, StoreStep, User, KernelReady, KernelRefused, KernelStop,
        KernelLogin, KernelLogout, KernelLoadFailed, Shutdown, Detach, Off, Activate, MayLogin,
        KernelQueryClosed, TakeSnapshot, TakeLast, VaultDone, Join, Launch, Cancel, Kill,
        TapLogin, TapLogout, KernelFrame, ObservationEnds, kernelVars
  <2> QED
    BY <2>1, <2>2
<1> QED
  BY <1>1, Invariance, PTL DEF Spec, LogoutForgetsFirst
=============================================================================
