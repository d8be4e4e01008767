------------------------------- MODULE Answers -------------------------------
(***************************************************************************)
(* Answering the questions of a spoken item: the session of the Rust       *)
(* kernel, the tracked writes it gives to NMP, the threads that forward    *)
(* their receipts, and the screen the user acts on.                        *)
(*                                                                         *)
(* The kernel takes events from one inbox: taps forwarded by the store,    *)
(* frames of the group observation, changes of the account, and what the   *)
(* receipt threads forward.  The screen shows some snapshot the kernel     *)
(* emitted, never an older one than it showed before.                      *)
(*                                                                         *)
(* Every item here carries questions.  Which answer the user gives only    *)
(* matters as far as it is valid for the question.                         *)
(***************************************************************************)
EXTENDS Naturals, Sequences

CONSTANTS
  Items,        \* spoken items with questions
  MaxReceipts,  \* bound: answers NMP accepts in one behaviour
  MaxTaps,      \* bound: taps on the submit button
  MaxFrames,    \* bound: frames of the group observation
  MaxStarts,    \* bound: starts of the kernel
  MaxInbox,     \* bound: events that wait in the inbox
  None

ASSUME BoundsAssumption ==
  /\ MaxReceipts \in Nat /\ MaxTaps \in Nat
  /\ MaxFrames \in Nat /\ MaxStarts \in Nat /\ MaxInbox \in Nat

Receipts == 1..MaxReceipts

\* A projected queue: its items, and those of them that have an answer.
Queues == {q \in [items : SUBSET Items, answered : SUBSET Items] :
             q.answered \subseteq q.items}
EmptyQueue == [items |-> {}, answered |-> {}]

\* The rows of a frame, by what the queue projects of them; None: no rows.
Rows == Queues \cup {None}

Submission == [phase : {"sending", "published", "failed"},
               receipt : Receipts \cup {None}]

\* Endings of a tracked write that are not an acknowledgement: the host rejects
\* it, NMP gives up or does not know (undelivered), or it ends before it is sent
\* (cancelled, in conflict, failed).
Failures == {"undelivered", "unsent"}

Endings == Failures \cup {"acked"}

\* An answer NMP has accepted.
Write == [item : Items, status : {"accepted", "signed"} \cup Endings]

\* What the status channel of a receipt carries, its end included.
Statuses == {"signed", "closed"} \cup Endings

\* What the inbox of the kernel carries.
Events ==
  [type : {"submit"}, item : Items, valid : BOOLEAN]
    \cup [type : {"frame"}, rows : Rows]
    \cup [type : {"account"}, signed : BOOLEAN]
    \cup [type : {"status"}, item : Items, receipt : Receipts, status : Statuses]
    \cup [type : {"closed"}, item : Items, receipt : Receipts]
    \cup [type : {"stop"}]

ASSUME NoneAssumption ==
  /\ None \notin Receipts
  /\ None \notin Submission
  /\ None \notin Queues
  /\ None \notin Write
  /\ None \notin Seq(Statuses)

VARIABLES
  running,   \* the kernel thread is in its loop
  inbox,     \* events the kernel has not taken
  signedIn,  \* active_pubkey is known
  rows,      \* rows of the last frame
  queue,     \* the projected queue
  subs,      \* submissions: item -> its submission
  write,     \* NMP store: receipt -> item and status of the answer
  stream,    \* receipt -> statuses its thread has not forwarded; None: no thread
  screen,    \* items whose submit button is enabled on screen
  taps, frames, starts

sessionVars == <<signedIn, rows, queue, subs>>
nmpVars == <<write, stream>>
bounds == <<taps, frames, starts>>
vars == <<running, inbox, sessionVars, nmpVars, screen, bounds>>

NoSubs == [i \in Items |-> None]

Init ==
  /\ running = FALSE /\ inbox = <<>>
  /\ signedIn = FALSE /\ rows = None /\ queue = EmptyQueue /\ subs = NoSubs
  /\ write = [n \in Receipts |-> None]
  /\ stream = [n \in Receipts |-> None]
  /\ screen = {}
  /\ taps = 0 /\ frames = 0 /\ starts = 0

Submit(i, valid) == [type |-> "submit", item |-> i, valid |-> valid]
Frame(r) == [type |-> "frame", rows |-> r]
Account(signed) == [type |-> "account", signed |-> signed]
Status(i, n, s) == [type |-> "status", item |-> i, receipt |-> n, status |-> s]
Closed(i, n) == [type |-> "closed", item |-> i, receipt |-> n]
Stop == [type |-> "stop"]

Send(event) == Len(inbox) < MaxInbox /\ inbox' = Append(inbox, event)
Received(type) == running /\ inbox # <<>> /\ Head(inbox).type = type
Event == Head(inbox)

-----------------------------------------------------------------------------
(* The session                                                             *)

\* reproject: an empty set of rows leaves the old queue in place.
Reprojected(r) == IF r = None THEN queue ELSE r

\* update_rows also drops the submissions of items that left the queue.
UpdateRows ==
  /\ Received("frame")
  /\ rows' = Event.rows
  /\ queue' = Reprojected(Event.rows)
  /\ subs' = [i \in Items |-> IF i \in queue'.items THEN subs[i] ELSE None]
  /\ inbox' = Tail(inbox)
  /\ UNCHANGED <<running, signedIn, nmpVars, screen, bounds>>

\* A log in or a log out took effect.
AccountChanged ==
  /\ Received("account")
  /\ signedIn' = Event.signed
  /\ queue' = Reprojected(rows)
  /\ inbox' = Tail(inbox)
  /\ UNCHANGED <<running, rows, subs, nmpVars, screen, bounds>>

IsSending(i) == subs[i] # None /\ subs[i].phase = "sending"

\* The conditions of submit_answer, all of which refuse with action_error.
Acceptable(i, valid) ==
  /\ signedIn
  /\ ~IsSending(i)
  /\ i \in queue.items
  /\ i \notin queue.answered
  /\ valid

FreshReceipt(n) == write[n] = None /\ \A m \in 1..(n - 1) : write[m] # None

\* submit_answer succeeds: a tracked write, and a thread for its receipt.
SubmitAnswer(n) ==
  /\ Received("submit")
  /\ Acceptable(Event.item, Event.valid)
  /\ FreshReceipt(n)
  /\ write' = [write EXCEPT ![n] = [item |-> Event.item, status |-> "accepted"]]
  /\ stream' = [stream EXCEPT ![n] = <<>>]
  /\ subs' = [subs EXCEPT ![Event.item] = [phase |-> "sending", receipt |-> n]]
  /\ inbox' = Tail(inbox)
  /\ UNCHANGED <<running, signedIn, rows, queue, screen, bounds>>

\* submit_answer fails, on a condition or because NMP refuses: action_error
\* replaces whatever submission the item had.
RefuseAnswer ==
  /\ Received("submit")
  /\ subs' = [subs EXCEPT ![Event.item] = [phase |-> "failed", receipt |-> None]]
  /\ inbox' = Tail(inbox)
  /\ UNCHANGED <<running, signedIn, rows, queue, nmpVars, screen, bounds>>

\* Mutated Holds: any receipt of the item will do.
MutAnyReceipt(i, n) == subs[i] # None

\* The submission a receipt event is about: the one that holds that receipt.
Holds(i, n) == subs[i] # None /\ subs[i].receipt = n

\* Mutated ReceiptStatus: the status is taken over as the phase.
MutCopied ==
  /\ Received("status")
  /\ subs' = IF Holds(Event.item, Event.receipt)
             THEN [subs EXCEPT ![Event.item].phase = Event.status] ELSE subs
  /\ inbox' = Tail(inbox)
  /\ UNCHANGED <<running, signedIn, rows, queue, nmpVars, screen, bounds>>

\* receipt_status
ReceiptStatus ==
  /\ Received("status")
  /\ LET i == Event.item
         s == Event.status
     IN \/ /\ Holds(i, Event.receipt) /\ s = "acked"
           /\ subs' = [subs EXCEPT ![i].phase = "published"]
        \/ /\ Holds(i, Event.receipt) /\ s \in Failures
           /\ subs' = [subs EXCEPT ![i].phase = "failed"]
        \/ /\ ~Holds(i, Event.receipt) \/ s = "signed"
           /\ UNCHANGED subs
  /\ inbox' = Tail(inbox)
  /\ UNCHANGED <<running, signedIn, rows, queue, nmpVars, screen, bounds>>

\* Mutated Abandoned: the end of a channel is ignored.
MutClosedIgnored(i, n) == FALSE

\* Mutated Abandoned: the end of a channel fails any submission.
MutClosedAlways(i, n) == Holds(i, n)

\* receipt_closed fails a submission that still waits for this receipt.
Abandoned(i, n) == Holds(i, n) /\ subs[i].phase = "sending"

ReceiptClosed ==
  /\ Received("closed")
  /\ subs' = IF Abandoned(Event.item, Event.receipt)
             THEN [subs EXCEPT ![Event.item].phase = "failed"] ELSE subs
  /\ inbox' = Tail(inbox)
  /\ UNCHANGED <<running, signedIn, rows, queue, nmpVars, screen, bounds>>

\* The loop ends; the engine is shut down, which ends every receipt thread.
KernelStop ==
  /\ Received("stop")
  /\ running' = FALSE
  /\ inbox' = <<>>
  /\ signedIn' = FALSE /\ rows' = None /\ queue' = EmptyQueue /\ subs' = NoSubs
  /\ stream' = [n \in Receipts |-> None]
  /\ UNCHANGED <<write, screen, bounds>>

KernelStart ==
  /\ ~running
  /\ starts < MaxStarts
  /\ starts' = starts + 1
  /\ running' = TRUE
  /\ screen' = {}
  /\ UNCHANGED <<inbox, sessionVars, nmpVars, taps, frames>>

-----------------------------------------------------------------------------
(* The screen and the store                                                *)

\* What the view enables when it shows the state of the kernel.
Answerable ==
  {i \in queue.items \ queue.answered : signedIn /\ ~IsSending(i)}

\* A snapshot of the kernel reaches the screen.
Show ==
  /\ running
  /\ screen # Answerable
  /\ screen' = Answerable
  /\ UNCHANGED <<running, inbox, sessionVars, nmpVars, bounds>>

\* The user acts on what the screen shows, which may be out of date.
Tap(i, valid) ==
  /\ running
  /\ i \in screen
  /\ taps < MaxTaps
  /\ taps' = taps + 1
  /\ Send(Submit(i, valid))
  /\ UNCHANGED <<running, sessionVars, nmpVars, screen, frames, starts>>

\* The account changes; the log out of a user may come between two taps.
ChangeAccount(signed) ==
  /\ running
  /\ signed # signedIn
  /\ ~ \E k \in DOMAIN inbox : inbox[k].type = "account"
  /\ Send(Account(signed))
  /\ UNCHANGED <<running, sessionVars, nmpVars, screen, bounds>>

\* The observation delivers any window of the group, answered or not by anyone.
DeliverFrame(r) ==
  /\ running
  /\ frames < MaxFrames
  /\ frames' = frames + 1
  /\ Send(Frame(r))
  /\ UNCHANGED <<running, sessionVars, nmpVars, screen, taps, starts>>

RequestStop ==
  /\ running
  /\ ~ \E k \in DOMAIN inbox : inbox[k] = Stop
  /\ Send(Stop)
  /\ UNCHANGED <<running, sessionVars, nmpVars, screen, bounds>>

-----------------------------------------------------------------------------
(* NMP (external) and the receipt threads                                  *)

Listened(n) ==
  stream[n] # None /\ (stream[n] # <<>> => stream[n][Len(stream[n])] # "closed")

\* A write moves on; its thread, if the channel is open, will hear of it.
Moves(n, status) ==
  /\ write' = [write EXCEPT ![n].status = status]
  /\ stream' = IF Listened(n) THEN [stream EXCEPT ![n] = Append(@, status)] ELSE stream
  /\ UNCHANGED <<running, inbox, sessionVars, screen, bounds>>

Sign(n) ==
  /\ running
  /\ write[n] # None /\ write[n].status = "accepted"
  /\ Moves(n, "signed")

EndWrite(n, status) ==
  /\ running
  /\ write[n] # None
  /\ \/ write[n].status = "signed"
     \/ write[n].status = "accepted" /\ status = "unsent"
  /\ Moves(n, status)

\* The engine closes the status channel, with or without a final status.
CloseStream(n) ==
  /\ running
  /\ Listened(n)
  /\ stream' = [stream EXCEPT ![n] = Append(@, "closed")]
  /\ UNCHANGED <<running, inbox, sessionVars, write, screen, bounds>>

\* forward_receipt: one status, or the end of the thread.
Forward(n) ==
  /\ running
  /\ stream[n] # None /\ stream[n] # <<>>
  /\ IF Head(stream[n]) = "closed"
     THEN Send(Closed(write[n].item, n)) /\ stream' = [stream EXCEPT ![n] = None]
     ELSE /\ Send(Status(write[n].item, n, Head(stream[n])))
          /\ stream' = [stream EXCEPT ![n] = Tail(@)]
  /\ UNCHANGED <<running, sessionVars, write, screen, bounds>>

-----------------------------------------------------------------------------
KernelStep ==
  \/ UpdateRows \/ AccountChanged
  \/ (\E n \in Receipts : SubmitAnswer(n)) \/ RefuseAnswer
  \/ ReceiptStatus \/ ReceiptClosed \/ KernelStop

UserStep ==
  \/ KernelStart \/ Show \/ RequestStop
  \/ \E i \in Items, valid \in BOOLEAN : Tap(i, valid)
  \/ \E signed \in BOOLEAN : ChangeAccount(signed)

NmpStep(n) ==
  \/ Sign(n)
  \/ \E status \in Endings : EndWrite(n, status)
  \/ CloseStream(n)
  \/ Forward(n)

Next ==
  \/ KernelStep
  \/ UserStep
  \/ \E r \in Rows : DeliverFrame(r)
  \/ \E n \in Receipts : NmpStep(n)

Spec == Init /\ [][Next]_vars

\* The kernel and the receipt threads are scheduled.  The engine owes nothing: it
\* may keep a status channel open and silent for ever, which forward_receipt waits
\* for without a deadline.
FairSpec ==
  /\ Spec
  /\ WF_vars(KernelStep)
  /\ \A n \in Receipts : WF_vars(Forward(n))

-----------------------------------------------------------------------------
(* Properties                                                              *)

\* Type correctness of the session, its inbox, the NMP store and the screen.
TypeOK ==
  /\ running \in BOOLEAN /\ signedIn \in BOOLEAN
  /\ inbox \in Seq(Events)
  /\ rows \in Rows /\ queue \in Queues
  /\ subs \in [Items -> Submission \cup {None}]
  /\ write \in [Receipts -> Write \cup {None}]
  /\ stream \in [Receipts -> {None} \cup Seq(Statuses)]
  /\ screen \in SUBSET Items
  /\ taps \in Nat /\ frames \in Nat /\ starts \in Nat

\* An answer is reported as published only when the host acknowledged the write
\* the submission names, and that write answers this item: events of an earlier
\* receipt, still on their way, do not count for a later one (receipt_status).
PublishedIsAcked ==
  \A i \in Items :
    subs[i] # None /\ subs[i].phase = "published" =>
      /\ subs[i].receipt \in Receipts
      /\ write[subs[i].receipt] # None
      /\ write[subs[i].receipt] = [item |-> i, status |-> "acked"]

\* What is published stays published, until the user submits again or the item
\* leaves the queue: the receipt's later events do not undo it.
PublishedStays ==
  [][\A i \in Items :
       subs[i] # None /\ subs[i].phase = "published" /\ subs'[i] # subs[i] =>
         subs'[i] = None \/ (Received("submit") /\ Event.item = i)]_vars

\* The channel of the receipt carries the end of its write, or its own end.
Told(n) ==
  stream[n] # None /\ \E k \in DOMAIN stream[n] : stream[n][k] \in Endings \cup {"closed"}

\* Once the engine has put a final status in the channel of a submission, or has
\* just closed the channel, the submission leaves its sending phase: the thread
\* forwards either, behind whatever else waits in the inbox, and the session takes
\* it.  An open channel without a final status leaves it sending.
AnswersSettle ==
  \A i \in Items, n \in Receipts :
    IsSending(i) /\ subs[i].receipt = n /\ Told(n)
      ~> ~(IsSending(i) /\ subs[i].receipt = n)

-----------------------------------------------------------------------------
(* The inductive invariant                                                 *)

\* A channel tells of the ending its write really had.
StreamsTruthful ==
  \A n \in Receipts : stream[n] # None =>
    /\ write[n] # None
    /\ \A k \in DOMAIN stream[n] :
         stream[n][k] \in Endings => write[n].status = stream[n][k]

\* So does every status that waits in the inbox.
InboxTruthful ==
  \A k \in DOMAIN inbox :
    inbox[k].type = "status" /\ inbox[k].status \in Endings =>
      /\ write[inbox[k].receipt] # None
      /\ write[inbox[k].receipt].status = inbox[k].status

\* A submission with a receipt names a write that answers its item.
SubmissionsTracked ==
  \A i \in Items : subs[i] # None /\ subs[i].receipt # None =>
    /\ write[subs[i].receipt] # None
    /\ write[subs[i].receipt].item = i

\* Whatever is on its way to the session, or shown by it, is true of NMP's store.
Inv ==
  /\ TypeOK
  /\ StreamsTruthful
  /\ InboxTruthful
  /\ SubmissionsTracked
  /\ PublishedIsAcked
=============================================================================
