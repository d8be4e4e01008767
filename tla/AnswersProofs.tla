---------------------------- MODULE AnswersProofs ----------------------------
(***************************************************************************)
(* Proofs about Answers: a submission is reported as published only when   *)
(* its own write was acknowledged, and stays so, for any number of items,  *)
(* receipts, taps, frames and restarts of the kernel.                      *)
(***************************************************************************)
EXTENDS Answers, TLAPS

-----------------------------------------------------------------------------
(* Sequences and events                                                    *)

\* The elements of a sequence after its head was taken.
LEMMA TailFacts ==
  ASSUME NEW S, NEW s \in Seq(S), s # <<>>
  PROVE  /\ 1 \in DOMAIN s /\ Head(s) = s[1] /\ Head(s) \in S
         /\ Tail(s) \in Seq(S)
         /\ \A k \in DOMAIN Tail(s) : k + 1 \in DOMAIN s /\ Tail(s)[k] = s[k + 1]
OBVIOUS

\* The elements of a sequence after one was added.
LEMMA AppendFacts ==
  ASSUME NEW S, NEW s \in Seq(S), NEW e \in S
  PROVE  /\ Append(s, e) \in Seq(S)
         /\ \A k \in DOMAIN Append(s, e) :
              \/ k \in DOMAIN s /\ Append(s, e)[k] = s[k]
              \/ Append(s, e)[k] = e
OBVIOUS

\* The fields of an event, by its type.
LEMMA EventFacts ==
  ASSUME NEW e \in Events
  PROVE  /\ e.type = "submit" => e.item \in Items
         /\ e.type = "frame" => e.rows \in Rows
         /\ e.type = "account" => e.signed \in BOOLEAN
         /\ e.type = "status" =>
              e.item \in Items /\ e.receipt \in Receipts /\ e.status \in Statuses
         /\ e.type = "closed" => e.item \in Items /\ e.receipt \in Receipts
BY DEF Events

\* The event the kernel takes is one of the inbox, well typed and truthful.
LEMMA TakenFacts ==
  ASSUME Inv, NEW type, Received(type)
  PROVE  /\ Event \in Events
         /\ Event.type = type
         /\ Tail(inbox) \in Seq(Events)
         /\ \A k \in DOMAIN Tail(inbox) :
              k + 1 \in DOMAIN inbox /\ Tail(inbox)[k] = inbox[k + 1]
         /\ Event.type = "status" /\ Event.status \in Endings =>
              /\ write[Event.receipt] # None
              /\ write[Event.receipt].status = Event.status
<1>1. inbox \in Seq(Events) /\ inbox # <<>>
  BY DEF Inv, TypeOK, Received
<1>2. /\ 1 \in DOMAIN inbox /\ Event = inbox[1] /\ Event \in Events
      /\ Tail(inbox) \in Seq(Events)
      /\ \A k \in DOMAIN Tail(inbox) :
           k + 1 \in DOMAIN inbox /\ Tail(inbox)[k] = inbox[k + 1]
  BY <1>1, TailFacts DEF Event
<1> QED
  BY <1>2 DEF Inv, InboxTruthful, Received, Event

\* Taking an event leaves a truthful inbox.
LEMMA TakeTruthful ==
  ASSUME Inv, NEW type, Received(type), inbox' = Tail(inbox),
         \A n \in Receipts : write[n] # None => write'[n] = write[n]
  PROVE  InboxTruthful' /\ inbox' \in Seq(Events)
<1>1. /\ Tail(inbox) \in Seq(Events)
      /\ \A k \in DOMAIN Tail(inbox) :
           k + 1 \in DOMAIN inbox /\ Tail(inbox)[k] = inbox[k + 1]
  BY TakenFacts
<1>2. SUFFICES ASSUME NEW k \in DOMAIN Tail(inbox),
                      Tail(inbox)[k].type = "status",
                      Tail(inbox)[k].status \in Endings
               PROVE  /\ write'[Tail(inbox)[k].receipt] # None
                      /\ write'[Tail(inbox)[k].receipt].status = Tail(inbox)[k].status
  BY <1>1 DEF InboxTruthful
<1> DEFINE e == inbox[k + 1]
<1>3. k + 1 \in DOMAIN inbox /\ Tail(inbox)[k] = e
  BY <1>1
<1>4. write[e.receipt] # None /\ write[e.receipt].status = e.status
  BY <1>2, <1>3 DEF Inv, InboxTruthful
<1>5. e \in Events
  BY <1>3 DEF Inv, TypeOK
<1>6. e.receipt \in Receipts
  BY <1>2, <1>3, <1>5, EventFacts
<1> QED
  BY <1>3, <1>4, <1>6

\* Sending a truthful event leaves a truthful inbox.
LEMMA SendTruthful ==
  ASSUME Inv, NEW e \in Events, Send(e), write' = write,
         e.type = "status" /\ e.status \in Endings =>
           write[e.receipt] # None /\ write[e.receipt].status = e.status
  PROVE  InboxTruthful' /\ inbox' \in Seq(Events)
<1>1. inbox \in Seq(Events) /\ inbox' = Append(inbox, e)
  BY DEF Inv, TypeOK, Send
<1>2. /\ inbox' \in Seq(Events)
      /\ \A k \in DOMAIN inbox' :
           (k \in DOMAIN inbox /\ inbox'[k] = inbox[k]) \/ inbox'[k] = e
  BY <1>1, AppendFacts
<1> QED
  BY <1>2 DEF Inv, InboxTruthful

-----------------------------------------------------------------------------
(* The steps                                                               *)

\* A step that only sends an event the session has no claim about, or changes
\* the screen or the bounds.
LEMMA SenderStep ==
  ASSUME Inv, UNCHANGED <<sessionVars, nmpVars>>,
         running' \in BOOLEAN, screen' \in SUBSET Items,
         taps' \in Nat, frames' \in Nat, starts' \in Nat,
         InboxTruthful', inbox' \in Seq(Events)
  PROVE  Inv'
BY DEF Inv, TypeOK, StreamsTruthful, SubmissionsTracked, PublishedIsAcked,
       sessionVars, nmpVars

\* A step of the session that leaves NMP alone and keeps its claims.
LEMMA SessionStep ==
  ASSUME Inv, NEW type, Received(type), inbox' = Tail(inbox),
         UNCHANGED <<running, nmpVars, screen, bounds>>,
         signedIn' \in BOOLEAN, rows' \in Rows, queue' \in Queues,
         subs' \in [Items -> Submission \cup {None}],
         SubmissionsTracked', PublishedIsAcked'
  PROVE  Inv'
<1>1. InboxTruthful' /\ inbox' \in Seq(Events)
  BY TakeTruthful DEF nmpVars
<1> QED
  BY <1>1 DEF Inv, TypeOK, StreamsTruthful, nmpVars, bounds

\* What a receipt event does to the submission it is about.
LEMMA PhaseChange ==
  ASSUME Inv, NEW i \in Items, NEW phase \in {"published", "failed"},
         subs[i] \in Submission, subs' = [subs EXCEPT ![i].phase = phase]
  PROVE  /\ subs' \in [Items -> Submission \cup {None}]
         /\ subs'[i] = [phase |-> phase, receipt |-> subs[i].receipt]
         /\ \A j \in Items : j # i => subs'[j] = subs[j]
<1> DEFINE x == [subs[i] EXCEPT !.phase = phase]
<1>1. x \in Submission /\ x = [phase |-> phase, receipt |-> subs[i].receipt]
  BY DEF Submission
<1>2. subs \in [Items -> Submission \cup {None}]
  BY DEF Inv, TypeOK
<1>3. subs' = [subs EXCEPT ![i] = x]
  BY <1>2
<1> HIDE DEF x
<1> QED
  BY <1>1, <1>2, <1>3

\* Every step of the specification preserves the invariant.
LEMMA Step ==
  ASSUME Inv, [Next]_vars
  PROVE  Inv'
<1> USE NoneAssumption
<1>1. CASE UpdateRows
  <2>1. Event.rows \in Rows
    BY <1>1, TakenFacts, EventFacts DEF UpdateRows
  <2>2. queue' \in Queues
    BY <1>1, <2>1 DEF UpdateRows, Reprojected, Rows, Inv, TypeOK
  <2>3. \A i \in Items : subs'[i] = subs[i] \/ subs'[i] = None
    BY <1>1 DEF UpdateRows
  <2>4. subs' \in [Items -> Submission \cup {None}]
    BY <1>1 DEF UpdateRows, Inv, TypeOK
  <2>5. SubmissionsTracked' /\ PublishedIsAcked'
    BY <1>1, <2>3 DEF UpdateRows, Inv, SubmissionsTracked, PublishedIsAcked, nmpVars
  <2> QED
    BY <1>1, <2>1, <2>2, <2>4, <2>5, SessionStep DEF UpdateRows, Inv, TypeOK
<1>2. CASE AccountChanged
  <2>1. Event.signed \in BOOLEAN
    BY <1>2, TakenFacts, EventFacts DEF AccountChanged
  <2>2. queue' \in Queues
    BY <1>2 DEF AccountChanged, Reprojected, Rows, Inv, TypeOK
  <2>3. SubmissionsTracked' /\ PublishedIsAcked'
    BY <1>2 DEF AccountChanged, Inv, SubmissionsTracked, PublishedIsAcked, nmpVars
  <2> QED
    BY <1>2, <2>1, <2>2, <2>3, SessionStep DEF AccountChanged, Inv, TypeOK
<1>3. ASSUME NEW n \in Receipts, SubmitAnswer(n)
      PROVE  Inv'
  <2> DEFINE i == Event.item
             w == [item |-> i, status |-> "accepted"]
  <2>1. i \in Items
    BY <1>3, TakenFacts, EventFacts DEF SubmitAnswer
  <2>2. w \in Write /\ w # None
    BY <2>1 DEF Write
  <2>3. write[n] = None /\ write' = [write EXCEPT ![n] = w]
    BY <1>3 DEF SubmitAnswer, FreshReceipt
  <2>4. \A m \in Receipts : write[m] # None => write'[m] = write[m]
    BY <2>3 DEF Inv, TypeOK
  <2>5. write'[n] = w
    BY <2>3 DEF Inv, TypeOK
  <2>6. InboxTruthful' /\ inbox' \in Seq(Events)
    BY <1>3, <2>4, TakeTruthful DEF SubmitAnswer
  <2>7. [phase |-> "sending", receipt |-> n] \in Submission
    BY DEF Submission
  <2>8. subs' = [subs EXCEPT ![i] = [phase |-> "sending", receipt |-> n]]
    BY <1>3 DEF SubmitAnswer
  <2>9. stream' = [stream EXCEPT ![n] = <<>>]
    BY <1>3 DEF SubmitAnswer
  <2>10. TypeOK'
    <3>1. write' \in [Receipts -> Write \cup {None}]
      BY <2>2, <2>3 DEF Inv, TypeOK
    <3>2. subs' \in [Items -> Submission \cup {None}]
      BY <2>7, <2>8 DEF Inv, TypeOK
    <3>3. stream' \in [Receipts -> {None} \cup Seq(Statuses)]
      BY <2>9 DEF Inv, TypeOK
    <3> QED
      BY <1>3, <2>6, <3>1, <3>2, <3>3 DEF SubmitAnswer, Inv, TypeOK, bounds
  <2>11. StreamsTruthful'
    <3>1. ASSUME NEW m \in Receipts, stream'[m] # None
          PROVE  /\ write'[m] # None
                 /\ \A k \in DOMAIN stream'[m] :
                      stream'[m][k] \in Endings => write'[m].status = stream'[m][k]
      <4>1. CASE m = n
        <5>1. stream'[m] = <<>>
          BY <4>1, <2>9 DEF Inv, TypeOK
        <5> QED
          BY <4>1, <5>1, <2>2, <2>5
      <4>2. CASE m # n
        <5>1. stream'[m] = stream[m]
          BY <4>2, <2>9 DEF Inv, TypeOK
        <5> QED
          BY <3>1, <5>1, <2>4 DEF Inv, StreamsTruthful
      <4> QED
        BY <4>1, <4>2
    <3> QED
      BY <3>1 DEF StreamsTruthful
  <2>12. SubmissionsTracked'
    <3>1. ASSUME NEW j \in Items, subs'[j] # None, subs'[j].receipt # None
          PROVE  write'[subs'[j].receipt] # None /\ write'[subs'[j].receipt].item = j
      <4>1. CASE j = i
        BY <4>1, <2>1, <2>2, <2>5, <2>8 DEF Inv, TypeOK
      <4>2. CASE j # i
        <5>1. subs'[j] = subs[j]
          BY <4>2, <2>8 DEF Inv, TypeOK
        <5>2. subs[j].receipt \in Receipts
          BY <3>1, <5>1 DEF Inv, TypeOK, Submission
        <5> QED
          BY <3>1, <5>1, <5>2, <2>4 DEF Inv, SubmissionsTracked
      <4> QED
        BY <4>1, <4>2
    <3> QED
      BY <3>1 DEF SubmissionsTracked
  <2>13. PublishedIsAcked'
    <3>1. ASSUME NEW j \in Items, subs'[j] # None, subs'[j].phase = "published"
          PROVE  /\ subs'[j].receipt \in Receipts
                 /\ write'[subs'[j].receipt] # None
                 /\ write'[subs'[j].receipt] = [item |-> j, status |-> "acked"]
      <4>1. j # i /\ subs'[j] = subs[j]
        BY <3>1, <2>1, <2>8 DEF Inv, TypeOK
      <4> QED
        BY <3>1, <4>1, <2>4 DEF Inv, PublishedIsAcked
    <3> QED
      BY <3>1 DEF PublishedIsAcked
  <2> QED
    BY <2>6, <2>10, <2>11, <2>12, <2>13 DEF Inv
<1>4. CASE RefuseAnswer
  <2> DEFINE i == Event.item
             x == [phase |-> "failed", receipt |-> None]
  <2>1. i \in Items
    BY <1>4, TakenFacts, EventFacts DEF RefuseAnswer
  <2>2. subs' = [subs EXCEPT ![i] = x] /\ x \in Submission
    BY <1>4 DEF RefuseAnswer, Submission
  <2>3. subs' \in [Items -> Submission \cup {None}]
    BY <2>2 DEF Inv, TypeOK
  <2>4. \A j \in Items : subs'[j] = subs[j] \/ subs'[j] = x
    BY <2>2 DEF Inv, TypeOK
  <2>5. SubmissionsTracked' /\ PublishedIsAcked'
    BY <1>4, <2>4 DEF RefuseAnswer, Inv, SubmissionsTracked, PublishedIsAcked, nmpVars
  <2> QED
    BY <1>4, <2>3, <2>5, SessionStep DEF RefuseAnswer, Inv, TypeOK
<1>5. CASE ReceiptStatus
  <2> DEFINE i == Event.item
             n == Event.receipt
             s == Event.status
  <2>1. i \in Items /\ n \in Receipts /\ s \in Statuses
    BY <1>5, TakenFacts, EventFacts DEF ReceiptStatus
  <2>2. s \in Endings => write[n] # None /\ write[n].status = s
    BY <1>5, TakenFacts DEF ReceiptStatus
  <2>3. CASE subs' = subs
    <3>1. SubmissionsTracked' /\ PublishedIsAcked'
      BY <1>5, <2>3 DEF ReceiptStatus, Inv, SubmissionsTracked, PublishedIsAcked, nmpVars
    <3> QED
      BY <1>5, <2>3, <3>1, SessionStep DEF ReceiptStatus, Inv, TypeOK
  <2>4. CASE /\ Holds(i, n) /\ s = "acked"
             /\ subs' = [subs EXCEPT ![i].phase = "published"]
    <3>1. subs[i] \in Submission /\ subs[i].receipt = n
      BY <2>1, <2>4 DEF Holds, Inv, TypeOK
    <3>2. write[n] # None /\ write[n].item = i
      BY <2>1, <3>1, <2>4 DEF Holds, Inv, SubmissionsTracked
    <3>3. write[n] = [item |-> i, status |-> "acked"]
      BY <2>1, <2>2, <2>4, <3>2 DEF Inv, TypeOK, Write, Endings
    <3>4. subs'[i] = [phase |-> "published", receipt |-> n]
      BY <2>1, <2>4, <3>1, PhaseChange
    <3>5. \A j \in Items : j # i => subs'[j] = subs[j]
      BY <2>1, <2>4, <3>1, PhaseChange
    <3>6. subs' \in [Items -> Submission \cup {None}]
      BY <2>1, <2>4, <3>1, PhaseChange
    <3>7. SubmissionsTracked' /\ PublishedIsAcked'
      BY <1>5, <2>1, <3>2, <3>3, <3>4, <3>5
         DEF ReceiptStatus, Inv, SubmissionsTracked, PublishedIsAcked, nmpVars
    <3> QED
      BY <1>5, <3>6, <3>7, SessionStep DEF ReceiptStatus, Inv, TypeOK
  <2>5. CASE Holds(i, n) /\ subs' = [subs EXCEPT ![i].phase = "failed"]
    <3>1. subs[i] \in Submission /\ subs[i].receipt = n
      BY <2>1, <2>5 DEF Holds, Inv, TypeOK
    <3>3. subs' \in [Items -> Submission \cup {None}]
      BY <2>1, <2>5, <3>1, PhaseChange
    <3>4. subs'[i] = [phase |-> "failed", receipt |-> n]
      BY <2>1, <2>5, <3>1, PhaseChange
    <3>5. \A j \in Items : j # i => subs'[j] = subs[j]
      BY <2>1, <2>5, <3>1, PhaseChange
    <3>6. subs[i] # None /\ subs[i].receipt # None
      BY <2>1, <2>5, <3>1 DEF Holds
    <3>7. SubmissionsTracked' /\ PublishedIsAcked'
      BY <1>5, <2>1, <3>1, <3>4, <3>5, <3>6
         DEF ReceiptStatus, Inv, SubmissionsTracked, PublishedIsAcked, nmpVars
    <3> QED
      BY <1>5, <3>3, <3>7, SessionStep DEF ReceiptStatus, Inv, TypeOK
  <2> QED
    BY <1>5, <2>3, <2>4, <2>5 DEF ReceiptStatus
<1>6. CASE ReceiptClosed
  <2> DEFINE i == Event.item
             n == Event.receipt
  <2>1. i \in Items /\ n \in Receipts
    BY <1>6, TakenFacts, EventFacts DEF ReceiptClosed
  <2>2. CASE subs' = subs
    <3>1. SubmissionsTracked' /\ PublishedIsAcked'
      BY <1>6, <2>2 DEF ReceiptClosed, Inv, SubmissionsTracked, PublishedIsAcked, nmpVars
    <3> QED
      BY <1>6, <2>2, <3>1, SessionStep DEF ReceiptClosed, Inv, TypeOK
  <2>3. CASE Holds(i, n) /\ subs' = [subs EXCEPT ![i].phase = "failed"]
    <3>1. subs[i] \in Submission /\ subs[i].receipt = n
      BY <2>1, <2>3 DEF Holds, Inv, TypeOK
    <3>3. subs' \in [Items -> Submission \cup {None}]
      BY <2>1, <2>3, <3>1, PhaseChange
    <3>4. subs'[i] = [phase |-> "failed", receipt |-> n]
      BY <2>1, <2>3, <3>1, PhaseChange
    <3>5. \A j \in Items : j # i => subs'[j] = subs[j]
      BY <2>1, <2>3, <3>1, PhaseChange
    <3>6. subs[i] # None /\ subs[i].receipt # None
      BY <2>1, <2>3, <3>1 DEF Holds
    <3>7. SubmissionsTracked' /\ PublishedIsAcked'
      BY <1>6, <2>1, <3>1, <3>4, <3>5, <3>6
         DEF ReceiptClosed, Inv, SubmissionsTracked, PublishedIsAcked, nmpVars
    <3> QED
      BY <1>6, <3>3, <3>7, SessionStep DEF ReceiptClosed, Inv, TypeOK
  <2> QED
    BY <1>6, <2>2, <2>3 DEF ReceiptClosed, Abandoned
<1>7. CASE KernelStop
  <2>1. EmptyQueue \in Queues /\ None \in Rows
    BY DEF EmptyQueue, Queues, Rows
  <2>2. /\ inbox' = <<>> /\ inbox' \in Seq(Events)
        /\ subs' = NoSubs /\ write' = write
        /\ stream' = [m \in Receipts |-> None]
    BY <1>7 DEF KernelStop
  <2>3. TypeOK'
    BY <1>7, <2>1, <2>2 DEF KernelStop, Inv, TypeOK, NoSubs, bounds
  <2>4. StreamsTruthful' /\ InboxTruthful'
    BY <2>2 DEF StreamsTruthful, InboxTruthful
  <2>5. SubmissionsTracked' /\ PublishedIsAcked'
    BY <2>2 DEF SubmissionsTracked, PublishedIsAcked, NoSubs
  <2> QED
    BY <2>3, <2>4, <2>5 DEF Inv
<1>8. CASE KernelStart \/ Show
  <2>1. Answerable \in SUBSET Items
    BY DEF Answerable, Inv, TypeOK, Queues
  <2>2. InboxTruthful' /\ inbox' \in Seq(Events)
    BY <1>8 DEF KernelStart, Show, Inv, TypeOK, InboxTruthful, nmpVars
  <2>3. UNCHANGED <<sessionVars, nmpVars>>
    BY <1>8 DEF KernelStart, Show
  <2>4. running' \in BOOLEAN /\ taps' \in Nat /\ frames' \in Nat /\ starts' \in Nat
    <3>1. CASE KernelStart
      <4>1. running' = TRUE /\ taps' = taps /\ frames' = frames /\ starts' = starts + 1
        BY <3>1 DEF KernelStart
      <4> QED
        BY <4>1 DEF Inv, TypeOK
    <3>2. CASE Show
      BY <3>2 DEF Show, Inv, TypeOK, bounds
    <3> QED
      BY <1>8, <3>1, <3>2
  <2>5. screen' \in SUBSET Items
    BY <1>8, <2>1 DEF KernelStart, Show
  <2> QED
    BY <2>2, <2>3, <2>4, <2>5, SenderStep
<1>9. ASSUME NEW i \in Items, NEW valid \in BOOLEAN, Tap(i, valid)
      PROVE  Inv'
  <2>1. Submit(i, valid) \in Events /\ Submit(i, valid).type = "submit"
    BY DEF Submit, Events
  <2>2. InboxTruthful' /\ inbox' \in Seq(Events)
    BY <1>9, <2>1, SendTruthful DEF Tap, nmpVars
  <2> QED
    BY <1>9, <2>2, SenderStep DEF Tap, Inv, TypeOK
<1>10. ASSUME NEW signed \in BOOLEAN, ChangeAccount(signed)
       PROVE  Inv'
  <2>1. Account(signed) \in Events /\ Account(signed).type = "account"
    BY DEF Account, Events
  <2>2. InboxTruthful' /\ inbox' \in Seq(Events)
    BY <1>10, <2>1, SendTruthful DEF ChangeAccount, nmpVars
  <2> QED
    BY <1>10, <2>2, SenderStep DEF ChangeAccount, Inv, TypeOK, bounds
<1>11. ASSUME NEW r \in Rows, DeliverFrame(r)
       PROVE  Inv'
  <2>1. Frame(r) \in Events /\ Frame(r).type = "frame"
    BY DEF Frame, Events
  <2>2. InboxTruthful' /\ inbox' \in Seq(Events)
    BY <1>11, <2>1, SendTruthful DEF DeliverFrame, nmpVars
  <2> QED
    BY <1>11, <2>2, SenderStep DEF DeliverFrame, Inv, TypeOK
<1>12. CASE RequestStop
  <2>1. Stop \in Events /\ Stop.type = "stop"
    BY DEF Stop, Events
  <2>2. InboxTruthful' /\ inbox' \in Seq(Events)
    BY <1>12, <2>1, SendTruthful DEF RequestStop, nmpVars
  <2> QED
    BY <1>12, <2>2, SenderStep DEF RequestStop, Inv, TypeOK, bounds
<1>13. ASSUME NEW n \in Receipts, NEW status \in {"signed"} \cup Endings,
              Moves(n, status), write[n] # None, write[n].status \notin Endings
       PROVE  Inv'
  <2>1. write[n] \in Write /\ write' = [write EXCEPT ![n].status = status]
    BY <1>13 DEF Moves, Inv, TypeOK
  <2>2. /\ write'[n] = [item |-> write[n].item, status |-> status]
        /\ write'[n] \in Write /\ write'[n] # None
    <3>1. write'[n] = [write[n] EXCEPT !.status = status]
      BY <2>1 DEF Inv, TypeOK
    <3> QED
      BY <2>1, <3>1 DEF Write
  <2>3. \A m \in Receipts : m # n => write'[m] = write[m]
    BY <2>1 DEF Inv, TypeOK
  <2>4. write' \in [Receipts -> Write \cup {None}]
    BY <2>1, <2>2, <2>3 DEF Inv, TypeOK
  <2>5. /\ stream' \in [Receipts -> {None} \cup Seq(Statuses)]
        /\ \A m \in Receipts : m # n => stream'[m] = stream[m]
        /\ stream'[n] = stream[n] \/
             (stream[n] \in Seq(Statuses) /\ stream'[n] = Append(stream[n], status))
    <3>1. CASE ~Listened(n)
      BY <1>13, <3>1 DEF Moves, Inv, TypeOK
    <3>2. CASE Listened(n)
      <4>1. stream[n] \in Seq(Statuses)
        BY <3>2 DEF Listened, Inv, TypeOK
      <4>2. status \in Statuses
        BY <1>13 DEF Statuses
      <4>3. Append(stream[n], status) \in Seq(Statuses)
        BY <4>1, <4>2, AppendFacts
      <4>4. stream' = [stream EXCEPT ![n] = Append(stream[n], status)]
        BY <1>13, <3>2 DEF Moves
      <4> QED
        BY <4>1, <4>3, <4>4 DEF Inv, TypeOK
    <3> QED
      BY <3>1, <3>2
  <2>6. TypeOK'
    BY <1>13, <2>4, <2>5 DEF Moves, Inv, TypeOK, sessionVars, bounds
  <2>7. StreamsTruthful'
    <3>1. ASSUME NEW m \in Receipts, stream'[m] # None
          PROVE  /\ write'[m] # None
                 /\ \A k \in DOMAIN stream'[m] :
                      stream'[m][k] \in Endings => write'[m].status = stream'[m][k]
      <4>1. CASE m # n
        BY <3>1, <4>1, <2>3, <2>5 DEF Inv, StreamsTruthful
      <4>2. CASE m = n /\ stream'[n] = stream[n]
        <5>1. \A k \in DOMAIN stream[n] : stream[n][k] \notin Endings
          BY <1>13, <3>1, <4>2 DEF Inv, StreamsTruthful
        <5> QED
          BY <4>2, <5>1, <2>2
      <4>3. CASE m = n /\ stream[n] \in Seq(Statuses)
                       /\ stream'[n] = Append(stream[n], status)
        <5>1. \A k \in DOMAIN stream[n] : stream[n][k] \notin Endings
          BY <1>13, <4>3 DEF Inv, StreamsTruthful
        <5>2. \A k \in DOMAIN stream'[n] :
                (k \in DOMAIN stream[n] /\ stream'[n][k] = stream[n][k])
                  \/ stream'[n][k] = status
          BY <1>13, <4>3, AppendFacts DEF Statuses
        <5> QED
          BY <4>3, <5>1, <5>2, <2>2
      <4> QED
        BY <4>1, <4>2, <4>3, <2>5
    <3> QED
      BY <3>1 DEF StreamsTruthful
  <2>8. InboxTruthful'
    <3>1. ASSUME NEW k \in DOMAIN inbox, inbox[k].type = "status",
                 inbox[k].status \in Endings
          PROVE  /\ write'[inbox[k].receipt] # None
                 /\ write'[inbox[k].receipt].status = inbox[k].status
      <4>1. /\ write[inbox[k].receipt] # None
            /\ write[inbox[k].receipt].status = inbox[k].status
        BY <3>1 DEF Inv, InboxTruthful
      <4>2. inbox[k] \in Events
        BY DEF Inv, TypeOK
      <4>3. inbox[k].receipt \in Receipts
        BY <3>1, <4>2, EventFacts
      <4> QED
        BY <1>13, <3>1, <4>1, <4>3, <2>3
    <3>2. inbox' = inbox
      BY <1>13 DEF Moves
    <3> QED
      BY <3>1, <3>2 DEF InboxTruthful
  <2>9. subs' = subs
    BY <1>13 DEF Moves, sessionVars
  <2>10. SubmissionsTracked'
    <3>1. \A m \in Receipts :
            write[m] # None => write'[m] # None /\ write'[m].item = write[m].item
      BY <2>2, <2>3
    <3>2. \A j \in Items : subs[j] # None /\ subs[j].receipt # None =>
            subs[j].receipt \in Receipts
      BY DEF Inv, TypeOK, Submission
    <3> QED
      BY <2>9, <3>1, <3>2 DEF Inv, SubmissionsTracked
  <2>11. PublishedIsAcked'
    <3>1. ASSUME NEW j \in Items, subs[j] # None, subs[j].phase = "published"
          PROVE  subs[j].receipt # n
      <4>1. write[subs[j].receipt] = [item |-> j, status |-> "acked"]
        BY <3>1 DEF Inv, PublishedIsAcked
      <4>2. write[subs[j].receipt].status \in Endings
        BY <4>1 DEF Endings
      <4> QED
        BY <1>13, <4>2
    <3> QED
      BY <2>3, <2>9, <3>1 DEF Inv, PublishedIsAcked
  <2> QED
    BY <2>6, <2>7, <2>8, <2>10, <2>11 DEF Inv
<1>14. ASSUME NEW n \in Receipts, Sign(n)
       PROVE  Inv'
  BY <1>13, <1>14 DEF Sign, Endings, Failures
<1>15. ASSUME NEW n \in Receipts, NEW status \in Endings, EndWrite(n, status)
       PROVE  Inv'
  BY <1>13, <1>15 DEF EndWrite, Endings, Failures
<1>16. ASSUME NEW n \in Receipts, CloseStream(n)
       PROVE  Inv'
  <2>1. stream[n] \in Seq(Statuses) /\ stream[n] # None
    BY <1>16 DEF CloseStream, Listened, Inv, TypeOK
  <2>2. /\ Append(stream[n], "closed") \in Seq(Statuses)
        /\ \A k \in DOMAIN Append(stream[n], "closed") :
             \/ k \in DOMAIN stream[n] /\ Append(stream[n], "closed")[k] = stream[n][k]
             \/ Append(stream[n], "closed")[k] = "closed"
    BY <2>1, AppendFacts DEF Statuses
  <2>3. stream' = [stream EXCEPT ![n] = Append(stream[n], "closed")]
    BY <1>16 DEF CloseStream
  <2>4. TypeOK'
    BY <1>16, <2>2, <2>3 DEF CloseStream, Inv, TypeOK, sessionVars, bounds
  <2>5. StreamsTruthful'
    <3>1. \A m \in Receipts : m # n => stream'[m] = stream[m]
      BY <2>3 DEF Inv, TypeOK
    <3>2. stream'[n] = Append(stream[n], "closed")
      BY <2>3 DEF Inv, TypeOK
    <3>3. "closed" \notin Endings
      BY DEF Endings, Failures
    <3>4. write' = write
      BY <1>16 DEF CloseStream
    <3> QED
      BY <2>1, <2>2, <3>1, <3>2, <3>3, <3>4 DEF Inv, StreamsTruthful
  <2>6. InboxTruthful' /\ SubmissionsTracked' /\ PublishedIsAcked'
    BY <1>16 DEF CloseStream, Inv, InboxTruthful, SubmissionsTracked, PublishedIsAcked,
                 sessionVars
  <2> QED
    BY <2>4, <2>5, <2>6 DEF Inv
<1>17. ASSUME NEW n \in Receipts, Forward(n)
       PROVE  Inv'
  <2> DEFINE h == Head(stream[n])
             e == IF h = "closed" THEN Closed(write[n].item, n)
                  ELSE Status(write[n].item, n, h)
  <2>1. stream[n] \in Seq(Statuses) /\ stream[n] # None /\ stream[n] # <<>>
    BY <1>17 DEF Forward, Inv, TypeOK
  <2>2. /\ 1 \in DOMAIN stream[n] /\ h = stream[n][1] /\ h \in Statuses
        /\ Tail(stream[n]) \in Seq(Statuses)
        /\ \A k \in DOMAIN Tail(stream[n]) :
             k + 1 \in DOMAIN stream[n] /\ Tail(stream[n])[k] = stream[n][k + 1]
    BY <2>1, TailFacts
  <2>3. write[n] # None /\ write[n].item \in Items
    BY <2>1 DEF Inv, TypeOK, StreamsTruthful, Write
  <2>4. h \in Endings => write[n].status = h
    BY <2>1, <2>2 DEF Inv, StreamsTruthful
  <2>5. e \in Events
    BY <2>2, <2>3 DEF Closed, Status, Events
  <2>6. e.type = "status" /\ e.status \in Endings =>
          write[e.receipt] # None /\ write[e.receipt].status = e.status
    BY <2>3, <2>4 DEF Closed, Status
  <2>7. Send(e) /\ write' = write
    BY <1>17 DEF Forward
  <2>8. InboxTruthful' /\ inbox' \in Seq(Events)
    BY <2>5, <2>6, <2>7, SendTruthful
  <2>9. stream' = [stream EXCEPT ![n] = None]
          \/ stream' = [stream EXCEPT ![n] = Tail(stream[n])]
    BY <1>17 DEF Forward
  <2>10. TypeOK'
    BY <1>17, <2>2, <2>7, <2>8, <2>9 DEF Forward, Inv, TypeOK, sessionVars, bounds
  <2>11. StreamsTruthful'
    <3>1. \A m \in Receipts : m # n => stream'[m] = stream[m]
      BY <2>9 DEF Inv, TypeOK
    <3>2. stream'[n] = None \/ stream'[n] = Tail(stream[n])
      BY <2>9 DEF Inv, TypeOK
    <3>3. ASSUME stream'[n] = Tail(stream[n]), NEW k \in DOMAIN Tail(stream[n]),
                 Tail(stream[n])[k] \in Endings
          PROVE  write[n].status = Tail(stream[n])[k]
      <4>1. k + 1 \in DOMAIN stream[n] /\ Tail(stream[n])[k] = stream[n][k + 1]
        BY <2>2, <3>3
      <4> QED
        BY <2>1, <3>3, <4>1 DEF Inv, StreamsTruthful
    <3>4. \A m \in Receipts : m # n /\ stream'[m] # None =>
            /\ write'[m] # None
            /\ \A k \in DOMAIN stream'[m] :
                 stream'[m][k] \in Endings => write'[m].status = stream'[m][k]
      BY <2>7, <3>1 DEF Inv, StreamsTruthful
    <3>5. stream'[n] # None =>
            /\ write'[n] # None
            /\ \A k \in DOMAIN stream'[n] :
                 stream'[n][k] \in Endings => write'[n].status = stream'[n][k]
      BY <2>3, <2>7, <3>2, <3>3
    <3> QED
      BY <3>4, <3>5 DEF StreamsTruthful
  <2>12. SubmissionsTracked' /\ PublishedIsAcked'
    BY <1>17, <2>7 DEF Forward, Inv, SubmissionsTracked, PublishedIsAcked, sessionVars
  <2> QED
    BY <2>8, <2>10, <2>11, <2>12 DEF Inv
<1>18. CASE UNCHANGED vars
  <2>1. InboxTruthful' /\ inbox' \in Seq(Events)
    BY <1>18 DEF vars, nmpVars, Inv, TypeOK, InboxTruthful
  <2> QED
    BY <1>18, <2>1, SenderStep DEF vars, bounds, Inv, TypeOK
<1> QED
  BY <1>1, <1>2, <1>3, <1>4, <1>5, <1>6, <1>7, <1>8, <1>9, <1>10, <1>11, <1>12,
     <1>14, <1>15, <1>16, <1>17, <1>18
     DEF Next, KernelStep, UserStep, NmpStep

\* In every reachable state what waits in the channels and in the inbox, and what
\* the session reports, is true of the answers NMP has accepted.
THEOREM Invariance == Spec => []Inv
<1>1. Init => Inv
  <2> SUFFICES ASSUME Init PROVE Inv
    OBVIOUS
  <2>1. EmptyQueue \in Queues /\ None \in Rows
    BY DEF EmptyQueue, Queues, Rows
  <2>2. TypeOK
    <3>1. /\ running \in BOOLEAN /\ signedIn \in BOOLEAN
          /\ taps \in Nat /\ frames \in Nat /\ starts \in Nat
      BY DEF Init
    <3>2. inbox \in Seq(Events) /\ screen \in SUBSET Items
      BY DEF Init
    <3>3. rows \in Rows /\ queue \in Queues
      BY <2>1 DEF Init
    <3>4. /\ subs \in [Items -> Submission \cup {None}]
          /\ write \in [Receipts -> Write \cup {None}]
          /\ stream \in [Receipts -> {None} \cup Seq(Statuses)]
      BY DEF Init, NoSubs
    <3> QED
      BY <3>1, <3>2, <3>3, <3>4 DEF TypeOK
  <2>3. StreamsTruthful /\ InboxTruthful
    BY DEF Init, StreamsTruthful, InboxTruthful
  <2>4. SubmissionsTracked /\ PublishedIsAcked
    BY DEF Init, NoSubs, SubmissionsTracked, PublishedIsAcked
  <2> QED
    BY <2>2, <2>3, <2>4 DEF Inv
<1>2. Inv /\ [Next]_vars => Inv'
  BY Step
<1> QED
  BY <1>1, <1>2, PTL DEF Spec

\* An answer reported as published is the one the host acknowledged, whatever
\* earlier receipts still report (receipt_status).
THEOREM Published == Spec => []PublishedIsAcked
<1>1. Inv => PublishedIsAcked
  BY DEF Inv
<1> QED
  BY <1>1, Invariance, PTL

\* The rows, the kernel's submissions, the events on their way and the screen stay
\* well typed.
THEOREM TypeCorrect == Spec => []TypeOK
<1>1. Inv => TypeOK
  BY DEF Inv
<1> QED
  BY <1>1, Invariance, PTL

\* The events of a receipt never undo a publication they reported.
THEOREM Stays == Spec => PublishedStays
<1> DEFINE Keeps ==
      \A i \in Items :
        subs[i] # None /\ subs[i].phase = "published" /\ subs'[i] # subs[i] =>
          subs'[i] = None \/ (Received("submit") /\ Event.item = i)
<1>1. ASSUME Inv, [Next]_vars
      PROVE  [Keeps]_vars
  <2> SUFFICES ASSUME NEW i \in Items, subs[i] # None, subs[i].phase = "published",
                      subs'[i] # subs[i]
               PROVE  subs'[i] = None \/ (Received("submit") /\ Event.item = i)
    OBVIOUS
  <2>1. CASE UpdateRows
    BY <2>1 DEF UpdateRows
  <2>2. CASE (\E n \in Receipts : SubmitAnswer(n)) \/ RefuseAnswer
    <3>1. PICK x : Received("submit") /\ subs' = [subs EXCEPT ![Event.item] = x]
      BY <2>2 DEF SubmitAnswer, RefuseAnswer
    <3>2. i # Event.item => subs'[i] = subs[i]
      BY <3>1 DEF Inv, TypeOK
    <3> QED
      BY <3>1, <3>2
  <2>3. CASE ReceiptStatus
    <3>1. PICK s \in {"published", "failed"} :
            /\ Holds(Event.item, Event.receipt)
            /\ s = "published" <=> Event.status = "acked"
            /\ s = "failed" => Event.status \in Failures
            /\ subs' = [subs EXCEPT ![Event.item].phase = s]
      BY <2>3 DEF ReceiptStatus, Failures
    <3>2. Event.item = i
      BY <3>1 DEF Inv, TypeOK
    <3>3. subs[i].receipt = Event.receipt /\ subs[i] \in Submission
      <4>1. subs[i] \in Submission
        BY <1>1 DEF Inv, TypeOK
      <4>2. Holds(i, Event.receipt)
        BY <3>1, <3>2
      <4> QED
        BY <4>1, <4>2 DEF Holds
    <3>4. s = "failed"
      BY <3>1, <3>2, <3>3 DEF Inv, TypeOK, Submission
    <3>5. write[Event.receipt].status = Event.status
      <4>1. Received("status")
        BY <2>3 DEF ReceiptStatus
      <4>2. Event.status \in Endings
        BY <3>1, <3>4 DEF Endings
      <4> QED
        BY <1>1, <4>1, <4>2, TakenFacts
    <3>6. write[Event.receipt].status = "acked"
      <4>1. write[subs[i].receipt] = [item |-> i, status |-> "acked"]
        BY <1>1 DEF Inv, PublishedIsAcked
      <4> QED
        BY <3>3, <4>1
    <3> QED
      BY <3>1, <3>4, <3>5, <3>6 DEF Failures
  <2>4. CASE ReceiptClosed
    BY <2>4 DEF ReceiptClosed, Abandoned, Inv, TypeOK
  <2>5. CASE KernelStop
    BY <2>5 DEF KernelStop, NoSubs
  <2>6. CASE AccountChanged
    BY <2>6 DEF AccountChanged
  <2>7. CASE UserStep
    BY <2>7 DEF UserStep, KernelStart, Show, RequestStop, Tap, ChangeAccount, sessionVars
  <2>8. CASE \E r \in Rows : DeliverFrame(r)
    BY <2>8 DEF DeliverFrame, sessionVars
  <2>9. CASE \E n \in Receipts : NmpStep(n)
    BY <2>9 DEF NmpStep, Sign, EndWrite, Moves, CloseStream, Forward, sessionVars
  <2>10. CASE UNCHANGED vars
    BY <2>10 DEF vars, sessionVars
  <2>11. CASE KernelStep
    BY <2>1, <2>2, <2>3, <2>4, <2>5, <2>6, <2>11 DEF KernelStep
  <2> QED
    BY <1>1, <2>7, <2>8, <2>9, <2>10, <2>11 DEF Next
<1> QED
  BY <1>1, Invariance, PTL DEF Spec, PublishedStays
=============================================================================
