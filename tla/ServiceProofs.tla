---------------------------- MODULE ServiceProofs ----------------------------
(***************************************************************************)
(* Theorems about Service, for any trees, contents, ids and bounds.        *)
(***************************************************************************)
EXTENDS Service, SequenceTheorems, FunctionTheorems, FiniteSetTheorems, TLAPS

(***************************************************************************)
(* The answer wait.                                                        *)
(***************************************************************************)
\* The handle is stored before the loop begins, and the cancelling thread
\* cannot be done while the waiting one holds the mutex.
Handover ==
  /\ wpc = "store" => cpc # "done"
  /\ wpc \in Watching => handle
  /\ wpc \in {"clock", "recv"} => frames < MaxFrames
  /\ frame => posted

\* A frame that came too late does not pass the two checks that follow it.
FrameInHand ==
  /\ wpc = "got" /\ overdue => cancelled \/ now >= deadline
  /\ wpc = "late" /\ overdue => now >= deadline
  /\ wpc = "look" => ~overdue

\* An observation is ended by the engine or by a cancel whose flag is up.
StreamEnd ==
  /\ wpc \in {"install", "lock", "store"} \cup Watching /\ ~open => broken \/ cancelled
  /\ wpc = "closed" => ~open

WaitInv ==
  WaitTypeOK /\ Handover /\ CancelNotLost /\ FrameInHand /\ StreamEnd /\ ResultIsHonest

\* Some step of the wait, or none.
WaitMoves ==
  \/ \E t \in 0..MaxTime : Begin(t)
  \/ WaiterStep
  \/ CancelStep
  \/ Tick
  \/ EngineCloses
  \/ PostAnswer
  \/ DropWait
  \/ UNCHANGED waitVars

\* Every step of the service is one of the wait, or leaves it alone.
LEMMA ServiceMovesWait ==
  ASSUME call # None => call.tree \in Trees, [Next]_vars
  PROVE  WaitMoves
<1>1. ASSUME BeginWait PROVE WaitMoves
  <2>1. call.tree.wait \in 0..MaxTime
    BY <1>1, WaitsAssumption DEF BeginWait, Returned, Complete
  <2> QED
    BY <1>1, <2>1 DEF BeginWait, WaitMoves
<1> QED
  BY <1>1
  DEF Next, vars, Serve, Publish, Deliver, Wait, Answer, SendReply, Fail, EditFile, WaitMoves

\* The threads, the clock and the host keep the invariant of the wait.
LEMMA WaitStepInv == WaitInv /\ WaitMoves => WaitInv'
<1> SUFFICES ASSUME WaitInv, WaitMoves PROVE WaitInv'
  OBVIOUS
<1> USE WaitAssumption DEF WaitInv, WaitTypeOK, Handover, CancelNotLost, FrameInHand, StreamEnd,
          ResultIsHonest, Watching, Returns, GoesOn, cancelVars, seenVars
<1>1. CASE \E t \in 0..MaxTime : Begin(t)
  BY <1>1 DEF Begin
<1>2. CASE Observe
  BY <1>2 DEF Observe, Results
<1>3. CASE Install
  BY <1>3 DEF Install, Results
<1>4. CASE Recheck
  <2>1. CASE cancelled
    <3>1. /\ wpc' = "ended" /\ wresult' = "cancelled" /\ open' = FALSE
          /\ UNCHANGED <<now, deadline, frames, frame, cancelled, handle, locked, cpc, posted,
                         overdue, broken>>
      BY <1>4, <2>1 DEF Recheck
    <3>2. {frame', cancelled', handle', locked', open', posted', overdue', broken'}
            \subseteq BOOLEAN
      BY <3>1
    <3>3. ~locked
      BY <1>4 DEF Recheck
    <3> QED
      BY <3>1, <3>2, <3>3 DEF Results
  <2>2. CASE ~cancelled
    BY <1>4, <2>2 DEF Recheck
  <2> QED
    BY <2>1, <2>2
<1>5. CASE Store
  BY <1>5 DEF Store
<1>6. CASE Loop
  BY <1>6 DEF Loop, Results
<1>7. CASE \E shows \in BOOLEAN : Receive(shows)
  BY <1>7 DEF Receive
<1>8. CASE ReceiveFails
  BY <1>8 DEF ReceiveFails, Results
<1>9. CASE Look
  BY <1>9 DEF Look, Results
<1>17. CASE ReadClock
  BY <1>17 DEF ReadClock, Results
<1>18. CASE StreamClosed
  BY <1>18 DEF StreamClosed, Results
<1>19. CASE FrameWanted
  BY <1>19 DEF FrameWanted, Results
<1>20. CASE FrameInTime
  BY <1>20 DEF FrameInTime, Results
<1>10. CASE RaiseFlag
  BY <1>10 DEF RaiseFlag
<1>11. CASE CloseObservation
  BY <1>11 DEF CloseObservation
<1>12. CASE Tick
  BY <1>12 DEF Tick
<1>13. CASE EngineCloses
  BY <1>13 DEF EngineCloses
<1>14. CASE PostAnswer
  BY <1>14 DEF PostAnswer
<1>15. CASE DropWait
  <2>1. {frame', cancelled', handle', locked', open', posted', overdue', broken'}
          \subseteq BOOLEAN
    BY <1>15 DEF DropWait
  <2> QED
    BY <1>15, <2>1 DEF DropWait
<1>16. CASE UNCHANGED waitVars
  BY <1>16 DEF waitVars
<1> QED
  BY <1>1, <1>2, <1>3, <1>4, <1>5, <1>6, <1>7, <1>8, <1>9, <1>10, <1>11, <1>12, <1>13,
     <1>14, <1>15, <1>16, <1>17, <1>18, <1>19, <1>20
  DEF WaitMoves, WaiterStep, CancelStep

(***************************************************************************)
(* The journal and the tree that is being published.                       *)
(***************************************************************************)
\* What ids are made of.
Chars == {"-"} \cup Nat \cup {t.rid[i] : t \in Trees, i \in Nat}
Ids == Seq(Chars)
Stages == {"admitted", "accepted", "published"}
Inputs == [node : Trees \X Seq(Nat), content : Contents, parent : {None} \cup host]
Jobs == [input : Inputs, author : {t.author : t \in Trees}, created : Times, stage : Stages]
Frames == [id : Ids, path : Seq(Nat), parent : {None} \cup host, input : {None} \cup Inputs,
           event : {None} \cup host, next : Nat]

JobsTyped == \A id \in DOMAIN journal : journal[id] \in Jobs

\* A job has the id of its request, or the one its parent's job derives.
Derived(id) ==
  LET node == journal[id].input.node IN
  \/ node[2] = <<>> /\ id = node[1].rid
  \/ \E up \in DOMAIN journal, s \in Seq(Nat), n \in Nat :
       /\ node[2] = Append(s, n)
       /\ journal[up].input.node = <<node[1], s>>
       /\ id = ChildId(up, n)

IdsDerived == \A id \in DOMAIN journal : Derived(id)

OneJobPerNode ==
  \A id, ie \in DOMAIN journal :
    journal[id].input.node = journal[ie].input.node => id = ie

\* What is journaled as published is on the host, which has nothing but events
\* of jobs.
Acknowledged ==
  \A id \in DOMAIN journal :
    journal[id].stage = "published" => Event(journal[id]) \in host
HostFromJobs == \A e \in host : \E id \in DOMAIN journal : e = Event(journal[id])

JournalInv ==
  JobsTyped /\ IdsDerived /\ OneJobPerNode /\ Acknowledged /\ HostFromJobs

\* An activation of publish_node: its id and path extend those of the one
\* below it, whose node is published; a published node is the one of its job.
FrameInv(i) ==
  /\ stack[i].path \in call.tree.nodes
  /\ i = 1 => stack[i].path = <<>> /\ stack[i].id = call.tree.rid
  /\ i > 1 => /\ stack[i - 1].event # None
              /\ \E n \in Nat : /\ stack[i].path = Append(stack[i - 1].path, n)
                                /\ stack[i].id = ChildId(stack[i - 1].id, n)
  /\ stack[i].input # None => stack[i].input.node = <<call.tree, stack[i].path>>
  /\ stack[i].event # None => /\ stack[i].input # None
                              /\ stack[i].id \in DOMAIN journal
                              /\ journal[stack[i].id].input = stack[i].input

StackInv ==
  /\ asked \in Requests
  /\ files \in [Nodes -> Contents]
  /\ call \in {None} \cup [tree : Trees, created : Times]
  /\ stack \in Seq(Frames)
  /\ call = None <=> stack = <<>>
  /\ \A i \in 1..Len(stack) : FrameInv(i)

TreeInv == JournalInv /\ StackInv

-----------------------------------------------------------------------------
\* The id of a child is an id.
LEMMA ChildIdType ==
  ASSUME NEW id \in Ids, NEW n \in Nat
  PROVE  ChildId(id, n) \in Ids
<1> DEFINE m == IF Len(id) < Keep THEN Len(id) ELSE Keep
<1>1. m \in 0..Len(id)
  BY TreesAssumption DEF Ids
<1>2. SubSeq(id, 1, m) \in Ids
  BY <1>1 DEF Ids
<1>3. "-" \in Chars /\ n \in Chars
  BY DEF Chars
<1>4. <<"-", n>> \in Ids
  BY <1>3 DEF Ids
<1> QED
  BY <1>2, <1>4 DEF ChildId, Ids

\* So is that of a request.
LEMMA RequestIdType ==
  ASSUME NEW t \in Trees
  PROVE  t.rid \in Ids
<1>1. Len(t.rid) \in Nat /\ t.rid = [i \in 1..Len(t.rid) |-> t.rid[i]]
  BY TreesAssumption
<1>2. \A i \in 1..Len(t.rid) : t.rid[i] \in Chars
  BY <1>1 DEF Chars
<1>3. [i \in 1..Len(t.rid) |-> t.rid[i]] \in Seq(Chars)
  BY <1>1, <1>2
<1> QED
  BY <1>1, <1>3 DEF Ids

\* The paths of a tree are nodes of the model.
LEMMA NodesFact ==
  ASSUME NEW t \in Trees, NEW path \in t.nodes
  PROVE  <<t, path>> \in Nodes
BY DEF Nodes

\* A host that has more, and a journal that knows more, keep the stack valid.
LEMMA StackKept ==
  ASSUME TreeInv, UNCHANGED <<asked, files, call, stack>>,
         host \subseteq host',
         \A id \in DOMAIN journal : id \in DOMAIN journal' /\ journal'[id].input = journal[id].input
  PROVE  StackInv'
<1>1. Inputs \subseteq Inputs'
  BY DEF Inputs
<1>2. Frames \subseteq Frames'
  BY <1>1 DEF Frames
<1>3. stack' \in Seq(Frames')
  BY <1>2 DEF TreeInv, StackInv
<1>4. \A i \in 1..Len(stack) : FrameInv(i)'
  BY DEF TreeInv, StackInv, FrameInv
<1> QED
  BY <1>3, <1>4 DEF TreeInv, StackInv

\* The journal's part looks at the journal and the host alone.
LEMMA JournalKept ==
  ASSUME JournalInv, UNCHANGED <<journal, host>>
  PROVE  JournalInv'
<1>1. JobsTyped'
  BY DEF JournalInv, JobsTyped, Jobs, Inputs, Stages
<1>2. IdsDerived'
  BY DEF JournalInv, IdsDerived, Derived
<1>3. OneJobPerNode'
  BY DEF JournalInv, OneJobPerNode
<1>4. Acknowledged' /\ HostFromJobs'
  BY DEF JournalInv, Acknowledged, HostFromJobs, Event
<1> QED
  BY <1>1, <1>2, <1>3, <1>4 DEF JournalInv

\* A call has an innermost activation.
LEMMA TopFact ==
  ASSUME StackInv, call # None
  PROVE  /\ Len(stack) \in Nat \ {0}
         /\ Top \in Frames
         /\ FrameInv(Len(stack))
         /\ call \in [tree : Trees, created : Times]
BY DEF StackInv, Top

\* A request begins with the root of its tree.
LEMMA ReceiveKeeps ==
  ASSUME TreeInv, NEW c \in Clients, NEW time \in Times, ReceiveRequest(asked[c], time)
  PROVE  TreeInv'
<1> DEFINE t == asked[c]
           f == Frame(t.rid, <<>>, None)
<1>1. t \in Trees
  BY DEF TreeInv, StackInv, Trees
<1>2. t.rid \in Ids /\ <<>> \in t.nodes
  BY <1>1, TreesAssumption, RequestIdType
<1>3. call' \in [tree : Trees, created : Times] /\ call' # None /\ call'.tree = t
  BY <1>1, TreesAssumption DEF ReceiveRequest
<1>4. f \in Frames'
  BY <1>2 DEF Frame, Frames
<1>5. stack' = <<f>>
  BY DEF ReceiveRequest
<1> HIDE DEF f
<1>6. stack' \in Seq(Frames') /\ Len(stack') = 1 /\ stack'[1] = f /\ stack' # <<>>
  BY <1>4, <1>5
<1>7. FrameInv(1)'
  BY <1>2, <1>3, <1>6 DEF FrameInv, f, Frame
<1>8. StackInv'
  BY <1>3, <1>6, <1>7 DEF TreeInv, StackInv, ReceiveRequest
<1> QED
  BY <1>8, JournalKept DEF TreeInv, ReceiveRequest

\* A call that ends leaves no activation.
LEMMA EndKeeps ==
  ASSUME TreeInv, call' = None, stack' = <<>>, UNCHANGED <<asked, files, journal, host>>
  PROVE  TreeInv'
<1>1. StackInv'
  BY DEF TreeInv, StackInv
<1> QED
  BY <1>1, JournalKept DEF TreeInv

\* The activations do not look at the files.
LEMMA EditKeeps ==
  ASSUME TreeInv, NEW node, Edit(node)
  PROVE  TreeInv'
<1>1. files' \in [Nodes -> Contents]
  BY DEF TreeInv, StackInv, Edit
<1>2. \A i \in 1..Len(stack) : FrameInv(i)'
  BY DEF TreeInv, StackInv, FrameInv, Edit
<1>3. StackInv'
  BY <1>1, <1>2 DEF TreeInv, StackInv, Edit, Frames, Inputs
<1> QED
  BY <1>3, JournalKept DEF TreeInv, Edit

\* What is read becomes the input of the innermost activation.
LEMMA ReadKeeps ==
  ASSUME TreeInv, ReadFiles
  PROVE  TreeInv'
<1> DEFINE L == Len(stack)
           inp == [node    |-> <<call.tree, Top.path>>,
                  content |-> files[<<call.tree, Top.path>>],
                  parent  |-> Top.parent]
           f == [Top EXCEPT !.input = inp]
<1>1. /\ L \in Nat \ {0} /\ Top \in Frames /\ FrameInv(L) /\ Top = stack[L]
      /\ call \in [tree : Trees, created : Times]
  BY TopFact DEF TreeInv, ReadFiles, Top
<1>2. files[<<call.tree, Top.path>>] \in Contents
  BY <1>1, NodesFact DEF TreeInv, StackInv, FrameInv
<1>3. inp \in Inputs
  BY <1>1, <1>2 DEF Inputs, Frames
<1>4. f \in Frames /\ f.input = inp /\ f.path = Top.path /\ f.id = Top.id /\ f.event = Top.event
  BY <1>1, <1>3 DEF Frames
<1>5. stack' = [stack EXCEPT ![L] = f] /\ UNCHANGED <<asked, files, journal, host, call>>
  BY DEF ReadFiles, SetTop
<1>6. inp.node = <<call.tree, Top.path>>
  OBVIOUS
<1>7. Top.event = None
  BY <1>1 DEF FrameInv, ReadFiles
<1> HIDE DEF inp, f
<1>8. /\ stack' \in Seq(Frames) /\ Len(stack') = L /\ stack'[L] = f
      /\ \A i \in 1..L : i # L => stack'[i] = stack[i]
  BY <1>1, <1>4, <1>5 DEF TreeInv, StackInv
<1>9. ASSUME NEW i \in 1..L PROVE FrameInv(i)'
  <2>1. FrameInv(i)
    BY DEF TreeInv, StackInv
  <2>2. CASE i = L
    <3>1. i > 1 => i - 1 \in 1..L /\ i - 1 # L
      BY <1>1, <2>2
    <3>2. stack'[i].path = stack[i].path /\ stack'[i].id = stack[i].id
      BY <1>1, <1>4, <1>8, <2>2
    <3>3. i > 1 => stack'[i - 1] = stack[i - 1]
      BY <1>8, <3>1
    <3> QED
      BY <1>1, <1>4, <1>5, <1>6, <1>7, <1>8, <2>1, <2>2, <3>2, <3>3 DEF FrameInv
  <2>3. CASE i # L
    <3>1. i > 1 => i - 1 \in 1..L /\ i - 1 # L
      BY <1>1, <2>3
    <3> QED
      BY <1>1, <1>5, <1>8, <2>1, <2>3, <3>1 DEF FrameInv
  <2> QED
    BY <2>2, <2>3
<1>10. stack' \in Seq(Frames')
  BY <1>5, <1>8 DEF Frames, Inputs
<1>11. stack' # <<>>
  BY <1>1, <1>8
<1>12. StackInv'
  BY <1>1, <1>5, <1>8, <1>9, <1>10, <1>11 DEF TreeInv, StackInv, ReadFiles
<1> QED
  BY <1>5, <1>12, JournalKept DEF TreeInv

\* Below an activation that is not the root's there is another one.
LEMMA Below ==
  ASSUME NEW n \in Nat \ {0}, n # 1
  PROVE  n > 1 /\ n - 1 \in 1..n /\ n - 1 # 0
OBVIOUS

\* A job whose node and whose parent's node stay has the id it had.
LEMMA DerivedKept ==
  ASSUME NEW id \in DOMAIN journal, Derived(id),
         \A j \in DOMAIN journal :
           j \in DOMAIN journal' /\ journal'[j].input.node = journal[j].input.node
  PROVE  Derived(id)'
<1> DEFINE node == journal[id].input.node
<1>1. CASE node[2] = <<>> /\ id = node[1].rid
  BY <1>1 DEF Derived
<1>2. CASE ~(node[2] = <<>> /\ id = node[1].rid)
  <2>1. PICK up \in DOMAIN journal, s \in Seq(Nat), n \in Nat :
          /\ node[2] = Append(s, n)
          /\ journal[up].input.node = <<node[1], s>>
          /\ id = ChildId(up, n)
    BY <1>2 DEF Derived
  <2>2. /\ up \in DOMAIN journal' /\ journal'[up].input.node = <<node[1], s>>
        /\ journal'[id].input.node = node
    BY <2>1
  <2> QED
    BY <2>1, <2>2 DEF Derived
<1> QED
  BY <1>1, <1>2

\* A job moves to another stage.
LEMMA StageKeeps ==
  ASSUME JournalInv, NEW k \in DOMAIN journal, NEW st \in Stages,
         journal' = [journal EXCEPT ![k].stage = st],
         st = "published" => Event(journal[k]) \in host,
         host' = host
  PROVE  /\ JournalInv'
         /\ DOMAIN journal' = DOMAIN journal
         /\ \A id \in DOMAIN journal : journal'[id].input = journal[id].input
<1>1. DOMAIN journal' = DOMAIN journal
  OBVIOUS
<1>2. ASSUME NEW id \in DOMAIN journal
      PROVE  /\ journal'[id] \in Jobs
             /\ journal'[id].input = journal[id].input
             /\ Event(journal'[id]) = Event(journal[id])
             /\ journal'[id].stage = "published" => Event(journal[id]) \in host
  <2>1. journal[id] \in Jobs
    BY DEF JournalInv, JobsTyped
  <2>2. CASE id = k
    <3>1. journal'[id] = [journal[k] EXCEPT !.stage = st]
      BY <2>2
    <3> QED
      BY <2>1, <2>2, <3>1 DEF Jobs, Event
  <2>3. CASE id # k
    <3>1. journal'[id] = journal[id]
      BY <2>3
    <3> QED
      BY <2>1, <3>1 DEF JournalInv, Acknowledged
  <2> QED
    BY <2>2, <2>3
<1>3. JobsTyped'
  BY <1>1, <1>2 DEF JobsTyped, Jobs, Inputs, Stages
<1>4. IdsDerived'
  <2>1. \A id \in DOMAIN journal : journal'[id].input.node = journal[id].input.node
    BY <1>2
  <2>2. ASSUME NEW id \in DOMAIN journal PROVE Derived(id)'
    BY <1>1, <2>1, DerivedKept DEF JournalInv, IdsDerived
  <2> QED
    BY <1>1, <2>2 DEF IdsDerived
<1>5. OneJobPerNode'
  BY <1>1, <1>2 DEF JournalInv, OneJobPerNode
<1>6. Acknowledged' /\ HostFromJobs'
  BY <1>1, <1>2 DEF JournalInv, Acknowledged, HostFromJobs, Event
<1> QED
  BY <1>1, <1>2, <1>3, <1>4, <1>5, <1>6 DEF JournalInv

\* NMP accepts the item.
LEMMA AcceptKeeps ==
  ASSUME TreeInv, Accept
  PROVE  TreeInv'
<1> DEFINE k == Top.id
<1>1. /\ k \in DOMAIN journal /\ journal' = [journal EXCEPT ![k].stage = "accepted"]
      /\ UNCHANGED <<asked, files, host, call, stack>>
  BY DEF Accept, Admitted
<1>2. "accepted" \in Stages /\ "accepted" # "published"
  BY DEF Stages
<1> HIDE DEF k
<1>3. /\ JournalInv'
      /\ DOMAIN journal' = DOMAIN journal
      /\ \A id \in DOMAIN journal : journal'[id].input = journal[id].input
  BY <1>1, <1>2, StageKeeps DEF TreeInv
<1> QED
  BY <1>1, <1>3, StackKept DEF TreeInv

\* NMP delivers it.
LEMMA DeliverKeeps ==
  ASSUME TreeInv, NEW k \in DOMAIN journal, DeliverEvent(k)
  PROVE  TreeInv'
<1>1. /\ host' = host \cup {Event(journal[k])}
      /\ UNCHANGED <<asked, files, journal, call, stack>>
  BY DEF DeliverEvent
<1>2. JobsTyped'
  BY <1>1 DEF TreeInv, JournalInv, JobsTyped, Jobs, Inputs, Stages
<1>3. IdsDerived'
  BY <1>1 DEF TreeInv, JournalInv, IdsDerived, Derived
<1>4. OneJobPerNode'
  BY <1>1 DEF TreeInv, JournalInv, OneJobPerNode
<1>5. Acknowledged' /\ HostFromJobs'
  BY <1>1 DEF TreeInv, JournalInv, Acknowledged, HostFromJobs, Event
<1>6. StackInv'
  BY <1>1, StackKept
<1> QED
  BY <1>2, <1>3, <1>4, <1>5, <1>6 DEF TreeInv, JournalInv

\* The innermost activation learns the event of its node.
LEMMA PublishedKeeps ==
  ASSUME TreeInv, Published
  PROVE  TreeInv'
<1> DEFINE L == Len(stack)
           k == Top.id
           ev == Event(journal[k])
           f == [Top EXCEPT !.event = ev]
<1>1. /\ L \in Nat \ {0} /\ Top \in Frames /\ FrameInv(L) /\ Top = stack[L]
      /\ call \in [tree : Trees, created : Times]
  BY TopFact DEF TreeInv, Published, Admitted, Reading, Top
<1>2. /\ k \in DOMAIN journal /\ journal[k].input = Top.input
      /\ Top.input # None
      /\ journal' = [journal EXCEPT ![k].stage = "published"]
      /\ stack' = [stack EXCEPT ![L] = f]
      /\ UNCHANGED <<asked, files, host, call>>
  BY DEF Published, Admitted, SameRequest, Reading, SetTop
<1>3. ev \in host
  BY DEF Published, Admitted, TreeInv, JournalInv, Acknowledged
<1>4. f \in Frames /\ f.input = Top.input /\ f.path = Top.path /\ f.id = k
  BY <1>1, <1>3 DEF Frames
<1>5. "published" \in Stages
  BY DEF Stages
<1> HIDE DEF k, f
<1>6. /\ JournalInv'
      /\ DOMAIN journal' = DOMAIN journal
      /\ \A id \in DOMAIN journal : journal'[id].input = journal[id].input
  BY <1>2, <1>3, <1>5, StageKeeps DEF TreeInv
<1>7. /\ stack' \in Seq(Frames) /\ Len(stack') = L /\ stack'[L] = f
      /\ \A i \in 1..L : i # L => stack'[i] = stack[i]
  BY <1>1, <1>2, <1>4 DEF TreeInv, StackInv
<1>8. ASSUME NEW i \in 1..L PROVE FrameInv(i)'
  <2>1. FrameInv(i)
    BY DEF TreeInv, StackInv
  <2>2. CASE i = L
    <3>1. i > 1 => i - 1 \in 1..L /\ i - 1 # L
      BY <1>1, <2>2
    <3>2. /\ stack'[i].path = stack[i].path /\ stack'[i].id = stack[i].id
          /\ stack'[i].input = stack[i].input
      BY <1>1, <1>4, <1>7, <2>2 DEF k
    <3>3. i > 1 => stack'[i - 1] = stack[i - 1]
      BY <1>7, <3>1
    <3>4. /\ stack'[i].input # None /\ stack'[i].id \in DOMAIN journal'
          /\ journal'[stack'[i].id].input = stack'[i].input
      BY <1>1, <1>2, <1>4, <1>6, <1>7, <2>2
    <3> QED
      BY <1>2, <2>1, <3>2, <3>3, <3>4 DEF FrameInv
  <2>3. CASE i # L
    <3>1. i > 1 => i - 1 \in 1..L /\ i - 1 # L
      BY <1>1, <2>3
    <3>2. stack'[i] = stack[i] /\ (i > 1 => stack'[i - 1] = stack[i - 1])
      BY <1>7, <2>3, <3>1
    <3> QED
      BY <1>2, <1>6, <2>1, <3>2 DEF FrameInv
  <2> QED
    BY <2>2, <2>3
<1>9. stack' \in Seq(Frames')
  BY <1>2, <1>7 DEF Frames, Inputs
<1>10. stack' # <<>>
  BY <1>1, <1>7
<1>11. call # None
  BY DEF Published, Admitted, Reading
<1>12. StackInv'
  BY <1>1, <1>2, <1>7, <1>8, <1>9, <1>10, <1>11 DEF TreeInv, StackInv
<1> QED
  BY <1>6, <1>12 DEF TreeInv

\* A child begins under the event of its parent.
LEMMA DescendKeeps ==
  ASSUME TreeInv, Descend
  PROVE  TreeInv'
<1> DEFINE L == Len(stack)
           n == Top.next
           f == Frame(ChildId(Top.id, n), Append(Top.path, n), Top.event)
           rest == [stack EXCEPT ![L].next = @ + 1]
<1>1. /\ L \in Nat \ {0} /\ Top \in Frames /\ FrameInv(L) /\ Top = stack[L]
      /\ call \in [tree : Trees, created : Times]
  BY TopFact DEF TreeInv, Descend, Top
<1>2. /\ Top.event # None /\ Append(Top.path, n) \in call.tree.nodes /\ call # None
      /\ stack' = Append(rest, f)
      /\ UNCHANGED <<asked, files, journal, host, call>>
  BY DEF Descend, HasNext
<1>3. n \in Nat /\ Top.path \in Seq(Nat) /\ Top.id \in Ids /\ Top.event \in host
  BY <1>1, <1>2 DEF Frames
<1>4. ChildId(Top.id, n) \in Ids
  BY <1>3, ChildIdType
<1>5. Append(Top.path, n) \in Seq(Nat)
  BY <1>3
<1>6. /\ f \in Frames /\ f.id = ChildId(Top.id, n) /\ f.path = Append(Top.path, n)
      /\ f.input = None /\ f.event = None
  BY <1>3, <1>4, <1>5 DEF Frame, Frames
<1> HIDE DEF f
<1>7. /\ rest \in Seq(Frames) /\ Len(rest) = L
      /\ \A i \in 1..L : /\ rest[i].id = stack[i].id /\ rest[i].path = stack[i].path
                         /\ rest[i].input = stack[i].input /\ rest[i].event = stack[i].event
  <2>1. rest = [stack EXCEPT ![L] = [stack[L] EXCEPT !.next = n + 1]]
    BY <1>1
  <2>2. [stack[L] EXCEPT !.next = n + 1] \in Frames
    BY <1>1, <1>3 DEF Frames
  <2>3. rest \in Seq(Frames) /\ Len(rest) = L
    BY <1>1, <2>1, <2>2 DEF TreeInv, StackInv
  <2>4. ASSUME NEW i \in 1..L
        PROVE  /\ rest[i].id = stack[i].id /\ rest[i].path = stack[i].path
               /\ rest[i].input = stack[i].input /\ rest[i].event = stack[i].event
    <3>1. stack[i] \in Frames
      BY DEF TreeInv, StackInv
    <3>2. rest[i] = IF i = L THEN [stack[L] EXCEPT !.next = n + 1] ELSE stack[i]
      BY <2>1 DEF TreeInv, StackInv
    <3> QED
      BY <1>1, <3>1, <3>2 DEF Frames
  <2> QED
    BY <2>3, <2>4
<1> HIDE DEF rest
<1>8. /\ stack' \in Seq(Frames) /\ Len(stack') = L + 1 /\ stack'[L + 1] = f
      /\ \A i \in 1..L : stack'[i] = rest[i]
  BY <1>1, <1>2, <1>6, <1>7
<1>9. ASSUME NEW i \in 1..(L + 1) PROVE FrameInv(i)'
  <2>1. CASE i = L + 1
    <3>1. /\ i > 1 /\ i - 1 = L /\ L \in 1..L
      BY <1>1, <2>1
    <3>2. /\ stack'[i - 1].event # None
          /\ stack'[i].path = Append(stack'[i - 1].path, n)
          /\ stack'[i].id = ChildId(stack'[i - 1].id, n)
      BY <1>1, <1>2, <1>6, <1>7, <1>8, <2>1, <3>1
    <3>3. stack'[i].path \in call'.tree.nodes /\ stack'[i].input = None /\ stack'[i].event = None
      BY <1>2, <1>6, <1>8, <2>1
    <3> QED
      BY <1>3, <3>1, <3>2, <3>3 DEF FrameInv
  <2>2. CASE i # L + 1
    <3>1. i \in 1..L /\ (i > 1 => i - 1 \in 1..L)
      BY <1>1, <2>2
    <3>2. FrameInv(i)
      BY <3>1 DEF TreeInv, StackInv
    <3>3. /\ stack'[i].id = stack[i].id /\ stack'[i].path = stack[i].path
          /\ stack'[i].input = stack[i].input /\ stack'[i].event = stack[i].event
      BY <1>7, <1>8, <3>1
    <3>4. i > 1 => /\ stack'[i - 1].id = stack[i - 1].id
                   /\ stack'[i - 1].path = stack[i - 1].path
                   /\ stack'[i - 1].event = stack[i - 1].event
      BY <1>7, <1>8, <3>1
    <3> QED
      BY <1>2, <3>2, <3>3, <3>4 DEF FrameInv
  <2> QED
    BY <2>1, <2>2
<1>10. stack' \in Seq(Frames')
  BY <1>2, <1>8 DEF Frames, Inputs
<1>11. stack' # <<>>
  BY <1>1, <1>8
<1>12. StackInv'
  BY <1>1, <1>2, <1>8, <1>9, <1>10, <1>11 DEF TreeInv, StackInv
<1> QED
  BY <1>2, <1>12, JournalKept DEF TreeInv

\* A child returns.
LEMMA AscendKeeps ==
  ASSUME TreeInv, Ascend
  PROVE  TreeInv'
<1> DEFINE L == Len(stack)
<1>1. L \in Nat \ {0} /\ call \in [tree : Trees, created : Times] /\ call # None
  BY TopFact DEF TreeInv, Ascend, Complete
<1>2. /\ L > 1 /\ stack' = SubSeq(stack, 1, L - 1)
      /\ UNCHANGED <<asked, files, journal, host, call>>
  BY DEF Ascend
<1>3. /\ stack' \in Seq(Frames) /\ Len(stack') = L - 1
      /\ \A i \in 1..(L - 1) : stack'[i] = stack[i]
  BY <1>1, <1>2 DEF TreeInv, StackInv
<1>4. ASSUME NEW i \in 1..(L - 1) PROVE FrameInv(i)'
  <2>1. i \in 1..L /\ (i > 1 => i - 1 \in 1..(L - 1))
    BY <1>1
  <2>2. FrameInv(i) /\ stack'[i] = stack[i] /\ (i > 1 => stack'[i - 1] = stack[i - 1])
    BY <1>3, <2>1 DEF TreeInv, StackInv
  <2> QED
    BY <1>2, <2>2 DEF FrameInv
<1>5. stack' \in Seq(Frames')
  BY <1>2, <1>3 DEF Frames, Inputs
<1>6. stack' # <<>>
  <2>1. L # 1
    BY <1>2
  <2>2. L - 1 # 0
    BY <1>1, <2>1, Below
  <2> QED
    BY <1>3, <2>2
<1>7. StackInv'
  BY <1>1, <1>2, <1>3, <1>4, <1>5, <1>6 DEF TreeInv, StackInv
<1> QED
  BY <1>2, <1>7, JournalKept DEF TreeInv

\* A node is admitted under a new id: it has no job yet, because a job of it
\* would have the id its parent's job derives, which is this one.
LEMMA AdmitKeeps ==
  ASSUME TreeInv, Admit
  PROVE  TreeInv'
<1> DEFINE L == Len(stack)
           k == Top.id
           node == <<call.tree, Top.path>>
           job == [input |-> Top.input, author |-> call.tree.author,
                   created |-> call.created, stage |-> "admitted"]
<1>1. /\ L \in Nat \ {0} /\ Top \in Frames /\ FrameInv(L) /\ Top = stack[L]
      /\ call \in [tree : Trees, created : Times]
  BY TopFact DEF TreeInv, Admit, Reading, Top
<1>2. /\ Top.input # None /\ k \notin DOMAIN journal
      /\ UNCHANGED <<asked, files, host, call, stack>>
  BY DEF Admit, Reading
<1>3. Top.input \in Inputs /\ Top.input.node = node
  BY <1>1, <1>2 DEF Frames, FrameInv
<1>4. job \in Jobs /\ job.input = Top.input /\ job.stage # "published"
  BY <1>1, <1>3 DEF Jobs, Stages
<1>5. journal' = [id \in DOMAIN journal \cup {k} |-> IF id # k THEN journal[id] ELSE job]
  BY DEF Admit
<1> HIDE DEF job
<1>6. /\ DOMAIN journal' = DOMAIN journal \cup {k}
      /\ journal'[k] = job
      /\ \A id \in DOMAIN journal : id # k /\ journal'[id] = journal[id]
  BY <1>2, <1>5
<1> HIDE DEF k, node
<1>7. JobsTyped'
  BY <1>2, <1>4, <1>6 DEF TreeInv, JournalInv, JobsTyped, Jobs, Inputs, Stages
<1>8. \/ L = 1 /\ Top.path = <<>> /\ k = call.tree.rid
      \/ \E up \in DOMAIN journal, s \in Seq(Nat), n \in Nat :
           /\ Top.path = Append(s, n)
           /\ journal[up].input.node = <<call.tree, s>>
           /\ k = ChildId(up, n)
  <2>1. CASE L = 1
    BY <1>1, <2>1 DEF FrameInv, k
  <2>2. CASE L # 1
    <3>1. L > 1 /\ L - 1 \in 1..L
      BY <1>1, <2>2, Below
    <3>2. FrameInv(L - 1) /\ stack[L - 1] \in Frames
      BY <3>1 DEF TreeInv, StackInv
    <3>3. PICK n \in Nat : /\ Top.path = Append(stack[L - 1].path, n)
                           /\ k = ChildId(stack[L - 1].id, n)
      BY <1>1, <3>1 DEF FrameInv, k
    <3>4. /\ stack[L - 1].id \in DOMAIN journal
          /\ journal[stack[L - 1].id].input.node = <<call.tree, stack[L - 1].path>>
      BY <1>1, <3>1, <3>2 DEF FrameInv
    <3>5. stack[L - 1].path \in Seq(Nat)
      BY <3>2 DEF Frames
    <3> QED
      BY <3>3, <3>4, <3>5
  <2> QED
    BY <2>1, <2>2
<1>9. journal'[k].input.node = <<call.tree, Top.path>>
  BY <1>3, <1>4, <1>6 DEF node
<1>10. IdsDerived'
  <2>1. ASSUME NEW x, x = k PROVE Derived(x)'
    <3>1. CASE Top.path = <<>> /\ k = call.tree.rid
      BY <1>9, <2>1, <3>1 DEF Derived
    <3>2. CASE ~(Top.path = <<>> /\ k = call.tree.rid)
      <4>1. PICK up \in DOMAIN journal, s \in Seq(Nat), n \in Nat :
              /\ Top.path = Append(s, n)
              /\ journal[up].input.node = <<call.tree, s>>
              /\ k = ChildId(up, n)
        BY <1>8, <3>2
      <4>2. up \in DOMAIN journal' /\ journal'[up].input.node = <<call.tree, s>>
        BY <1>6, <4>1
      <4> QED
        BY <1>9, <2>1, <4>1, <4>2 DEF Derived
    <3> QED
      BY <3>1, <3>2
  <2>2. ASSUME NEW id \in DOMAIN journal PROVE Derived(id)'
    BY <1>6, DerivedKept DEF TreeInv, JournalInv, IdsDerived
  <2> QED
    BY <1>6, <2>1, <2>2 DEF IdsDerived
<1>11. ASSUME NEW id \in DOMAIN journal, journal[id].input.node = <<call.tree, Top.path>>
       PROVE  FALSE
  <2>1. \/ Top.path = <<>> /\ id = call.tree.rid
        \/ \E up \in DOMAIN journal, s \in Seq(Nat), n \in Nat :
             /\ Top.path = Append(s, n)
             /\ journal[up].input.node = <<call.tree, s>>
             /\ id = ChildId(up, n)
    <3>1. Derived(id)
      BY DEF TreeInv, JournalInv, IdsDerived
    <3> QED
      BY <1>11, <3>1 DEF Derived
  <2>2. \A s \in Seq(Nat), n \in Nat : Append(s, n) # <<>>
    OBVIOUS
  <2>3. \A up, uq \in DOMAIN journal :
          journal[up].input.node = journal[uq].input.node => up = uq
    BY DEF TreeInv, JournalInv, OneJobPerNode
  <2>4. id = k
    <3>1. CASE Top.path = <<>>
      BY <1>8, <2>1, <2>2, <3>1
    <3>2. CASE Top.path # <<>>
      <4>1. PICK up \in DOMAIN journal, s \in Seq(Nat), n \in Nat :
              /\ Top.path = Append(s, n)
              /\ journal[up].input.node = <<call.tree, s>>
              /\ k = ChildId(up, n)
        BY <1>8, <3>2
      <4>2. PICK uq \in DOMAIN journal, u \in Seq(Nat), m \in Nat :
              /\ Top.path = Append(u, m)
              /\ journal[uq].input.node = <<call.tree, u>>
              /\ id = ChildId(uq, m)
        BY <2>1, <3>2
      <4>3. s = u /\ m = n
        <5>1. Append(s, n) = Append(u, m)
          BY <4>1, <4>2
        <5> QED
          BY <5>1, AppendInjective
      <4>4. up = uq
        BY <2>3, <4>1, <4>2, <4>3
      <4> QED
        BY <4>1, <4>2, <4>3, <4>4
    <3> QED
      BY <3>1, <3>2
  <2> QED
    BY <1>2, <2>4
<1>12. OneJobPerNode'
  BY <1>6, <1>9, <1>11 DEF TreeInv, JournalInv, OneJobPerNode
<1>13. Acknowledged' /\ HostFromJobs'
  BY <1>2, <1>4, <1>6 DEF TreeInv, JournalInv, Acknowledged, HostFromJobs, Event
<1>14. StackInv'
  BY <1>2, <1>6, StackKept
<1> QED
  BY <1>7, <1>10, <1>12, <1>13, <1>14 DEF TreeInv, JournalInv

(***************************************************************************)
(* The service.                                                            *)
(***************************************************************************)
\* A wait belongs to a request that is published and asked for it.
Waiting == wpc # "idle" => call # None /\ Returned /\ call.tree.wait > 0

Inv == WaitInv /\ TreeInv /\ Waiting

\* Every step of the service keeps the tree's part.
LEMMA TreeStepInv == TreeInv /\ [Next]_vars => TreeInv'
<1> SUFFICES ASSUME TreeInv, [Next]_vars PROVE TreeInv'
  OBVIOUS
<1>1. ASSUME NEW c \in Clients, Serve(c) PROVE TreeInv'
  BY <1>1, ReceiveKeeps DEF Serve
<1>2. CASE Publish
  <2>1. CASE ReadFiles
    BY <2>1, ReadKeeps
  <2>2. CASE Admit
    BY <2>2, AdmitKeeps
  <2>3. CASE Accept
    BY <2>3, AcceptKeeps
  <2>4. CASE Published
    BY <2>4, PublishedKeeps
  <2>5. CASE Descend
    BY <2>5, DescendKeeps
  <2>6. CASE Ascend
    BY <2>6, AscendKeeps
  <2>7. CASE Refuse
    BY <2>7, EndKeeps DEF Refuse, GiveUp
  <2> QED
    BY <1>2, <2>1, <2>2, <2>3, <2>4, <2>5, <2>6, <2>7 DEF Publish, NodeStep
<1>3. ASSUME NEW id \in DOMAIN journal, Deliver(id) PROVE TreeInv'
  BY <1>3, DeliverKeeps DEF Deliver
<1>4. CASE SendReply
  BY <1>4, EndKeeps DEF SendReply, Reply
<1>5. CASE Fail
  BY <1>5, EndKeeps DEF Fail, Abort, GiveUp
<1>6. CASE EditFile
  BY <1>6, EditKeeps DEF EditFile
<1>7. CASE UNCHANGED treeVars
  <2>1. UNCHANGED <<asked, files, journal, host, call, stack>>
    BY <1>7 DEF treeVars
  <2> QED
    BY <2>1, JournalKept, StackKept DEF TreeInv
<1> QED
  BY <1>1, <1>2, <1>3, <1>4, <1>5, <1>6, <1>7
  DEF Next, vars, BeginWait, Wait, Answer

\* While a wait is on, the tree does not move.
LEMMA WaitingStep == Inv /\ [Next]_vars => Waiting'
<1> SUFFICES ASSUME Inv, [Next]_vars PROVE Waiting'
  OBVIOUS
<1>1. ASSUME UNCHANGED <<call, stack>>, wpc # "idle" PROVE Waiting'
  BY <1>1 DEF Inv, Waiting, Returned, Complete, HasNext, Top
<1>2. ASSUME NEW c \in Clients, Serve(c) PROVE Waiting'
  BY <1>2 DEF Inv, Waiting, Serve, ReceiveRequest, waitVars
<1>3. CASE Publish
  <2>1. CASE wpc = "idle"
    BY <1>3, <2>1 DEF Publish, Waiting, waitVars
  <2>2. CASE wpc # "idle"
    <3>1. call # None /\ Returned
      BY <2>2 DEF Inv, Waiting
    <3>2. Top.input # None /\ Top.event # None /\ ~HasNext /\ Len(stack) = 1
      BY <3>1, TopFact DEF Inv, TreeInv, Returned, Complete, FrameInv, Top
    <3> QED
      BY <1>3, <3>2
      DEF Publish, NodeStep, ReadFiles, Reading, Admit, Admitted, Accept, Published,
          Descend, Ascend, Refuse, Conflict
  <2> QED
    BY <2>1, <2>2
<1>4. ASSUME NEW id \in DOMAIN journal, Deliver(id) PROVE Waiting'
  BY <1>1, <1>4 DEF Deliver, DeliverEvent, waitVars, Waiting
<1>5. CASE BeginWait
  BY <1>5 DEF BeginWait, Returned, Complete, Waiting, treeVars, HasNext, Top
<1>6. CASE Wait \/ Answer
  <2>1. wpc = "idle" => wpc' = "idle"
    BY <1>6
    DEF Wait, Answer, WaiterStep, CancelStep, Observe, Install, Recheck, Store, Loop, Receive,
        ReadClock, ReceiveFails, StreamClosed, FrameWanted, FrameInTime, Look, RaiseFlag,
        CloseObservation, Tick, EngineCloses, PostAnswer
  <2>2. UNCHANGED <<call, stack>>
    BY <1>6 DEF Wait, Answer, treeVars
  <2> QED
    BY <1>1, <2>1, <2>2 DEF Waiting
<1>7. CASE SendReply \/ Fail
  BY <1>7 DEF SendReply, Fail, DropWait, Waiting
<1>8. CASE EditFile
  BY <1>1, <1>8 DEF EditFile, Edit, waitVars, Waiting
<1>9. CASE UNCHANGED vars
  BY <1>1, <1>9 DEF vars, treeVars, waitVars, Waiting
<1> QED
  BY <1>2, <1>3, <1>4, <1>5, <1>6, <1>7, <1>8, <1>9 DEF Next

\* A service that starts has no wait, no call and an empty journal.
LEMMA InitInv == Init => Inv
<1> SUFFICES ASSUME Init PROVE Inv
  OBVIOUS
<1>1. WaitInv
  <2>1. {frame, cancelled, handle, locked, open, posted, overdue, broken} \subseteq BOOLEAN
    BY DEF Init, WaitInit
  <2>2. WaitTypeOK
    BY <2>1, WaitAssumption DEF Init, WaitInit, WaitTypeOK
  <2> QED
    BY <2>2 DEF Init, WaitInit, WaitInv, Handover, CancelNotLost, FrameInHand, StreamEnd,
                ResultIsHonest, Watching
<1>2. JournalInv
  BY DEF Init, TreesInit, JournalInv, JobsTyped, IdsDerived, OneJobPerNode, Acknowledged,
         HostFromJobs
<1>3. (CHOOSE c \in Contents : TRUE) \in Contents
  BY TreesAssumption
<1>4. StackInv
  BY <1>3 DEF Init, TreesInit, StackInv
<1> QED
  BY <1>1, <1>2, <1>4 DEF Init, WaitInit, Inv, TreeInv, Waiting

\* Every step of the service keeps the three parts.
LEMMA StepInv == Inv /\ [Next]_vars => Inv'
<1> SUFFICES ASSUME Inv, [Next]_vars PROVE Inv'
  OBVIOUS
<1>1. call # None => call.tree \in Trees
  BY DEF Inv, TreeInv, StackInv
<1>2. WaitInv'
  BY <1>1, ServiceMovesWait, WaitStepInv DEF Inv
<1>3. TreeInv' /\ Waiting'
  BY TreeStepInv, WaitingStep DEF Inv
<1> QED
  BY <1>2, <1>3 DEF Inv

\* The inductive invariant: the threads of the wait, the journal and the
\* activations of publish_node, and the wait that belongs to a request.
THEOREM Invariance == Spec => []Inv
BY InitInv, StepInv, PTL DEF Spec

\* The types, a call exactly while there are activations, a wait only over a
\* published request, and nothing journaled as published that the host lacks.
THEOREM TypeCorrect == Spec => []TypeOK
<1>1. Inv => TypeOK
  BY DEF Inv, WaitInv, TreeInv, StackInv, JournalInv, JobsTyped, Jobs, Stages, Acknowledged,
         Waiting, TypeOK
<1> QED
  BY <1>1, Invariance, PTL

\* A cancel that has returned leaves no wait on an open observation.
THEOREM Cancelled == Spec => []CancelNotLost
<1>1. Inv => CancelNotLost
  BY DEF Inv, WaitInv
<1> QED
  BY <1>1, Invariance, PTL

\* However often a tree is cut off and asked for again, no node of it is
\* published twice and no child before its parent.
THEOREM OnceParentsFirst == Spec => []NodesOnceParentsFirst
<1>1. Inv => NodesOnceParentsFirst
  <2> SUFFICES ASSUME Inv PROVE NodesOnceParentsFirst
    OBVIOUS
  <2>1. ASSUME NEW e \in host, NEW f \in host, e.input.node = f.input.node PROVE e = f
    <3>1. PICK id \in DOMAIN journal : e = Event(journal[id])
      BY DEF Inv, TreeInv, JournalInv, HostFromJobs
    <3>2. PICK ie \in DOMAIN journal : f = Event(journal[ie])
      BY DEF Inv, TreeInv, JournalInv, HostFromJobs
    <3>3. journal[id].input.node = journal[ie].input.node
      BY <2>1, <3>1, <3>2 DEF Event
    <3>4. id = ie
      BY <3>3 DEF Inv, TreeInv, JournalInv, OneJobPerNode
    <3> QED
      BY <3>1, <3>2, <3>4
  <2>2. ASSUME NEW e \in host, e.input.parent # None PROVE e.input.parent \in host
    <3>1. PICK id \in DOMAIN journal : e = Event(journal[id])
      BY DEF Inv, TreeInv, JournalInv, HostFromJobs
    <3>2. journal[id].input \in Inputs
      BY DEF Inv, TreeInv, JournalInv, JobsTyped, Jobs
    <3>3. e.input = journal[id].input
      BY <3>1 DEF Event
    <3> QED
      BY <2>2, <3>2, <3>3 DEF Inputs
  <2> QED
    BY <2>1, <2>2 DEF NodesOnceParentsFirst
<1> QED
  BY <1>1, Invariance, PTL

\* A wait answers only from a frame that came before the cancel and before the
\* deadline, and blames the engine only for a stream the engine ended.
THEOREM Honest == Spec => []ResultIsHonest
<1>1. Inv => ResultIsHonest
  BY DEF Inv, WaitInv
<1> QED
  BY <1>1, Invariance, PTL

(***************************************************************************)
(* The tree.  A successful reply stands for the whole tree: the walk of    *)
(* publish_node, depth first, records every node exactly once under the    *)
(* event of its parent.                                                    *)
(***************************************************************************)
\* The activations are those of a node and its ancestors, and each ancestor has
\* moved on to the child after the one that is active.
OnePath ==
  \A i \in 1..Len(stack) :
    /\ Len(stack[i].path) = i - 1
    /\ \A j \in 1..(i - 1) :
         /\ SubSeq(stack[i].path, 1, j - 1) = stack[j].path
         /\ stack[i].path[j] + 1 = stack[j].next

\* A node that an activation, or one of the children it has yet to begin, leads to.
Entered(p) == \E j \in 1..Len(stack) : stack[j].path = p
Ahead(p) ==
  \E j \in 1..Len(stack) :
    /\ j <= Len(p)
    /\ SubSeq(p, 1, j - 1) = stack[j].path
    /\ p[j] >= stack[j].next

\* The event of a node, under the one of its parent.
NodeEvent(e, t, p) ==
  /\ e \in host
  /\ e.input.node = <<t, p>>
  /\ e.author = t.author
  /\ p = <<>> => e.input.parent = None
  /\ p # <<>> => e.input.parent \in host /\ e.input.parent.input.node = <<t, Parent(p)>>

\* The activations hand the event of their node down to the next.
Linked ==
  \A i \in 1..Len(stack) :
    /\ stack[i].parent = IF i = 1 THEN None ELSE stack[i - 1].event
    /\ stack[i].input # None => stack[i].input.parent = stack[i].parent
    /\ stack[i].event # None =>
         stack[i].event.input = stack[i].input /\ stack[i].event.author = call.tree.author

\* published_children has, once each, events of nodes other than the root.
Recorded ==
  /\ \A k \in 1..Len(children) :
       \E p \in call.tree.nodes \ {<<>>} : NodeEvent(children[k], call.tree, p)
  /\ \A k, l \in 1..Len(children) :
       children[k].input.node = children[l].input.node => k = l

Listed(p) == \E k \in 1..Len(children) : children[k].input.node = <<call.tree, p>>

\* A node is recorded, or else entered or ahead: never two of them, and none is
\* left out.
Walked == \A p \in call.tree.nodes : Listed(p) <=> ~Entered(p) /\ ~Ahead(p)

Walk ==
  /\ children \in Seq(host)
  /\ call = None => children = <<>>
  /\ call # None => OnePath /\ Linked /\ Recorded /\ Walked

-----------------------------------------------------------------------------
(* Paths                                                                   *)

\* The beginning of a path, by its positions.
LEMMA Beginning ==
  ASSUME NEW p \in Seq(Nat), NEW k \in 0..Len(p)
  PROVE  /\ SubSeq(p, 1, k) \in Seq(Nat)
         /\ Len(SubSeq(p, 1, k)) = k
         /\ \A i \in 1..k : SubSeq(p, 1, k)[i] = p[i]
OBVIOUS

\* Two paths with the same positions are one.
LEMMA SamePath ==
  ASSUME NEW p \in Seq(Nat), NEW q \in Seq(Nat), Len(p) = Len(q),
         \A i \in 1..Len(p) : p[i] = q[i]
  PROVE  p = q
OBVIOUS

\* A beginning of a beginning is a beginning.
LEMMA Shorter ==
  ASSUME NEW p \in Seq(Nat), NEW k \in 0..Len(p), NEW j \in 0..k
  PROVE  SubSeq(SubSeq(p, 1, k), 1, j) = SubSeq(p, 1, j)
<1>1. /\ SubSeq(p, 1, k) \in Seq(Nat) /\ Len(SubSeq(p, 1, k)) = k
      /\ \A i \in 1..k : SubSeq(p, 1, k)[i] = p[i]
  BY Beginning
<1>2. j \in 0..Len(p) /\ j \in 0..Len(SubSeq(p, 1, k))
  BY <1>1
<1> DEFINE q == SubSeq(p, 1, k)
           a == SubSeq(q, 1, j)
           b == SubSeq(p, 1, j)
<1>3. a \in Seq(Nat) /\ Len(a) = j /\ \A i \in 1..j : a[i] = q[i]
  BY <1>1, <1>2, Beginning
<1>4. b \in Seq(Nat) /\ Len(b) = j /\ \A i \in 1..j : b[i] = p[i]
  BY <1>2, Beginning
<1>5. \A i \in 1..j : a[i] = b[i]
  BY <1>1, <1>3, <1>4
<1> HIDE DEF a, b
<1> QED
  BY <1>3, <1>4, <1>5, SamePath DEF a, b

\* The path of a child.
LEMMA ChildPath ==
  ASSUME NEW p \in Seq(Nat), NEW n \in Nat
  PROVE  /\ Append(p, n) \in Seq(Nat)
         /\ Append(p, n) # <<>>
         /\ Len(Append(p, n)) = Len(p) + 1
         /\ Append(p, n)[Len(p) + 1] = n
         /\ \A i \in 1..Len(p) : Append(p, n)[i] = p[i]
         /\ Parent(Append(p, n)) = p
         /\ \A k \in 0..Len(p) : SubSeq(Append(p, n), 1, k) = SubSeq(p, 1, k)
<1> DEFINE q == Append(p, n)
<1>1. /\ q \in Seq(Nat) /\ q # <<>> /\ Len(q) = Len(p) + 1 /\ q[Len(p) + 1] = n
      /\ \A i \in 1..Len(p) : q[i] = p[i]
  <2>1. q \in Seq(Nat) /\ Len(q) = Len(p) + 1
    OBVIOUS
  <2>2. q # <<>> /\ q[Len(p) + 1] = n
    OBVIOUS
  <2>3. ASSUME NEW i \in 1..Len(p) PROVE q[i] = p[i]
    OBVIOUS
  <2> QED
    BY <2>1, <2>2, <2>3
<1> HIDE DEF q
<1>2. ASSUME NEW k \in 0..Len(p) PROVE SubSeq(q, 1, k) = SubSeq(p, 1, k)
  <2>1. k \in 0..Len(q)
    BY <1>1
  <2>2. /\ SubSeq(q, 1, k) \in Seq(Nat) /\ Len(SubSeq(q, 1, k)) = k
        /\ \A i \in 1..k : SubSeq(q, 1, k)[i] = q[i]
    BY <1>1, <2>1, Beginning
  <2>3. /\ SubSeq(p, 1, k) \in Seq(Nat) /\ Len(SubSeq(p, 1, k)) = k
        /\ \A i \in 1..k : SubSeq(p, 1, k)[i] = p[i]
    BY Beginning
  <2>4. \A i \in 1..k : SubSeq(q, 1, k)[i] = SubSeq(p, 1, k)[i]
    BY <1>1, <2>2, <2>3
  <2> QED
    BY <2>2, <2>3, <2>4, SamePath
<1>3. SubSeq(p, 1, Len(p)) = p
  <2>1. /\ SubSeq(p, 1, Len(p)) \in Seq(Nat) /\ Len(SubSeq(p, 1, Len(p))) = Len(p)
        /\ \A i \in 1..Len(p) : SubSeq(p, 1, Len(p))[i] = p[i]
    BY Beginning
  <2> QED
    BY <2>1, SamePath
<1>4. Parent(q) = p
  <2>1. Len(q) - 1 = Len(p) /\ Len(p) \in 0..Len(p)
    BY <1>1
  <2> QED
    BY <1>2, <1>3, <2>1 DEF Parent
<1> QED
  BY <1>1, <1>2, <1>4 DEF q

\* A beginning is a shorter one and a position.
LEMMA OneLonger ==
  ASSUME NEW p \in Seq(Nat), NEW k \in 1..Len(p)
  PROVE  SubSeq(p, 1, k) = Append(SubSeq(p, 1, k - 1), p[k])
<1> DEFINE s == SubSeq(p, 1, k - 1)
           a == SubSeq(p, 1, k)
           b == Append(s, p[k])
<1>1. a \in Seq(Nat) /\ Len(a) = k /\ \A i \in 1..k : a[i] = p[i]
  BY Beginning
<1>2. s \in Seq(Nat) /\ Len(s) = k - 1 /\ \A i \in 1..(k - 1) : s[i] = p[i]
  BY Beginning
<1>3. p[k] \in Nat
  OBVIOUS
<1> HIDE DEF s
<1>4. /\ b \in Seq(Nat) /\ Len(b) = Len(s) + 1 /\ b[Len(s) + 1] = p[k]
      /\ \A i \in 1..Len(s) : b[i] = s[i]
  BY <1>2, <1>3, ChildPath
<1> HIDE DEF a, b
<1>5. ASSUME NEW i \in 1..k PROVE a[i] = b[i]
  <2>1. CASE i = k
    BY <1>1, <1>2, <1>4, <2>1
  <2>2. CASE i # k
    <3>1. i \in 1..(k - 1)
      BY <2>2
    <3> QED
      BY <1>1, <1>2, <1>4, <3>1
  <2> QED
    BY <2>1, <2>2
<1> QED
  BY <1>1, <1>2, <1>4, <1>5, SamePath DEF a, b, s

-----------------------------------------------------------------------------
(* The walk                                                                *)

\* Where the walk stands depends on the paths and the next children alone.
LEMMA WalkKept ==
  ASSUME Walk, UNCHANGED <<call, children>>, host \subseteq host',
         Len(stack) \in Nat, Len(stack') = Len(stack),
         \A i \in 1..Len(stack) : /\ stack'[i].path = stack[i].path
                                  /\ stack'[i].next = stack[i].next,
         call # None => Linked'
  PROVE  Walk'
<1>1. children' \in Seq(host')
  BY DEF Walk
<1>2. ASSUME call # None PROVE OnePath' /\ Recorded' /\ Walked'
  <2>1. OnePath /\ Recorded /\ Walked
    BY <1>2 DEF Walk
  <2>2. OnePath'
    <3>1. ASSUME NEW i \in 1..Len(stack), NEW j \in 1..(i - 1)
          PROVE  j \in 1..Len(stack)
      OBVIOUS
    <3> QED
      BY <2>1, <3>1 DEF OnePath
  <2>3. \A e, t, p : NodeEvent(e, t, p) => NodeEvent(e, t, p)'
    BY DEF NodeEvent
  <2>4. Recorded'
    BY <2>1, <2>3 DEF Recorded
  <2>5. ASSUME NEW p \in call.tree.nodes
        PROVE  (Listed(p)' <=> Listed(p)) /\ (Entered(p)' <=> Entered(p))
               /\ (Ahead(p)' <=> Ahead(p))
    BY DEF Listed, Entered, Ahead
  <2>6. Walked'
    BY <2>1, <2>5 DEF Walked
  <2> QED
    BY <2>2, <2>4, <2>6
<1> QED
  BY <1>1, <1>2 DEF Walk

\* A request begins with everything ahead.
LEMMA ReceiveWalk ==
  ASSUME TreeInv, Walk, NEW c \in Clients, NEW time \in Times, ReceiveRequest(asked[c], time)
  PROVE  Walk'
<1> DEFINE t == asked[c]
           f == Frame(t.rid, <<>>, None)
<1>1. t \in Trees
  BY DEF TreeInv, StackInv, Trees
<1>2. call' # None /\ call'.tree = t /\ call = None
  BY <1>1, TreesAssumption DEF ReceiveRequest
<1>3. f.path = <<>> /\ f.next = 0 /\ f.parent = None /\ f.input = None /\ f.event = None
  BY DEF Frame
<1>4. stack' = <<f>> /\ children' = children /\ host' = host
  BY DEF ReceiveRequest
<1> HIDE DEF f
<1>5. Len(stack') = 1 /\ stack'[1] = f /\ children' = <<>> /\ children' \in Seq(host')
  BY <1>2, <1>4 DEF Walk
<1>6. Len(children') = 0 /\ 1..Len(children') = {}
  BY <1>5
<1>7. OnePath' /\ Linked'
  BY <1>3, <1>5 DEF OnePath, Linked
<1>8. Recorded'
  BY <1>6 DEF Recorded
<1>9. ASSUME NEW p \in t.nodes PROVE Entered(p)' \/ Ahead(p)'
  <2>1. p \in Seq(Nat)
    BY <1>1, TreesAssumption
  <2>2. CASE p = <<>>
    BY <1>3, <1>5, <2>2 DEF Entered
  <2>3. CASE p # <<>>
    <3>1. 1 <= Len(p) /\ p[1] >= 0 /\ 0 \in 0..Len(p)
      BY <2>1, <2>3
    <3>2. SubSeq(p, 1, 0) = <<>>
      <4>1. SubSeq(p, 1, 0) \in Seq(Nat) /\ Len(SubSeq(p, 1, 0)) = 0
        BY <2>1, <3>1, Beginning
      <4> QED
        BY <4>1
    <3>3. SubSeq(p, 1, 1 - 1) = stack'[1].path /\ p[1] >= stack'[1].next
      <4>1. 1 - 1 = 0
        OBVIOUS
      <4>2. SubSeq(p, 1, 1 - 1) = <<>>
        BY <3>2, <4>1, Zenon
      <4>3. stack'[1].path = <<>> /\ stack'[1].next = 0
        BY <1>3, <1>5, Zenon
      <4> QED
        BY <3>1, <4>2, <4>3
    <3>4. 1 \in 1..Len(stack')
      BY <1>5
    <3> QED
      BY <3>1, <3>3, <3>4 DEF Ahead
  <2> QED
    BY <2>2, <2>3
<1>10. Walked'
  BY <1>2, <1>6, <1>9 DEF Walked, Listed
<1> QED
  BY <1>2, <1>5, <1>7, <1>8, <1>10 DEF Walk

\* What is read takes the parent the activation was given.
LEMMA ReadWalk ==
  ASSUME TreeInv, Walk, ReadFiles
  PROVE  Walk'
<1> DEFINE L == Len(stack)
           inp == [node    |-> <<call.tree, Top.path>>,
                   content |-> files[<<call.tree, Top.path>>],
                   parent  |-> Top.parent]
           f == [Top EXCEPT !.input = inp]
<1>1. /\ L \in Nat \ {0} /\ Top \in Frames /\ FrameInv(L) /\ Top = stack[L]
  BY TopFact DEF TreeInv, ReadFiles, Top
<1>2. /\ call # None /\ Top.input = None /\ stack' = [stack EXCEPT ![L] = f]
      /\ UNCHANGED <<host, call, children>>
  BY DEF ReadFiles, SetTop
<1>3. inp.parent = Top.parent
  OBVIOUS
<1>4. /\ f.path = Top.path /\ f.next = Top.next /\ f.parent = Top.parent
      /\ f.event = Top.event /\ f.input = inp
  BY <1>1 DEF Frames
<1>5. Top.event = None
  BY <1>1, <1>2 DEF FrameInv
<1> HIDE DEF inp, f
<1>6. Len(stack') = L /\ stack'[L] = f /\ \A i \in 1..L : i # L => stack'[i] = stack[i]
  BY <1>1, <1>2 DEF TreeInv, StackInv
<1>7. \A i \in 1..L : /\ stack'[i].path = stack[i].path /\ stack'[i].next = stack[i].next
                      /\ stack'[i].parent = stack[i].parent /\ stack'[i].event = stack[i].event
  BY <1>1, <1>4, <1>6
<1>8. Linked'
  <2>1. Linked
    BY <1>2 DEF Walk
  <2>2. ASSUME NEW i \in 1..L
        PROVE  /\ stack'[i].parent = IF i = 1 THEN None ELSE stack'[i - 1].event
               /\ stack'[i].input # None => stack'[i].input.parent = stack'[i].parent
               /\ stack'[i].event # None =>
                    stack'[i].event.input = stack'[i].input
                    /\ stack'[i].event.author = call.tree.author
    <3>1. i # 1 => i - 1 \in 1..L
      OBVIOUS
    <3>2. stack'[i].parent = IF i = 1 THEN None ELSE stack'[i - 1].event
      BY <1>7, <2>1, <3>1 DEF Linked
    <3>3. CASE i = L
      BY <1>1, <1>3, <1>4, <1>5, <1>6, <3>2, <3>3
    <3>4. CASE i # L
      BY <1>6, <2>1, <3>2, <3>4 DEF Linked
    <3> QED
      BY <3>3, <3>4
  <2> QED
    BY <1>2, <1>6, <2>2 DEF Linked
<1> QED
  BY <1>1, <1>2, <1>6, <1>7, <1>8, WalkKept

\* The innermost activation learns the event of its own job.
LEMMA PublishedWalk ==
  ASSUME TreeInv, Walk, Published
  PROVE  Walk'
<1> DEFINE L == Len(stack)
           ev == Event(journal[Top.id])
           f == [Top EXCEPT !.event = ev]
<1>1. /\ L \in Nat \ {0} /\ Top \in Frames /\ FrameInv(L) /\ Top = stack[L]
  BY TopFact DEF TreeInv, Published, Admitted, Reading, Top
<1>2. /\ call # None /\ stack' = [stack EXCEPT ![L] = f]
      /\ UNCHANGED <<host, call, children>>
  BY DEF Published, Admitted, Reading, SetTop
<1>3. ev.input = Top.input /\ ev.author = call.tree.author
  BY DEF Published, Admitted, SameRequest, Event
<1>4. /\ f.path = Top.path /\ f.next = Top.next /\ f.parent = Top.parent
      /\ f.event = ev /\ f.input = Top.input
  BY <1>1 DEF Frames
<1> HIDE DEF ev, f
<1>5. Len(stack') = L /\ stack'[L] = f /\ \A i \in 1..L : i # L => stack'[i] = stack[i]
  BY <1>1, <1>2 DEF TreeInv, StackInv
<1>6. \A i \in 1..L : /\ stack'[i].path = stack[i].path /\ stack'[i].next = stack[i].next
                      /\ stack'[i].parent = stack[i].parent /\ stack'[i].input = stack[i].input
  BY <1>1, <1>4, <1>5
<1>7. Linked'
  <2>1. Linked
    BY <1>2 DEF Walk
  <2>2. ASSUME NEW i \in 1..L
        PROVE  /\ stack'[i].parent = IF i = 1 THEN None ELSE stack'[i - 1].event
               /\ stack'[i].input # None => stack'[i].input.parent = stack'[i].parent
               /\ stack'[i].event # None =>
                    stack'[i].event.input = stack'[i].input
                    /\ stack'[i].event.author = call.tree.author
    <3>1. i # 1 => i - 1 \in 1..L /\ i - 1 # L
      BY <1>1
    <3>2. i # 1 => stack'[i - 1] = stack[i - 1]
      BY <1>5, <3>1
    <3>3. stack'[i].parent = IF i = 1 THEN None ELSE stack'[i - 1].event
      BY <1>6, <2>1, <3>2 DEF Linked
    <3>4. stack'[i].input # None => stack'[i].input.parent = stack'[i].parent
      BY <1>6, <2>1 DEF Linked
    <3>5. CASE i = L
      BY <1>1, <1>3, <1>4, <1>5, <3>3, <3>4, <3>5
    <3>6. CASE i # L
      BY <1>5, <2>1, <3>3, <3>6 DEF Linked
    <3> QED
      BY <3>5, <3>6
  <2> QED
    BY <1>2, <1>5, <2>2 DEF Linked
<1> QED
  BY <1>1, <1>2, <1>5, <1>6, <1>7, WalkKept

\* What Descend does to the activations.
LEMMA DescendFacts ==
  ASSUME TreeInv, Descend
  PROVE  LET L == Len(stack) IN
         /\ L \in Nat \ {0} /\ Top \in Frames /\ Top = stack[L] /\ Top.event # None /\ call # None
         /\ Append(Top.path, Top.next) \in call.tree.nodes
         /\ UNCHANGED <<call, host, children>>
         /\ Len(stack') = L + 1
         /\ stack'[L + 1].path = Append(Top.path, Top.next)
         /\ stack'[L + 1].next = 0 /\ stack'[L + 1].parent = Top.event
         /\ stack'[L + 1].input = None /\ stack'[L + 1].event = None
         /\ stack'[L].next = Top.next + 1
         /\ \A i \in 1..L : /\ stack'[i].path = stack[i].path
                            /\ stack'[i].parent = stack[i].parent
                            /\ stack'[i].input = stack[i].input
                            /\ stack'[i].event = stack[i].event
                            /\ i # L => stack'[i].next = stack[i].next
<1> DEFINE L == Len(stack)
           g == [stack[L] EXCEPT !.next = @ + 1]
           f == Frame(ChildId(Top.id, Top.next), Append(Top.path, Top.next), Top.event)
           rest == [stack EXCEPT ![L] = g]
<1>1. L \in Nat \ {0} /\ Top \in Frames /\ Top = stack[L]
  BY TopFact DEF TreeInv, Descend, Top
<1>2. /\ Top.event # None /\ call # None /\ Append(Top.path, Top.next) \in call.tree.nodes
      /\ UNCHANGED <<call, host, children>>
  BY DEF Descend, HasNext
<1>3. stack' = Append(rest, f)
  BY DEF Descend
<1>4. /\ f.path = Append(Top.path, Top.next) /\ f.next = 0 /\ f.parent = Top.event
      /\ f.input = None /\ f.event = None
  BY DEF Frame
<1>5. /\ g.path = Top.path /\ g.parent = Top.parent /\ g.input = Top.input
      /\ g.event = Top.event /\ g.next = Top.next + 1
  BY <1>1 DEF Frames
<1> HIDE DEF f, g
<1>6. /\ DOMAIN rest = 1..L /\ rest[L] = g
      /\ \A i \in 1..L : i # L => rest[i] = stack[i]
  BY <1>1 DEF TreeInv, StackInv
<1>7. rest \in Seq(Frames \cup {g}) /\ Len(rest) = L
  BY <1>1 DEF TreeInv, StackInv
<1> HIDE DEF rest
<1>8. Len(stack') = L + 1 /\ stack'[L + 1] = f /\ \A i \in 1..L : stack'[i] = rest[i]
  BY <1>3, <1>7
<1>9. ASSUME NEW i \in 1..L
      PROVE  /\ stack'[i].path = stack[i].path
             /\ stack'[i].parent = stack[i].parent
             /\ stack'[i].input = stack[i].input
             /\ stack'[i].event = stack[i].event
             /\ i # L => stack'[i].next = stack[i].next
  BY <1>1, <1>5, <1>6, <1>8
<1>10. stack'[L].next = Top.next + 1
  BY <1>1, <1>5, <1>6, <1>8
<1> QED
  BY <1>1, <1>2, <1>4, <1>8, <1>9, <1>10

\* A child that begins was ahead, and so are its own children.
LEMMA DescendWalk ==
  ASSUME TreeInv, Walk, Descend
  PROVE  Walk'
<1> DEFINE L == Len(stack)
           P == Top.path
           n == Top.next
           q == Append(P, n)
<1>1. /\ L \in Nat \ {0} /\ Top \in Frames /\ Top = stack[L] /\ Top.event # None /\ call # None
      /\ q \in call.tree.nodes
      /\ UNCHANGED <<call, host, children>>
  BY DescendFacts
<1>2. /\ Len(stack') = L + 1
      /\ stack'[L + 1].path = q
      /\ stack'[L + 1].next = 0 /\ stack'[L + 1].parent = Top.event
      /\ stack'[L + 1].input = None /\ stack'[L + 1].event = None
      /\ stack'[L].next = n + 1
  BY DescendFacts
<1>3. \A i \in 1..L : /\ stack'[i].path = stack[i].path
                      /\ stack'[i].parent = stack[i].parent
                      /\ stack'[i].input = stack[i].input
                      /\ stack'[i].event = stack[i].event
                      /\ i # L => stack'[i].next = stack[i].next
  BY DescendFacts
<1>4. OnePath /\ Linked /\ Recorded /\ Walked /\ children \in Seq(host)
  BY <1>1 DEF Walk
<1>5. P \in Seq(Nat) /\ n \in Nat /\ Len(P) = L - 1 /\ L \in 1..L
  BY <1>1, <1>4 DEF Frames, OnePath
<1>6. /\ q \in Seq(Nat) /\ q # <<>> /\ Len(q) = L /\ q[L] = n
      /\ \A i \in 1..(L - 1) : q[i] = P[i]
      /\ \A k \in 0..(L - 1) : SubSeq(q, 1, k) = SubSeq(P, 1, k)
  <2>1. Len(P) + 1 = L
    BY <1>1, <1>5
  <2>2. /\ q \in Seq(Nat) /\ q # <<>> /\ Len(q) = Len(P) + 1 /\ q[Len(P) + 1] = n
        /\ \A i \in 1..Len(P) : q[i] = P[i]
        /\ \A k \in 0..Len(P) : SubSeq(q, 1, k) = SubSeq(P, 1, k)
    BY <1>5, ChildPath
  <2> QED
    BY <1>5, <2>1, <2>2
<1>7. SubSeq(P, 1, L - 1) = P
  <2>1. L - 1 \in 0..Len(P)
    BY <1>1, <1>5
  <2>2. /\ SubSeq(P, 1, L - 1) \in Seq(Nat) /\ Len(SubSeq(P, 1, L - 1)) = L - 1
        /\ \A i \in 1..(L - 1) : SubSeq(P, 1, L - 1)[i] = P[i]
    BY <1>5, <2>1, Beginning
  <2> QED
    BY <1>5, <2>2, SamePath
<1> HIDE DEF L, P, n, q
<1>8. OnePath'
  <2>1. ASSUME NEW i \in 1..(L + 1), NEW j \in 1..(i - 1)
        PROVE  /\ SubSeq(stack'[i].path, 1, j - 1) = stack'[j].path
               /\ stack'[i].path[j] + 1 = stack'[j].next
    <3>1. CASE i = L + 1
      <4>1. j \in 1..L /\ j - 1 \in 0..(L - 1)
        BY <1>1, <3>1
      <4>2. SubSeq(stack'[i].path, 1, j - 1) = SubSeq(P, 1, j - 1)
        BY <1>2, <1>6, <3>1, <4>1
      <4>3. CASE j = L
        BY <1>1, <1>2, <1>3, <1>6, <1>7, <3>1, <4>1, <4>2, <4>3 DEF P
      <4>4. CASE j # L
        <5>1. j \in 1..(L - 1)
          BY <1>1, <4>1, <4>4
        <5>2. SubSeq(P, 1, j - 1) = stack[j].path /\ P[j] + 1 = stack[j].next
          BY <1>1, <1>4, <1>5, <5>1 DEF OnePath, P, L
        <5> QED
          BY <1>2, <1>3, <1>6, <3>1, <4>1, <4>2, <4>4, <5>1, <5>2
      <4> QED
        BY <4>3, <4>4
    <3>2. CASE i # L + 1
      <4>1. i \in 1..L /\ j \in 1..L /\ j # L
        BY <1>1, <3>2
      <4>2. SubSeq(stack[i].path, 1, j - 1) = stack[j].path /\ stack[i].path[j] + 1 = stack[j].next
        BY <1>4, <4>1 DEF OnePath, L
      <4> QED
        BY <1>3, <4>1, <4>2
    <3> QED
      BY <3>1, <3>2
  <2>2. ASSUME NEW i \in 1..(L + 1) PROVE Len(stack'[i].path) = i - 1
    <3>1. CASE i = L + 1
      BY <1>1, <1>2, <1>6, <3>1
    <3>2. CASE i # L + 1
      <4>1. i \in 1..L
        BY <1>1, <3>2
      <4> QED
        BY <1>3, <1>4, <4>1 DEF OnePath, L
    <3> QED
      BY <3>1, <3>2
  <2> QED
    BY <1>2, <2>1, <2>2 DEF OnePath
<1>9. Linked'
  <2>1. ASSUME NEW i \in 1..(L + 1)
        PROVE  /\ stack'[i].parent = IF i = 1 THEN None ELSE stack'[i - 1].event
               /\ stack'[i].input # None => stack'[i].input.parent = stack'[i].parent
               /\ stack'[i].event # None =>
                    stack'[i].event.input = stack'[i].input
                    /\ stack'[i].event.author = call.tree.author
    <3>1. CASE i = L + 1
      <4>1. i # 1 /\ i - 1 = L
        BY <1>1, <3>1
      <4> QED
        BY <1>1, <1>2, <1>3, <1>5, <3>1, <4>1
    <3>2. CASE i # L + 1
      <4>1. i \in 1..L /\ (i # 1 => i - 1 \in 1..L)
        BY <1>1, <3>2
      <4> QED
        BY <1>3, <1>4, <4>1 DEF Linked, L
    <3> QED
      BY <3>1, <3>2
  <2> QED
    BY <1>1, <1>2, <2>1 DEF Linked
<1>10. Recorded'
  BY <1>1, <1>4 DEF Recorded, NodeEvent
<1>11. ASSUME NEW p \in call.tree.nodes
       PROVE  Entered(p)' \/ Ahead(p)' <=> Entered(p) \/ Ahead(p)
  <2>1. p \in Seq(Nat)
    BY <1>1, TreesAssumption DEF TreeInv, StackInv
  <2>2. ASSUME Entered(p) PROVE Entered(p)'
    <3>1. PICK j \in 1..L : stack[j].path = p
      BY <2>2 DEF Entered, L
    <3>2. j \in 1..(L + 1) /\ stack'[j].path = p
      BY <1>1, <1>3, <3>1
    <3> QED
      BY <1>2, <3>2 DEF Entered
  <2>3. ASSUME Ahead(p) PROVE Entered(p)' \/ Ahead(p)'
    <3>1. PICK j \in 1..L : j <= Len(p) /\ SubSeq(p, 1, j - 1) = stack[j].path /\ p[j] >= stack[j].next
      BY <2>3 DEF Ahead, L
    <3>2. j \in 1..(L + 1) /\ stack'[j].path = stack[j].path
      BY <1>1, <1>3, <3>1
    <3>3. CASE j # L \/ p[L] # n
      <4>1. p[j] >= stack'[j].next
        <5>1. CASE j # L
          BY <1>3, <3>1, <5>1
        <5>2. CASE j = L
          <6>1. p[L] \in Nat /\ p[L] >= n
            BY <1>1, <2>1, <3>1, <5>2 DEF n
          <6> QED
            BY <1>2, <1>5, <3>3, <5>2, <6>1
        <5> QED
          BY <5>1, <5>2
      <4> QED
        BY <1>2, <3>1, <3>2, <4>1 DEF Ahead
    <3>4. CASE j = L /\ p[L] = n
      <4>1. L \in 1..Len(p)
        BY <1>1, <2>1, <3>1, <3>4
      <4>2. SubSeq(p, 1, L) = Append(SubSeq(p, 1, L - 1), p[L])
        BY <2>1, <4>1, OneLonger
      <4>3. SubSeq(p, 1, L) = q
        BY <1>1, <3>1, <3>4, <4>2 DEF q, P
      <4>4. CASE Len(p) = L
        <5>1. p = q
          <6>1. L \in 0..Len(p)
            BY <4>1
          <6>2. \A i \in 1..L : SubSeq(p, 1, L)[i] = p[i]
            BY <2>1, <6>1, Beginning
          <6> QED
            BY <1>6, <2>1, <4>3, <4>4, <6>2, SamePath
        <5>2. L + 1 \in 1..(L + 1)
          BY <1>1
        <5> QED
          BY <1>2, <5>1, <5>2 DEF Entered
      <4>5. CASE Len(p) # L
        <5>1. L + 1 <= Len(p) /\ L + 1 \in 1..Len(p) /\ L + 1 \in 1..(L + 1) /\ (L + 1) - 1 = L
          BY <1>1, <2>1, <4>1, <4>5
        <5>2. p[L + 1] >= 0
          BY <2>1, <5>1
        <5>3. SubSeq(p, 1, (L + 1) - 1) = stack'[L + 1].path
          BY <1>2, <4>3, <5>1, Zenon
        <5> QED
          BY <1>2, <5>1, <5>2, <5>3 DEF Ahead
      <4> QED
        BY <4>4, <4>5
    <3> QED
      BY <3>3, <3>4
  <2>4. ASSUME Entered(p)' PROVE Entered(p) \/ Ahead(p)
    <3>1. PICK j \in 1..(L + 1) : stack'[j].path = p
      BY <1>2, <2>4 DEF Entered
    <3>2. CASE j = L + 1
      <4>1. p = q
        BY <1>2, <3>1, <3>2
      <4>2. L <= Len(p) /\ p[L] >= n
        BY <1>1, <1>5, <1>6, <4>1
      <4>3. SubSeq(p, 1, L - 1) = stack[L].path
        <5>1. L - 1 \in 0..(L - 1)
          BY <1>1
        <5> QED
          BY <1>1, <1>6, <1>7, <4>1, <5>1 DEF P
      <4> QED
        BY <1>1, <1>5, <4>2, <4>3 DEF Ahead, L, n
    <3>3. CASE j # L + 1
      <4>1. j \in 1..L
        BY <1>1, <3>3
      <4> QED
        BY <1>3, <3>1, <4>1 DEF Entered, L
    <3> QED
      BY <3>2, <3>3
  <2>5. ASSUME Ahead(p)' PROVE Ahead(p)
    <3>1. PICK j \in 1..(L + 1) :
            j <= Len(p) /\ SubSeq(p, 1, j - 1) = stack'[j].path /\ p[j] >= stack'[j].next
      BY <1>2, <2>5 DEF Ahead
    <3>2. CASE j = L + 1
      <4>1. /\ L + 1 <= Len(p) /\ (L + 1) - 1 = L /\ L \in 0..Len(p) /\ L - 1 \in 0..L
            /\ L <= Len(p)
        BY <1>1, <2>1, <3>1, <3>2
      <4>2. SubSeq(p, 1, L) = q
        BY <1>2, <3>1, <3>2, <4>1, Zenon
      <4>3. SubSeq(p, 1, L - 1) = SubSeq(q, 1, L - 1)
        BY <2>1, <4>1, <4>2, Shorter
      <4>4. L - 1 \in 0..(L - 1)
        BY <1>1
      <4>5. SubSeq(p, 1, L - 1) = stack[L].path
        BY <1>1, <1>6, <1>7, <4>3, <4>4 DEF P
      <4>6. p[L] = n
        BY <1>5, <1>6, <2>1, <4>1, <4>2, Beginning
      <4>7. p[L] >= n
        BY <1>5, <4>6
      <4> QED
        BY <1>1, <1>5, <4>1, <4>5, <4>7 DEF Ahead, L, n
    <3>3. CASE j # L + 1
      <4>1. j \in 1..L
        BY <1>1, <3>3
      <4>2. p[j] >= stack[j].next
        <5>1. CASE j # L
          BY <1>3, <3>1, <4>1, <5>1
        <5>2. CASE j = L
          <6>1. p[L] \in Nat /\ p[L] >= n + 1
            BY <1>1, <1>2, <2>1, <3>1, <5>2
          <6>2. stack[j].next = n
            BY <1>1, <5>2 DEF n
          <6> QED
            BY <1>5, <5>2, <6>1, <6>2
        <5> QED
          BY <5>1, <5>2
      <4> QED
        BY <1>3, <3>1, <4>1, <4>2 DEF Ahead, L
    <3> QED
      BY <3>2, <3>3
  <2> QED
    BY <2>2, <2>3, <2>4, <2>5
<1>12. Walked'
  <2>1. \A p : Listed(p)' <=> Listed(p)
    BY <1>1 DEF Listed
  <2> QED
    BY <1>1, <1>4, <1>11, <2>1 DEF Walked
<1> QED
  BY <1>1, <1>4, <1>8, <1>9, <1>10, <1>12 DEF Walk

\* An activation that knows the event of its node has it under the event of the
\* node's parent.
LEMMA StackEvent ==
  ASSUME TreeInv, Walk, call # None, NEW i \in 1..Len(stack), stack[i].event # None
  PROVE  NodeEvent(stack[i].event, call.tree, stack[i].path)
<1> DEFINE e == stack[i].event
<1>1. Linked /\ FrameInv(i) /\ stack[i] \in Frames /\ Len(stack) \in Nat
  BY DEF Walk, TreeInv, StackInv
<1>2. /\ e \in host /\ e.input = stack[i].input /\ e.author = call.tree.author
      /\ e.input.node = <<call.tree, stack[i].path>> /\ e.input.parent = stack[i].parent
  BY <1>1 DEF Linked, FrameInv, Frames
<1>3. CASE i = 1
  <2>1. stack[i].path = <<>> /\ e.input.parent = None
    BY <1>1, <1>2, <1>3 DEF Linked, FrameInv
  <2> QED
    BY <1>2, <2>1 DEF NodeEvent
<1>4. CASE i # 1
  <2>1. i > 1 /\ i - 1 \in 1..Len(stack)
    BY <1>1, <1>4
  <2>2. FrameInv(i - 1) /\ stack[i - 1] \in Frames
    BY <2>1 DEF TreeInv, StackInv
  <2>3. PICK n \in Nat : stack[i].path = Append(stack[i - 1].path, n)
    BY <1>1, <2>1 DEF FrameInv
  <2>4. stack[i - 1].path \in Seq(Nat)
    BY <2>2 DEF Frames
  <2>5. stack[i].path # <<>> /\ Parent(stack[i].path) = stack[i - 1].path
    <3>1. ASSUME NEW s \in Seq(Nat), NEW m \in Nat
          PROVE  Append(s, m) # <<>> /\ Parent(Append(s, m)) = s
      BY ChildPath
    <3> QED
      BY <2>3, <2>4, <3>1, Zenon
  <2>6. stack[i - 1].event # None /\ e.input.parent = stack[i - 1].event
    BY <1>1, <1>2, <1>4, <2>1 DEF Linked, FrameInv
  <2>7. stack[i - 1].event \in host
    BY <2>2, <2>6 DEF Frames
  <2>8. stack[i - 1].event.input.node = <<call.tree, stack[i - 1].path>>
    BY <1>1, <2>1, <2>2, <2>6 DEF Linked, FrameInv
  <2> QED
    BY <1>2, <2>5, <2>6, <2>7, <2>8 DEF NodeEvent
<1> QED
  BY <1>3, <1>4

\* Nothing is ahead of an activation that has begun all its children.
LEMMA NothingAhead ==
  ASSUME TreeInv, Complete, NEW p \in call.tree.nodes,
         Len(stack) <= Len(p), SubSeq(p, 1, Len(stack) - 1) = Top.path, p[Len(stack)] >= Top.next
  PROVE  FALSE
<1> DEFINE L == Len(stack)
<1>1. L \in Nat \ {0} /\ Top \in Frames /\ call.tree \in Trees
  BY TopFact DEF TreeInv, Complete
<1>2. p \in Seq(Nat)
  BY <1>1, TreesAssumption
<1>3. L \in 1..Len(p) /\ Top.next \in 0..p[L]
  BY <1>1, <1>2 DEF Frames
<1>4. Append(SubSeq(p, 1, L - 1), Top.next) \in call.tree.nodes
  BY <1>1, <1>3, TreesAssumption
<1> QED
  BY <1>4 DEF Complete, HasNext

\* A child that returns is recorded: it and all below it are walked.
LEMMA AscendWalk ==
  ASSUME TreeInv, Walk, Ascend
  PROVE  Walk'
<1> DEFINE L == Len(stack)
           P == Top.path
           ev == Top.event
           C == Len(children)
<1>1. L \in Nat \ {0} /\ Top \in Frames /\ Top = stack[L] /\ L > 1 /\ call # None /\ ev # None
  BY TopFact DEF TreeInv, Ascend, Complete, Top
<1>2. /\ stack' = SubSeq(stack, 1, L - 1) /\ children' = Append(children, ev)
      /\ UNCHANGED <<call, host>>
  BY DEF Ascend
<1>3. OnePath /\ Linked /\ Recorded /\ Walked /\ children \in Seq(host)
  BY <1>1 DEF Walk
<1>4. L \in 1..L /\ L - 1 \in Nat /\ C \in Nat
  BY <1>1, <1>3
<1>5. Len(stack') = L - 1 /\ \A i \in 1..(L - 1) : stack'[i] = stack[i]
  BY <1>1, <1>2 DEF TreeInv, StackInv
<1>6. NodeEvent(ev, call.tree, P)
  BY <1>1, <1>4, StackEvent
<1>7. /\ P \in call.tree.nodes /\ P \in Seq(Nat) /\ Len(P) = L - 1 /\ P # <<>>
  <2>1. P \in call.tree.nodes /\ P \in Seq(Nat) /\ Len(P) = L - 1
    BY <1>1, <1>3, <1>4, TopFact DEF FrameInv, Frames, OnePath, TreeInv
  <2> QED
    BY <1>1, <2>1
<1>8. /\ children' \in Seq(host') /\ Len(children') = C + 1 /\ children'[C + 1] = ev
      /\ \A k \in 1..C : children'[k] = children[k]
  BY <1>2, <1>3, <1>6 DEF NodeEvent
<1>9. ev.input.node = <<call.tree, P>>
  BY <1>6 DEF NodeEvent
<1>10. Entered(P)
  BY <1>1, <1>4 DEF Entered
<1>11. \A k \in 1..C : children[k].input.node # <<call.tree, P>>
  BY <1>3, <1>7, <1>10 DEF Walked, Listed
<1> HIDE DEF L, P, ev, C
<1>12. OnePath'
  <2>1. ASSUME NEW i \in 1..(L - 1), NEW j \in 1..(i - 1)
        PROVE  /\ SubSeq(stack'[i].path, 1, j - 1) = stack'[j].path
               /\ stack'[i].path[j] + 1 = stack'[j].next
    <3>1. i \in 1..L /\ j \in 1..(L - 1)
      BY <1>4
    <3>2. stack'[i] = stack[i] /\ stack'[j] = stack[j]
      BY <1>5, <3>1
    <3>3. SubSeq(stack[i].path, 1, j - 1) = stack[j].path /\ stack[i].path[j] + 1 = stack[j].next
      BY <1>3, <3>1 DEF OnePath, L
    <3> QED
      BY <3>2, <3>3
  <2>2. ASSUME NEW i \in 1..(L - 1) PROVE Len(stack'[i].path) = i - 1
    <3>1. i \in 1..L
      BY <1>4
    <3> QED
      BY <1>3, <1>5, <3>1 DEF OnePath, L
  <2> QED
    BY <1>5, <2>1, <2>2 DEF OnePath
<1>13. Linked'
  <2>1. \A i \in 1..(L - 1) : i \in 1..L /\ (i # 1 => i - 1 \in 1..(L - 1))
    BY <1>4
  <2> QED
    BY <1>2, <1>3, <1>5, <2>1 DEF Linked, L
<1>14. Recorded'
  <2>1. ASSUME NEW k \in 1..(C + 1)
        PROVE  \E p \in call.tree.nodes \ {<<>>} : NodeEvent(children'[k], call.tree, p)
    <3>1. CASE k = C + 1
      BY <1>6, <1>7, <1>8, <3>1
    <3>2. CASE k # C + 1
      <4>1. k \in 1..C
        BY <1>4, <3>2
      <4> QED
        BY <1>3, <1>8, <4>1 DEF Recorded, C
    <3> QED
      BY <3>1, <3>2
  <2>2. ASSUME NEW k \in 1..(C + 1), NEW l \in 1..(C + 1),
               children'[k].input.node = children'[l].input.node
        PROVE  k = l
    <3>1. CASE k = C + 1 /\ l = C + 1
      BY <3>1
    <3>2. CASE k = C + 1 /\ l # C + 1
      <4>1. l \in 1..C
        BY <1>4, <3>2
      <4> QED
        BY <1>8, <1>9, <1>11, <2>2, <3>2, <4>1
    <3>3. CASE k # C + 1 /\ l = C + 1
      <4>1. k \in 1..C
        BY <1>4, <3>3
      <4> QED
        BY <1>8, <1>9, <1>11, <2>2, <3>3, <4>1
    <3>4. CASE k # C + 1 /\ l # C + 1
      <4>1. k \in 1..C /\ l \in 1..C
        BY <1>4, <3>4
      <4> QED
        BY <1>3, <1>8, <2>2, <4>1 DEF Recorded, C
    <3> QED
      BY <3>1, <3>2, <3>3, <3>4
  <2>3. ASSUME NEW k \in 1..(C + 1)
        PROVE  \E p \in call'.tree.nodes \ {<<>>} : NodeEvent(children[k], call.tree, p)'
    <3>1. PICK p \in call.tree.nodes \ {<<>>} : NodeEvent(children'[k], call.tree, p)
      BY <2>1
    <3> QED
      BY <1>2, <3>1 DEF NodeEvent
  <2> QED
    BY <1>8, <2>2, <2>3 DEF Recorded
<1>15. ASSUME NEW p \in call.tree.nodes PROVE Listed(p)' <=> Listed(p) \/ p = P
  <2>1. ASSUME Listed(p)' PROVE Listed(p) \/ p = P
    <3>1. PICK k \in 1..(C + 1) : children'[k].input.node = <<call.tree, p>>
      BY <1>2, <1>8, <2>1 DEF Listed
    <3>2. CASE k = C + 1
      BY <1>8, <1>9, <3>1, <3>2
    <3>3. CASE k # C + 1
      <4>1. k \in 1..C
        BY <1>4, <3>3
      <4> QED
        BY <1>8, <3>1, <4>1 DEF Listed, C
    <3> QED
      BY <3>2, <3>3
  <2>2. ASSUME Listed(p) PROVE Listed(p)'
    <3>1. PICK k \in 1..C : children[k].input.node = <<call.tree, p>>
      BY <2>2 DEF Listed, C
    <3>2. k \in 1..(C + 1)
      BY <1>4
    <3> QED
      BY <1>2, <1>8, <3>1, <3>2 DEF Listed
  <2>3. ASSUME p = P PROVE Listed(p)'
    <3>1. C + 1 \in 1..(C + 1)
      BY <1>4
    <3> QED
      BY <1>2, <1>8, <1>9, <2>3, <3>1 DEF Listed
  <2> QED
    BY <2>1, <2>2, <2>3
<1>16. ASSUME NEW p \in call.tree.nodes
       PROVE  ~Entered(p)' /\ ~Ahead(p)' <=> (~Entered(p) /\ ~Ahead(p)) \/ p = P
  <2>1. \A j \in 1..(L - 1) : j \in 1..L
    BY <1>4
  <2>2. Entered(p)' => Entered(p)
    BY <1>5, <2>1 DEF Entered, L
  <2>3. Ahead(p)' => Ahead(p)
    BY <1>5, <2>1 DEF Ahead, L
  <2>4. ASSUME p = P PROVE ~Entered(p)' /\ ~Ahead(p)'
    <3>1. ASSUME NEW j \in 1..(L - 1) PROVE stack[j].path # p /\ ~(p[j] >= stack[j].next)
      <4>1. Len(stack[j].path) = j - 1 /\ j - 1 # L - 1
        BY <1>3, <1>4, <2>1 DEF OnePath, L
      <4>2. P[j] + 1 = stack[j].next
        BY <1>1, <1>3, <1>4 DEF OnePath, P, L
      <4>3. P[j] \in Nat
        BY <1>7
      <4> QED
        BY <1>7, <2>4, <4>1, <4>2, <4>3
    <3> QED
      BY <1>5, <3>1 DEF Entered, Ahead
  <2>5. ASSUME p # P, Entered(p) PROVE Entered(p)'
    <3>1. PICK j \in 1..L : stack[j].path = p
      BY <2>5 DEF Entered, L
    <3>2. j # L
      BY <1>1, <2>5, <3>1 DEF P
    <3>3. j \in 1..(L - 1)
      BY <1>4, <3>2
    <3> QED
      BY <1>5, <3>1, <3>3 DEF Entered
  <2>6. ASSUME Ahead(p) PROVE Ahead(p)'
    <3>1. PICK j \in 1..L : j <= Len(p) /\ SubSeq(p, 1, j - 1) = stack[j].path /\ p[j] >= stack[j].next
      BY <2>6 DEF Ahead, L
    <3>2. j # L
      BY <1>1, <3>1, NothingAhead DEF L, Ascend
    <3>3. j \in 1..(L - 1)
      BY <1>4, <3>2
    <3> QED
      BY <1>5, <3>1, <3>3 DEF Ahead
  <2> QED
    BY <2>2, <2>3, <2>4, <2>5, <2>6
<1>17. Walked'
  BY <1>2, <1>3, <1>15, <1>16 DEF Walked
<1> QED
  BY <1>1, <1>2, <1>8, <1>12, <1>13, <1>14, <1>17 DEF Walk

-----------------------------------------------------------------------------
(* The reply                                                               *)

\* When the root has begun all its children every other node is recorded.
LEMMA AllListed ==
  ASSUME TreeInv, Walk, Returned, NEW p \in call.tree.nodes, p # <<>>
  PROVE  Listed(p)
<1>1. Complete /\ call # None /\ Len(stack) = 1 /\ Top = stack[1]
  BY DEF Returned, Complete, Top
<1>2. stack[1].path = <<>> /\ Walked
  BY <1>1 DEF TreeInv, StackInv, FrameInv, Walk
<1>3. ~Entered(p)
  BY <1>1, <1>2 DEF Entered
<1>4. ~Ahead(p)
  <2> SUFFICES ASSUME Ahead(p) PROVE FALSE
    OBVIOUS
  <2>1. PICK j \in 1..1 : j <= Len(p) /\ SubSeq(p, 1, j - 1) = stack[j].path /\ p[j] >= stack[j].next
    BY <1>1 DEF Ahead
  <2>2. j = Len(stack)
    BY <1>1
  <2> QED
    BY <1>1, <2>1, <2>2, NothingAhead
<1> QED
  BY <1>2, <1>3, <1>4 DEF Walked

\* As many are recorded as the tree has nodes below its root.
LEMMA CountListed ==
  ASSUME TreeInv, Walk, Returned
  PROVE  Len(children) = Cardinality(call.tree.nodes) - 1
<1> DEFINE S == 1..Len(children)
           T == call.tree.nodes \ {<<>>}
           F == [k \in S |-> children[k].input.node[2]]
<1>1. call # None /\ Recorded /\ children \in Seq(host) /\ Len(children) \in Nat
  BY DEF Returned, Complete, Walk
<1>2. <<>> \in call.tree.nodes
  BY <1>1, TreesAssumption DEF TreeInv, StackInv
<1>3. ASSUME NEW k \in S
      PROVE  F[k] \in T /\ children[k].input.node = <<call.tree, F[k]>>
  <2>1. PICK p \in T : NodeEvent(children[k], call.tree, p)
    BY <1>1 DEF Recorded
  <2>2. children[k].input.node = <<call.tree, p>> /\ F[k] = p
    BY <2>1 DEF NodeEvent
  <2> QED
    BY <2>1, <2>2
<1> HIDE DEF F
<1>4. F \in [S -> T]
  <2>1. F = [k \in S |-> F[k]]
    BY DEF F
  <2> QED
    BY <1>3, <2>1
<1>5. \A k, l \in S : F[k] = F[l] => k = l
  BY <1>1, <1>3 DEF Recorded
<1>6. ASSUME NEW p \in T PROVE \E k \in S : F[k] = p
  <2>1. PICK k \in S : children[k].input.node = <<call.tree, p>>
    BY AllListed DEF Listed
  <2>2. F[k] = p
    BY <1>3, <2>1
  <2> QED
    BY <2>2
<1> HIDE DEF S, T
<1>7. F \in Bijection(S, T)
  BY <1>4, <1>5, <1>6, Fun_IsBij
<1>8. ExistsBijection(S, T)
  BY <1>7 DEF ExistsBijection
<1>9. IsFiniteSet(S) /\ Cardinality(S) = Len(children)
  BY <1>1, FS_Interval DEF S
<1>10. IsFiniteSet(T) /\ Cardinality(T) = Len(children)
  BY <1>8, <1>9, FS_Bijection
<1>11. <<>> \notin T /\ call.tree.nodes = T \cup {<<>>}
  BY <1>2 DEF T
<1>12. Cardinality(T \cup {<<>>}) = Cardinality(T) + 1
  BY <1>10, <1>11, FS_AddElement
<1>13. Cardinality(call.tree.nodes) = Len(children) + 1
  BY <1>10, <1>11, <1>12
<1> QED
  BY <1>1, <1>13

\* The host has one event for a node.
LEMMA OneEvent ==
  ASSUME JournalInv, NEW e \in host, NEW f \in host, e.input.node = f.input.node
  PROVE  e = f
<1>1. PICK id \in DOMAIN journal : e = Event(journal[id])
  BY DEF JournalInv, HostFromJobs
<1>2. PICK ie \in DOMAIN journal : f = Event(journal[ie])
  BY DEF JournalInv, HostFromJobs
<1>3. journal[id].input.node = journal[ie].input.node
  BY <1>1, <1>2 DEF Event
<1>4. id = ie
  BY <1>3 DEF JournalInv, OneJobPerNode
<1> QED
  BY <1>1, <1>2, <1>4

\* What TreeWhole says of one reply.
Whole(r) ==
  /\ r.root \in At(r, <<>>)
  /\ Len(r.children) = Cardinality(r.tree.nodes) - 1
  /\ \A path \in r.tree.nodes :
       \E e \in host :
         /\ At(r, path) = {e}
         /\ e.author = r.tree.author
         /\ IF path = <<>> THEN e.input.parent = None
            ELSE At(r, Parent(path)) = {e.input.parent}

\* The reply of a request whose root has returned is whole.
LEMMA ReplyWhole ==
  ASSUME TreeInv, Walk, Returned, NEW r,
         r = [tree |-> call.tree, root |-> Top.event, children |-> children]
  PROVE  Whole(r)
<1> DEFINE t == call.tree
           S == 1..Len(children)
<1>1. /\ r.tree = t /\ r.root = Top.event /\ r.children = children
  OBVIOUS
<1>2. call # None /\ Len(stack) = 1 /\ Top = stack[1] /\ Top.event # None
  BY DEF Returned, Complete, Top
<1>3. Recorded /\ children \in Seq(host) /\ t \in Trees
  BY <1>2 DEF Walk, TreeInv, StackInv
<1>4. DOMAIN r.children = S
  BY <1>1, <1>3
<1>5. NodeEvent(r.root, t, <<>>)
  <2>1. stack[1].path = <<>> /\ 1 \in 1..Len(stack)
    BY <1>2 DEF TreeInv, StackInv, FrameInv
  <2> QED
    BY <1>1, <1>2, <2>1, StackEvent
<1>6. ASSUME NEW k \in S
      PROVE  \E p \in t.nodes \ {<<>>} : NodeEvent(children[k], t, p)
  BY <1>3 DEF Recorded
<1>7. \A p : At(r, p) = {e \in {r.root} \cup {children[k] : k \in S} : e.input.node = <<t, p>>}
  BY <1>1, <1>4 DEF At
<1> HIDE DEF S
<1>8. At(r, <<>>) = {r.root}
  <2>1. r.root.input.node = <<t, <<>>>>
    BY <1>5 DEF NodeEvent
  <2>2. \A k \in S : children[k].input.node # <<t, <<>>>>
    BY <1>6 DEF NodeEvent
  <2> QED
    BY <1>7, <2>1, <2>2
<1>9. ASSUME NEW p \in t.nodes, p # <<>>
      PROVE  \E e : At(r, p) = {e} /\ NodeEvent(e, t, p)
  <2>1. PICK k \in S : children[k].input.node = <<t, p>>
    BY <1>9, AllListed DEF Listed, S
  <2>2. NodeEvent(children[k], t, p)
    <3>1. PICK q \in t.nodes \ {<<>>} : NodeEvent(children[k], t, q)
      BY <1>6
    <3>2. p = q
      BY <2>1, <3>1 DEF NodeEvent
    <3> QED
      BY <3>1, <3>2
  <2>3. r.root.input.node # <<t, p>>
    BY <1>5, <1>9 DEF NodeEvent
  <2>4. \A l \in S : children[l].input.node = <<t, p>> => l = k
    BY <1>3, <2>1 DEF Recorded, S
  <2>5. At(r, p) = {children[k]}
    BY <1>7, <2>1, <2>3, <2>4
  <2> QED
    BY <2>2, <2>5
<1>10. ASSUME NEW p \in t.nodes PROVE \E e : At(r, p) = {e} /\ NodeEvent(e, t, p)
  BY <1>5, <1>8, <1>9
<1>11. ASSUME NEW p \in t.nodes, p # <<>> PROVE Parent(p) \in t.nodes
  <2>1. p \in Seq(Nat)
    BY <1>3, TreesAssumption
  <2>2. Len(p) \in 1..Len(p) /\ Len(p) - 1 \in 0..Len(p)
    BY <1>11, <2>1
  <2>3. CASE Len(p) = 1
    <3>1. Parent(p) \in Seq(Nat) /\ Len(Parent(p)) = 0
      BY <2>1, <2>2, <2>3, Beginning DEF Parent
    <3>2. Parent(p) = <<>>
      BY <3>1
    <3> QED
      BY <1>3, <3>2, TreesAssumption
  <2>4. CASE Len(p) # 1
    <3> DEFINE k == Len(p) - 1
    <3>1. k \in 1..Len(p) /\ p[k] \in 0..p[k]
      <4>1. k \in 1..Len(p)
        <5>1. Len(p) \in Nat \ {0}
          BY <1>11, <2>1
        <5> QED
          BY <2>4, <5>1, Below
      <4>2. p[k] \in Nat
        BY <2>1, <4>1
      <4> QED
        BY <4>1, <4>2
    <3>2. Append(SubSeq(p, 1, k - 1), p[k]) \in t.nodes
      BY <1>3, <3>1, TreesAssumption
    <3>3. SubSeq(p, 1, k) = Append(SubSeq(p, 1, k - 1), p[k])
      BY <2>1, <3>1, OneLonger
    <3> QED
      BY <3>2, <3>3 DEF Parent
  <2> QED
    BY <2>3, <2>4
<1>12. ASSUME NEW path \in t.nodes
       PROVE  \E e \in host :
                /\ At(r, path) = {e}
                /\ e.author = t.author
                /\ IF path = <<>> THEN e.input.parent = None
                   ELSE At(r, Parent(path)) = {e.input.parent}
  <2>1. PICK e : At(r, path) = {e} /\ NodeEvent(e, t, path)
    BY <1>10
  <2>2. e \in host /\ e.author = t.author /\ (path = <<>> => e.input.parent = None)
    BY <2>1 DEF NodeEvent
  <2>3. ASSUME path # <<>> PROVE At(r, Parent(path)) = {e.input.parent}
    <3>1. PICK f : At(r, Parent(path)) = {f} /\ NodeEvent(f, t, Parent(path))
      BY <1>10, <1>11, <2>3
    <3>2. f \in host /\ f.input.node = <<t, Parent(path)>>
      BY <3>1 DEF NodeEvent
    <3>3. e.input.parent \in host /\ e.input.parent.input.node = <<t, Parent(path)>>
      BY <2>1, <2>3 DEF NodeEvent
    <3>4. f = e.input.parent
      BY <3>2, <3>3, OneEvent DEF TreeInv
    <3> QED
      BY <3>1, <3>4
  <2> QED
    BY <2>1, <2>2, <2>3
<1>13. Len(r.children) = Cardinality(r.tree.nodes) - 1
  BY <1>1, CountListed
<1> QED
  BY <1>1, <1>8, <1>12, <1>13 DEF Whole

-----------------------------------------------------------------------------
(* The theorem                                                             *)

\* Every step of the service keeps the walk.
LEMMA WalkStep ==
  ASSUME TreeInv, Walk, [Next]_vars
  PROVE  Walk'
<1>1. ASSUME UNCHANGED <<call, stack, children>>, host \subseteq host' PROVE Walk'
  <2>1. call # None => Linked'
    BY <1>1 DEF Walk, Linked
  <2>2. Len(stack) \in Nat
    BY DEF TreeInv, StackInv
  <2> QED
    BY <1>1, <2>1, <2>2, WalkKept
<1>2. ASSUME call' = None, children' = <<>> PROVE Walk'
  BY <1>2 DEF Walk
<1>3. ASSUME NEW c \in Clients, Serve(c) PROVE Walk'
  BY <1>3, ReceiveWalk DEF Serve
<1>4. CASE Publish
  <2>1. CASE ReadFiles
    BY <2>1, ReadWalk
  <2>2. CASE Admit \/ Accept
    BY <1>1, <2>2 DEF Admit, Accept
  <2>3. CASE Published
    BY <2>3, PublishedWalk
  <2>4. CASE Descend
    BY <2>4, DescendWalk
  <2>5. CASE Ascend
    BY <2>5, AscendWalk
  <2>6. CASE Refuse
    BY <1>2, <2>6 DEF Refuse, GiveUp
  <2> QED
    BY <1>4, <2>1, <2>2, <2>3, <2>4, <2>5, <2>6 DEF Publish, NodeStep
<1>5. ASSUME NEW id \in DOMAIN journal, Deliver(id) PROVE Walk'
  BY <1>1, <1>5 DEF Deliver, DeliverEvent
<1>6. CASE SendReply \/ Fail
  BY <1>2, <1>6 DEF SendReply, Reply, Fail, Abort, GiveUp
<1>7. CASE EditFile
  BY <1>1, <1>7 DEF EditFile, Edit
<1>8. CASE UNCHANGED treeVars
  BY <1>1, <1>8 DEF treeVars
<1> QED
  BY <1>3, <1>4, <1>5, <1>6, <1>7, <1>8 DEF Next, vars, BeginWait, Wait, Answer

\* A reply that was whole stays so, and the ones that are added are whole.
LEMMA WholeStep ==
  ASSUME TreeInv, Walk, TreeWhole, [Next]_vars
  PROVE  TreeWhole'
<1>1. host \subseteq host'
  BY DEF Next, vars, treeVars, Serve, ReceiveRequest, Publish, NodeStep, ReadFiles, Admit, Accept,
         Published, Descend, Ascend, Refuse, GiveUp, Deliver, DeliverEvent, BeginWait, Wait,
         Answer, SendReply, Reply, Fail, Abort, EditFile, Edit
<1>2. ASSUME NEW r, Whole(r) PROVE Whole(r)'
  BY <1>1, <1>2 DEF Whole, At
<1>3. \A r \in replies : Whole(r)
  BY DEF TreeWhole, Whole
<1>4. ASSUME NEW r \in replies' PROVE Whole(r)'
  <2>1. CASE r \in replies
    BY <1>2, <1>3, <2>1
  <2>2. CASE r \notin replies
    <3>1. Reply /\ r = [tree |-> call.tree, root |-> Top.event, children |-> children]
      BY <2>2
      DEF Next, vars, treeVars, Serve, ReceiveRequest, Publish, NodeStep, ReadFiles, Admit,
          Accept, Published, Descend, Ascend, Refuse, GiveUp, Deliver, DeliverEvent, BeginWait,
          Wait, Answer, SendReply, Reply, Fail, Abort, EditFile, Edit
    <3>2. Whole(r)
      BY <3>1, ReplyWhole DEF Reply
    <3> QED
      BY <1>2, <3>2
  <2> QED
    BY <2>1, <2>2
<1> QED
  BY <1>4 DEF TreeWhole, Whole

\* A successful reply stands for the whole tree: every node once, on the host,
\* under the event of its parent, and nothing else, however often calls were cut
\* off, asked for again or refused before it, and whatever else is on the host.
THEOREM RepliesWhole == Spec => []TreeWhole
<1> DEFINE I == Inv /\ Walk /\ TreeWhole
<1>1. Init => Walk /\ TreeWhole
  BY DEF Init, TreesInit, Walk, TreeWhole
<1>2. Init => Inv
  BY InitInv
<1>3. Inv /\ [Next]_vars => Inv'
  BY StepInv
<1>4. I /\ [Next]_vars => I'
  BY <1>3, WalkStep, WholeStep DEF Inv
<1>5. I => TreeWhole
  OBVIOUS
<1> QED
  BY <1>1, <1>2, <1>4, <1>5, PTL DEF Spec
==============================================================================
