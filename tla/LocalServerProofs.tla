-------------------------- MODULE LocalServerProofs --------------------------
(***************************************************************************)
(* Theorems about LocalServer, for any number of daemons, inodes, starts   *)
(* and connections: a connection made after a shutdown was requested is    *)
(* not served; and a serving daemon keeps its socket and only stale        *)
(* sockets are removed, until two starts meet before either has a          *)
(* listener.                                                               *)
(***************************************************************************)
EXTENDS LocalServer, TLAPS

Orderly == Control /\ BoundListens

\* A process that is gone, at any point, disturbs nobody.
LEMMA ExitOrderly ==
  ASSUME TypeOK, Orderly, NEW d \in Daemons, Exit(d)
  PROVE  BoundIsPublished' /\ JudgementHolds'
<1> USE NamesAssumption DEF TypeOK, Orderly, Control, Goto, Bound, Serving, Ending
<1>1. BoundIsPublished'
  BY DEF Exit, Gone, BoundIsPublished
<1>2. JudgementHolds'
  BY DEF Exit, Gone, JudgementHolds
<1> QED
  BY <1>1, <1>2

\* The first steps of a start: the path is judged and emptied.
LEMMA JudgingOrderly ==
  ASSUME TypeOK, Orderly, NEW d \in Daemons,
         Stat(d) \/ Probe(d) \/ Verify(d) \/ Unlink(d)
  PROVE  BoundIsPublished' /\ JudgementHolds'
<1> USE NamesAssumption DEF TypeOK, Orderly, Control, Goto, Bound, Serving, Ending
<1>1. ASSUME file = None, NEW e \in Daemons
      PROVE  pc[e] \notin Bound
  BY <1>1 DEF BoundIsPublished, BoundListens
<1>2. ASSUME pc[d] = "probe", Listeners = {}, NEW e \in Daemons
      PROVE  pc[e] \notin Bound
  <2>1. pc[e] # "listen"
    BY <1>2 DEF OneStart, Unsettled, Starting
  <2> QED
    BY <1>2, <2>1 DEF Listeners, BoundIsPublished, BoundListens
<1>3. CASE Stat(d) /\ ~Exit(d)
  <2>1. BoundIsPublished'
    BY <1>3 DEF Stat, BoundIsPublished
  <2>2. JudgementHolds'
    BY <1>1, <1>3 DEF Stat, JudgementHolds
  <2> QED
    BY <2>1, <2>2
<1>4. CASE Probe(d)
  <2>1. BoundIsPublished'
    BY <1>4 DEF Probe, BoundIsPublished
  <2>2. JudgementHolds'
    BY <1>2, <1>4 DEF Probe, JudgementHolds
  <2> QED
    BY <2>1, <2>2
<1>5. CASE Verify(d) /\ ~Exit(d)
  <2>1. BoundIsPublished'
    BY <1>5 DEF Verify, BoundIsPublished
  <2>2. JudgementHolds'
    BY <1>5 DEF Verify, JudgementHolds
  <2> QED
    BY <2>1, <2>2
<1>6. CASE Unlink(d) /\ ~Exit(d)
  <2>1. \A e \in Daemons : pc[e] \notin Bound
    BY <1>6 DEF Unlink, JudgementHolds
  <2>2. BoundIsPublished'
    BY <1>6, <2>1 DEF Unlink, BoundIsPublished
  <2>3. \A e \in Daemons : e # d => pc[e] # "unlink"
    BY <1>6 DEF Unlink, OneStart, Unsettled, Starting
  <2>4. JudgementHolds'
    BY <1>6, <2>1, <2>3 DEF Unlink, JudgementHolds
  <2> QED
    BY <2>2, <2>4
<1> QED
  BY <1>3, <1>4, <1>5, <1>6, ExitOrderly

\* The rest of a start: the socket is bound and its identity read back.
LEMMA BindingOrderly ==
  ASSUME TypeOK, Orderly, NEW d \in Daemons,
         Bind(d) \/ Listen(d) \/ Chmod(d) \/ Own(d)
  PROVE  BoundIsPublished' /\ JudgementHolds'
<1> USE NamesAssumption DEF TypeOK, Orderly, Control, Goto, Bound, Serving, Ending
<1>1. ASSUME pc[d] \in {"bind", "listen"}, NEW e \in Daemons, e # d
      PROVE  pc[e] \notin Unsettled
  BY <1>1 DEF OneStart, Unsettled, Starting
<1>2. CASE Bind(d) /\ ~Exit(d)
  <2>1. \A e \in Daemons : pc[e] \notin Bound
    BY <1>2 DEF Bind, JudgementHolds
  <2>2. BoundIsPublished'
    BY <1>2, <2>1 DEF Bind, BoundIsPublished
  <2>3. \A e \in Daemons : e # d => pc[e] \notin {"probe", "verify", "unlink", "bind"}
    BY <1>1, <1>2 DEF Bind, Unsettled, Starting
  <2>4. JudgementHolds'
    BY <1>2, <2>1, <2>3 DEF Bind, JudgementHolds
  <2> QED
    BY <2>2, <2>4
<1>3. CASE Listen(d)
  <2>1. BoundIsPublished'
    BY <1>3 DEF Listen, BoundIsPublished
  <2>2. JudgementHolds'
    BY <1>3 DEF Listen, JudgementHolds
  <2> QED
    BY <2>1, <2>2
<1>4. CASE Chmod(d) /\ ~Exit(d)
  <2>1. BoundIsPublished'
    BY <1>4 DEF Chmod, BoundIsPublished
  <2>2. JudgementHolds'
    BY <1>4 DEF Chmod, JudgementHolds
  <2> QED
    BY <2>1, <2>2
<1>5. CASE Own(d) /\ ~Exit(d)
  <2>1. BoundIsPublished'
    BY <1>5 DEF Own, BoundIsPublished
  <2>2. file = sock[d]
    BY <1>5 DEF Own, BoundIsPublished
  <2>3. JudgementHolds'
    BY <1>5, <2>2 DEF Own, JudgementHolds
  <2> QED
    BY <2>1, <2>3
<1> QED
  BY <1>2, <1>3, <1>4, <1>5, ExitOrderly

\* The loop leaves the path and the sockets alone.
LEMMA ServingOrderly ==
  ASSUME TypeOK, Orderly, NEW d \in Daemons,
         Check(d) \/ Accept(d) \/ AcceptFails(d) \/ Recheck(d) \/ Serve(d)
  PROVE  BoundIsPublished' /\ JudgementHolds'
<1> USE DEF TypeOK, Orderly, Control, Goto, Bound, Serving, Ending
<1>1. /\ pc[d] \in Serving
      /\ pc' = [pc EXCEPT ![d] = pc'[d]]
      /\ pc'[d] \in Serving \cup Ending
      /\ UNCHANGED <<file, seen, sock, open>>
  BY DEF Check, Accept, AcceptFails, Recheck, Serve
<1>2. BoundIsPublished'
  BY <1>1 DEF BoundIsPublished
<1>3. JudgementHolds'
  BY <1>1 DEF JudgementHolds
<1> QED
  BY <1>2, <1>3

\* A daemon that ends, in order or not.
LEMMA EndingOrderly ==
  ASSUME TypeOK, Orderly, NEW d \in Daemons,
         Drop(d) \/ Remove(d) \/ Kill(d)
  PROVE  BoundIsPublished' /\ JudgementHolds'
<1> USE NamesAssumption DEF TypeOK, Orderly, Control, Goto, Bound, Serving, Ending
<1>1. CASE Drop(d) /\ ~Exit(d)
  <2>1. BoundIsPublished'
    BY <1>1 DEF Drop, BoundIsPublished
  <2>2. JudgementHolds'
    BY <1>1 DEF Drop, JudgementHolds
  <2> QED
    BY <2>1, <2>2
<1>2. CASE Remove(d)
  <2>1. BoundIsPublished'
    BY <1>2 DEF Remove, Gone, BoundIsPublished
  <2>2. \A e \in Daemons : pc[e] \notin {"verify", "unlink", "bind"}
    BY <1>2 DEF Remove, JudgementHolds
  <2>3. JudgementHolds'
    BY <1>2, <2>2 DEF Remove, Gone, JudgementHolds
  <2> QED
    BY <2>1, <2>3
<1> QED
  BY <1>1, <1>2, ExitOrderly DEF Kill

\* A start, and what happens around the daemons.
LEMMA AroundOrderly ==
  ASSUME TypeOK, Orderly,
         Connect \/ \E d \in Daemons : Start(d) \/ Request(d) \/ Wake(d)
  PROVE  BoundIsPublished' /\ JudgementHolds'
<1> USE DEF TypeOK, Orderly, Control, Bound, Serving, Ending
<1>1. CASE UNCHANGED <<file, pc, seen, sock>>
  BY <1>1 DEF BoundIsPublished, JudgementHolds
<1>2. ASSUME NEW d \in Daemons, Start(d)
      PROVE  BoundIsPublished' /\ JudgementHolds'
  <2>1. BoundIsPublished'
    BY <1>2 DEF Start, Goto, BoundIsPublished
  <2>2. JudgementHolds'
    BY <1>2 DEF Start, Goto, JudgementHolds
  <2> QED
    BY <2>1, <2>2
<1> QED
  BY <1>1, <1>2 DEF Connect, Request, Wake

\* Every step from a state under control keeps the path in order.
LEMMA StepOrderly ==
  ASSUME TypeOK, Orderly, Next
  PROVE  BoundIsPublished' /\ JudgementHolds'
BY JudgingOrderly, BindingOrderly, ServingOrderly, EndingOrderly, AroundOrderly
   DEF Next, Step

\* Whatever the starts do to each other, sockets and listeners come and go with
\* the daemons that hold them.
LEMMA StepListens ==
  ASSUME TypeOK, BoundListens, [Next]_vars
  PROVE  BoundListens'
<1> USE NamesAssumption DEF TypeOK, BoundListens, Goto, Bound, Starting, Serving, Ending
<1>1. CASE UNCHANGED <<pc, sock, open>>
  BY <1>1
<1>2. ASSUME NEW d \in Daemons, Gone(d)
      PROVE  BoundListens'
  BY <1>2 DEF Gone
<1>3. ASSUME NEW d \in Daemons, Start(d) \/ Stat(d) \/ Probe(d) \/ Verify(d) \/ Unlink(d)
      PROVE  BoundListens'
  BY <1>2, <1>3 DEF Exit, Start, Stat, Probe, Verify, Unlink
<1>4. ASSUME NEW d \in Daemons, Bind(d)
      PROVE  BoundListens'
  BY <1>2, <1>4 DEF Exit, Bind
<1>5. ASSUME NEW d \in Daemons, Listen(d) \/ Chmod(d) \/ Own(d)
      PROVE  BoundListens'
  <2>1. CASE Listen(d)
    <3>1. \A e \in Daemons : e # d => pc'[e] = pc[e]
      BY <2>1 DEF Listen
    <3>2. pc[d] = "listen" /\ pc'[d] = "chmod" /\ open' = open \cup {d} /\ sock' = sock
      BY <2>1 DEF Listen
    <3> QED
      BY <3>1, <3>2
  <2>2. CASE Chmod(d) \/ Own(d)
    BY <1>2, <2>2 DEF Exit, Chmod, Own
  <2> QED
    BY <1>5, <2>1, <2>2
<1>6. ASSUME NEW d \in Daemons,
             Check(d) \/ Accept(d) \/ AcceptFails(d) \/ Recheck(d) \/ Serve(d) \/ Drop(d)
      PROVE  BoundListens'
  BY <1>2, <1>6 DEF Exit, Check, Accept, AcceptFails, Recheck, Serve, Drop
<1> QED
  BY <1>1, <1>2, <1>3, <1>4, <1>5, <1>6
  DEF Next, Step, Connect, Request, Wake, Kill, Remove, Exit, vars, perDaemon

\* Control is kept until two starts meet, and is back once all daemons are gone.
LEMMA StepControl ==
  ASSUME TypeOK, BoundListens, ~contended => Control, [Next]_vars
  PROVE  ~contended' => Control'
<1> SUFFICES ASSUME ~contended' PROVE Control'
  OBVIOUS
<1>1. CASE UNCHANGED vars
  BY <1>1 DEF vars, perDaemon, Control, OneStart, BoundIsPublished, JudgementHolds
<1>2. CASE Next /\ \A d \in Daemons : pc'[d] = "off"
  <2>1. \A d \in Daemons : pc'[d] = "off"
    BY <1>2
  <2> QED
    BY <2>1 DEF Control, OneStart, BoundIsPublished, JudgementHolds, Bound, Unsettled,
                Starting, Serving, Ending
<1>3. CASE Next /\ \E d \in Daemons : pc'[d] # "off"
  <2>1. ~contended /\ OneStart'
    BY <1>3 DEF Next, Remember, TypeOK
  <2> QED
    BY <1>3, <2>1, StepOrderly DEF Orderly, Control
<1> QED
  BY <1>1, <1>2, <1>3

-----------------------------------------------------------------------------
(* Types and late connections                                              *)

Traffic == TypeOK /\ LateIsFlagged

\* A daemon that is bound found the path empty, and no daemon puts a plain file
\* there: what it reads back as its own is a socket, also when starts overlap.
BoundOverSocket == \A d \in Daemons : pc[d] \in Bound => file # Plain

\* A connection that waits is typed and, if late, belongs to a flagged daemon.
LEMMA Arrival ==
  ASSUME Traffic, NEW from \in {"client", "daemon", "signal"},
         backlog' = WithConnection(from), flag \subseteq flag'
  PROVE  /\ backlog' \in [Daemons -> Seq(Connection)]
         /\ \A d \in Daemons : \A k \in DOMAIN backlog'[d] :
              backlog'[d][k].late => d \in flag'
<1> USE DEF Traffic, TypeOK
<1>1. ASSUME NEW d \in Daemons
      PROVE  /\ backlog'[d] \in Seq(Connection)
             /\ \A k \in DOMAIN backlog'[d] : backlog'[d][k].late => d \in flag'
  <2> DEFINE c == [from |-> from, late |-> d \in flag]
  <2>1. c \in Connection
    BY DEF Connection
  <2>2. backlog[d] \in Seq(Connection)
    OBVIOUS
  <2>3. \A k \in DOMAIN backlog[d] : backlog[d][k].late => d \in flag'
    BY DEF LateIsFlagged
  <2>4. CASE backlog'[d] = backlog[d]
    BY <2>2, <2>3, <2>4
  <2>5. CASE backlog'[d] = Append(backlog[d], c)
    <3>1. c.late => d \in flag'
      OBVIOUS
    <3> HIDE DEF c
    <3>2. \A k \in DOMAIN backlog'[d] :
             (k \in DOMAIN backlog[d] /\ backlog'[d][k] = backlog[d][k])
             \/ backlog'[d][k] = c
      BY <2>1, <2>2, <2>5
    <3>3. backlog'[d] \in Seq(Connection)
      BY <2>1, <2>2, <2>5
    <3> QED
      BY <2>3, <3>1, <3>2, <3>3
  <2> QED
    BY <2>4, <2>5 DEF WithConnection
<1>2. backlog' = [d \in Daemons |-> backlog'[d]]
  BY DEF WithConnection
<1> QED
  BY <1>1, <1>2

\* A daemon that is gone leaves no connection behind.
LEMMA GoneTraffic ==
  ASSUME Traffic, contended' \in BOOLEAN, NEW d \in Daemons, Gone(d),
         file' \in Inodes \cup {None, Plain}, UNCHANGED bounds
  PROVE  Traffic'
<1> USE DEF Traffic, Gone, Goto
<1>1. backlog' \in [Daemons -> Seq(Connection)]
  <2>1. <<>> \in Seq(Connection)
    OBVIOUS
  <2> QED
    BY <2>1 DEF TypeOK
<1>2. TypeOK'
  BY <1>1 DEF TypeOK, bounds
<1>3. LateIsFlagged'
  BY DEF TypeOK, LateIsFlagged
<1> QED
  BY <1>2, <1>3

\* Starting and ending do not touch the connections of anyone else.
LEMMA PathTraffic ==
  ASSUME Traffic, BoundOverSocket, contended' \in BOOLEAN, NEW d \in Daemons,
         \/ Start(d) \/ Stat(d) \/ Verify(d) \/ Unlink(d) \/ Bind(d) \/ Listen(d)
         \/ Chmod(d) \/ Own(d) \/ Drop(d) \/ Remove(d) \/ Kill(d)
  PROVE  Traffic'
<1>1. CASE Exit(d)
  BY <1>1, GoneTraffic DEF Exit, Traffic, TypeOK
<1>2. CASE Remove(d)
  BY <1>2, GoneTraffic DEF Remove
<1>3. CASE /\ ~Exit(d)
           /\ \/ Start(d) \/ Stat(d) \/ Verify(d) \/ Unlink(d) \/ Bind(d)
              \/ Listen(d) \/ Chmod(d) \/ Own(d) \/ Drop(d)
  <2>1. UNCHANGED <<backlog, current, flag, waking>>
    BY <1>3 DEF Start, Listen, Stat, Verify, Unlink, Bind, Chmod, Own, Drop
  <2>2. /\ pc' \in [Daemons -> {"off"} \cup Starting \cup Serving \cup Ending]
        /\ pc'[d] \notin {"recheck", "serve"}
        /\ \A e \in Daemons : e # d => pc'[e] = pc[e]
    BY <1>3 DEF Start, Listen, Stat, Verify, Unlink, Bind, Chmod, Own, Drop, Goto,
                Traffic, TypeOK, Starting, Serving, Ending
  <2>3. /\ file' \in Inodes \cup {None, Plain}
        /\ sock' \in [Daemons -> Inodes \cup {None}]
        /\ open' \subseteq Daemons
        /\ starts' \in Nat /\ clients' \in Nat
    <3> USE DEF Traffic, TypeOK, bounds
    <3>1. CASE Start(d)
      BY <3>1 DEF Start
    <3>2. CASE Bind(d) /\ ~Exit(d)
      BY <3>2 DEF Bind
    <3>3. CASE Listen(d) \/ (Unlink(d) /\ ~Exit(d))
      BY <3>3 DEF Listen, Unlink
    <3>4. CASE UNCHANGED <<file, sock, open, bounds>>
      BY <3>4
    <3> QED
      BY <1>3, <3>1, <3>2, <3>3, <3>4 DEF Stat, Verify, Chmod, Own, Drop
  <2>4. seen' \in [Daemons -> Inodes \cup {None}]
    <3>1. CASE Own(d) /\ ~Exit(d)
      <4>1. file \in Inodes
        BY <3>1 DEF Own, BoundOverSocket, Bound, Traffic, TypeOK
      <4> QED
        BY <3>1, <4>1 DEF Own, Traffic, TypeOK
    <3>2. CASE Stat(d) /\ ~Exit(d)
      BY <3>2 DEF Stat, Traffic, TypeOK
    <3>3. CASE UNCHANGED seen
      BY <3>3 DEF Traffic, TypeOK
    <3> QED
      BY <1>3, <3>1, <3>2, <3>3 DEF Start, Listen, Verify, Unlink, Bind, Chmod, Drop
  <2>5. TypeOK'
    BY <2>1, <2>2, <2>3, <2>4 DEF Traffic, TypeOK
  <2>6. LateIsFlagged'
    BY <2>1, <2>2 DEF Traffic, LateIsFlagged
  <2> QED
    BY <2>5, <2>6 DEF Traffic
<1> QED
  BY <1>1, <1>2, <1>3 DEF Kill

\* The loop takes a connection, looks at the flag and serves.
LEMMA LoopTraffic ==
  ASSUME Traffic, contended' \in BOOLEAN, NEW d \in Daemons,
         Check(d) \/ Accept(d) \/ AcceptFails(d) \/ Recheck(d) \/ Serve(d)
  PROVE  Traffic'
<1> USE DEF Traffic
<1>1. CASE Accept(d)
  <2>1. /\ Head(backlog[d]) \in Connection
        /\ Head(backlog[d]) = backlog[d][1] /\ 1 \in DOMAIN backlog[d]
    BY <1>1 DEF Accept, TypeOK
  <2>2. /\ Tail(backlog[d]) \in Seq(Connection)
        /\ \A k \in DOMAIN Tail(backlog[d]) :
             k + 1 \in DOMAIN backlog[d] /\ Tail(backlog[d])[k] = backlog[d][k + 1]
    BY <1>1 DEF Accept, TypeOK
  <2>3. backlog' = [backlog EXCEPT ![d] = Tail(backlog[d])]
    BY <1>1 DEF Accept
  <2>4. TypeOK'
    BY <1>1, <2>1, <2>2, <2>3 DEF Accept, TypeOK, Goto, Serving, bounds
  <2>5. \A e \in Daemons : \A k \in DOMAIN backlog'[e] :
          backlog'[e][k].late => e \in flag
    BY <2>2, <2>3 DEF TypeOK, LateIsFlagged
  <2>6. LateIsFlagged'
    BY <1>1, <2>1, <2>5 DEF Accept, Goto, TypeOK, LateIsFlagged
  <2> QED
    BY <2>4, <2>6
<1>2. CASE Check(d) \/ AcceptFails(d) \/ Recheck(d) \/ Serve(d)
  <2>1. TypeOK'
    BY <1>2 DEF Check, AcceptFails, Recheck, Serve, TypeOK, Goto, Serving, Ending, bounds
  <2>2. LateIsFlagged'
    BY <1>2 DEF Check, AcceptFails, Recheck, Serve, TypeOK, Goto, LateIsFlagged
  <2> QED
    BY <2>1, <2>2
<1> QED
  BY <1>1, <1>2

\* Clients, probes and signals connect; a signal first sets the flag.
LEMMA ConnectionTraffic ==
  ASSUME Traffic, contended' \in BOOLEAN,
         Connect \/ \E d \in Daemons : Probe(d) \/ Request(d) \/ Wake(d)
  PROVE  Traffic'
<1> USE DEF Traffic
<1>1. CASE Connect
  <2>1. UNCHANGED <<file, pc, seen, sock, open, current, flag, waking, starts>>
        /\ clients' \in Nat
    BY <1>1 DEF Connect, TypeOK
  <2> QED
    BY <1>1, <2>1, Arrival DEF Connect, TypeOK, LateIsFlagged
<1>2. ASSUME NEW d \in Daemons, Probe(d)
      PROVE  Traffic'
  <2>1. /\ UNCHANGED <<file, sock, open, current, flag, waking, starts, clients>>
        /\ pc' \in [Daemons -> {"off"} \cup Starting \cup Serving \cup Ending]
        /\ pc'[d] \notin {"recheck", "serve"}
        /\ \A e \in Daemons : e # d => pc'[e] = pc[e]
        /\ seen' \in [Daemons -> Inodes \cup {None}]
    BY <1>2 DEF Probe, Goto, TypeOK, Starting, bounds
  <2>2. /\ backlog' \in [Daemons -> Seq(Connection)]
        /\ \A e \in Daemons : \A k \in DOMAIN backlog'[e] :
             backlog'[e][k].late => e \in flag'
    <3>1. CASE UNCHANGED backlog
      BY <2>1, <3>1 DEF TypeOK, LateIsFlagged
    <3>2. CASE backlog' = WithConnection("daemon")
      BY <2>1, <3>2, Arrival
    <3> QED
      BY <1>2, <3>1, <3>2 DEF Probe
  <2>3. TypeOK'
    BY <2>1, <2>2 DEF TypeOK
  <2>4. LateIsFlagged'
    BY <2>1, <2>2 DEF LateIsFlagged
  <2> QED
    BY <2>3, <2>4
<1>3. ASSUME NEW d \in Daemons, Request(d)
      PROVE  Traffic'
  BY <1>3 DEF Request, TypeOK, LateIsFlagged, bounds
<1>4. ASSUME NEW d \in Daemons, Wake(d)
      PROVE  Traffic'
  <2>1. UNCHANGED <<file, pc, seen, sock, open, current, flag, starts, clients>>
        /\ waking' \subseteq Daemons
    BY <1>4 DEF Wake, TypeOK, bounds
  <2> QED
    BY <1>4, <2>1, Arrival DEF Wake, TypeOK, LateIsFlagged
<1> QED
  BY <1>1, <1>2, <1>3, <1>4

\* Every step keeps the connections typed and accounted for.
LEMMA StepTraffic ==
  ASSUME Traffic, BoundOverSocket, [Next]_vars
  PROVE  Traffic'
<1>1. CASE UNCHANGED vars
  BY <1>1 DEF vars, perDaemon, bounds, Traffic, TypeOK, LateIsFlagged
<1>2. CASE Next
  <2>1. contended' \in BOOLEAN
    BY <1>2 DEF Next, Remember
  <2> QED
    BY <1>2, <2>1, PathTraffic, LoopTraffic, ConnectionTraffic DEF Next, Step
<1> QED
  BY <1>1, <1>2

\* No step puts a plain file at the path of a bound daemon.
LEMMA StepOverSocket ==
  ASSUME TypeOK, BoundOverSocket, [Next]_vars
  PROVE  BoundOverSocket'
<1> USE NamesAssumption DEF TypeOK, BoundOverSocket, Goto, Bound, Starting, Serving, Ending
<1>1. CASE UNCHANGED <<file, pc>>
  BY <1>1
<1>2. ASSUME NEW d \in Daemons, Exit(d) \/ Remove(d)
      PROVE  BoundOverSocket'
  BY <1>2 DEF Exit, Remove, Gone
<1>3. ASSUME NEW d \in Daemons, Start(d) \/ Stat(d) \/ Probe(d) \/ Verify(d) \/ Unlink(d)
      PROVE  BoundOverSocket'
  BY <1>2, <1>3 DEF Start, Stat, Probe, Verify, Unlink
<1>4. ASSUME NEW d \in Daemons, Bind(d)
      PROVE  BoundOverSocket'
  BY <1>2, <1>4 DEF Bind
<1>5. ASSUME NEW d \in Daemons, Listen(d) \/ Chmod(d) \/ Own(d)
      PROVE  BoundOverSocket'
  BY <1>2, <1>5 DEF Listen, Chmod, Own
<1>6. ASSUME NEW d \in Daemons,
             Check(d) \/ Accept(d) \/ AcceptFails(d) \/ Recheck(d) \/ Serve(d) \/ Drop(d)
      PROVE  BoundOverSocket'
  BY <1>2, <1>6 DEF Check, Accept, AcceptFails, Recheck, Serve, Drop
<1> QED
  BY <1>1, <1>2, <1>3, <1>4, <1>5, <1>6
  DEF Next, Step, Connect, Request, Wake, Kill, vars, perDaemon

-----------------------------------------------------------------------------
(* The theorems                                                            *)

\* Before any daemon starts there is nothing to disturb.
LEMMA Initially == Init => Inv
<1> SUFFICES ASSUME Init PROVE Inv
  OBVIOUS
<1>1. TypeOK
  <2>1. <<>> \in Seq(Connection)
    OBVIOUS
  <2> QED
    BY <2>1 DEF Init, TypeOK
<1>2. Control /\ BoundListens
  BY DEF Init, Control, OneStart, BoundIsPublished, BoundListens, JudgementHolds, Bound,
         Unsettled, Starting, Serving, Ending
<1>3. LateIsFlagged
  <2>1. DOMAIN <<>> = {}
    OBVIOUS
  <2>2. \A d \in Daemons : backlog[d] = <<>> /\ pc[d] = "off"
    BY DEF Init
  <2> QED
    BY <2>1, <2>2 DEF LateIsFlagged
<1> QED
  BY <1>1, <1>2, <1>3 DEF Inv

\* What needs no order among the starts: types, the flag of a late connection and
\* the socket under a bound daemon.
LEMMA TrafficInvariance == Spec => [](Traffic /\ BoundOverSocket)
<1>1. Init => Traffic /\ BoundOverSocket
  <2>1. Init => BoundOverSocket
    BY DEF Init, BoundOverSocket, Bound, Serving, Ending
  <2> QED
    BY <2>1, Initially DEF Inv, Traffic
<1>2. (Traffic /\ BoundOverSocket) /\ [Next]_vars => (Traffic /\ BoundOverSocket)'
  BY StepTraffic, StepOverSocket DEF Traffic
<1> QED
  BY <1>1, <1>2, PTL DEF Spec

\* The path, the daemons and their connections stay well typed, however many
\* daemons start at the same time.
THEOREM TypeCorrect == Spec => []TypeOK
<1>1. Traffic /\ BoundOverSocket => TypeOK
  BY DEF Traffic
<1> QED
  BY <1>1, TrafficInvariance, PTL

\* Until two starts meet, a daemon that judged the path has it to itself, a bound
\* daemon is the only one and the path names its socket.
THEOREM Invariance == Spec => [](Inv /\ BoundOverSocket)
<1>1. Init => Inv /\ BoundOverSocket
  BY Initially DEF Init, BoundOverSocket, Bound, Serving, Ending
<1>2. (Inv /\ BoundOverSocket) /\ [Next]_vars => (Inv /\ BoundOverSocket)'
  BY StepControl, StepListens, StepTraffic, StepOverSocket DEF Inv, Traffic
<1> QED
  BY <1>1, <1>2, PTL DEF Spec

\* Until two starts meet before either has a listener, the path leads to the
\* daemon that serves; any number of daemons may start, serve and be killed.
THEOREM Reachable == Spec => []ServingIsReachable
<1>1. Inv /\ BoundOverSocket => ServingIsReachable
  BY DEF Inv, Control, BoundIsPublished, JudgementHolds, Bound, ServingIsReachable
<1> QED
  BY <1>1, Invariance, PTL

\* A connection made after a shutdown was requested is not served, also when
\* daemons start at the same time and take the path from each other.
THEOREM Late == Spec => []LateNotServed
<1>1. Traffic /\ BoundOverSocket => LateNotServed
  BY DEF Traffic, LateIsFlagged, LateNotServed
<1> QED
  BY <1>1, TrafficInvariance, PTL

\* Until two starts meet before either has a listener, only stale sockets, and
\* one's own, are removed.
THEOREM OnlyStale == Spec => OnlyStaleRemoved
<1> DEFINE Fair == ~contended' /\ file # None /\ file' = None => FoundStale
<1>1. (Inv /\ BoundOverSocket) /\ [Next]_vars => [Fair]_vars
  <2> SUFFICES ASSUME Inv, BoundOverSocket, Next, ~contended', file # None, file' = None
               PROVE  FoundStale
    BY DEF vars
  <2> USE NamesAssumption DEF Inv, TypeOK
  <2>1. PICK d \in Daemons : Unlink(d) \/ Remove(d)
    BY DEF Next, Step, Connect, Start, Request, Wake, Kill, AcceptFails, Stat, Probe,
           Verify, Bind, Listen, Chmod, Own, Check, Accept, Recheck, Serve, Drop, Exit
  <2>2. CASE Unlink(d)
    <3>1. pc'[d] = "bind"
      BY <2>2 DEF Unlink, Goto
    <3>2. ~contended
      BY <3>1 DEF Next, Remember
    <3>3. pc[d] = "unlink" /\ file = seen[d] /\ seen[d] \in Inodes
      BY <2>2, <3>2 DEF Unlink, Control, JudgementHolds
    <3>4. \A e \in Daemons : sock[e] = None
      BY <3>2, <3>3 DEF Control, JudgementHolds, BoundListens
    <3> QED
      BY <3>3, <3>4 DEF FoundStale
  <2>3. CASE Remove(d)
    <3>1. pc[d] = "remove" /\ pc[d] \in Bound /\ sock[d] \in Inodes
      BY <2>3 DEF Remove, Bound, Ending, BoundListens
    <3>2. CASE \A e \in Daemons : pc'[e] = "off"
      <4>1. \A e \in Daemons : e # d => pc[e] = "off"
        BY <2>3, <3>2 DEF Remove, Gone, Goto
      <4>2. \A e \in Daemons : e # d => sock[e] = None
        BY <4>1 DEF BoundListens, Bound, Serving, Ending
      <4> QED
        BY <3>1, <4>2 DEF FoundStale, BoundOverSocket
    <3>3. CASE \E e \in Daemons : pc'[e] # "off"
      <4>1. ~contended
        BY <3>3 DEF Next, Remember
      <4>2. file = sock[d]
        BY <3>1, <4>1 DEF Control, BoundIsPublished
      <4>3. \A e \in Daemons : sock[e] = file => e = d
        BY <3>1, <4>1, <4>2 DEF Control, BoundIsPublished, BoundListens
      <4> QED
        BY <3>1, <4>2, <4>3 DEF FoundStale
    <3> QED
      BY <3>2, <3>3
  <2> QED
    BY <2>1, <2>2, <2>3
<1> QED
  BY <1>1, Invariance, PTL DEF Spec, OnlyStaleRemoved
=============================================================================
