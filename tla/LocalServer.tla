----------------------------- MODULE LocalServer -----------------------------
(***************************************************************************)
(* The private Unix socket of the daemon: how a starting daemon judges the *)
(* socket file it finds, removes it when it is stale, binds its own,       *)
(* serves one connection at a time, and ends when a signal asks it to.     *)
(*                                                                         *)
(* Every system call on the shared path is a step of its own, because      *)
(* another daemon may act on the path between any two of them.  A socket   *)
(* file is its inode.  The inode of a file stays taken while the path      *)
(* names it or a live daemon holds the socket that was bound to it.        *)
(***************************************************************************)
EXTENDS Naturals, Sequences

CONSTANTS
  Daemons,     \* daemon processes configured with one socket path
  Inodes,      \* inodes of the file system
  Plain,       \* a file at the path that is not a socket
  MaxStarts,   \* bound: starts of a daemon in one behaviour
  MaxClients,  \* bound: connections of clients in one behaviour
  None

ASSUME NamesAssumption ==
  None \notin Inodes /\ Plain \notin Inodes /\ None # Plain

ASSUME BoundsAssumption == MaxStarts \in Nat /\ MaxClients \in Nat

\* The calls a daemon makes, by the one it is about to make.
Starting == {"stat", "probe", "verify", "unlink", "bind", "listen", "chmod", "own"}
Serving == {"check", "accept", "recheck", "serve"}
Ending == {"drop", "remove"}

\* The calls before the path has a listener: a start at one of them acts on what
\* it saw of the path, or has a socket there that refuses connections.
Unsettled == Starting \ {"chmod", "own"}

\* A connection: what opened it, and whether the daemon it reached had already
\* been asked to stop.
Connection == [from : {"client", "daemon", "signal"}, late : BOOLEAN]

VARIABLES
  file,     \* what the socket path names: an inode, Plain or nothing
  pc,       \* daemon -> the call it is about to make, or off
  seen,     \* daemon -> inode it read from the path and compares with later
  sock,     \* daemon -> inode its listener is bound to
  open,     \* daemons whose listener takes connections
  backlog,  \* daemon -> connections nobody has accepted
  current,  \* daemon -> the connection it has accepted
  flag,     \* daemons with the shutdown requested
  waking,   \* daemons whose signal handler has yet to connect
  contended,  \* history: two unsettled starts have met since no daemon was alive
  starts, clients

bounds == <<starts, clients>>
perDaemon == <<pc, seen, sock, open, backlog, current, flag, waking>>
vars == <<file, perDaemon, contended, bounds>>

Init ==
  /\ file \in {None, Plain}
  /\ pc = [d \in Daemons |-> "off"]
  /\ seen = [d \in Daemons |-> None]
  /\ sock = [d \in Daemons |-> None]
  /\ open = {}
  /\ backlog = [d \in Daemons |-> <<>>]
  /\ current = [d \in Daemons |-> None]
  /\ flag = {} /\ waking = {}
  /\ contended = FALSE
  /\ starts = 0 /\ clients = 0

Goto(d, next) == pc' = [pc EXCEPT ![d] = next]

\* The process of d is gone and with it whatever it held, the connections that
\* wait included; the path stays as it is.
Gone(d) ==
  /\ Goto(d, "off")
  /\ seen' = [seen EXCEPT ![d] = None]
  /\ sock' = [sock EXCEPT ![d] = None]
  /\ open' = open \ {d}
  /\ backlog' = [backlog EXCEPT ![d] = <<>>]
  /\ current' = [current EXCEPT ![d] = None]
  /\ flag' = flag \ {d}
  /\ waking' = waking \ {d}

Exit(d) == Gone(d) /\ UNCHANGED <<file, bounds>>

\* The daemons that take a connection made to the path now.
Listeners == {d \in open : sock[d] = file}

\* A connection to the path waits for whoever listens there.
WithConnection(from) ==
  [d \in Daemons |->
    IF d \in Listeners
    THEN Append(backlog[d], [from |-> from, late |-> d \in flag])
    ELSE backlog[d]]

-----------------------------------------------------------------------------
(* bind                                                                    *)

Start(d) ==
  /\ pc[d] = "off"
  /\ starts < MaxStarts
  /\ starts' = starts + 1
  /\ Goto(d, "stat")
  /\ UNCHANGED <<file, seen, sock, open, backlog, current, flag, waking, clients>>

\* Mutated Stat: whatever is found is taken for a stale socket.
MutStat(d) ==
  /\ pc[d] = "stat"
  /\ \/ /\ file = None
        /\ Goto(d, "bind")
        /\ UNCHANGED <<file, seen, sock, open, backlog, current, flag, waking, bounds>>
     \/ /\ file # None
        /\ Goto(d, "probe")
        /\ seen' = [seen EXCEPT ![d] = file]
        /\ UNCHANGED <<file, sock, open, backlog, current, flag, waking, bounds>>

\* remove_stale_socket: what is at the path.
Stat(d) ==
  /\ pc[d] = "stat"
  /\ \/ /\ file = None
        /\ Goto(d, "bind")
        /\ UNCHANGED <<file, seen, sock, open, backlog, current, flag, waking, bounds>>
     \/ /\ file = Plain
        /\ Exit(d)
     \/ /\ file \in Inodes
        /\ Goto(d, "probe")
        /\ seen' = [seen EXCEPT ![d] = file]
        /\ UNCHANGED <<file, sock, open, backlog, current, flag, waking, bounds>>

\* Mutated Probe: the outcome of the connection is ignored.
MutProbe(d) ==
  /\ pc[d] = "probe"
  /\ Goto(d, "verify")
  /\ backlog' = WithConnection("daemon")
  /\ UNCHANGED <<file, seen, sock, open, current, flag, waking, bounds>>

\* Whether someone listens there; refused, or gone, means stale.
Probe(d) ==
  /\ pc[d] = "probe"
  /\ \/ /\ Listeners # {}
        /\ Goto(d, "off")
        /\ seen' = [seen EXCEPT ![d] = None]
        /\ backlog' = WithConnection("daemon")
     \/ /\ Listeners = {}
        /\ Goto(d, "verify")
        /\ UNCHANGED <<seen, backlog>>
  /\ UNCHANGED <<file, sock, open, current, flag, waking, bounds>>

\* remove_if_same_socket reads the path again and compares.
Verify(d) ==
  /\ pc[d] = "verify"
  /\ \/ /\ file = None
        /\ Goto(d, "bind")
        /\ UNCHANGED <<file, seen, sock, open, backlog, current, flag, waking, bounds>>
     \/ /\ file = seen[d]
        /\ Goto(d, "unlink")
        /\ UNCHANGED <<file, seen, sock, open, backlog, current, flag, waking, bounds>>
     \/ /\ file \notin {None, seen[d]}
        /\ Exit(d)

\* remove_file takes away whatever the path names by then.
Unlink(d) ==
  /\ pc[d] = "unlink"
  /\ \/ /\ file = None
        /\ Exit(d)
     \/ /\ file # None
        /\ file' = None
        /\ Goto(d, "bind")
        /\ UNCHANGED <<seen, sock, open, backlog, current, flag, waking, bounds>>

Free(i) == i # file /\ \A d \in Daemons : sock[d] # i

\* UnixListener::bind creates the file; connections are refused until listen.
Bind(d) ==
  /\ pc[d] = "bind"
  /\ \/ /\ file # None
        /\ Exit(d)
     \/ /\ file = None
        /\ \E i \in Inodes :
             /\ Free(i)
             /\ file' = i
             /\ sock' = [sock EXCEPT ![d] = i]
        /\ Goto(d, "listen")
        /\ UNCHANGED <<seen, open, backlog, current, flag, waking, bounds>>

Listen(d) ==
  /\ pc[d] = "listen"
  /\ open' = open \cup {d}
  /\ Goto(d, "chmod")
  /\ UNCHANGED <<file, seen, sock, backlog, current, flag, waking, bounds>>

\* set_permissions; without a PrivateUnixListener nothing is removed on failure.
Chmod(d) ==
  /\ pc[d] = "chmod"
  /\ \/ file = None /\ Exit(d)
     \/ /\ file # None
        /\ Goto(d, "own")
        /\ UNCHANGED <<file, seen, sock, open, backlog, current, flag, waking, bounds>>

\* The identity the listener remembers is read back from the path.
Own(d) ==
  /\ pc[d] = "own"
  /\ \/ file = None /\ Exit(d)
     \/ /\ file # None
        /\ seen' = [seen EXCEPT ![d] = file]
        /\ Goto(d, "check")
        /\ UNCHANGED <<file, sock, open, backlog, current, flag, waking, bounds>>

-----------------------------------------------------------------------------
(* serve_until_shutdown                                                    *)

Check(d) ==
  /\ pc[d] = "check"
  /\ Goto(d, IF d \in flag THEN "drop" ELSE "accept")
  /\ UNCHANGED <<file, seen, sock, open, backlog, current, flag, waking, bounds>>

Accept(d) ==
  /\ pc[d] = "accept"
  /\ backlog[d] # <<>>
  /\ current' = [current EXCEPT ![d] = Head(backlog[d])]
  /\ backlog' = [backlog EXCEPT ![d] = Tail(@)]
  /\ Goto(d, "recheck")
  /\ UNCHANGED <<file, seen, sock, open, flag, waking, bounds>>

AcceptFails(d) ==
  /\ pc[d] = "accept"
  /\ Goto(d, "drop")
  /\ UNCHANGED <<file, seen, sock, open, backlog, current, flag, waking, bounds>>

\* Mutated Recheck: the flag is not looked at after accept.
MutRecheck(d) ==
  /\ pc[d] = "recheck"
  /\ Goto(d, "serve")
  /\ UNCHANGED <<file, seen, sock, open, backlog, current, flag, waking, bounds>>

\* The connection that woke the loop is not served.
Recheck(d) ==
  /\ pc[d] = "recheck"
  /\ IF d \in flag
     THEN Goto(d, "drop") /\ current' = [current EXCEPT ![d] = None]
     ELSE Goto(d, "serve") /\ UNCHANGED current
  /\ UNCHANGED <<file, seen, sock, open, backlog, flag, waking, bounds>>

\* serve_stream answers or fails; the loop goes on either way.
Serve(d) ==
  /\ pc[d] = "serve"
  /\ current' = [current EXCEPT ![d] = None]
  /\ Goto(d, "check")
  /\ UNCHANGED <<file, seen, sock, open, backlog, flag, waking, bounds>>

\* Drop of the listener: remove_if_same_socket with the remembered identity.
Drop(d) ==
  /\ pc[d] = "drop"
  /\ \/ file # seen[d] /\ Exit(d)
     \/ /\ file = seen[d]
        /\ Goto(d, "remove")
        /\ UNCHANGED <<file, seen, sock, open, backlog, current, flag, waking, bounds>>

Remove(d) ==
  /\ pc[d] = "remove"
  /\ file' = None
  /\ Gone(d)
  /\ UNCHANGED bounds

-----------------------------------------------------------------------------
(* Signals, clients and crashes                                            *)

\* Mutated Request: the loop is not woken.
MutNoWake(d) ==
  /\ pc[d] \in Serving \cup Ending
  /\ d \notin flag
  /\ flag' = flag \cup {d}
  /\ UNCHANGED <<file, pc, seen, sock, open, backlog, current, waking, bounds>>

\* shutdown.request: the first request sets the flag and then connects.
Request(d) ==
  /\ pc[d] \in Serving \cup Ending
  /\ d \notin flag
  /\ flag' = flag \cup {d}
  /\ waking' = waking \cup {d}
  /\ UNCHANGED <<file, pc, seen, sock, open, backlog, current, bounds>>

Wake(d) ==
  /\ d \in waking
  /\ waking' = waking \ {d}
  /\ backlog' = WithConnection("signal")
  /\ UNCHANGED <<file, pc, seen, sock, open, current, flag, bounds>>

\* A client connects; its request is abstracted to the connection.
Connect ==
  /\ Listeners # {}
  /\ clients < MaxClients
  /\ clients' = clients + 1
  /\ backlog' = WithConnection("client")
  /\ UNCHANGED <<file, pc, seen, sock, open, current, flag, waking, starts>>

\* The process is killed, or ends for an error before its listener is complete.
Kill(d) == pc[d] # "off" /\ Exit(d)

-----------------------------------------------------------------------------
Step(d) ==
  \/ Stat(d) \/ Probe(d) \/ Verify(d) \/ Unlink(d)
  \/ Bind(d) \/ Listen(d) \/ Chmod(d) \/ Own(d)
  \/ Check(d) \/ Accept(d) \/ Recheck(d) \/ Serve(d)
  \/ Drop(d) \/ Remove(d)

OneStart ==
  \A d, e \in Daemons : pc[d] \in Unsettled /\ pc[e] \in Unsettled => d = e

\* The history every step keeps: starts that met, until all daemons are gone.
Remember ==
  contended' = /\ \E d \in Daemons : pc'[d] # "off"
               /\ contended \/ ~OneStart'

Next ==
  /\ \/ \E d \in Daemons :
          Start(d) \/ Step(d) \/ AcceptFails(d) \/ Request(d) \/ Wake(d) \/ Kill(d)
     \/ Connect
  /\ Remember

Spec == Init /\ [][Next]_vars

\* Daemons and their signal handlers are scheduled; a connection in service ends
\* because its reads and writes have a deadline and its request is bounded.
FairSpec ==
  /\ Spec
  /\ \A d \in Daemons : WF_vars(Step(d) /\ Remember) /\ WF_vars(Wake(d) /\ Remember)

-----------------------------------------------------------------------------
(* Properties                                                              *)

\* Type correctness of the path and of every daemon.
TypeOK ==
  /\ file \in Inodes \cup {None, Plain}
  /\ pc \in [Daemons -> {"off"} \cup Starting \cup Serving \cup Ending]
  /\ seen \in [Daemons -> Inodes \cup {None}]
  /\ sock \in [Daemons -> Inodes \cup {None}]
  /\ open \subseteq Daemons /\ flag \subseteq Daemons /\ waking \subseteq Daemons
  /\ backlog \in [Daemons -> Seq(Connection)]
  /\ current \in [Daemons -> Connection \cup {None}]
  /\ contended \in BOOLEAN
  /\ starts \in Nat /\ clients \in Nat

\* The path a serving daemon published leads to that daemon, whoever else starts,
\* ends or is killed, unless two starts met before either had a listener: only
\* then can one of them take the socket of the other away.
ServingIsReachable ==
  ~contended =>
    \A d \in Daemons : pc[d] \in Serving \cup Ending => file = sock[d] /\ seen[d] = sock[d]

\* What is at the path is a socket that no live daemon is bound to, or that of
\* the daemon which removes it.
FoundStale == file # Plain /\ \A d \in Daemons : sock[d] = file => pc[d] = "remove"

\* What is removed from the path is a stale socket or one's own, also while other
\* daemons start, serve and are killed, unless two starts met before either had a
\* listener.
OnlyStaleRemoved == [][~contended' /\ file # None /\ file' = None => FoundStale]_vars

\* What docs/local-producer.md says of every start: only a demonstrably stale
\* socket is removed, so never one whose listener takes connections, save one's own.
RemovesOnlyStale ==
  [][file # None /\ file' = None => \A d \in Listeners : pc[d] = "remove"]_vars

\* A connection made after the shutdown was requested is not served, also when
\* it is accepted before the loop looks at the flag.
LateNotServed ==
  \A d \in Daemons : pc[d] = "serve" => ~current[d].late

\* A requested shutdown ends the daemon, though it may wait in accept: the
\* connection of the signal handler wakes it, unless the path no longer leads to
\* the daemon.
ShutdownEnds == \A d \in Daemons : d \in flag ~> pc[d] = "off" \/ file # sock[d]
-----------------------------------------------------------------------------
(* The inductive invariant                                                 *)

Bound == {"listen", "chmod", "own"} \cup Serving \cup Ending

\* The socket and the listener of a daemon are there while it is bound.
BoundListens ==
  /\ open = {d \in Daemons : pc[d] \in Bound \ {"listen"}}
  /\ \A d \in Daemons :
       /\ pc[d] \in Bound => sock[d] \in Inodes
       /\ pc[d] \notin Bound => sock[d] = None

\* At most one daemon is bound, and then the path names its socket.
BoundIsPublished ==
  \A d \in Daemons :
    /\ pc[d] \in Bound => file = sock[d]
    /\ \A e \in Daemons : pc[d] \in Bound /\ pc[e] \in Bound => d = e

\* A daemon that has judged the path has it to itself, and what it removes is
\* what it looked at.
JudgementHolds ==
  \A d \in Daemons :
    /\ pc[d] \in {"verify", "unlink", "bind"} => \A e \in Daemons : pc[e] \notin Bound
    /\ pc[d] \in {"probe", "verify", "unlink"} => seen[d] \in Inodes
    /\ pc[d] = "unlink" => file = seen[d]
    /\ pc[d] \in Serving \cup Ending => seen[d] = sock[d]

Control == OneStart /\ BoundIsPublished /\ JudgementHolds

\* A late connection belongs to a daemon whose flag is set.
LateIsFlagged ==
  \A d \in Daemons :
    /\ \A k \in DOMAIN backlog[d] : backlog[d][k].late => d \in flag
    /\ pc[d] = "recheck" => current[d] \in Connection /\ (current[d].late => d \in flag)
    /\ pc[d] = "serve" => current[d] \in Connection /\ ~current[d].late

Inv ==
  /\ TypeOK
  /\ BoundListens
  /\ ~contended => Control
  /\ LateIsFlagged
=============================================================================
