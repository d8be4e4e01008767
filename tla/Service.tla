------------------------------- MODULE Service -------------------------------
(***************************************************************************)
(* The local publish service: LocalPublishService for ProductionProducer.  *)
(*                                                                         *)
(* One request is served at a time.  A tree, or an item, is published as   *)
(* in Trees; the reply to an item whose caller asked for it is held back   *)
(* until its AnswerWait has ended.  While it waits, nobody else is served. *)
(***************************************************************************)
EXTENDS Trees, AnswerWait

ASSUME WaitsAssumption == \A t \in Trees : t.wait \in 0..MaxTime

vars == <<treeVars, waitVars>>

Init == TreesInit /\ WaitInit

Serve(c) ==
  /\ \E time \in Times : ReceiveRequest(asked[c], time)
  /\ UNCHANGED waitVars

Publish == NodeStep /\ UNCHANGED waitVars

Deliver(id) == DeliverEvent(id) /\ UNCHANGED waitVars

\* wait_for_answer, with a new AnswerWaitCancel.
BeginWait ==
  /\ Returned
  /\ call.tree.wait > 0
  /\ Begin(call.tree.wait)
  /\ UNCHANGED treeVars

Wait == (WaiterStep \/ CancelStep \/ Tick \/ EngineCloses) /\ UNCHANGED treeVars

Answer == host # {} /\ PostAnswer /\ UNCHANGED treeVars

\* The observation and its AnswerWaitCancel are dropped.
DropWait ==
  /\ wpc' = "idle"
  /\ wresult' = "none"
  /\ now' = 0
  /\ deadline' = 0
  /\ frames' = 0
  /\ frame' = FALSE
  /\ cancelled' = FALSE
  /\ handle' = FALSE
  /\ locked' = FALSE
  /\ cpc' = "idle"
  /\ open' = FALSE
  /\ overdue' = FALSE
  /\ broken' = FALSE
  /\ UNCHANGED posted

SendReply ==
  /\ Reply
  /\ call.tree.wait > 0 => wpc = "ended"
  /\ DropWait

Fail == Abort /\ DropWait

EditFile ==
  /\ \E node \in Edited : Edit(node)
  /\ UNCHANGED waitVars

Next ==
  \/ \E c \in Clients : Serve(c)
  \/ Publish
  \/ \E id \in DOMAIN journal : Deliver(id)
  \/ BeginWait
  \/ Wait
  \/ Answer
  \/ SendReply
  \/ Fail
  \/ EditFile

Spec == Init /\ [][Next]_vars

\* What the daemon, its timers and NMP do by themselves.
Progress ==
  \/ Publish
  \/ \E id \in DOMAIN journal : Deliver(id)
  \/ BeginWait
  \/ (WaiterProgress \/ Tick) /\ UNCHANGED treeVars
  \/ SendReply

\* Callers retry, and in the end no call fails.
Fairness ==
  /\ WF_vars(Progress)
  /\ \A c \in Clients : SF_vars(Serve(c))
  /\ <>[][~Fail]_vars

FairSpec == Spec /\ Fairness

-----------------------------------------------------------------------------
(* Properties                                                              *)

TypeOK ==
  /\ WaitTypeOK
  /\ call = None <=> stack = <<>>
  /\ wpc # "idle" => call # None /\ Returned /\ call.tree.wait > 0
  /\ \A id \in DOMAIN journal : journal[id].stage \in {"admitted", "accepted", "published"}
  /\ \A id \in DOMAIN journal :
       journal[id].stage = "published" => Event(journal[id]) \in host

At(r, path) ==
  {e \in {r.root} \cup {r.children[i] : i \in DOMAIN r.children} :
     e.input.node = <<r.tree, path>>}

\* A successful reply stands for the whole tree: every node is on the host
\* exactly once among its events, signed by the tree's author and attached to
\* the event of its parent, and nothing else is listed.
TreeWhole ==
  \A r \in replies :
    /\ r.root \in At(r, <<>>)
    /\ Len(r.children) = Cardinality(r.tree.nodes) - 1
    /\ \A path \in r.tree.nodes :
         \E e \in host :
           /\ At(r, path) = {e}
           /\ e.author = r.tree.author
           /\ IF path = <<>> THEN e.input.parent = None
              ELSE At(r, Parent(path)) = {e.input.parent}

\* However often a tree is cut off and asked for again, at other times and
\* over edited files, no node of it is published twice, and no child before
\* its parent: a reader never holds an attachment of something it cannot find.
NodesOnceParentsFirst ==
  /\ \A e, f \in host : e.input.node = f.input.node => e = f
  /\ \A e \in host : e.input.parent # None => e.input.parent \in host

IdAt(t, path) ==
  LET id[n \in 0..Len(path)] ==
        IF n = 0 THEN t.rid ELSE ChildId(id[n - 1], path[n])
  IN id[Len(path)]

\* The journal holds the id of one of its nodes for something else: another
\* request, another node of the same tree, or an earlier version of its files.
Blocked(t) ==
  \E path \in t.nodes :
    /\ IdAt(t, path) \in DOMAIN journal
    /\ LET job == journal[IdAt(t, path)] IN
         \/ job.input.node # <<t, path>>
         \/ job.input.content # files[<<t, path>>]
         \/ job.author # t.author

Replied(t) == \E r \in replies : r.tree = t

\* Requests that are made again and again are all published whole in the end,
\* except those of which an id is taken; no answer wait keeps them out for ever.
TreesComplete == <>[](\A c \in Clients : Replied(asked[c]) \/ Blocked(asked[c]))
=============================================================================
