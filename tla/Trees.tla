-------------------------------- MODULE Trees --------------------------------
(***************************************************************************)
(* Publication of spoken trees and items by the local service.             *)
(*                                                                         *)
(* publish_node reads the files of a node, publishes it through the job    *)
(* journal under a derived request id, and then its narrated children,     *)
(* each linked to the event of its parent, depth first.  The recursion is  *)
(* the variable stack.  The stages between admission and publication are   *)
(* those of module Producer, which shows that one job leads to one event;  *)
(* here they are: admitted, accepted by NMP, published.                    *)
(*                                                                         *)
(* An event is what it says: its id is the hash of that.                   *)
(***************************************************************************)
EXTENDS Naturals, Sequences, FiniteSets

CONSTANTS
  Clients,   \* callers of the local socket
  Requests,  \* what they may ask for: functions from Clients to requests, a
             \* request being [rid, author, nodes, wait], nodes a set of paths
  Contents,  \* what the files of a node may hold
  Times,     \* values of the clock when a request is received
  Keep,      \* characters of its parent's id a child keeps: 60 in the code
  Edited,    \* nodes whose files a caller may change
  MaxEdits,  \* bound: times a caller changes a file
  None

Trees == {asks[c] : asks \in Requests, c \in Clients}

\* A path holds the positions of a node and its ancestors among their siblings,
\* counted from 0: with a node there are its ancestors and their earlier siblings.
ASSUME TreesAssumption ==
  /\ \A t \in Trees : \A path \in t.nodes :
       /\ path \in Seq(Nat)
       /\ \A k \in 1..Len(path) : \A n \in 0..path[k] :
            Append(SubSeq(path, 1, k - 1), n) \in t.nodes
  /\ \A t \in Trees :
       /\ <<>> \in t.nodes
       /\ Len(t.rid) \in Nat /\ t.rid = [i \in 1..Len(t.rid) |-> t.rid[i]]
  /\ Keep \in Nat \ {0}
  /\ Contents # {}
  /\ None \notin [tree : Trees, created : Times]

VARIABLES
  asked,    \* the request each client makes
  files,    \* <<tree, path>> -> contents of the message and attached files
  edits,    \* changes made so far
  journal,  \* request id -> job
  host,     \* events the host stores
  call,     \* the request being served: [tree, created]
  stack,    \* the activations of publish_node, the root's first
  children, \* published_children
  replies   \* successful replies

treeVars == <<asked, files, edits, journal, host, call, stack, children, replies>>

Parent(path) == SubSeq(path, 1, Len(path) - 1)

Kids(t, path) == {n \in t.nodes : n # <<>> /\ Parent(n) = path}

Nodes == {<<t, path>> : t \in Trees, path \in UNION {u.nodes : u \in Trees}}

\* child_request_id: the index is one character in small trees.
ChildId(parent, index) ==
  SubSeq(parent, 1, IF Len(parent) < Keep THEN Len(parent) ELSE Keep)
    \o <<"-", index>>

TreesInit ==
  /\ files \in [Nodes -> {CHOOSE c \in Contents : TRUE}]
  /\ edits = 0
  /\ asked \in Requests
  /\ journal = [id \in {} |-> None]
  /\ host = {}
  /\ call = None
  /\ stack = <<>>
  /\ children = <<>>
  /\ replies = {}

-----------------------------------------------------------------------------
(* The request                                                             *)

Frame(id, path, parent) ==
  [id |-> id, path |-> path, parent |-> parent, input |-> None, event |-> None,
   next |-> 0]

\* publish_local or publish_tree_local, with a valid request for the group.
ReceiveRequest(t, time) ==
  /\ call = None
  /\ call' = [tree |-> t, created |-> time]
  /\ stack' = <<Frame(t.rid, <<>>, None)>>
  /\ UNCHANGED <<asked, files, edits, journal, host, children, replies>>

Top == stack[Len(stack)]

SetTop(frame) == stack' = [stack EXCEPT ![Len(stack)] = frame]

\* The caller's files change while no call reads them or between two reads.
Edit(node) ==
  /\ edits < MaxEdits
  /\ node[1] \in {asked[c] : c \in Clients}
  /\ edits' = edits + 1
  /\ \E c \in Contents \ {files[node]} : files' = [files EXCEPT ![node] = c]
  /\ UNCHANGED <<asked, journal, host, call, stack, children, replies>>

-----------------------------------------------------------------------------
(* publish_node                                                            *)

\* The message is read and the attached files are uploaded.
ReadFiles ==
  /\ call # None
  /\ Top.input = None
  /\ SetTop([Top EXCEPT !.input =
        [node    |-> <<call.tree, Top.path>>,
         content |-> files[<<call.tree, Top.path>>],
         parent  |-> Top.parent]])
  /\ UNCHANGED <<asked, files, edits, journal, host, call, children, replies>>

\* Mutated SameRequest: the clock is part of the request.
MutSameClock(job, input, author) ==
  job.input = input /\ job.author = author /\ job.created = call.created

\* same_request: the digest covers the whole request, the parent included.
SameRequest(job, input, author) == job.input = input /\ job.author = author

Reading == call # None /\ Top.input # None /\ Top.event = None

Admit ==
  /\ Reading
  /\ Top.id \notin DOMAIN journal
  /\ journal' = [id \in DOMAIN journal \cup {Top.id} |->
                   IF id # Top.id THEN journal[id]
                   ELSE [input |-> Top.input, author |-> call.tree.author,
                         created |-> call.created, stage |-> "admitted"]]
  /\ UNCHANGED <<asked, files, edits, host, call, stack, children, replies>>

Admitted ==
  /\ Reading
  /\ Top.id \in DOMAIN journal
  /\ SameRequest(journal[Top.id], Top.input, call.tree.author)

\* Mutated Event: the clock of the retry.
MutRestamped(job) ==
  [input |-> job.input, author |-> job.author,
   created |-> IF call = None THEN job.created ELSE call.created]

Event(job) == [input |-> job.input, author |-> job.author, created |-> job.created]

\* NMP accepts the frozen item of the job.
Accept ==
  /\ Admitted
  /\ journal[Top.id].stage = "admitted"
  /\ journal' = [journal EXCEPT ![Top.id].stage = "accepted"]
  /\ UNCHANGED <<asked, files, edits, host, call, stack, children, replies>>

\* NMP delivers it, whether or not the call goes on (external).
DeliverEvent(id) ==
  /\ journal[id].stage = "accepted"
  /\ Event(journal[id]) \notin host
  /\ host' = host \cup {Event(journal[id])}
  /\ UNCHANGED <<asked, files, edits, journal, call, stack, children, replies>>

\* Mutated Published: an accepted event counts as published.
MutUnacknowledged ==
  /\ Admitted
  /\ journal[Top.id].stage # "admitted"
  /\ journal' = [journal EXCEPT ![Top.id].stage = "published"]
  /\ SetTop([Top EXCEPT !.event = Event(journal[Top.id])])
  /\ UNCHANGED <<asked, files, edits, host, call, children, replies>>

\* The job is published once the host has acknowledged the event.
Published ==
  /\ Admitted
  /\ \/ journal[Top.id].stage = "published"
     \/ journal[Top.id].stage = "accepted" /\ Event(journal[Top.id]) \in host
  /\ journal' = [journal EXCEPT ![Top.id].stage = "published"]
  /\ SetTop([Top EXCEPT !.event = Event(journal[Top.id])])
  /\ UNCHANGED <<asked, files, edits, host, call, children, replies>>

HasNext == Top.event # None /\ Append(Top.path, Top.next) \in call.tree.nodes

\* Mutated Descend: the parent is the node's own parent.
MutGrandparent ==
  /\ call # None
  /\ HasNext
  /\ stack' = Append([stack EXCEPT ![Len(stack)].next = @ + 1],
                     Frame(ChildId(Top.id, Top.next),
                           Append(Top.path, Top.next),
                           IF Top.parent = None THEN Top.event ELSE Top.parent))
  /\ UNCHANGED <<asked, files, edits, journal, host, call, children, replies>>

\* The next narrated attachment is published under the event of this node.
Descend ==
  /\ call # None
  /\ HasNext
  /\ stack' = Append([stack EXCEPT ![Len(stack)].next = @ + 1],
                     Frame(ChildId(Top.id, Top.next),
                           Append(Top.path, Top.next),
                           Top.event))
  /\ UNCHANGED <<asked, files, edits, journal, host, call, children, replies>>

Complete == call # None /\ Top.event # None /\ ~HasNext

\* A child returns to its parent, which records its event.
Ascend ==
  /\ Complete
  /\ Len(stack) > 1
  /\ children' = Append(children, Top.event)
  /\ stack' = SubSeq(stack, 1, Len(stack) - 1)
  /\ UNCHANGED <<asked, files, edits, journal, host, call, replies>>

Returned == Complete /\ Len(stack) = 1

\* The root returns.
Reply ==
  /\ Returned
  /\ replies' = replies \cup
       {[tree |-> call.tree, root |-> Top.event, children |-> children]}
  /\ call' = None
  /\ stack' = <<>>
  /\ children' = <<>>
  /\ UNCHANGED <<asked, files, edits, journal, host>>

\* The call fails: another request has the id, a file, the synthesis, the
\* upload or the publication failed, or the process ended.
Conflict ==
  /\ Reading
  /\ Top.id \in DOMAIN journal
  /\ ~SameRequest(journal[Top.id], Top.input, call.tree.author)

GiveUp ==
  /\ call' = None
  /\ stack' = <<>>
  /\ children' = <<>>
  /\ UNCHANGED <<asked, files, edits, journal, host, replies>>

Refuse == Conflict /\ GiveUp

Abort == call # None /\ GiveUp

-----------------------------------------------------------------------------
NodeStep ==
  \/ ReadFiles
  \/ Admit
  \/ Accept
  \/ Published
  \/ Descend
  \/ Ascend
  \/ Refuse

=============================================================================
