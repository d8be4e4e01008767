------------------------------- MODULE Queue -------------------------------
(***************************************************************************)
(* What a client shows of the group: its session keeps the rows of the     *)
(* last frame of the group's observation and projects them, for the        *)
(* account that is signed in, to the queue on the screen (core's session   *)
(* and projection).  The account answers from that queue, and the daemon   *)
(* that waits for the answer reads the same rows with its own code.        *)
(*                                                                         *)
(* NMP delivers frames: the rows it knows, in an order it chooses.  A frame *)
(* here differs from the one before in one row, or is empty; the session   *)
(* keeps nothing of the frames in between, so every frame is reached.      *)
(***************************************************************************)
EXTENDS Protocol, TLC

CONSTANTS
  Groups,              \* the groups to look at, each [items, foreign]: the frozen items the
                       \* daemon is asked to publish, and the events of other programs
  Replies,             \* the frozen answers a user may try to give
  Accounts,            \* the keys that may sign in
  MaxRows,             \* the longest frame (a bound)
  MaxProjectedItems,   \* 40 in the code
  MaxAttachDepth,      \* 3 in the code
  MaxChildren          \* 12 in the code

ASSUME LimitsAssumption ==
  /\ MaxRows \in Nat
  /\ MaxProjectedItems \in Nat
  /\ MaxAttachDepth \in Nat
  /\ MaxChildren \in Nat

\* The events of a group: what its frozen items become and what others send.
Events(g) ==
  {ComposeSpokenItem(d) : d \in {x \in g.items : ValidSpokenItem(x)}} \union g.foreign

\* The values are those of their types, and an event's id, the hash of all
\* the rest, is its own.
ASSUME EventsAssumption ==
  /\ \A g \in Groups :
       /\ \A d \in g.items : d \in FrozenSpokenItem(d.author)
       /\ \A e \in g.foreign : e.id \in Nat \ {0} /\ e.created_at \in Nat /\ e.author # None
       /\ \A d, x \in g.items : d.id = x.id => d = x
       /\ \A e, f \in Events(g) : e.id = f.id => e = f
       /\ \A e \in Events(g), a \in Replies : e.id # a.id
  /\ \A a \in Replies : a \in FrozenAnswer(a.author)
  /\ \A a, b \in Replies : a.id = b.id => a = b
  /\ \A a \in Replies : a.author # None /\ None \notin Answer(a.author)

VARIABLES
  published,  \* the frozen items that passed the daemon's checks
  group,      \* the group's events, by id, as they parse (parse_event is pure)
  feed,     \* Session.rows: the events of the last frame, by their ids
  viewer,   \* the account that is signed in, or None
  queue,    \* Session.queue: the items shown and the rejected rows' number
  sent      \* the answers this client has handed to NMP

vars == <<published, group, feed, viewer, queue, sent>>

(***************************************************************************)
(* project: one pass over the rows, then one over the items.  A row is what *)
(* its event parses to, or None; a map is the set of its values.           *)
(***************************************************************************)
SameKey(a, b) ==
  /\ a.root_id = b.root_id
  /\ a.author = b.author
  /\ a.type = "reaction" => a.value.emoji = b.value.emoji

\* Mutated ReplaceLatest: the row that comes last wins.
MutLastRow(values, candidate) ==
  {v \in values : ~SameKey(candidate, v)} \union {candidate}

ReplaceLatest(values, candidate) ==
  LET current == {v \in values : SameKey(candidate, v)}
  IN  IF \E v \in current : ~Later(candidate, v)
      THEN values
      ELSE (values \ current) \union {candidate}

Nothing == [items |-> {}, answers |-> <<>>, acks |-> {}, reactions |-> {}, rejected |-> 0]

Absorb(c, p) ==
  IF p = None THEN [c EXCEPT !.rejected = @ + 1]
  ELSE CASE p.type = "item"     -> [c EXCEPT !.items = {i \in @ : i.id # p.id} \union {p}]
         [] p.type = "answer"   -> [c EXCEPT !.answers = Append(@, p)]
         [] p.type = "ack"      -> [c EXCEPT !.acks = ReplaceLatest(@, p)]
         [] p.type = "reaction" -> [c EXCEPT !.reactions = ReplaceLatest(@, p)]

Collect(rows) ==
  LET c[n \in 0..Len(rows)] == IF n = 0 THEN Nothing ELSE Absorb(c[n - 1], rows[n])
  IN  c[Len(rows)]

KnownIds(c) == {item.id : item \in c.items}

\* Related events whose item is not among the rows.
Unknown(c) ==
  LET gone(values) == {v \in values : v.root_id \notin KnownIds(c)}
  IN  Cardinality({i \in DOMAIN c.answers : c.answers[i].root_id \notin KnownIds(c)})
        + Cardinality(gone(c.acks)) + Cardinality(gone(c.reactions))

ValidFor(item, a) == a.root_id = item.id /\ ValidAnswer(item.questions, a.value)

\* Answers to a known item that do not answer its questions.
Invalid(c) ==
  Cardinality({i \in DOMAIN c.answers :
                 \E item \in c.items : /\ c.answers[i].root_id = item.id
                                       /\ ~ValidFor(item, c.answers[i])})

\* The last one of the latest valid answers.
BestAnswer(item, answers) ==
  LET best[n \in 0..Len(answers)] ==
        IF n = 0 THEN None
        ELSE IF ~ValidFor(item, answers[n]) \/ (best[n - 1] # None /\ Later(best[n - 1], answers[n]))
             THEN best[n - 1]
             ELSE answers[n]
  IN  best[Len(answers)]

Acknowledgement(item, account, acks) ==
  LET own == {a \in acks : a.root_id = item.id /\ a.author = account}
  IN  IF account = None \/ own = {} THEN None ELSE CHOOSE a \in own : TRUE

ReactionSummaries(item, reactions) ==
  LET active == {r \in reactions : r.root_id = item.id /\ r.value.active}
  IN  [emoji \in {r.value.emoji : r \in active} |->
         {r.author : r \in {q \in active : q.value.emoji = emoji}}]

\* An item on the screen; its other texts are those of the row with its id.
Resolve(item, c, account) ==
  [id |-> item.id, attach |-> item.attach, created_at |-> item.created_at,
   questions |-> item.questions,
   answer |-> BestAnswer(item, c.answers),
   acknowledgement |-> Acknowledgement(item, account, c.acks),
   reactions |-> ReactionSummaries(item, c.reactions),
   children |-> <<>>]

IsHidden(item) ==
  item.acknowledgement # None /\ item.acknowledgement.value \in {"dismissed", "archived"}

OldestFirst(a, b) ==
  a.created_at < b.created_at \/ (a.created_at = b.created_at /\ a.id < b.id)
NewestFirst(a, b) ==
  a.created_at > b.created_at \/ (a.created_at = b.created_at /\ a.id < b.id)

\* The place of an item among others, and all of them in their places (sort_by).
Place(item, others, Before(_, _)) == 1 + Cardinality({o \in others : Before(o, item)})
Sorted(items, Before(_, _)) ==
  [i \in 1..Cardinality(items) |-> CHOOSE item \in items : Place(item, items, Before) = i]

Truncate(s, n) == SubSeq(s, 1, IF Len(s) < n THEN Len(s) ELSE n)

ChildrenOf(id, resolved) == Sorted({item \in resolved : item.attach = id}, OldestFirst)

TopLevel(resolved) ==
  Truncate(Sorted({item \in resolved : item.attach = None /\ ~IsHidden(item)}, NewestFirst),
           MaxProjectedItems)

Orphans(resolved) ==
  {item \in resolved : item.attach # None /\ \A parent \in resolved : parent.id # item.attach}

\* How many children were dropped in all of the trees.
Dropped(trees) ==
  LET sum[n \in 0..Len(trees)] == IF n = 0 THEN 0 ELSE sum[n - 1] + trees[n].dropped
  IN  sum[Len(trees)]

\* An item over the trees of its children, if there is a level left for them.
Node(item, room, below, resolved) ==
  LET children == ChildrenOf(item.id, resolved)
      kept     == IF room = 0 THEN <<>> ELSE Truncate(children, MaxChildren)
      subtrees == [i \in DOMAIN kept |-> below[kept[i]]]
  IN  [item    |-> [item EXCEPT !.children = [i \in DOMAIN kept |-> subtrees[i].item]],
       dropped |-> Len(children) - Len(kept) + Dropped(subtrees)]

\* The tree of every item, by the levels left for its children.  The code's
\* set of visited items never stops this walk: it starts at items without a
\* parent, and an item has at most one.
AssembleSubtree(resolved) ==
  LET tree[room \in 0..MaxAttachDepth] ==
        [item \in resolved |-> Node(item, room, IF room = 0 THEN <<>> ELSE tree[room - 1], resolved)]
  IN  tree[MaxAttachDepth]

Project(rows, account) ==
  LET c        == Collect(rows)
      resolved == {Resolve(item, c, account) : item \in c.items}
      top      == TopLevel(resolved)
      trees    == [i \in DOMAIN top |-> AssembleSubtree(resolved)[top[i]]]
  IN  [items    |-> [i \in DOMAIN top |-> trees[i].item],
       rejected |-> c.rejected + Unknown(c) + Invalid(c) + Cardinality(Orphans(resolved))
                      + Dropped(trees)]

(***************************************************************************)
(* The session.                                                            *)
(***************************************************************************)
EmptyQueue == [items |-> <<>>, rejected |-> 0]

\* What events parse to, by their ids.
ParseAll(events) ==
  [id \in {e.id : e \in events} |-> Parse(CHOOSE e \in events : e.id = id)]

Init ==
  /\ \E g \in Groups :
       /\ published = {d \in g.items : ComposeSpokenItem(d) # None}
       /\ group = ParseAll({ComposeSpokenItem(d) : d \in published} \union g.foreign)
  /\ feed = <<>>
  /\ viewer = None
  /\ queue = EmptyQueue
  /\ sent = {}

\* What the events of a frame parse to.
Parsed(frame) == [i \in DOMAIN frame |-> group[frame[i]]]

\* The queue survives a frame without rows.
Reproject(frame, account) ==
  queue' = IF frame = <<>> THEN queue ELSE Project(Parsed(frame), account)

UpdateRows(frame) ==
  /\ feed' = frame
  /\ Reproject(frame, viewer)
  /\ UNCHANGED <<published, group, viewer, sent>>

\* A frame with one event more, one less, or none at all.
FrameGains ==
  /\ Len(feed) < MaxRows
  /\ \E id \in DOMAIN group \ Range(feed) : UpdateRows(Append(feed, id))

FrameLoses == \E i \in DOMAIN feed : UpdateRows(RemoveAt(feed, i))

FrameEmpties == feed # <<>> /\ UpdateRows(<<>>)

\* login, or the vault's answer to a login or a logout.
AccountChanges ==
  \E account \in (Accounts \union {None}) \ {viewer} :
    /\ viewer' = account
    /\ Reproject(feed, account)
    /\ UNCHANGED <<published, group, feed, sent>>

\* The items of a queue, at all levels; nothing depends on their order.
Flatten(items) ==
  LET below[d \in 1..MaxAttachDepth] ==
        UNION {Range(item.children) : item \in IF d = 1 THEN Range(items) ELSE below[d - 1]}
  IN  Range(items) \union UNION Range(below)

Visible(id) == {item \in Flatten(queue.items) : item.id = id}

SubmitAnswer(a) ==
  /\ a.author = viewer
  /\ a \notin sent
  /\ \E item \in Visible(a.root_event_id) :
       /\ item.questions # <<>>
       /\ item.answer = None
       /\ ValidAnswer(item.questions, a.answers)
  /\ ComposeAnswer(a) # None
  /\ sent' = sent \union {a}
  /\ group' = [id \in DOMAIN group \union {a.id} |->
                 IF id = a.id THEN Parse(ComposeAnswer(a)) ELSE group[id]]
  /\ UNCHANGED <<published, feed, viewer, queue>>

Next ==
  \/ FrameGains
  \/ FrameLoses
  \/ FrameEmpties
  \/ AccountChanges
  \/ \E a \in Replies : SubmitAnswer(a)

Spec == Init /\ [][Next]_vars

(***************************************************************************)
(* The daemon that waits for an answer to one of its items reads the rows  *)
(* of its own observation (answer_from_rows).                              *)
(***************************************************************************)
\* Mutated AnswerFromRows: the first valid answer among the rows.
MutFirstRow(rows, id, questions) ==
  LET valid == {i \in DOMAIN rows : /\ rows[i] # None
                                    /\ rows[i].type = "answer"
                                    /\ rows[i].root_id = id
                                    /\ ValidAnswer(questions, rows[i].value)}
  IN  IF valid = {} THEN None ELSE rows[Min(valid)]

AnswerFromRows(rows, id, questions) ==
  SelectAnswer(questions,
    {p \in Range(rows) : p # None /\ p.type = "answer" /\ p.root_id = id})

(***************************************************************************)
(* Properties.                                                             *)
(***************************************************************************)
(* What the queue has to show, said without an order of the rows: sets, the
   latest of a set, and the place of an item among its siblings. *)
Of(type) ==
  {group[id] : id \in {row \in Range(feed) : group[row] # None /\ group[row].type = type}}
Latest(S) == IF S = {} THEN None ELSE CHOOSE a \in S : \A b \in S \ {a} : Later(a, b)
Answers(item) == {a \in Of("answer") : a.root_id = item.id /\ ValidAnswer(item.questions, a.value)}
AckOf(item) == Latest({a \in Of("ack") : a.root_id = item.id /\ a.author = viewer})
Dismissed(item) == AckOf(item) # None /\ AckOf(item).value \in {"dismissed", "archived"}
ReactionsBy(item, author, emoji) ==
  {r \in Of("reaction") : r.root_id = item.id /\ r.author = author /\ r.value.emoji = emoji}
Siblings(item) == {s \in Of("item") : s.attach = item.attach}

Roots ==
  LET open == {i \in Of("item") : i.attach = None /\ ~Dismissed(i)}
  IN  {[item |-> i, place |-> Place(i, open, NewestFirst)] : i \in open}

Level[depth \in 0..MaxAttachDepth] ==
  IF depth = 0
  THEN {node \in Roots : node.place <= MaxProjectedItems}
  ELSE {[item |-> i, place |-> Place(i, Siblings(i), OldestFirst)] :
          i \in {j \in Of("item") :
                   /\ j.attach \in {n.item.id : n \in Level[depth - 1]}
                   /\ Place(j, Siblings(j), OldestFirst) <= MaxChildren}}

Entry(item, place) ==
  [id |-> item.id, attach |-> item.attach, place |-> place,
   answer |-> Latest(Answers(item)),
   hidden |-> Dismissed(item),
   reactions |-> {<<r.author, r.value.emoji>> : r \in {s \in Of("reaction") :
                    s.root_id = item.id
                    /\ Latest(ReactionsBy(item, s.author, s.value.emoji)).value.active}}]

Expected == {Entry(n.item, n.place) : n \in UNION {Level[d] : d \in 0..MaxAttachDepth}}
ShownIds == {entry.id : entry \in Expected}

ExpectedRejections ==
  LET ids == {item.id : item \in Of("item")}
      answered(a) == \E item \in Of("item") : a \in Answers(item)
  IN  Cardinality({id \in Range(feed) : group[id] = None})
        + Cardinality({a \in Of("answer") : ~answered(a)})
        + Cardinality({<<a.root_id, a.author>> : a \in {b \in Of("ack") : b.root_id \notin ids}})
        + Cardinality({<<r.root_id, r.author, r.value.emoji>> :
                         r \in {s \in Of("reaction") : s.root_id \notin ids}})
        + Cardinality({i \in Of("item") : i.attach # None /\ i.attach \notin ids})
        + Cardinality({i \in Of("item") : i.attach \in ShownIds /\ i.id \notin ShownIds})

\* What the queue does show, looked at one level deeper than it may go.
Entries(items) ==
  LET nodes(siblings) == {[item |-> siblings[i], place |-> i] : i \in DOMAIN siblings}
      level[d \in 0..(MaxAttachDepth + 1)] ==
        IF d = 0 THEN nodes(items) ELSE UNION {nodes(n.item.children) : n \in level[d - 1]}
  IN  {[id |-> n.item.id, attach |-> n.item.attach, place |-> n.place,
        answer |-> n.item.answer, hidden |-> IsHidden(n.item),
        reactions |-> UNION {{<<author, emoji>> : author \in n.item.reactions[emoji]} :
                               emoji \in DOMAIN n.item.reactions}] : n \in UNION Range(level)}

\* The queue is a function of the set of rows and of the account alone: whatever
\* the order in which NMP delivers the rows and in which accounts come and go,
\* every item is in its place with the latest valid answer and the latest
\* reactions, the top-level items the account dismissed are not, and the number
\* of rejected rows is that of the rows without a meaning here: unreadable,
\* invalid, without their item, or cut off from an item that is shown.  The
\* order is the code's, newest second first and ascending ids within a second.
\* It is not that of docs/protocol.md:100, which has ids descending, and lines
\* 101 and 107-108 there, on dismissed children and on the counting of nodes
\* below a dropped one, say what neither the code nor this property does.
QueueIsDeterministic ==
  feed # <<>> =>
    /\ Entries(queue.items) = Expected
    /\ queue.rejected = ExpectedRejections

\* The user and the agent see the same answer: of any rows, the daemon that
\* waits for the answer to one of its items, and validates by the questions
\* it froze, selects the one that the client shows, which validates by the
\* questions it parsed.
AnswersAgree ==
  feed # <<>> =>
    \A item \in Flatten(queue.items) :
      \A d \in {x \in published : x.id = item.id} :
        item.answer = AnswerFromRows(Parsed(feed), d.id, d.questions)

\* Whatever passes the checks before publication is understood by those who
\* read it: an item the daemon composes parses to itself without the blanks
\* around its texts, if its labels are bounded, and an answer that a client
\* accepts from its user parses to an answer that the daemon accepts.
ComposedIsReadable ==
  /\ \A d \in {x \in published : x.id \in Range(feed)} :
       BoundedLabels(d) => group[d.id] = Meant(d)
  /\ \A a \in sent : \A d \in {x \in published : x.id = a.root_event_id} :
         /\ group[a.id] # None
         /\ group[a.id].root_id = d.id
         /\ ValidAnswer(d.questions, group[a.id].value)

\* An item that the daemon publishes appears on a screen: it parses.
PublishedIsShown ==
  \A d \in published : d.id \in Range(feed) => group[d.id] # None
=============================================================================
