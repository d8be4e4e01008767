---------------------------- MODULE QueueProofs ----------------------------
(***************************************************************************)
(* What the Apple application shows of a group, for any events of others,  *)
(* any limits and any order of the frames.  The module has three parts.    *)
(*                                                                         *)
(* 1. The session: Collect does not depend on the order of the rows, and   *)
(*    SessionInv relates what was published, the rows of the frame on the  *)
(*    screen and the answers the user and the agent hold.                  *)
(* 2. The queue: Project returns what Expected says of the set of events,  *)
(*    so it does not depend on the order of the rows either.               *)
(* 3. The player: what plays is on the screen.                             *)
(***************************************************************************)
EXTENDS Player, ProtocolProofs

(* The rows of a frame                                                     *)

\* What the rows mean: no two that can be read have the same id.
IdOf(p) == IF p.type = "item" THEN p.id ELSE p.event_id
Readable(p) ==
  /\ p.type \in {"item", "answer", "ack", "reaction"}
  /\ IdOf(p) \in Nat
  /\ p.created_at \in Nat
  /\ p.type # "item" => p.author # None
Clean(rows) ==
  /\ \A i \in DOMAIN rows : rows[i] # None => Readable(rows[i])
  /\ \A i, j \in DOMAIN rows :
       rows[i] # None /\ rows[j] # None /\ IdOf(rows[i]) = IdOf(rows[j]) => i = j

\* The rows of a type among the first ones, and among all.
First(rows, n, type) ==
  {p \in {rows[i] : i \in 1..n} : p # None /\ p.type = type}
All(rows, type) == {p \in Range(rows) : p # None /\ p.type = type}

\* The rows are absorbed one by one.
CollectRun(c, rows) ==
  /\ c[0] = Nothing
  /\ \A n \in 1..Len(rows) : c[n] = Absorb(c[n - 1], rows[n])
  /\ Collect(rows) = c[Len(rows)]

\* There is a function that absorbs the rows one by one, and Collect is its last value.
LEMMA CollectSteps ==
  ASSUME NEW X, NEW rows \in Seq(X)
  PROVE  \E c : CollectRun(c, rows)
<1> DEFINE N == Len(rows)
           b == Nothing
           Step(n, x) == Absorb(x, rows[n])
           Up(f, n) == f = [k \in 0..n |-> IF k = 0 THEN b ELSE Step(k, f[k - 1])]
           T == {n \in 0..N : \E f : Up(f, n)}
<1> HIDE DEF b, Step
<1>1. N \in Nat
  OBVIOUS
<1> HIDE DEF N
<1>2. 0 \in T
  <2> DEFINE f == [k \in 0..0 |-> b]
  <2>1. Up(f, 0)
    OBVIOUS
  <2>2. 0 \in 0..N
    BY <1>1
  <2> HIDE DEF f, Up
  <2> QED BY <2>1, <2>2
<1>3. ASSUME NEW n \in 0..(N - 1), n \in T PROVE n + 1 \in T
  <2>1. PICK f : Up(f, n)
    BY <1>3
  <2> DEFINE g == [k \in 0..(n + 1) |-> IF k <= n THEN f[k] ELSE Step(n + 1, f[n])]
             h == [k \in 0..(n + 1) |-> IF k = 0 THEN b ELSE Step(k, g[k - 1])]
  <2>2. ASSUME NEW k \in 0..(n + 1) PROVE g[k] = IF k = 0 THEN b ELSE Step(k, g[k - 1])
    <3>1. CASE k = 0
      BY <1>1, <2>1, <3>1
    <3>2. CASE k \in 1..n
      <4>1. k - 1 \in 0..n /\ k \in 0..n /\ k - 1 \in 0..(n + 1) /\ k - 1 <= n /\ k <= n
        BY <1>1, <3>2
      <4>2. f[k] = Step(k, f[k - 1])
        BY <2>1, <3>2, <4>1
      <4> QED BY <3>2, <4>1, <4>2
    <3>3. CASE k = n + 1
      <4>1. k - 1 = n /\ ~(k <= n) /\ n \in 0..(n + 1) /\ n <= n /\ k # 0
        BY <1>1, <3>3
      <4> QED BY <3>3, <4>1
    <3>4. k = 0 \/ k \in 1..n \/ k = n + 1
      BY <1>1, <2>2
    <3> QED BY <3>1, <3>2, <3>3, <3>4
  <2>3. g = h
    BY <2>2
  <2>4. Up(g, n + 1)
    BY <2>3
  <2>5. n + 1 \in 0..N
    BY <1>1
  <2> QED BY <2>4, <2>5
<1>4. N \in T
  <2> HIDE DEF T
  <2>1. \A n \in 0..N : n \in T
    BY <1>1, <1>2, <1>3, Induction
  <2> QED BY <1>1, <2>1
<1>5. \E f : Up(f, N)
  BY <1>4
<1> DEFINE e == CHOOSE f : Up(f, N)
<1>6. Up(e, N)
  BY <1>5
<1>7. Collect(rows) = e[N]
  BY DEF Collect, Step, b, N
<1> HIDE DEF e
<1>8. e[0] = b
  BY <1>1, <1>6
<1>9. ASSUME NEW n \in 1..N PROVE e[n] = Step(n, e[n - 1])
  <2>1. n \in 0..N /\ n # 0
    BY <1>1
  <2> QED BY <1>6, <2>1
<1>10. CollectRun(e, rows)
  BY <1>7, <1>8, <1>9 DEF CollectRun, N, b, Step
<1> QED BY <1>10

(* The latest of each key                                                  *)

\* Related events of one type, each with its own id.
Comparable(A) ==
  /\ \A a \in A : a.created_at \in Nat /\ a.event_id \in Nat
  /\ \A a, b \in A : a.event_id = b.event_id => a = b
  /\ \A a, b \in A : a.type = b.type

\* Those that none with the same key is later than.
Winners(A) == {a \in A : \A b \in A \ {a} : SameKey(a, b) => Later(a, b)}
Beaten(A) == \A b \in A : \E w \in Winners(A) : SameKey(w, b) /\ (w = b \/ Later(w, b))

\* Events are in a total order, and to have the same key is an equivalence.
LEMMA LaterOrder ==
  ASSUME NEW B, Comparable(B)
  PROVE  /\ \A a, b \in B : a = b \/ Later(a, b) \/ Later(b, a)
         /\ \A a, b \in B : ~(Later(a, b) /\ Later(b, a))
         /\ \A a, b, c \in B : Later(a, b) /\ Later(b, c) => Later(a, c)
         /\ \A a \in B : SameKey(a, a)
         /\ \A a, b \in B : SameKey(a, b) => SameKey(b, a)
         /\ \A a, b, c \in B : SameKey(a, b) /\ SameKey(b, c) => SameKey(a, c)
<1>1. \A a \in B : a.created_at \in Nat /\ a.event_id \in Nat
  BY DEF Comparable
<1>2. \A a, b \in B : a = b \/ Later(a, b) \/ Later(b, a)
  <2>1. \A a, b \in B : a.event_id = b.event_id => a = b
    BY DEF Comparable
  <2> QED BY <1>1, <2>1 DEF Later
<1>3. \A a, b \in B : ~(Later(a, b) /\ Later(b, a))
  BY <1>1 DEF Later
<1>4. \A a, b, c \in B : Later(a, b) /\ Later(b, c) => Later(a, c)
  <2> TAKE a, b, c \in B
  <2>1. /\ a.created_at \in Nat /\ b.created_at \in Nat /\ c.created_at \in Nat
        /\ a.event_id \in Nat /\ b.event_id \in Nat /\ c.event_id \in Nat
    BY <1>1
  <2> QED BY <2>1 DEF Later
<1>5. \A a, b \in B : a.type = b.type
  BY DEF Comparable
<1> QED BY <1>2, <1>3, <1>4, <1>5 DEF SameKey

\* replace_latest keeps exactly the latest of each key, whatever the order.
LEMMA WinnersAdd ==
  ASSUME NEW A, NEW p, p \notin A, Comparable(A \union {p}), Beaten(A)
  PROVE  /\ ReplaceLatest(Winners(A), p) = Winners(A \union {p})
         /\ Beaten(A \union {p})
<1> DEFINE B == A \union {p}
           W == Winners(A)
           V == Winners(B)
           current == {v \in W : SameKey(p, v)}
<1>1. /\ \A a, b \in B : a = b \/ Later(a, b) \/ Later(b, a)
      /\ \A a, b \in B : ~(Later(a, b) /\ Later(b, a))
      /\ \A a, b, c \in B : Later(a, b) /\ Later(b, c) => Later(a, c)
      /\ \A a \in B : SameKey(a, a)
      /\ \A a, b \in B : SameKey(a, b) => SameKey(b, a)
      /\ \A a, b, c \in B : SameKey(a, b) /\ SameKey(b, c) => SameKey(a, c)
  BY LaterOrder
<1>2. \A x : x \in W <=> x \in A /\ \A b \in A \ {x} : SameKey(x, b) => Later(x, b)
  BY DEF Winners
<1>3. \A x : x \in V <=> x \in B /\ \A b \in B \ {x} : SameKey(x, b) => Later(x, b)
  BY DEF Winners
<1>4. \A b \in A : \E w \in W : SameKey(w, b) /\ (w = b \/ Later(w, b))
  BY DEF Beaten
<1> HIDE DEF W, V
<1>5. CASE \E v \in current : ~Later(p, v)
  <2>1. PICK v \in current : ~Later(p, v)
    BY <1>5
  <2>2. v \in W /\ SameKey(p, v) /\ v \in A /\ v # p /\ Later(v, p) /\ SameKey(v, p)
    BY <1>1, <1>2, <2>1
  <2>3. ReplaceLatest(W, p) = W
    BY <1>5 DEF ReplaceLatest
  <2>4. ASSUME NEW x \in V PROVE x \in W
    <3>1. x # p
      BY <1>3, <2>1, <2>2, <2>4
    <3>2. x \in A
      BY <1>3, <2>4, <3>1
    <3> QED BY <1>2, <1>3, <2>4, <3>2
  <2>5. ASSUME NEW x \in W PROVE x \in V
    <3>1. x \in A /\ \A b \in A \ {x} : SameKey(x, b) => Later(x, b)
      BY <1>2, <2>5
    <3>2. ASSUME SameKey(x, p) PROVE Later(x, p)
      <4>1. SameKey(x, v)
        BY <1>1, <2>2, <3>1, <3>2
      <4>2. x = v \/ Later(x, v)
        BY <2>2, <3>1, <4>1
      <4> QED BY <1>1, <2>2, <3>1, <4>2
    <3> QED BY <1>3, <3>1, <3>2
  <2>6. V = W
    BY <2>4, <2>5
  <2>7. \A b \in B : \E w \in V : SameKey(w, b) /\ (w = b \/ Later(w, b))
    BY <1>4, <2>2, <2>6
  <2> QED BY <2>3, <2>6, <2>7 DEF Beaten, V, W
<1>6. CASE ~(\E v \in current : ~Later(p, v))
  <2>1. ReplaceLatest(W, p) = (W \ current) \union {p}
    BY <1>6 DEF ReplaceLatest
  <2>2. ASSUME NEW b \in A, SameKey(p, b) PROVE Later(p, b)
    <3>1. PICK w \in W : SameKey(w, b) /\ (w = b \/ Later(w, b))
      BY <1>4
    <3>2. w \in A /\ SameKey(p, w)
      BY <1>1, <1>2, <2>2, <3>1
    <3>3. Later(p, w)
      BY <1>6, <3>2
    <3> QED BY <1>1, <3>1, <3>2, <3>3
  <2>3. p \in V
    BY <1>3, <2>2
  <2>4. ASSUME NEW x \in W, x \notin current PROVE x \in V
    <3>1. x \in A /\ \A b \in A \ {x} : SameKey(x, b) => Later(x, b)
      BY <1>2, <2>4
    <3>2. ~SameKey(x, p)
      BY <1>1, <2>4, <3>1
    <3> QED BY <1>3, <3>1, <3>2
  <2>5. ASSUME NEW x \in V, x # p PROVE x \in W /\ x \notin current
    <3>1. x \in A /\ \A b \in B \ {x} : SameKey(x, b) => Later(x, b)
      BY <1>3, <2>5
    <3>2. x \in W
      BY <1>2, <3>1
    <3>3. ASSUME SameKey(p, x) PROVE FALSE
      <4>1. Later(p, x) /\ SameKey(x, p)
        BY <1>1, <2>2, <3>1, <3>3
      <4>2. Later(x, p)
        BY <2>5, <3>1, <4>1
      <4> QED BY <1>1, <3>1, <4>1, <4>2
    <3> QED BY <3>2, <3>3
  <2>6. V = (W \ current) \union {p}
    BY <2>3, <2>4, <2>5
  <2>7. ASSUME NEW b \in B PROVE \E w \in V : SameKey(w, b) /\ (w = b \/ Later(w, b))
    <3>1. CASE b = p
      BY <1>1, <2>3, <3>1
    <3>2. CASE b \in A
      <4>1. PICK w \in W : SameKey(w, b) /\ (w = b \/ Later(w, b))
        BY <1>4, <3>2
      <4>2. CASE w \notin current
        BY <2>4, <4>1, <4>2
      <4>3. CASE w \in current
        <5>1. SameKey(p, b)
          BY <1>1, <1>2, <3>2, <4>1, <4>3
        <5> QED BY <2>2, <2>3, <3>2, <5>1
      <4> QED BY <4>2, <4>3
    <3> QED BY <3>1, <3>2
  <2>8. Beaten(B)
    BY <2>7 DEF Beaten, V
  <2> QED BY <2>1, <2>6, <2>8 DEF V, W
<1> QED BY <1>5, <1>6

(* What is collected of the rows                                           *)

Gathered(items, answers, acks, reactions, rejected) ==
  [items |-> items, answers |-> answers, acks |-> acks, reactions |-> reactions,
   rejected |-> rejected]

Unread(rows, n) == {i \in 1..n : rows[i] = None}

\* One row more is one of its type, and a new one.
LEMMA FirstAdd ==
  ASSUME NEW X, NEW rows \in Seq(X), Clean(rows), NEW n \in 0..(Len(rows) - 1), NEW type
  PROVE  /\ rows[n + 1] # None /\ rows[n + 1].type = type =>
              First(rows, n + 1, type) = First(rows, n, type) \union {rows[n + 1]}
         /\ rows[n + 1] = None \/ rows[n + 1].type # type =>
              First(rows, n + 1, type) = First(rows, n, type)
         /\ rows[n + 1] \notin First(rows, n, type)
         /\ rows[n + 1] # None => \A p \in First(rows, n, type) : IdOf(p) # IdOf(rows[n + 1])
<1> DEFINE N == Len(rows)
<1>1. N \in Nat /\ DOMAIN rows = 1..N /\ n \in Nat /\ n + 1 \in 1..N
        /\ \A k : k \in 1..(n + 1) <=> k \in 1..n \/ k = n + 1
  OBVIOUS
<1>2. \A p : p \in First(rows, n, type) <=>
               p # None /\ p.type = type /\ \E i \in 1..n : p = rows[i]
  BY DEF First
<1>3. \A p : p \in First(rows, n + 1, type) <=>
               p # None /\ p.type = type /\ (p = rows[n + 1] \/ \E i \in 1..n : p = rows[i])
  <2>1. \A p : p \in First(rows, n + 1, type) <=>
                 p # None /\ p.type = type /\ \E i \in 1..(n + 1) : p = rows[i]
    BY DEF First
  <2> QED BY <1>1, <2>1
<1>4. ASSUME NEW i \in 1..n, rows[n + 1] # None, rows[i] # None
      PROVE  IdOf(rows[i]) # IdOf(rows[n + 1])
  <2>1. i \in 1..N /\ i # n + 1
    BY <1>1
  <2> QED BY <1>1, <1>4, <2>1 DEF Clean
<1>5. rows[n + 1] \notin First(rows, n, type)
  BY <1>2, <1>4
<1>6. rows[n + 1] # None => \A p \in First(rows, n, type) : IdOf(p) # IdOf(rows[n + 1])
  BY <1>2, <1>4
<1>7. rows[n + 1] # None /\ rows[n + 1].type = type =>
        First(rows, n + 1, type) = First(rows, n, type) \union {rows[n + 1]}
  BY <1>2, <1>3
<1>8. rows[n + 1] = None \/ rows[n + 1].type # type =>
        First(rows, n + 1, type) = First(rows, n, type)
  BY <1>2, <1>3
<1> QED BY <1>5, <1>6, <1>7, <1>8

\* The related rows of a type can be compared.
LEMMA FirstComparable ==
  ASSUME NEW X, NEW rows \in Seq(X), Clean(rows), NEW n \in 0..Len(rows),
         NEW type \in {"answer", "ack", "reaction"}
  PROVE  Comparable(First(rows, n, type))
<1>1. \A k \in 1..n : k \in DOMAIN rows
  OBVIOUS
<1>2. \A p : p \in First(rows, n, type) <=>
               p # None /\ p.type = type /\ \E i \in 1..n : p = rows[i]
  BY DEF First
<1>3. ASSUME NEW p \in First(rows, n, type)
      PROVE  p.created_at \in Nat /\ p.event_id \in Nat /\ IdOf(p) = p.event_id
  <2>1. PICK i \in 1..n : p = rows[i]
    BY <1>2
  <2>2. Readable(p)
    BY <1>1, <1>2, <2>1 DEF Clean
  <2>3. p.type # "item"
    BY <1>2
  <2> QED BY <2>2, <2>3 DEF Readable, IdOf
<1>4. ASSUME NEW p \in First(rows, n, type), NEW q \in First(rows, n, type), p.event_id = q.event_id
      PROVE  p = q
  <2>1. PICK i \in 1..n : p = rows[i]
    BY <1>2
  <2>2. PICK j \in 1..n : q = rows[j]
    BY <1>2
  <2>3. IdOf(p) = IdOf(q) /\ p # None /\ q # None
    BY <1>2, <1>3, <1>4
  <2>4. i = j
    BY <1>1, <2>1, <2>2, <2>3 DEF Clean
  <2> QED BY <2>1, <2>2, <2>4
<1>5. \A p, q \in First(rows, n, type) : p.type = q.type
  BY <1>2
<1> QED BY <1>3, <1>4, <1>5 DEF Comparable

\* What is known of the first n rows: their items, their answers in order, the latest
\* acknowledgements and reactions, and the number of those that cannot be read.
Collected(c, answers, rows, n) ==
  /\ c = Gathered(First(rows, n, "item"), answers, Winners(First(rows, n, "ack")),
                  Winners(First(rows, n, "reaction")), Cardinality(Unread(rows, n)))
  /\ answers \in Seq(First(rows, n, "answer"))
  /\ Range(answers) = First(rows, n, "answer")
  /\ IsInjective(answers)
  /\ Beaten(First(rows, n, "ack"))
  /\ Beaten(First(rows, n, "reaction"))

\* One more answer.
LEMMA AnswersAdd ==
  ASSUME NEW F, NEW answers \in Seq(F), Range(answers) = F, IsInjective(answers), NEW p, p \notin F
  PROVE  /\ Append(answers, p) \in Seq(F \union {p})
         /\ Range(Append(answers, p)) = F \union {p}
         /\ IsInjective(Append(answers, p))
<1> DEFINE M == Len(answers)
           more == Append(answers, p)
<1>1. M \in Nat /\ DOMAIN answers = 1..M /\ \A i \in 1..M : answers[i] \in F
  OBVIOUS
<1>2. answers \in Seq(F \union {p})
  OBVIOUS
<1>3. more \in Seq(F \union {p}) /\ DOMAIN more = 1..(M + 1) /\ more[M + 1] = p
        /\ \A i \in 1..M : more[i] = answers[i]
  BY <1>2
<1>4. \A k : k \in 1..(M + 1) <=> k \in 1..M \/ k = M + 1
  BY <1>1
<1>5. \A x : x \in Range(answers) <=> \E i \in 1..M : x = answers[i]
  BY <1>1 DEF Range
<1> HIDE DEF more, M
<1>6. \A x : x \in Range(more) <=> \E i \in 1..(M + 1) : x = more[i]
  BY <1>3 DEF Range
<1>7. \A x : x \in Range(more) <=> x = p \/ x \in F
  BY <1>3, <1>4, <1>5, <1>6
<1>8. \A i, j \in 1..M : answers[i] = answers[j] => i = j
  BY <1>1 DEF IsInjective
<1>9. IsInjective(more)
  BY <1>1, <1>3, <1>4, <1>8 DEF IsInjective
<1>10. Range(more) = F \union {p}
  BY <1>7
<1> QED BY <1>3, <1>9, <1>10 DEF more

\* One more row: what is known stays true.
LEMMA CollectedAdd ==
  ASSUME NEW X, NEW rows \in Seq(X), Clean(rows), NEW n \in 0..(Len(rows) - 1),
         NEW c, NEW answers, Collected(c, answers, rows, n)
  PROVE  \E more : Collected(Absorb(c, rows[n + 1]), more, rows, n + 1)
<1> DEFINE p == rows[n + 1]
           I == First(rows, n, "item")
           F == First(rows, n, "answer")
           K == First(rows, n, "ack")
           R == First(rows, n, "reaction")
           J == Cardinality(Unread(rows, n))
<1>1. n \in Nat /\ n + 1 \in DOMAIN rows /\ n + 1 \in 0..Len(rows) /\ n \in 0..Len(rows)
  OBVIOUS
<1>2. \A t : /\ p # None /\ p.type = t => First(rows, n + 1, t) = First(rows, n, t) \union {p}
             /\ p = None \/ p.type # t => First(rows, n + 1, t) = First(rows, n, t)
             /\ p \notin First(rows, n, t)
             /\ p # None => \A q \in First(rows, n, t) : IdOf(q) # IdOf(p)
  BY FirstAdd
<1>3. /\ c = Gathered(I, answers, Winners(K), Winners(R), J)
      /\ answers \in Seq(F) /\ Range(answers) = F /\ IsInjective(answers)
      /\ Beaten(K) /\ Beaten(R)
  BY DEF Collected
<1>4. /\ p = None => Cardinality(Unread(rows, n + 1)) = J + 1
      /\ p # None => Cardinality(Unread(rows, n + 1)) = J
  <2> DEFINE U == Unread(rows, n)
  <2>1. \A k : k \in 1..(n + 1) <=> k \in 1..n \/ k = n + 1
    BY <1>1
  <2>2. p = None => Unread(rows, n + 1) = U \union {n + 1}
    BY <2>1 DEF Unread
  <2>3. p # None => Unread(rows, n + 1) = U
    BY <2>1 DEF Unread
  <2>4. IsFiniteSet(U) /\ n + 1 \notin U
    <3>1. IsFiniteSet(1..n) /\ U \in SUBSET (1..n)
      BY <1>1, FS_Interval DEF Unread
    <3>2. IsFiniteSet(U)
      BY <3>1, FS_Subset
    <3>3. n + 1 \notin 1..n
      BY <1>1
    <3> QED BY <3>1, <3>2, <3>3
  <2> HIDE DEF U
  <2>5. Cardinality(U \union {n + 1}) = Cardinality(U) + 1
    BY <2>4, FS_AddElement
  <2> QED BY <2>2, <2>3, <2>5 DEF U
<1>5. \A t \in {"answer", "ack", "reaction"} : Comparable(First(rows, n + 1, t))
  BY <1>1, FirstComparable
<1>6. p = None \/ p.type \in {"item", "answer", "ack", "reaction"}
  BY <1>1 DEF Clean, Readable
<1> HIDE DEF p, I, F, K, R, J
<1>7. CASE p = None
  <2>1. Absorb(c, p) = Gathered(I, answers, Winners(K), Winners(R), J + 1)
    BY <1>3, <1>7 DEF Absorb, Gathered
  <2>2. \A t : First(rows, n + 1, t) = First(rows, n, t)
    BY <1>2, <1>7
  <2>3. Collected(Absorb(c, p), answers, rows, n + 1)
    BY <1>3, <1>4, <1>7, <2>1, <2>2 DEF Collected, I, F, K, R
  <2> QED BY <2>3 DEF p
<1>8. CASE p # None /\ p.type = "item"
  <2>1. Absorb(c, p) = Gathered({i \in I : i.id # p.id} \union {p}, answers, Winners(K), Winners(R), J)
    BY <1>3, <1>8 DEF Absorb, Gathered
  <2>2. {i \in I : i.id # p.id} = I
    <3>1. \A q \in I : IdOf(q) # IdOf(p) /\ q.type = "item"
      BY <1>2, <1>8 DEF I, First
    <3> QED BY <1>8, <3>1 DEF IdOf
  <2>3. /\ First(rows, n + 1, "item") = I \union {p} /\ First(rows, n + 1, "answer") = F
        /\ First(rows, n + 1, "ack") = K /\ First(rows, n + 1, "reaction") = R
    BY <1>2, <1>8 DEF I, F, K, R
  <2>4. Collected(Absorb(c, p), answers, rows, n + 1)
    BY <1>3, <1>4, <1>8, <2>1, <2>2, <2>3 DEF Collected
  <2> QED BY <2>4 DEF p
<1>9. CASE p # None /\ p.type = "answer"
  <2> DEFINE more == Append(answers, p)
  <2>1. Absorb(c, p) = Gathered(I, more, Winners(K), Winners(R), J)
    BY <1>3, <1>9 DEF Absorb, Gathered
  <2>2. /\ First(rows, n + 1, "item") = I /\ First(rows, n + 1, "answer") = F \union {p}
        /\ First(rows, n + 1, "ack") = K /\ First(rows, n + 1, "reaction") = R
    BY <1>2, <1>9 DEF I, F, K, R
  <2>3. p \notin F
    BY <1>2 DEF F
  <2>4. more \in Seq(F \union {p}) /\ Range(more) = F \union {p} /\ IsInjective(more)
    BY <1>3, <2>3, AnswersAdd
  <2> HIDE DEF more
  <2>5. Collected(Absorb(c, p), more, rows, n + 1)
    BY <1>3, <1>4, <1>9, <2>1, <2>2, <2>4 DEF Collected
  <2> QED BY <2>5 DEF p
<1>10. CASE p # None /\ p.type = "ack"
  <2>1. Absorb(c, p) = Gathered(I, answers, ReplaceLatest(Winners(K), p), Winners(R), J)
    BY <1>3, <1>10 DEF Absorb, Gathered
  <2>2. /\ First(rows, n + 1, "item") = I /\ First(rows, n + 1, "answer") = F
        /\ First(rows, n + 1, "ack") = K \union {p} /\ First(rows, n + 1, "reaction") = R
    BY <1>2, <1>10 DEF I, F, K, R
  <2>3. p \notin K /\ Comparable(K \union {p})
    BY <1>2, <1>5, <2>2 DEF K
  <2>4. ReplaceLatest(Winners(K), p) = Winners(K \union {p}) /\ Beaten(K \union {p})
    BY <1>3, <2>3, WinnersAdd
  <2>5. Collected(Absorb(c, p), answers, rows, n + 1)
    BY <1>3, <1>4, <1>10, <2>1, <2>2, <2>4 DEF Collected
  <2> QED BY <2>5 DEF p
<1>11. CASE p # None /\ p.type = "reaction"
  <2>1. Absorb(c, p) = Gathered(I, answers, Winners(K), ReplaceLatest(Winners(R), p), J)
    BY <1>3, <1>11 DEF Absorb, Gathered
  <2>2. /\ First(rows, n + 1, "item") = I /\ First(rows, n + 1, "answer") = F
        /\ First(rows, n + 1, "ack") = K /\ First(rows, n + 1, "reaction") = R \union {p}
    BY <1>2, <1>11 DEF I, F, K, R
  <2>3. p \notin R /\ Comparable(R \union {p})
    BY <1>2, <1>5, <2>2 DEF R
  <2>4. ReplaceLatest(Winners(R), p) = Winners(R \union {p}) /\ Beaten(R \union {p})
    BY <1>3, <2>3, WinnersAdd
  <2>5. Collected(Absorb(c, p), answers, rows, n + 1)
    BY <1>3, <1>4, <1>11, <2>1, <2>2, <2>4 DEF Collected
  <2> QED BY <2>5 DEF p
<1> QED BY <1>6, <1>7, <1>8, <1>9, <1>10, <1>11

\* The answers among the rows, in their order.
InOrder(answers, rows) ==
  /\ answers \in Seq(All(rows, "answer"))
  /\ Range(answers) = All(rows, "answer")
  /\ IsInjective(answers)

\* What is collected of all rows depends on their set alone, but for the order of the
\* answers: their items, the latest acknowledgement of every item and account, the latest
\* reaction of every item, account and emoji, and how many cannot be read.
CollectedAll(c, answers, rows) ==
  /\ c = Gathered(All(rows, "item"), answers, Winners(All(rows, "ack")),
                  Winners(All(rows, "reaction")), Cardinality(Unread(rows, Len(rows))))
  /\ InOrder(answers, rows)
  /\ Beaten(All(rows, "ack"))
  /\ Beaten(All(rows, "reaction"))
  /\ \A t \in {"answer", "ack", "reaction"} : Comparable(All(rows, t))

\* Collect collects that.
LEMMA CollectIs ==
  ASSUME NEW X, NEW rows \in Seq(X), Clean(rows)
  PROVE  \E answers : CollectedAll(Collect(rows), answers, rows)
<1> DEFINE N == Len(rows)
<1>1. N \in Nat /\ DOMAIN rows = 1..N
  OBVIOUS
<1>2. PICK c : CollectRun(c, rows)
  BY CollectSteps
<1> DEFINE T == {n \in 0..N : \E answers : Collected(c[n], answers, rows, n)}
<1>3. 0 \in T
  <2>1. 1..0 = {}
    OBVIOUS
  <2>2. \A t : First(rows, 0, t) = {}
    BY <2>1 DEF First
  <2>3. Unread(rows, 0) = {}
    BY <2>1 DEF Unread
  <2>4. Cardinality({}) = 0
    BY FS_EmptySet
  <2>5. Winners({}) = {} /\ Beaten({})
    BY DEF Winners, Beaten
  <2>6. <<>> \in Seq({}) /\ Range(<<>>) = {} /\ IsInjective(<<>>)
    BY DEF Range, IsInjective
  <2>7. c[0] = Gathered({}, <<>>, {}, {}, 0)
    BY <1>2 DEF CollectRun, Nothing, Gathered
  <2>8. Collected(c[0], <<>>, rows, 0)
    BY <2>2, <2>3, <2>4, <2>5, <2>6, <2>7 DEF Collected
  <2>9. 0 \in 0..N
    BY <1>1
  <2> QED BY <2>8, <2>9
<1>4. ASSUME NEW n \in 0..(N - 1), n \in T PROVE n + 1 \in T
  <2>1. PICK answers : Collected(c[n], answers, rows, n)
    BY <1>4
  <2>2. \E more : Collected(Absorb(c[n], rows[n + 1]), more, rows, n + 1)
    BY <2>1, CollectedAdd
  <2>3. n + 1 \in 1..N /\ (n + 1) - 1 = n /\ n + 1 \in 0..N
    BY <1>1
  <2>4. c[n + 1] = Absorb(c[n], rows[n + 1])
    BY <1>2, <2>3 DEF CollectRun
  <2> QED BY <2>2, <2>3, <2>4
<1> HIDE DEF T
<1>5. \A n \in 0..N : n \in T
  BY <1>1, <1>3, <1>4, Induction
<1>6. N \in T
  BY <1>1, <1>5
<1>7. PICK answers : Collected(c[N], answers, rows, N)
  BY <1>6 DEF T
<1>8. \A t : First(rows, N, t) = All(rows, t)
  <2>1. \A p : p \in Range(rows) <=> p \in {rows[i] : i \in 1..N}
    BY <1>1 DEF Range
  <2> QED BY <2>1 DEF First, All
<1>9. Collect(rows) = c[N]
  BY <1>2 DEF CollectRun
<1>10. N \in 0..N
  BY <1>1
<1>11. \A t \in {"answer", "ack", "reaction"} : Comparable(First(rows, N, t))
  BY <1>10, FirstComparable
<1>12. CollectedAll(Collect(rows), answers, rows)
  BY <1>7, <1>8, <1>9, <1>11 DEF Collected, CollectedAll, InOrder
<1> QED BY <1>12

(* The answer that is shown                                                *)

\* The best answer of every prefix.
BestRun(k, item, answers) ==
  /\ k[0] = None
  /\ \A n \in 1..Len(answers) :
       k[n] = IF ~ValidFor(item, answers[n]) \/ (k[n - 1] # None /\ Later(k[n - 1], answers[n]))
              THEN k[n - 1] ELSE answers[n]
  /\ BestAnswer(item, answers) = k[Len(answers)]

\* The best answer is found answer by answer.
LEMMA BestSteps ==
  ASSUME NEW A, NEW answers \in Seq(A), NEW item
  PROVE  \E k : BestRun(k, item, answers)
<1> DEFINE N == Len(answers)
           S == A \union {None}
           b == None
           Step(n, c) == IF ~ValidFor(item, answers[n]) \/ (c # None /\ Later(c, answers[n]))
                         THEN c ELSE answers[n]
           F == [x \in (1..N) \X S |-> Step(x[1], x[2])]
           D(c) == c = [n \in 0..N |-> IF n = 0 THEN b ELSE Step(n, c[n - 1])]
<1>1. F \in [(1..N) \X S -> S] /\ N \in Nat /\ b \in S
  OBVIOUS
<1>2. PICK c \in [0..N -> S] : Solves(c, N, b, F)
  <2> HIDE DEF F, N, S, b
  <2> QED BY <1>1, Recursion
<1>3. ASSUME NEW n \in 1..N PROVE c[n] = Step(n, c[n - 1])
  <2>1. n - 1 \in 0..N /\ c[n - 1] \in S
    OBVIOUS
  <2> HIDE DEF Step, S, N
  <2> QED BY <1>2, <2>1 DEF Solves
<1>4. D(c)
  <2> HIDE DEF Step, b
  <2> QED BY <1>2, <1>3 DEF Solves
<1> DEFINE e == CHOOSE f : D(f)
<1>5. D(e)
  BY <1>4
<1>6. BestAnswer(item, answers) = e[N]
  BY DEF BestAnswer
<1> HIDE DEF e
<1>7. ASSUME NEW n \in 1..N PROVE e[n] = Step(n, e[n - 1])
  <2>1. n \in 0..N /\ n # 0
    OBVIOUS
  <2> HIDE DEF Step
  <2> QED BY <1>5, <2>1
<1>8. e[0] = b
  <2>1. 0 \in 0..N
    OBVIOUS
  <2> HIDE DEF b, Step
  <2> QED BY <1>5, <2>1
<1> QED BY <1>6, <1>7, <1>8 DEF BestRun

\* The latest of a set.
Tops(x, S) == IF S = {} THEN x = None ELSE x \in S /\ \A y \in S \ {x} : Later(x, y)

\* One answer more to choose from.
LEMMA TopsAdd ==
  ASSUME NEW A, Comparable(A), None \notin A, NEW V \in SUBSET A, NEW p \in A, NEW x, Tops(x, V)
  PROVE  Tops(IF x # None /\ Later(x, p) THEN x ELSE p, V \union {p})
<1>1. /\ \A a, b \in A : a = b \/ Later(a, b) \/ Later(b, a)
      /\ \A a, b, c \in A : Later(a, b) /\ Later(b, c) => Later(a, c)
  BY LaterOrder
<1>2. CASE V = {}
  BY <1>2 DEF Tops
<1>3. CASE V # {}
  <2>1. x \in V /\ x # None /\ \A y \in V \ {x} : Later(x, y)
    BY <1>3 DEF Tops
  <2>2. CASE Later(x, p)
    BY <2>1, <2>2 DEF Tops
  <2>3. CASE ~Later(x, p)
    <3>1. x = p \/ Later(p, x)
      BY <1>1, <2>1, <2>3
    <3>2. \A y \in V \ {p} : Later(p, y)
      BY <1>1, <2>1, <3>1
    <3> QED BY <2>3, <3>2 DEF Tops
  <2> QED BY <2>2, <2>3
<1> QED BY <1>2, <1>3

\* There is one latest of a set.
LEMMA TopsUnique ==
  ASSUME NEW A, Comparable(A), NEW V \in SUBSET A, NEW x, Tops(x, V)
  PROVE  x = Latest(V)
<1>1. \A a, b \in A : ~(Later(a, b) /\ Later(b, a))
  BY LaterOrder
<1>2. CASE V = {}
  BY <1>2 DEF Tops, Latest
<1>3. CASE V # {}
  <2> DEFINE P(a) == \A b \in V \ {a} : Later(a, b)
             c == CHOOSE a \in V : P(a)
  <2>1. x \in V /\ P(x)
    BY <1>3 DEF Tops
  <2>2. c \in V /\ P(c)
    BY <2>1
  <2>3. c = Latest(V)
    BY <1>3 DEF Latest
  <2> HIDE DEF c
  <2>4. x = c
    BY <1>1, <2>1, <2>2
  <2> QED BY <2>3, <2>4
<1> QED BY <1>2, <1>3

\* The last one of the latest valid answers is the latest valid answer, whatever the
\* order in which they come (resolve's max_by).
LEMMA BestAnswerIs ==
  ASSUME NEW A, Comparable(A), None \notin A, NEW answers \in Seq(A), Range(answers) = A, NEW item
  PROVE  BestAnswer(item, answers) = Latest({a \in A : ValidFor(item, a)})
<1> DEFINE N == Len(answers)
           V(n) == {a \in {answers[i] : i \in 1..n} : ValidFor(item, a)}
<1>1. N \in Nat /\ DOMAIN answers = 1..N /\ \A i \in 1..N : answers[i] \in A
  OBVIOUS
<1>2. PICK k : BestRun(k, item, answers)
  BY BestSteps
<1> DEFINE T == {n \in 0..N : Tops(k[n], V(n))}
<1>3. 0 \in T
  <2>1. V(0) = {} /\ 0 \in 0..N
    BY <1>1
  <2>2. k[0] = None
    BY <1>2 DEF BestRun
  <2> QED BY <2>1, <2>2 DEF Tops
<1>4. ASSUME NEW n \in 0..(N - 1), n \in T PROVE n + 1 \in T
  <2> DEFINE p == answers[n + 1]
  <2>1. /\ n + 1 \in 1..N /\ n + 1 \in 0..N /\ (n + 1) - 1 = n /\ p \in A
        /\ \A j : j \in 1..(n + 1) <=> j \in 1..n \/ j = n + 1
        /\ \A j \in 1..n : j \in 1..N
    BY <1>1
  <2>2. k[n + 1] = IF ~ValidFor(item, p) \/ (k[n] # None /\ Later(k[n], p)) THEN k[n] ELSE p
    BY <1>2, <2>1 DEF BestRun
  <2>3. Tops(k[n], V(n))
    BY <1>4
  <2>4. V(n) \in SUBSET A
    BY <1>1, <2>1
  <2>5. /\ ValidFor(item, p) => V(n + 1) = V(n) \union {p}
        /\ ~ValidFor(item, p) => V(n + 1) = V(n)
    BY <2>1
  <2> HIDE DEF V, p
  <2>6. Tops(k[n + 1], V(n + 1))
    <3>1. CASE ~ValidFor(item, p)
      BY <2>2, <2>3, <2>5, <3>1
    <3>2. CASE ValidFor(item, p)
      <4>1. k[n + 1] = IF k[n] # None /\ Later(k[n], p) THEN k[n] ELSE p
        BY <2>2, <3>2
      <4>2. Tops(IF k[n] # None /\ Later(k[n], p) THEN k[n] ELSE p, V(n) \union {p})
        BY <2>1, <2>3, <2>4, TopsAdd
      <4> QED BY <2>5, <3>2, <4>1, <4>2
    <3> QED BY <3>1, <3>2
  <2> QED BY <2>1, <2>6
<1>5. N \in T
  <2> HIDE DEF T, N
  <2>1. \A n \in 0..N : n \in T
    BY <1>1, <1>3, <1>4, Induction
  <2> QED BY <1>1, <2>1
<1>6. BestAnswer(item, answers) = k[N]
  BY <1>2 DEF BestRun
<1>7. V(N) = {a \in A : ValidFor(item, a)}
  BY <1>1 DEF Range
<1>8. Tops(BestAnswer(item, answers), {a \in A : ValidFor(item, a)})
  <2> HIDE DEF V
  <2> QED BY <1>5, <1>6, <1>7
<1> DEFINE W == {a \in A : ValidFor(item, a)}
<1>9. W \in SUBSET A
  OBVIOUS
<1> HIDE DEF W
<1>10. Tops(BestAnswer(item, answers), W)
  BY <1>8 DEF W
<1>11. BestAnswer(item, answers) = Latest(W)
  BY <1>9, <1>10, TopsUnique
<1> QED BY <1>11 DEF W

(* Sorting                                                                 *)

StrictTotal(R, S) ==
  /\ \A a \in S : <<a, a>> \notin R
  /\ \A a, b \in S : a = b \/ <<a, b>> \in R \/ <<b, a>> \in R
  /\ \A a, b, c \in S : <<a, b>> \in R /\ <<b, c>> \in R => <<a, c>> \in R
Below(x, S, R) == {o \in S : <<o, x>> \in R}
RankOf(x, S, R) == 1 + Cardinality(Below(x, S, R))
Ranked(S, R) ==
  /\ \A x \in S : RankOf(x, S, R) \in 1..Cardinality(S)
  /\ \A x, y \in S : RankOf(x, S, R) = RankOf(y, S, R) => x = y
  /\ \A k \in 1..Cardinality(S) : \E x \in S : RankOf(x, S, R) = k

\* In a total order of a finite set every place has one member.
LEMMA Ranks ==
  ASSUME NEW S, IsFiniteSet(S), NEW R, StrictTotal(R, S)
  PROVE  Ranked(S, R)
<1> DEFINE M == Cardinality(S)
           B(x) == Below(x, S, R)
           f == [x \in S |-> RankOf(x, S, R)]
<1>1. M \in Nat
  BY FS_CardinalityType
<1>2. ASSUME NEW x \in S
      PROVE  IsFiniteSet(B(x)) /\ Cardinality(B(x)) \in Nat /\ x \notin B(x) /\ B(x) \in SUBSET S
  <2>1. B(x) \in SUBSET S
    BY DEF Below
  <2> HIDE DEF B
  <2>2. IsFiniteSet(B(x))
    BY <2>1, FS_Subset
  <2>3. Cardinality(B(x)) \in Nat
    BY <2>2, FS_CardinalityType
  <2>4. x \notin B(x)
    BY DEF B, Below, StrictTotal
  <2> QED BY <2>1, <2>2, <2>3, <2>4
<1>3. ASSUME NEW x \in S PROVE RankOf(x, S, R) \in 1..M
  <2>1. /\ IsFiniteSet(S \ {x}) /\ Cardinality(S \ {x}) = M - 1
    BY FS_RemoveElement
  <2> HIDE DEF B, M
  <2>2. B(x) \in SUBSET (S \ {x})
    BY <1>2
  <2>3. Cardinality(B(x)) <= Cardinality(S \ {x})
    BY <2>1, <2>2, FS_Subset
  <2>4. Cardinality(B(x)) \in Nat
    BY <1>2
  <2>5. RankOf(x, S, R) = 1 + Cardinality(B(x))
    BY DEF RankOf, B
  <2> QED BY <1>1, <2>1, <2>3, <2>4, <2>5
<1>4. ASSUME NEW x \in S, NEW y \in S, <<x, y>> \in R
      PROVE  RankOf(x, S, R) # RankOf(y, S, R)
  <2>1. B(x) \in SUBSET B(y) /\ x \in B(y)
    BY <1>4 DEF Below, StrictTotal
  <2>2. x \notin B(x) /\ IsFiniteSet(B(y))
    BY <1>2
  <2> HIDE DEF B
  <2>3. Cardinality(B(x)) # Cardinality(B(y))
    <3>1. Cardinality(B(y)) = Cardinality(B(x)) => B(y) = B(x)
      BY <2>1, <2>2, FS_Subset
    <3> QED BY <2>1, <2>2, <3>1
  <2>4. Cardinality(B(x)) \in Nat /\ Cardinality(B(y)) \in Nat
    BY <1>2
  <2>5. RankOf(x, S, R) = 1 + Cardinality(B(x)) /\ RankOf(y, S, R) = 1 + Cardinality(B(y))
    BY DEF RankOf, B
  <2> QED BY <2>3, <2>4, <2>5
<1>5. \A x, y \in S : RankOf(x, S, R) = RankOf(y, S, R) => x = y
  <2>1. \A a, b \in S : a = b \/ <<a, b>> \in R \/ <<b, a>> \in R
    BY DEF StrictTotal
  <2> QED BY <1>4, <2>1
<1>6. f \in Injection(S, 1..M)
  BY <1>3, <1>5 DEF Injection, IsInjective
<1>7. IsFiniteSet(1..M) /\ Cardinality(1..M) = M
  <2>1. 1 \in Int /\ M \in Int
    BY <1>1
  <2> HIDE DEF M
  <2> QED BY <1>1, <2>1, FS_Interval
<1>8. f \in Surjection(S, 1..M)
  <2> HIDE DEF f
  <2> QED BY <1>6, <1>7, FS_Injection
<1>9. \A k \in 1..M : \E x \in S : RankOf(x, S, R) = k
  BY <1>8 DEF Surjection
<1> QED BY <1>3, <1>5, <1>9 DEF Ranked

\* Items, each with its own id.
Ordered(S) ==
  /\ IsFiniteSet(S)
  /\ \A a \in S : a.created_at \in Nat /\ a.id \in Nat
  /\ \A a, b \in S : a.id = b.id => a = b

\* The items in their places.
InPlace(s, S) ==
  /\ s \in [1..Cardinality(S) -> S]
  /\ \A i, j \in DOMAIN s : s[i] = s[j] => i = j
  /\ \A x \in S : \E i \in DOMAIN s : s[i] = x

\* Sorted puts every item in its place, the oldest first.
LEMMA SortedOldest ==
  ASSUME NEW S, Ordered(S)
  PROVE  /\ InPlace(Sorted(S, OldestFirst), S)
         /\ \A i \in 1..Cardinality(S) : Place(Sorted(S, OldestFirst)[i], S, OldestFirst) = i
         /\ \A x \in S : Place(x, S, OldestFirst) \in 1..Cardinality(S)
<1> DEFINE R == {x \in S \X S : OldestFirst(x[1], x[2])}
           s == Sorted(S, OldestFirst)
<1>1. \A a, b \in S : <<a, b>> \in R <=> OldestFirst(a, b)
  OBVIOUS
<1> HIDE DEF R
<1>2. StrictTotal(R, S)
  <2>1. /\ \A a \in S : a.created_at \in Nat /\ a.id \in Nat
        /\ \A a, b \in S : a.id = b.id => a = b
    BY DEF Ordered
  <2>2. \A a \in S : <<a, a>> \notin R
    BY <1>1, <2>1 DEF OldestFirst
  <2>3. \A a, b \in S : a = b \/ <<a, b>> \in R \/ <<b, a>> \in R
    <3> TAKE a, b \in S
    <3>1. /\ a.created_at \in Nat /\ b.created_at \in Nat /\ a.id \in Nat /\ b.id \in Nat
          /\ a.id = b.id => a = b
      BY <2>1
    <3>2. a = b \/ OldestFirst(a, b) \/ OldestFirst(b, a)
      BY <3>1 DEF OldestFirst
    <3> QED BY <1>1, <3>2
  <2>4. \A a, b, c \in S : <<a, b>> \in R /\ <<b, c>> \in R => <<a, c>> \in R
    <3> TAKE a, b, c \in S
    <3>1. /\ a.created_at \in Nat /\ b.created_at \in Nat /\ c.created_at \in Nat
          /\ a.id \in Nat /\ b.id \in Nat /\ c.id \in Nat
      BY <2>1
    <3>2. OldestFirst(a, b) /\ OldestFirst(b, c) => OldestFirst(a, c)
      BY <3>1 DEF OldestFirst
    <3> QED BY <1>1, <3>2
  <2> QED BY <2>2, <2>3, <2>4 DEF StrictTotal
<1>3. Ranked(S, R)
  BY <1>2, Ranks DEF Ordered
<1>4. \A x \in S : Place(x, S, OldestFirst) = RankOf(x, S, R)
  <2> TAKE x \in S
  <2>1. {o \in S : OldestFirst(o, x)} = Below(x, S, R)
    BY <1>1 DEF Below
  <2> QED BY <2>1 DEF Place, RankOf
<1>5. s = [i \in 1..Cardinality(S) |-> CHOOSE item \in S : Place(item, S, OldestFirst) = i]
  BY DEF Sorted
<1>6. ASSUME NEW i \in 1..Cardinality(S) PROVE s[i] \in S /\ Place(s[i], S, OldestFirst) = i
  <2>1. \E x \in S : Place(x, S, OldestFirst) = i
    BY <1>3, <1>4 DEF Ranked
  <2> QED BY <1>5, <2>1
<1> HIDE DEF s
<1>7. \A x \in S : Place(x, S, OldestFirst) \in 1..Cardinality(S)
  BY <1>3, <1>4 DEF Ranked
<1>8. DOMAIN s = 1..Cardinality(S) /\ s \in [1..Cardinality(S) -> S]
  BY <1>5, <1>6
<1>9. \A x, y \in S : Place(x, S, OldestFirst) = Place(y, S, OldestFirst) => x = y
  BY <1>3, <1>4 DEF Ranked
<1>10. InPlace(s, S)
  <2>1. \A i, j \in DOMAIN s : s[i] = s[j] => i = j
    BY <1>6, <1>8
  <2>2. \A x \in S : \E i \in DOMAIN s : s[i] = x
    BY <1>6, <1>7, <1>8, <1>9
  <2> QED BY <1>8, <2>1, <2>2 DEF InPlace
<1> QED BY <1>6, <1>7, <1>10 DEF s

\* Sorted puts every item in its place, the newest first.
LEMMA SortedNewest ==
  ASSUME NEW S, Ordered(S)
  PROVE  /\ InPlace(Sorted(S, NewestFirst), S)
         /\ \A i \in 1..Cardinality(S) : Place(Sorted(S, NewestFirst)[i], S, NewestFirst) = i
         /\ \A x \in S : Place(x, S, NewestFirst) \in 1..Cardinality(S)
<1> DEFINE R == {x \in S \X S : NewestFirst(x[1], x[2])}
           s == Sorted(S, NewestFirst)
<1>1. \A a, b \in S : <<a, b>> \in R <=> NewestFirst(a, b)
  OBVIOUS
<1> HIDE DEF R
<1>2. StrictTotal(R, S)
  <2>1. /\ \A a \in S : a.created_at \in Nat /\ a.id \in Nat
        /\ \A a, b \in S : a.id = b.id => a = b
    BY DEF Ordered
  <2>2. \A a \in S : <<a, a>> \notin R
    BY <1>1, <2>1 DEF NewestFirst
  <2>3. \A a, b \in S : a = b \/ <<a, b>> \in R \/ <<b, a>> \in R
    <3> TAKE a, b \in S
    <3>1. /\ a.created_at \in Nat /\ b.created_at \in Nat /\ a.id \in Nat /\ b.id \in Nat
          /\ a.id = b.id => a = b
      BY <2>1
    <3>2. a = b \/ NewestFirst(a, b) \/ NewestFirst(b, a)
      BY <3>1 DEF NewestFirst
    <3> QED BY <1>1, <3>2
  <2>4. \A a, b, c \in S : <<a, b>> \in R /\ <<b, c>> \in R => <<a, c>> \in R
    <3> TAKE a, b, c \in S
    <3>1. /\ a.created_at \in Nat /\ b.created_at \in Nat /\ c.created_at \in Nat
          /\ a.id \in Nat /\ b.id \in Nat /\ c.id \in Nat
      BY <2>1
    <3>2. NewestFirst(a, b) /\ NewestFirst(b, c) => NewestFirst(a, c)
      BY <3>1 DEF NewestFirst
    <3> QED BY <1>1, <3>2
  <2> QED BY <2>2, <2>3, <2>4 DEF StrictTotal
<1>3. Ranked(S, R)
  BY <1>2, Ranks DEF Ordered
<1>4. \A x \in S : Place(x, S, NewestFirst) = RankOf(x, S, R)
  <2> TAKE x \in S
  <2>1. {o \in S : NewestFirst(o, x)} = Below(x, S, R)
    BY <1>1 DEF Below
  <2> QED BY <2>1 DEF Place, RankOf
<1>5. s = [i \in 1..Cardinality(S) |-> CHOOSE item \in S : Place(item, S, NewestFirst) = i]
  BY DEF Sorted
<1>6. ASSUME NEW i \in 1..Cardinality(S) PROVE s[i] \in S /\ Place(s[i], S, NewestFirst) = i
  <2>1. \E x \in S : Place(x, S, NewestFirst) = i
    BY <1>3, <1>4 DEF Ranked
  <2> QED BY <1>5, <2>1
<1> HIDE DEF s
<1>7. \A x \in S : Place(x, S, NewestFirst) \in 1..Cardinality(S)
  BY <1>3, <1>4 DEF Ranked
<1>8. DOMAIN s = 1..Cardinality(S) /\ s \in [1..Cardinality(S) -> S]
  BY <1>5, <1>6
<1>9. \A x, y \in S : Place(x, S, NewestFirst) = Place(y, S, NewestFirst) => x = y
  BY <1>3, <1>4 DEF Ranked
<1>10. InPlace(s, S)
  <2>1. \A i, j \in DOMAIN s : s[i] = s[j] => i = j
    BY <1>6, <1>8
  <2>2. \A x \in S : \E i \in DOMAIN s : s[i] = x
    BY <1>6, <1>7, <1>8, <1>9
  <2> QED BY <1>8, <2>1, <2>2 DEF InPlace
<1> QED BY <1>6, <1>7, <1>10 DEF s

(* Trees                                                                   *)

\* The trees of every number of levels.
TreeRun(t, S) ==
  /\ \A room \in 0..MaxAttachDepth : \A x \in S :
       t[room][x] = Node(x, room, IF room = 0 THEN <<>> ELSE t[room - 1], S)
  /\ AssembleSubtree(S) = t[MaxAttachDepth]

\* The trees are assembled from those with one level less.
LEMMA TreeSteps ==
  ASSUME NEW S
  PROVE  \E t : TreeRun(t, S)
<1> DEFINE N == MaxAttachDepth
           Step(n, below) == [x \in S |-> Node(x, n, below, S)]
           At0(f, k) == IF k = 0 THEN <<>> ELSE f[k - 1]
           Up(f, n) == f = [k \in 0..n |-> Step(k, At0(f, k))]
           T == {n \in 0..N : \E f : Up(f, n)}
<1> HIDE DEF Step
<1>1. N \in Nat
  BY LimitsAssumption
<1> HIDE DEF N
<1>2. 0 \in T
  <2> DEFINE f == [k \in 0..0 |-> Step(0, <<>>)]
  <2>1. Up(f, 0)
    OBVIOUS
  <2>2. 0 \in 0..N
    BY <1>1
  <2> HIDE DEF f, Up
  <2> QED BY <2>1, <2>2
<1>3. ASSUME NEW n \in 0..(N - 1), n \in T PROVE n + 1 \in T
  <2>1. PICK f : Up(f, n)
    BY <1>3
  <2> DEFINE g == [k \in 0..(n + 1) |-> IF k <= n THEN f[k] ELSE Step(n + 1, f[n])]
             h == [k \in 0..(n + 1) |-> Step(k, At0(g, k))]
  <2>2. ASSUME NEW k \in 0..(n + 1) PROVE g[k] = Step(k, At0(g, k))
    <3>1. CASE k = 0
      BY <1>1, <2>1, <3>1
    <3>2. CASE k \in 1..n
      <4>1. k - 1 \in 0..n /\ k \in 0..n /\ k - 1 \in 0..(n + 1) /\ k - 1 <= n /\ k <= n /\ k # 0
        BY <1>1, <3>2
      <4>2. f[k] = Step(k, f[k - 1])
        BY <2>1, <3>2, <4>1
      <4> QED BY <3>2, <4>1, <4>2
    <3>3. CASE k = n + 1
      <4>1. k - 1 = n /\ ~(k <= n) /\ n \in 0..(n + 1) /\ n <= n /\ k # 0
        BY <1>1, <3>3
      <4> QED BY <3>3, <4>1
    <3>4. k = 0 \/ k \in 1..n \/ k = n + 1
      BY <1>1, <2>2
    <3> QED BY <3>1, <3>2, <3>3, <3>4
  <2>3. g = h
    BY <2>2
  <2>4. Up(g, n + 1)
    BY <2>3
  <2>5. n + 1 \in 0..N
    BY <1>1
  <2> QED BY <2>4, <2>5
<1>4. N \in T
  <2> HIDE DEF T
  <2>1. \A n \in 0..N : n \in T
    BY <1>1, <1>2, <1>3, Induction
  <2> QED BY <1>1, <2>1
<1>5. \E f : Up(f, N)
  BY <1>4
<1> DEFINE e == CHOOSE f : Up(f, N)
<1>6. Up(e, N)
  BY <1>5
<1>7. AssembleSubtree(S) = e[N]
  BY DEF AssembleSubtree, Step, N
<1> HIDE DEF e
<1>8. ASSUME NEW n \in 0..N, NEW x \in S
      PROVE  e[n][x] = Node(x, n, IF n = 0 THEN <<>> ELSE e[n - 1], S)
  <2>1. e[n] = Step(n, At0(e, n))
    BY <1>6
  <2> QED BY <2>1 DEF Step
<1>9. TreeRun(e, S)
  BY <1>7, <1>8 DEF TreeRun, N
<1> QED BY <1>9

Least(m, n) == IF m < n THEN m ELSE n

\* Truncating keeps the first ones.
LEMMA TruncateIs ==
  ASSUME NEW X, NEW m \in Nat, NEW s \in [1..m -> X], NEW n \in Nat
  PROVE  /\ Truncate(s, n) = [i \in 1..Least(m, n) |-> s[i]]
         /\ Len(Truncate(s, n)) = Least(m, n)
         /\ Least(m, n) \in Nat /\ Least(m, n) <= m /\ Least(m, n) <= n
<1>1. s \in Seq(X) /\ Len(s) = m
  BY FunctionIsSeq
<1>2. Least(m, n) \in Nat /\ Least(m, n) <= m /\ Least(m, n) <= n
  BY DEF Least
<1>3. Truncate(s, n) = SubSeq(s, 1, Least(m, n))
  BY <1>1 DEF Truncate, Least
<1> DEFINE k == Least(m, n)
<1> HIDE DEF k
<1>4. k \in Nat /\ k <= m
  BY <1>2 DEF k
<1>5. SubSeq(s, 1, k) = [i \in 1..k |-> s[i]] /\ Len(SubSeq(s, 1, k)) = k
  BY <1>1, <1>4
<1> QED BY <1>2, <1>3, <1>5 DEF k

AttachedTo(id, S) == {x \in S : x.attach = id}
Kept(x, S) == Truncate(ChildrenOf(x.id, S), MaxChildren)

\* The children of an item are those that are attached to it, each in its place, and the
\* first of them are kept.
LEMMA ChildrenAre ==
  ASSUME NEW S, Ordered(S), NEW id
  PROVE  LET C == AttachedTo(id, S)
             M == Cardinality(C)
             k == Least(M, MaxChildren)
         IN  /\ C \in SUBSET S /\ Ordered(C) /\ M \in Nat
             /\ ChildrenOf(id, S) = Sorted(C, OldestFirst)
             /\ InPlace(ChildrenOf(id, S), C)
             /\ Len(ChildrenOf(id, S)) = M
             /\ Truncate(ChildrenOf(id, S), MaxChildren) = [i \in 1..k |-> ChildrenOf(id, S)[i]]
             /\ Len(Truncate(ChildrenOf(id, S), MaxChildren)) = k
             /\ k \in Nat /\ k <= M /\ k <= MaxChildren
             /\ \A i \in 1..k : ChildrenOf(id, S)[i] \in C
             /\ \A i \in 1..k : Place(ChildrenOf(id, S)[i], C, OldestFirst) = i
             /\ \A x \in C : Place(x, C, OldestFirst) \in 1..M
             /\ \A x \in C : \A i \in 1..M :
                  Place(x, C, OldestFirst) = i <=> ChildrenOf(id, S)[i] = x
<1> DEFINE C == AttachedTo(id, S)
           M == Cardinality(C)
           k == Least(M, MaxChildren)
           s == ChildrenOf(id, S)
<1>1. C \in SUBSET S
  BY DEF AttachedTo
<1>2. s = Sorted(C, OldestFirst)
  BY DEF ChildrenOf, AttachedTo
<1> HIDE DEF C, s
<1>3. Ordered(C) /\ M \in Nat
  <2>1. IsFiniteSet(C)
    BY <1>1, FS_Subset DEF Ordered
  <2>2. M \in Nat
    BY <2>1, FS_CardinalityType
  <2> QED BY <1>1, <2>1, <2>2 DEF Ordered
<1>4. /\ InPlace(s, C)
      /\ \A i \in 1..M : Place(s[i], C, OldestFirst) = i
      /\ \A x \in C : Place(x, C, OldestFirst) \in 1..M
  BY <1>2, <1>3, SortedOldest
<1> HIDE DEF M
<1>5. s \in [1..M -> C]
  BY <1>4 DEF InPlace, M
<1>6. Len(s) = M
  BY <1>3, <1>5, FunctionIsSeq
<1>7. MaxChildren \in Nat
  BY LimitsAssumption
<1>8. /\ Truncate(s, MaxChildren) = [i \in 1..k |-> s[i]]
      /\ Len(Truncate(s, MaxChildren)) = k
      /\ k \in Nat /\ k <= M /\ k <= MaxChildren
  BY <1>3, <1>5, <1>7, TruncateIs
<1>9. \A i \in 1..k : i \in 1..M
  BY <1>3, <1>8
<1>10. \A x \in C : \A i \in 1..M : Place(x, C, OldestFirst) = i <=> s[i] = x
  <2> TAKE x \in C
  <2> TAKE i \in 1..M
  <2>1. PICK j \in 1..M : s[j] = x
    BY <1>4, <1>5 DEF InPlace
  <2>2. Place(x, C, OldestFirst) = j
    BY <1>4, <2>1
  <2>3. s[i] = x => i = j
    BY <1>4, <1>5, <2>1 DEF InPlace
  <2> QED BY <2>1, <2>2, <2>3
<1> HIDE DEF k
<1>11. \A i \in 1..k : s[i] \in C /\ Place(s[i], C, OldestFirst) = i
  BY <1>4, <1>5, <1>9
<1> QED BY <1>1, <1>2, <1>3, <1>4, <1>6, <1>8, <1>10, <1>11 DEF C, M, k, s

\* An item on the screen, and the same one over other children.
OnScreen(x) ==
  x = [id |-> x.id, attach |-> x.attach, created_at |-> x.created_at, questions |-> x.questions,
       answer |-> x.answer, acknowledgement |-> x.acknowledgement, reactions |-> x.reactions,
       children |-> x.children]
Over(y, x) ==
  /\ y.id = x.id
  /\ y.attach = x.attach
  /\ y.questions = x.questions
  /\ y.answer = x.answer
  /\ y.acknowledgement = x.acknowledgement
  /\ y.reactions = x.reactions
Below0(t, room, kept) == [i \in DOMAIN kept |-> t[room][kept[i]].item]
Trees0(t, room, kept) == [i \in DOMAIN kept |-> t[room][kept[i]]]

\* The tree of an item is the item over the trees of the children that are kept.
LEMMA TreeNode ==
  ASSUME NEW S, Ordered(S), NEW t, TreeRun(t, S), NEW room \in 0..MaxAttachDepth,
         NEW x \in S, OnScreen(x)
  PROVE  /\ Over(t[room][x].item, x)
         /\ room = 0 => t[room][x].item.children = <<>>
         /\ room = 0 => t[room][x].dropped = Len(ChildrenOf(x.id, S)) - 0 + Dropped(<<>>)
         /\ room # 0 => t[room][x].item.children = Below0(t, room - 1, Kept(x, S))
         /\ room # 0 => t[room][x].dropped = Len(ChildrenOf(x.id, S)) - Len(Kept(x, S))
                                               + Dropped(Trees0(t, room - 1, Kept(x, S)))
<1> DEFINE below == IF room = 0 THEN <<>> ELSE t[room - 1]
           children == ChildrenOf(x.id, S)
           kept == IF room = 0 THEN <<>> ELSE Kept(x, S)
           subtrees == [i \in DOMAIN kept |-> below[kept[i]]]
           over == [i \in DOMAIN kept |-> subtrees[i].item]
<1>1. t[room][x] = Node(x, room, below, S)
  BY DEF TreeRun
<1>2. Node(x, room, below, S)
        = [item |-> [x EXCEPT !.children = over],
           dropped |-> Len(children) - Len(kept) + Dropped(subtrees)]
  BY DEF Node, Kept
<1> HIDE DEF below, children, kept, over, subtrees
<1>3. t[room][x].item = [x EXCEPT !.children = over]
        /\ t[room][x].dropped = Len(children) - Len(kept) + Dropped(subtrees)
  BY <1>1, <1>2
<1>4. LET y == [x EXCEPT !.children = over] IN Over(y, x) /\ y.children = over
  BY DEF Over, OnScreen
<1>5. Over(t[room][x].item, x) /\ t[room][x].item.children = over
  BY <1>3, <1>4
<1>6. CASE room = 0
  <2>1. kept = <<>> /\ Len(<<>>) = 0 /\ DOMAIN <<>> = {}
    BY <1>6 DEF kept
  <2>2. over = <<>> /\ subtrees = <<>>
    BY <2>1 DEF over, subtrees
  <2> QED BY <1>3, <1>5, <1>6, <2>1, <2>2 DEF children
<1>7. CASE room # 0
  <2>1. kept = Kept(x, S) /\ below = t[room - 1]
    BY <1>7 DEF kept, below
  <2>2. subtrees = Trees0(t, room - 1, Kept(x, S))
    BY <2>1 DEF subtrees, Trees0
  <2>3. over = Below0(t, room - 1, Kept(x, S))
    BY <2>1 DEF subtrees, over, Below0
  <2> QED BY <1>3, <1>5, <1>7, <2>1, <2>2, <2>3 DEF children
<1> QED BY <1>6, <1>7

\* The items of every level of a list of trees.
ScreenRun(b, items) ==
  /\ \A d \in 1..MaxAttachDepth :
       b[d] = UNION {Range(item.children) : item \in IF d = 1 THEN Range(items) ELSE b[d - 1]}
  /\ Flatten(items) = Range(items) \union UNION {b[d] : d \in 1..MaxAttachDepth}

\* They are found level by level.
LEMMA ScreenSteps ==
  ASSUME NEW items
  PROVE  \E b : ScreenRun(b, items)
<1> DEFINE N == MaxAttachDepth
           Step(P) == UNION {Range(item.children) : item \in P}
           From(f, k) == IF k = 1 THEN Range(items) ELSE f[k - 1]
           Up(f, n) == f = [k \in 1..n |-> Step(From(f, k))]
           T == {n \in 0..N : \E f : Up(f, n)}
<1> HIDE DEF Step
<1>1. N \in Nat
  BY LimitsAssumption
<1> HIDE DEF N
<1>2. 0 \in T
  <2> DEFINE f == [k \in 1..0 |-> 0]
  <2>1. Up(f, 0)
    OBVIOUS
  <2>2. 0 \in 0..N
    BY <1>1
  <2> HIDE DEF f, Up
  <2> QED BY <2>1, <2>2
<1>3. ASSUME NEW n \in 0..(N - 1), n \in T PROVE n + 1 \in T
  <2>1. PICK f : Up(f, n)
    BY <1>3
  <2> DEFINE g == [k \in 1..(n + 1) |-> IF k <= n THEN f[k] ELSE Step(From(f, n + 1))]
             h == [k \in 1..(n + 1) |-> Step(From(g, k))]
  <2>2. ASSUME NEW k \in 1..(n + 1) PROVE g[k] = Step(From(g, k))
    <3>1. CASE k <= n
      <4>1. k \in 1..n /\ (k # 1 => k - 1 \in 1..(n + 1) /\ k - 1 <= n)
        BY <1>1, <3>1
      <4>2. f[k] = Step(From(f, k))
        BY <2>1, <4>1
      <4>3. From(g, k) = From(f, k)
        BY <4>1
      <4> HIDE DEF From
      <4> QED BY <3>1, <4>2, <4>3
    <3>2. CASE k = n + 1
      <4>1. ~(k <= n) /\ (k # 1 => k - 1 \in 1..(n + 1) /\ k - 1 <= n)
        BY <1>1, <3>2
      <4>2. From(g, k) = From(f, k)
        BY <4>1
      <4> HIDE DEF From
      <4> QED BY <3>2, <4>1, <4>2
    <3>3. k <= n \/ k = n + 1
      BY <1>1, <2>2
    <3> QED BY <3>1, <3>2, <3>3
  <2>3. g = h
    BY <2>2
  <2>4. Up(g, n + 1)
    BY <2>3
  <2>5. n + 1 \in 0..N
    BY <1>1
  <2> QED BY <2>4, <2>5
<1>4. N \in T
  <2> HIDE DEF T
  <2>1. \A n \in 0..N : n \in T
    BY <1>1, <1>2, <1>3, Induction
  <2> QED BY <1>1, <2>1
<1>5. \E f : Up(f, N)
  BY <1>4
<1> DEFINE e == CHOOSE f : Up(f, N)
<1>6. Up(e, N)
  BY <1>5
<1>7. Flatten(items) = Range(items) \union UNION Range(e)
  BY DEF Flatten, Step, N
<1> HIDE DEF e
<1>8. ASSUME NEW d \in 1..N PROVE e[d] = Step(From(e, d))
  BY <1>6
<1>9. Range(e) = {e[d] : d \in 1..N}
  <2>1. DOMAIN e = 1..N
    BY <1>6
  <2> QED BY <2>1 DEF Range
<1>10. ScreenRun(e, items)
  BY <1>7, <1>8, <1>9 DEF ScreenRun, N, Step
<1> QED BY <1>10

\* Whatever a set has that holds the list and the children of its members, the screen
\* shows nothing else.
LEMMA ScreenWithin ==
  ASSUME NEW items, NEW W, Range(items) \subseteq W, \A y \in W : Range(y.children) \subseteq W
  PROVE  Flatten(items) \subseteq W
<1>1. PICK b : ScreenRun(b, items)
  BY ScreenSteps
<1> DEFINE N == MaxAttachDepth
           T == {n \in 0..N : n = 0 \/ b[n] \subseteq W}
<1>2. N \in Nat
  BY LimitsAssumption
<1>3. 0 \in T
  BY <1>2
<1>4. ASSUME NEW n \in 0..(N - 1), n \in T PROVE n + 1 \in T
  <2> DEFINE P == IF n + 1 = 1 THEN Range(items) ELSE b[(n + 1) - 1]
  <2>1. n + 1 \in 1..N /\ n + 1 \in 0..N /\ (n + 1) - 1 = n /\ (n + 1 = 1 <=> n = 0)
    BY <1>2
  <2>2. b[n + 1] = UNION {Range(item.children) : item \in P}
    BY <1>1, <2>1 DEF ScreenRun
  <2>3. P \subseteq W
    BY <1>4, <2>1
  <2> HIDE DEF P
  <2>4. b[n + 1] \subseteq W
    BY <2>2, <2>3
  <2> QED BY <2>1, <2>4
<1>5. \A n \in 0..N : n \in T
  <2> HIDE DEF T
  <2> QED BY <1>2, <1>3, <1>4, Induction
<1>6. \A n \in 1..N : b[n] \subseteq W
  <2>1. \A n \in 1..N : n \in 0..N /\ n # 0
    BY <1>2
  <2> QED BY <1>5, <2>1
<1>7. Flatten(items) = Range(items) \union UNION {b[d] : d \in 1..N}
  BY <1>1 DEF ScreenRun
<1> QED BY <1>6, <1>7

(* The projection of the rows                                              *)

Resolved(rows, account) == {Resolve(i, Collect(rows), account) : i \in All(rows, "item")}
Open(S) == {x \in S : x.attach = None /\ ~IsHidden(x)}

\* The items among the rows are finitely many, each with its own id.
LEMMA ItemsOrdered ==
  ASSUME NEW X, NEW rows \in Seq(X), Clean(rows)
  PROVE  Ordered(All(rows, "item"))
<1> DEFINE N == Len(rows)
           A == All(rows, "item")
<1>1. N \in Nat /\ DOMAIN rows = 1..N /\ \A p : p \in Range(rows) <=> \E i \in 1..N : p = rows[i]
  BY DEF Range
<1>2. IsFiniteSet(Range(rows))
  <2>1. rows \in Surjection(1..N, Range(rows))
    BY <1>1 DEF Surjection, Range
  <2>2. IsFiniteSet(1..N)
    BY <1>1, FS_Interval
  <2> QED BY <2>1, <2>2, FS_Surjection
<1>3. IsFiniteSet(A)
  <2>1. A \in SUBSET Range(rows)
    BY DEF All
  <2> QED BY <1>2, <2>1, FS_Subset
<1>4. ASSUME NEW a \in A
      PROVE  a # None /\ a.created_at \in Nat /\ a.id \in Nat /\ IdOf(a) = a.id
               /\ \E i \in 1..N : a = rows[i]
  <2>1. a # None /\ a.type = "item" /\ a \in Range(rows)
    BY DEF All
  <2>2. PICK i \in 1..N : a = rows[i]
    BY <1>1, <2>1
  <2>3. Readable(a)
    BY <1>1, <2>1, <2>2 DEF Clean
  <2> QED BY <2>1, <2>2, <2>3 DEF Readable, IdOf
<1>5. ASSUME NEW a \in A, NEW b \in A, a.id = b.id PROVE a = b
  <2>1. PICK i \in 1..N : a = rows[i]
    BY <1>4
  <2>2. PICK j \in 1..N : b = rows[j]
    BY <1>4
  <2>3. rows[i] # None /\ rows[j] # None /\ IdOf(rows[i]) = IdOf(rows[j])
    BY <1>4, <1>5, <2>1, <2>2
  <2>4. i = j
    BY <1>1, <2>3 DEF Clean
  <2> QED BY <2>1, <2>2, <2>4
<1> QED BY <1>3, <1>4, <1>5 DEF Ordered

\* So are the items on the screen.
LEMMA ResolvedOrdered ==
  ASSUME NEW X, NEW rows \in Seq(X), Clean(rows), NEW account
  PROVE  /\ Ordered(Resolved(rows, account))
         /\ \A x \in Resolved(rows, account) : OnScreen(x) /\ x.children = <<>>
<1> DEFINE A == All(rows, "item")
           S == Resolved(rows, account)
           c == Collect(rows)
           g == [i \in A |-> Resolve(i, c, account)]
<1>1. Ordered(A)
  BY ItemsOrdered
<1>2. \A x : x \in S <=> \E i \in A : x = Resolve(i, c, account)
  BY DEF Resolved
<1> HIDE DEF S, A, c
<1>3. \A i \in A : Resolve(i, c, account).id = i.id
                     /\ Resolve(i, c, account).created_at = i.created_at
                     /\ OnScreen(Resolve(i, c, account))
                     /\ Resolve(i, c, account).children = <<>>
  BY DEF Resolve, OnScreen
<1>4. IsFiniteSet(S)
  <2>1. g \in Surjection(A, S)
    BY <1>2 DEF Surjection
  <2>2. IsFiniteSet(A)
    BY <1>1 DEF Ordered
  <2> HIDE DEF g
  <2> QED BY <2>1, <2>2, FS_Surjection
<1>5. \A x \in S : x.created_at \in Nat /\ x.id \in Nat
  BY <1>1, <1>2, <1>3 DEF Ordered
<1>6. \A x, y \in S : x.id = y.id => x = y
  BY <1>1, <1>2, <1>3 DEF Ordered
<1>7. \A x \in S : OnScreen(x) /\ x.children = <<>>
  BY <1>2, <1>3
<1> QED BY <1>4, <1>5, <1>6, <1>7 DEF Ordered, S

\* The list shows the open items, each in its place, and the first of them are kept.
LEMMA TopIs ==
  ASSUME NEW S, Ordered(S)
  PROVE  LET C == Open(S)
             M == Cardinality(C)
             k == Least(M, MaxProjectedItems)
         IN  /\ C \in SUBSET S /\ M \in Nat
             /\ TopLevel(S) = [i \in 1..k |-> Sorted(C, NewestFirst)[i]]
             /\ k \in Nat /\ k <= M /\ k <= MaxProjectedItems
             /\ \A i \in 1..k : TopLevel(S)[i] \in C
             /\ \A x \in C : Place(x, C, NewestFirst) \in 1..M
             /\ \A x \in C : \A i \in 1..k : Place(x, C, NewestFirst) = i <=> TopLevel(S)[i] = x
<1> DEFINE C == Open(S)
           M == Cardinality(C)
           k == Least(M, MaxProjectedItems)
           s == Sorted(C, NewestFirst)
<1>1. C \in SUBSET S
  BY DEF Open
<1>2. TopLevel(S) = Truncate(s, MaxProjectedItems)
  BY DEF TopLevel, Open
<1> HIDE DEF C
<1>3. Ordered(C) /\ M \in Nat
  <2>1. IsFiniteSet(C)
    BY <1>1, FS_Subset DEF Ordered
  <2>2. M \in Nat
    BY <2>1, FS_CardinalityType
  <2> QED BY <1>1, <2>1, <2>2 DEF Ordered
<1>4. /\ InPlace(s, C)
      /\ \A i \in 1..M : Place(s[i], C, NewestFirst) = i
      /\ \A x \in C : Place(x, C, NewestFirst) \in 1..M
  BY <1>3, SortedNewest
<1> HIDE DEF M, s
<1>5. s \in [1..M -> C]
  BY <1>4 DEF InPlace, M
<1>6. MaxProjectedItems \in Nat
  BY LimitsAssumption
<1>7. /\ Truncate(s, MaxProjectedItems) = [i \in 1..k |-> s[i]]
      /\ Len(Truncate(s, MaxProjectedItems)) = k
      /\ k \in Nat /\ k <= M /\ k <= MaxProjectedItems
  BY <1>3, <1>5, <1>6, TruncateIs
<1> HIDE DEF k
<1>8. \A i \in 1..k : i \in 1..M
  BY <1>3, <1>7
<1>9. \A i \in 1..k : TopLevel(S)[i] = s[i] /\ s[i] \in C
  BY <1>2, <1>5, <1>7, <1>8
<1>10. \A x \in C : \A i \in 1..k : Place(x, C, NewestFirst) = i <=> TopLevel(S)[i] = x
  <2> TAKE x \in C
  <2> TAKE i \in 1..k
  <2>1. PICK j \in 1..M : s[j] = x
    BY <1>4, <1>5 DEF InPlace
  <2>2. Place(x, C, NewestFirst) = j
    BY <1>4, <2>1
  <2>3. s[i] = x => i = j
    BY <1>4, <1>5, <1>8, <2>1 DEF InPlace
  <2>4. TopLevel(S)[i] = s[i]
    BY <1>9
  <2> QED BY <2>1, <2>2, <2>3, <2>4
<1> QED BY <1>1, <1>2, <1>3, <1>4, <1>7, <1>9, <1>10 DEF C, M, k, s

\* The list of the screen.
LEMMA ProjectItems ==
  ASSUME NEW X, NEW rows \in Seq(X), Clean(rows), NEW account
  PROVE  LET S == Resolved(rows, account)
         IN  Project(rows, account).items
               = [i \in DOMAIN TopLevel(S) |-> AssembleSubtree(S)[TopLevel(S)[i]].item]
<1>1. PICK answers : CollectedAll(Collect(rows), answers, rows)
  BY CollectIs
<1>2. Collect(rows).items = All(rows, "item")
  BY <1>1 DEF CollectedAll, Gathered
<1> DEFINE S == Resolved(rows, account)
<1>3. {Resolve(item, Collect(rows), account) : item \in Collect(rows).items} = S
  BY <1>2 DEF Resolved
<1> HIDE DEF S
<1>4. Project(rows, account).items
        = [i \in DOMAIN TopLevel(S) |-> AssembleSubtree(S)[TopLevel(S)[i]].item]
  BY <1>3 DEF Project
<1> QED BY <1>4 DEF S

\* An item of the screen that shows one of the rows, with the latest valid answer among them.
Shows(item, rows) ==
  \E i \in All(rows, "item") :
    /\ item.id = i.id
    /\ item.questions = i.questions
    /\ item.answer = Latest({a \in All(rows, "answer") : ValidFor(i, a)})

\* Every item on the screen, at any level, does.
LEMMA ShownItem ==
  ASSUME NEW X, NEW rows \in Seq(X), Clean(rows), NEW account,
         NEW item \in Flatten(Project(rows, account).items)
  PROVE  Shows(item, rows)
<1> DEFINE S == Resolved(rows, account)
           items == Project(rows, account).items
           D == MaxAttachDepth
<1>1. Ordered(S) /\ \A x \in S : OnScreen(x)
  BY ResolvedOrdered
<1>2. PICK t : TreeRun(t, S)
  BY TreeSteps
<1> DEFINE W == UNION {{t[r][x].item : x \in S} : r \in 0..D}
<1>3. D \in Nat
  BY LimitsAssumption
<1>4. \A y : y \in W <=> \E r \in 0..D : \E x \in S : y = t[r][x].item
  OBVIOUS
<1>5. Range(items) \subseteq W
  <2> DEFINE top == TopLevel(S)
             k == Least(Cardinality(Open(S)), MaxProjectedItems)
  <2>1. DOMAIN top = 1..k /\ \A i \in 1..k : top[i] \in S
    <3> HIDE DEF S
    <3> QED BY <1>1, TopIs
  <2>2. items = [i \in DOMAIN top |-> AssembleSubtree(S)[top[i]].item]
    BY ProjectItems
  <2>3. AssembleSubtree(S) = t[D]
    BY <1>2 DEF TreeRun
  <2>4. D \in 0..D
    BY <1>3
  <2> HIDE DEF items, top, k, W, S
  <2>5. ASSUME NEW y \in Range(items) PROVE y \in W
    <3>1. PICK i \in DOMAIN top : y = AssembleSubtree(S)[top[i]].item
      BY <2>2, <2>5 DEF Range
    <3>2. top[i] \in S /\ y = t[D][top[i]].item
      BY <2>1, <2>3, <3>1
    <3> QED BY <1>4, <2>4, <3>2
  <2> QED BY <2>5
<1> HIDE DEF W
<1>6. ASSUME NEW y \in W PROVE Range(y.children) \subseteq W
  <2>1. PICK r \in 0..D : \E x \in S : y = t[r][x].item
    BY <1>4, <1>6
  <2>2. PICK x \in S : y = t[r][x].item
    BY <2>1
  <2> DEFINE kept == Kept(x, S)
  <2>3. /\ r = 0 => y.children = <<>>
        /\ r # 0 => y.children = Below0(t, r - 1, kept)
    <3> HIDE DEF S
    <3> QED BY <1>1, <1>2, <2>2, TreeNode
  <2>4. CASE r = 0
    BY <2>3, <2>4 DEF Range
  <2>5. CASE r # 0
    <3>1. \A i \in DOMAIN kept : kept[i] \in S
      <4> HIDE DEF S
      <4> QED BY <1>1, ChildrenAre DEF Kept
    <3>2. r - 1 \in 0..D
      BY <1>3, <2>5
    <3> HIDE DEF kept
    <3>3. ASSUME NEW z \in Range(y.children) PROVE z \in W
      <4>1. PICK i \in DOMAIN kept : z = t[r - 1][kept[i]].item
        BY <2>3, <2>5, <3>3 DEF Range, Below0
      <4> QED BY <1>4, <3>1, <3>2, <4>1
    <3> QED BY <3>3
  <2> QED BY <2>4, <2>5
<1>7. item \in W
  <2> HIDE DEF items
  <2>1. Flatten(items) \subseteq W
    BY <1>5, <1>6, ScreenWithin
  <2> QED BY <2>1 DEF items
<1>8. PICK r \in 0..D : \E x \in S : item = t[r][x].item
  BY <1>4, <1>7
<1>9. PICK x \in S : item = t[r][x].item
  BY <1>8
<1>10. Over(item, x)
  <2> HIDE DEF S
  <2> QED BY <1>1, <1>2, <1>9, TreeNode
<1>11. PICK i \in All(rows, "item") : x = Resolve(i, Collect(rows), account)
  BY <1>9 DEF Resolved
<1>12. x.id = i.id /\ x.questions = i.questions /\ x.answer = BestAnswer(i, Collect(rows).answers)
  BY <1>11 DEF Resolve
<1>13. PICK answers : CollectedAll(Collect(rows), answers, rows)
  BY CollectIs
<1>14. BestAnswer(i, Collect(rows).answers) = Latest({a \in All(rows, "answer") : ValidFor(i, a)})
  <2> DEFINE A == All(rows, "answer")
  <2>1. Collect(rows).answers = answers
    BY <1>13 DEF CollectedAll, Gathered
  <2>2. answers \in Seq(A) /\ Range(answers) = A /\ Comparable(A)
    BY <1>13 DEF CollectedAll, InOrder
  <2>3. None \notin A
    BY DEF All
  <2> HIDE DEF A
  <2>4. BestAnswer(i, answers) = Latest({a \in A : ValidFor(i, a)})
    BY <2>2, <2>3, BestAnswerIs
  <2> QED BY <2>1, <2>4 DEF A
<1> QED BY <1>10, <1>12, <1>14 DEF Over, Shows

(* The session                                                             *)

\* The event of a published item is that item's, and no other's.
Posted(items, g) ==
  \A d \in items :
    /\ d \in FrozenSpokenItem(d.author)
    /\ ValidSpokenItem(d)
    /\ d.id \in DOMAIN g
    /\ g[d.id] = Parse(ComposeSpokenItem(d))
    /\ \A a \in Replies : a.id # d.id

\* What is read of an event carries its id.
Identified(g) ==
  \A id \in DOMAIN g :
    /\ id \in Nat
    /\ g[id] # None => Readable(g[id]) /\ IdOf(g[id]) = id

\* No event is twice in a frame.
FrameOf(frame, g) == frame \in Seq(DOMAIN g) /\ IsInjective(frame)

\* An item that is shown asks what was published.
AsksMeant(items, known) ==
  \A item \in Flatten(items) : \A d \in known :
    item.id = d.id => item.questions = MeantQuestions(d.questions)

\* An answer that was sent is the event of its id, and answers the published questions.
Delivered(answers, items, g) ==
  /\ answers \subseteq Replies
  /\ \A a \in Replies : a.id \in DOMAIN g => a \in answers
  /\ \A a \in answers :
       /\ ComposeAnswer(a) # None
       /\ a.id \in DOMAIN g
       /\ g[a.id] = Parse(ComposeAnswer(a))
       /\ \A d \in items : d.id = a.root_event_id => ValidAnswer(d.questions, a.answers)

\* The queue is that of the last frame with rows, and of the account of now; what it
\* shows, also after a frame without rows, is what was published.
SessionInv ==
  /\ Posted(published, group)
  /\ Identified(group)
  /\ FrameOf(feed, group)
  /\ feed # <<>> => queue = Project(Parsed(feed), viewer)
  /\ AsksMeant(queue.items, published)
  /\ Delivered(sent, published, group)

\* What the events of a frame parse to, in any state.
RowsOf(frame, g) == [i \in DOMAIN frame |-> g[frame[i]]]

\* The rows of a frame can be told apart.
LEMMA RowsClean ==
  ASSUME NEW g, Identified(g), NEW frame, FrameOf(frame, g)
  PROVE  /\ RowsOf(frame, g) \in Seq({g[id] : id \in DOMAIN g})
         /\ DOMAIN RowsOf(frame, g) = DOMAIN frame
         /\ Len(RowsOf(frame, g)) = Len(frame)
         /\ \A i \in DOMAIN frame : frame[i] \in DOMAIN g /\ RowsOf(frame, g)[i] = g[frame[i]]
         /\ Clean(RowsOf(frame, g))
<1> DEFINE X == {g[id] : id \in DOMAIN g}
           N == Len(frame)
           rows == RowsOf(frame, g)
<1>1. N \in Nat /\ DOMAIN frame = 1..N /\ \A i \in 1..N : frame[i] \in DOMAIN g
  BY DEF FrameOf
<1>2. rows = [i \in 1..N |-> g[frame[i]]]
  BY <1>1 DEF RowsOf
<1> HIDE DEF rows, N
<1>3. rows \in [1..N -> X]
  BY <1>1, <1>2
<1>4. rows \in Seq(X) /\ Len(rows) = N
  <2> HIDE DEF X
  <2> QED BY <1>1, <1>3, FunctionIsSeq
<1>5. DOMAIN rows = 1..N /\ \A i \in 1..N : rows[i] = g[frame[i]]
  BY <1>2
<1>6. ASSUME NEW i \in 1..N, rows[i] # None
      PROVE  Readable(rows[i]) /\ IdOf(rows[i]) = frame[i]
  BY <1>1, <1>5, <1>6 DEF Identified
<1>7. \A i, j \in 1..N : frame[i] = frame[j] => i = j
  BY <1>1 DEF FrameOf, IsInjective
<1>8. Clean(rows)
  BY <1>5, <1>6, <1>7 DEF Clean
<1> QED BY <1>1, <1>4, <1>5, <1>8 DEF rows, N

\* A row of the frame is what the event of its id parses to.
LEMMA RowOf ==
  ASSUME NEW g, Identified(g), NEW frame, FrameOf(frame, g),
         NEW type, NEW p \in All(RowsOf(frame, g), type)
  PROVE  /\ p # None /\ p.type = type
         /\ IdOf(p) \in Range(frame) /\ IdOf(p) \in DOMAIN g /\ p = g[IdOf(p)]
<1> DEFINE rows == RowsOf(frame, g)
<1>1. p # None /\ p.type = type /\ p \in Range(rows)
  BY DEF All
<1>2. DOMAIN rows = DOMAIN frame /\ \A i \in DOMAIN frame : rows[i] = g[frame[i]]
  BY DEF RowsOf
<1>5. \A i \in DOMAIN frame : frame[i] \in DOMAIN g
  BY DEF FrameOf
<1> HIDE DEF rows
<1>3. PICK i \in DOMAIN frame : p = g[frame[i]] /\ frame[i] \in DOMAIN g
  BY <1>1, <1>2, <1>5 DEF Range
<1>4. IdOf(p) = frame[i]
  BY <1>1, <1>3 DEF Identified
<1> QED BY <1>1, <1>3, <1>4 DEF Range

\* An item of the rows that the daemon published is what was meant.
LEMMA PublishedRow ==
  ASSUME NEW g, Identified(g), NEW frame, FrameOf(frame, g), NEW items, Posted(items, g),
         NEW i \in All(RowsOf(frame, g), "item"), NEW d \in items, i.id = d.id
  PROVE  i = Meant(d) /\ i.questions = MeantQuestions(d.questions)
<1>1. i # None /\ i.type = "item" /\ i = g[IdOf(i)]
  BY RowOf
<1>2. IdOf(i) = d.id
  BY <1>1 DEF IdOf
<1>3. i = Parse(ComposeSpokenItem(d)) /\ d \in FrozenSpokenItem(d.author) /\ ValidSpokenItem(d)
  BY <1>1, <1>2 DEF Posted
<1>4. Parse(ComposeSpokenItem(d)) = IF BoundedLabels(d) THEN Meant(d) ELSE None
  BY <1>3, ItemRoundTrip
<1>5. i = Meant(d)
  BY <1>1, <1>3, <1>4
<1> QED BY <1>5 DEF Meant

\* The screen asks what was published.
LEMMA ScreenAsks ==
  ASSUME NEW g, Identified(g), NEW frame, FrameOf(frame, g), NEW items, Posted(items, g), NEW account
  PROVE  AsksMeant(Project(RowsOf(frame, g), account).items, items)
<1> DEFINE X == {g[id] : id \in DOMAIN g}
           rows == RowsOf(frame, g)
<1>1. rows \in Seq(X) /\ Clean(rows)
  BY RowsClean
<1> HIDE DEF X, rows
<1>2. ASSUME NEW item \in Flatten(Project(rows, account).items), NEW d \in items, item.id = d.id
      PROVE  item.questions = MeantQuestions(d.questions)
  <2>0. Shows(item, rows)
    BY <1>1, ShownItem
  <2>1. PICK i \in All(rows, "item") :
               /\ item.id = i.id
               /\ item.questions = i.questions
    BY <2>0 DEF Shows
  <2>2. i \in All(RowsOf(frame, g), "item") /\ i.id = d.id
    BY <1>2, <2>1 DEF rows
  <2>3. i.questions = MeantQuestions(d.questions)
    BY <2>2, PublishedRow
  <2> QED BY <2>1, <2>3
<1> QED BY <1>2 DEF AsksMeant, rows

\* What is read of an event carries its id.
LEMMA ParsedEvent ==
  ASSUME NEW e, e.id \in Nat, e.created_at \in Nat, Parse(e) # None,
         e.author # None \/ Parse(e).type = "item"
  PROVE  Readable(Parse(e)) /\ IdOf(Parse(e)) = e.id
<1> DEFINE p == Parse(e)
<1>1. \/ p.type = "item" /\ p.id = e.id /\ p.created_at = e.created_at
      \/ /\ p.type \in {"answer", "ack", "reaction"}
         /\ p.event_id = e.id /\ p.author = e.author /\ p.created_at = e.created_at
  BY ParseTypes
<1>2. e.author # None \/ p.type = "item"
  OBVIOUS
<1> HIDE DEF p
<1>3. Readable(p) /\ IdOf(p) = e.id
  BY <1>1, <1>2 DEF Readable, IdOf
<1> QED BY <1>3 DEF p

\* The events of a group's published items and of other programs.
Sent(items, foreign) == {ComposeSpokenItem(d) : d \in items} \union foreign

\* A group at the start: every event is read by its id.
LEMMA GroupAtStart ==
  ASSUME NEW h \in Groups, NEW items, items = {d \in h.items : ComposeSpokenItem(d) # None},
         NEW g, g = ParseAll(Sent(items, h.foreign))
  PROVE  /\ Posted(items, g)
         /\ Identified(g)
         /\ \A a \in Replies : a.id \notin DOMAIN g
<1> DEFINE E == Sent(items, h.foreign)
<1>1. ASSUME NEW d \in items
      PROVE  /\ d \in h.items /\ d \in FrozenSpokenItem(d.author) /\ ValidSpokenItem(d)
             /\ ComposeSpokenItem(d).id = d.id /\ d.id \in Nat
             /\ ComposeSpokenItem(d).created_at = d.created_at /\ d.created_at \in Nat
             /\ ComposeSpokenItem(d) \in Events(h)
             /\ Parse(ComposeSpokenItem(d)) # None => Parse(ComposeSpokenItem(d)).type = "item"
  <2>1. d \in h.items /\ ValidSpokenItem(d)
    BY DEF ComposeSpokenItem
  <2>2. d \in FrozenSpokenItem(d.author)
    BY <2>1, EventsAssumption
  <2>3. d.id \in Nat /\ d.created_at \in Nat
    BY <2>2 DEF FrozenSpokenItem
  <2>4. ComposeSpokenItem(d) = GroupSend(d, d.body, Tags(d))
    BY <2>1 DEF ComposeSpokenItem
  <2>5. ComposeSpokenItem(d).id = d.id /\ ComposeSpokenItem(d).created_at = d.created_at
    BY <2>4 DEF GroupSend
  <2>6. ComposeSpokenItem(d) \in Events(h)
    BY <2>1 DEF Events
  <2>7. Parse(ComposeSpokenItem(d)) = IF BoundedLabels(d) THEN Meant(d) ELSE None
    BY <2>1, <2>2, ItemRoundTrip
  <2>8. Meant(d).type = "item"
    BY DEF Meant
  <2> QED BY <2>1, <2>2, <2>3, <2>5, <2>6, <2>7, <2>8
<1>2. \A e : e \in E <=> e \in h.foreign \/ \E d \in items : e = ComposeSpokenItem(d)
  BY DEF Sent
<1> HIDE DEF E
<1>3. ASSUME NEW e \in E
      PROVE  /\ e \in Events(h) /\ e.id \in Nat /\ e.created_at \in Nat
             /\ e.author # None \/ (Parse(e) # None => Parse(e).type = "item")
  <2>1. CASE e \in h.foreign
    <3>1. e.id \in Nat /\ e.created_at \in Nat /\ e.author # None
      BY <2>1, EventsAssumption
    <3>2. e \in Events(h)
      BY <2>1 DEF Events
    <3> QED BY <3>1, <3>2
  <2>2. CASE \E d \in items : e = ComposeSpokenItem(d)
    BY <1>1, <2>2
  <2> QED BY <1>2, <2>1, <2>2
<1>4. \A e, f \in Events(h) : e.id = f.id => e = f
  BY EventsAssumption
<1>5. \A e \in Events(h), a \in Replies : e.id # a.id
  BY EventsAssumption
<1>6. g = [id \in {e.id : e \in E} |-> Parse(CHOOSE e \in E : e.id = id)]
  BY DEF ParseAll, E
<1>7. \A id : id \in DOMAIN g <=> \E e \in E : id = e.id
  BY <1>6
<1>8. ASSUME NEW e \in E PROVE e.id \in DOMAIN g /\ g[e.id] = Parse(e)
  <2> DEFINE f == CHOOSE x \in E : x.id = e.id
  <2>1. f \in E /\ f.id = e.id
    OBVIOUS
  <2>2. g[e.id] = Parse(f)
    BY <1>6
  <2> HIDE DEF f
  <2>3. f = e
    BY <1>3, <1>4, <2>1
  <2> QED BY <1>7, <2>2, <2>3
<1>9. \A a \in Replies : a.id \notin DOMAIN g
  BY <1>3, <1>5, <1>7
<1>10. Identified(g)
  <2>1. ASSUME NEW id \in DOMAIN g
        PROVE  id \in Nat /\ (g[id] # None => Readable(g[id]) /\ IdOf(g[id]) = id)
    <3>1. PICK e \in E : id = e.id
      BY <1>7
    <3>2. /\ g[id] = Parse(e) /\ e.id \in Nat /\ e.created_at \in Nat
          /\ e.author # None \/ (Parse(e) # None => Parse(e).type = "item")
      BY <1>3, <1>8, <3>1
    <3>3. Parse(e) # None => Readable(Parse(e)) /\ IdOf(Parse(e)) = e.id
      BY <3>2, ParsedEvent
    <3> QED BY <3>1, <3>2, <3>3
  <2> QED BY <2>1 DEF Identified
<1>11. Posted(items, g)
  <2>1. ASSUME NEW d \in items
        PROVE  /\ d \in FrozenSpokenItem(d.author)
               /\ ValidSpokenItem(d)
               /\ d.id \in DOMAIN g
               /\ g[d.id] = Parse(ComposeSpokenItem(d))
               /\ \A a \in Replies : a.id # d.id
    <3>1. ComposeSpokenItem(d) \in E
      BY <1>2
    <3> QED BY <1>1, <1>5, <1>8, <3>1
  <2> QED BY <2>1 DEF Posted
<1> QED BY <1>9, <1>10, <1>11

\* The invariant holds at the start.
LEMMA SessionStarts == Init => SessionInv
<1> SUFFICES ASSUME Init PROVE SessionInv
  OBVIOUS
<1>1. PICK h \in Groups : /\ published = {d \in h.items : ComposeSpokenItem(d) # None}
                          /\ group = ParseAll(Sent(published, h.foreign))
  BY DEF Init, Sent
<1>2. /\ Posted(published, group)
      /\ Identified(group)
      /\ \A a \in Replies : a.id \notin DOMAIN group
  BY <1>1, GroupAtStart
<1>3. feed = <<>> /\ queue.items = <<>> /\ sent = {}
  BY DEF Init, EmptyQueue
<1>4. FrameOf(feed, group)
  BY <1>3 DEF FrameOf, IsInjective
<1>5. AsksMeant(queue.items, published)
  <2>1. Range(<<>>) \subseteq {}
    BY DEF Range
  <2>2. Flatten(<<>>) \subseteq {}
    BY <2>1, ScreenWithin
  <2> QED BY <1>3, <2>2 DEF AsksMeant
<1>6. Delivered(sent, published, group)
  BY <1>2, <1>3 DEF Delivered
<1> QED BY <1>2, <1>3, <1>4, <1>5, <1>6 DEF SessionInv

\* A frame with one event more.
LEMMA FrameMore ==
  ASSUME NEW g, NEW frame, FrameOf(frame, g), NEW id \in DOMAIN g \ Range(frame)
  PROVE  FrameOf(Append(frame, id), g)
<1> DEFINE N == Len(frame)
           more == Append(frame, id)
<1>1. frame \in Seq(DOMAIN g) /\ N \in Nat /\ DOMAIN frame = 1..N
  BY DEF FrameOf
<1>2. /\ more \in Seq(DOMAIN g) /\ DOMAIN more = 1..(N + 1) /\ more[N + 1] = id
      /\ \A i \in 1..N : more[i] = frame[i]
  BY <1>1
<1>3. \A i \in 1..N : frame[i] # id
  BY <1>1 DEF Range
<1>4. \A i, j \in 1..N : frame[i] = frame[j] => i = j
  BY <1>1 DEF FrameOf, IsInjective
<1>5. \A k : k \in 1..(N + 1) <=> k \in 1..N \/ k = N + 1
  BY <1>1
<1> HIDE DEF more, N
<1>6. IsInjective(more)
  BY <1>2, <1>3, <1>4, <1>5 DEF IsInjective
<1> QED BY <1>2, <1>6 DEF FrameOf, more

\* A frame with one event less.
LEMMA FrameLess ==
  ASSUME NEW g, NEW frame, FrameOf(frame, g), NEW i \in DOMAIN frame
  PROVE  FrameOf(RemoveAt(frame, i), g)
<1> DEFINE N == Len(frame)
           less == RemoveAt(frame, i)
           old(k) == IF k < i THEN k ELSE k + 1
<1>1. frame \in Seq(DOMAIN g) /\ N \in Nat /\ DOMAIN frame = 1..N /\ i \in 1..N
  BY DEF FrameOf
<1>2. less = SubSeq(frame, 1, i - 1) \o SubSeq(frame, i + 1, N)
  BY DEF RemoveAt
<1>3. /\ SubSeq(frame, 1, i - 1) \in Seq(DOMAIN g) /\ Len(SubSeq(frame, 1, i - 1)) = i - 1
      /\ \A k \in 1..(i - 1) : SubSeq(frame, 1, i - 1)[k] = frame[k]
  BY <1>1
<1>4. /\ SubSeq(frame, i + 1, N) \in Seq(DOMAIN g) /\ Len(SubSeq(frame, i + 1, N)) = N - i
      /\ \A k \in 1..(N - i) : SubSeq(frame, i + 1, N)[k] = frame[k + i]
  BY <1>1
<1> DEFINE s == SubSeq(frame, 1, i - 1)
           r == SubSeq(frame, i + 1, N)
<1> HIDE DEF s, r, less, N
<1>5. less \in Seq(DOMAIN g) /\ DOMAIN less = 1..(N - 1)
  <2>1. less = s \o r /\ s \in Seq(DOMAIN g) /\ r \in Seq(DOMAIN g)
    BY <1>2, <1>3, <1>4 DEF s, r
  <2>2. Len(s) = i - 1 /\ Len(r) = N - i
    BY <1>3, <1>4 DEF s, r
  <2>3. less \in Seq(DOMAIN g) /\ Len(less) = Len(s) + Len(r)
    BY <2>1
  <2>4. Len(s) + Len(r) = N - 1
    BY <1>1, <2>2
  <2> QED BY <2>3, <2>4
<1>6. ASSUME NEW k \in 1..(N - 1) PROVE less[k] = frame[old(k)] /\ old(k) \in 1..N
  <2>1. less = s \o r /\ s \in Seq(DOMAIN g) /\ r \in Seq(DOMAIN g)
    BY <1>2, <1>3, <1>4 DEF s, r
  <2>2. Len(s) = i - 1 /\ Len(r) = N - i
    BY <1>3, <1>4 DEF s, r
  <2>3. CASE k < i
    <3>1. k \in 1..(i - 1)
      BY <1>1, <2>3
    <3>2. less[k] = s[k]
      BY <2>1, <2>2, <3>1
    <3>3. s[k] = frame[k]
      BY <1>3, <3>1 DEF s
    <3> QED BY <1>1, <2>3, <3>2, <3>3
  <2>4. CASE ~(k < i)
    <3>1. k - (i - 1) \in 1..(N - i) /\ (k - (i - 1)) + i = k + 1 /\ k \in (i - 1) + 1 .. (i - 1) + (N - i)
      BY <1>1, <2>4
    <3>2. less[k] = r[k - (i - 1)]
      BY <2>1, <2>2, <3>1
    <3>3. r[k - (i - 1)] = frame[(k - (i - 1)) + i]
      BY <1>4, <3>1 DEF r
    <3> QED BY <1>1, <2>4, <3>1, <3>2, <3>3
  <2> QED BY <2>3, <2>4
<1>7. \A k, m \in 1..N : frame[k] = frame[m] => k = m
  BY <1>1 DEF FrameOf, IsInjective
<1>8. \A k, m \in 1..(N - 1) : old(k) = old(m) => k = m
  BY <1>1
<1> HIDE DEF old
<1>9. IsInjective(less)
  BY <1>5, <1>6, <1>7, <1>8 DEF IsInjective
<1> QED BY <1>5, <1>9 DEF FrameOf, less

\* The session takes the frame of NMP, or another account.
LEMMA ReprojectKeeps ==
  ASSUME SessionInv, NEW frame, FrameOf(frame, group), NEW account,
         feed' = frame, Reproject(frame, account), viewer' = account,
         UNCHANGED <<published, group, sent>>
  PROVE  SessionInv'
<1>1. /\ Posted(published, group)
      /\ Identified(group)
      /\ AsksMeant(queue.items, published)
      /\ Delivered(sent, published, group)
  BY DEF SessionInv
<1>2. Parsed(frame) = RowsOf(frame, group)
  BY DEF Parsed, RowsOf
<1>3. frame # <<>> => queue' = Project(RowsOf(frame, group), account)
  BY <1>2 DEF Reproject
<1>4. AsksMeant(Project(RowsOf(frame, group), account).items, published)
  BY <1>1, ScreenAsks
<1>5. AsksMeant(queue'.items, published)
  BY <1>1, <1>3, <1>4 DEF Reproject
<1>6. Parsed(feed)' = RowsOf(frame, group)
  BY DEF Parsed, RowsOf
<1>7. feed' # <<>> => queue' = Project(Parsed(feed)', viewer')
  BY <1>3, <1>6
<1>8. /\ Posted(published', group')
      /\ Identified(group')
      /\ FrameOf(feed', group')
      /\ AsksMeant(queue'.items, published')
      /\ Delivered(sent', published', group')
  BY <1>1, <1>5
<1> QED BY <1>7, <1>8 DEF SessionInv

\* An answer that the user gives: the session has not changed, but for the group.
LEMMA SubmitKeeps ==
  ASSUME SessionInv, NEW a \in Replies, SubmitAnswer(a)
  PROVE  SessionInv'
<1> DEFINE q == Parse(ComposeAnswer(a))
           h == [id \in DOMAIN group \union {a.id} |-> IF id = a.id THEN q ELSE group[id]]
<1>1. /\ Posted(published, group)
      /\ Identified(group)
      /\ FrameOf(feed, group)
      /\ feed # <<>> => queue = Project(Parsed(feed), viewer)
      /\ AsksMeant(queue.items, published)
      /\ Delivered(sent, published, group)
  BY DEF SessionInv
<1>2. /\ a \notin sent
      /\ ComposeAnswer(a) # None
      /\ sent' = sent \union {a}
      /\ group' = h
      /\ UNCHANGED <<published, feed, viewer, queue>>
  BY DEF SubmitAnswer
<1>3. PICK item \in Visible(a.root_event_id) : ValidAnswer(item.questions, a.answers)
  BY DEF SubmitAnswer
<1>4. a.id \notin DOMAIN group
  BY <1>1, <1>2 DEF Delivered
<1>5. a \in FrozenAnswer(a.author) /\ \A b \in Replies : a.id = b.id => a = b
  BY EventsAssumption
<1>6. q = [type |-> "answer", root_id |-> a.root_event_id, event_id |-> a.id,
           author |-> a.author, created_at |-> a.created_at, value |-> ReadAnswers(a.answers)]
  BY <1>2, <1>5, AnswerRoundTrip
<1>7. a.id \in Nat /\ a.created_at \in Nat /\ a.author # None
  BY <1>5, EventsAssumption DEF FrozenAnswer
<1>8. Readable(q) /\ IdOf(q) = a.id
  BY <1>6, <1>7 DEF Readable, IdOf
<1> HIDE DEF q
<1>9. /\ \A id : id \in DOMAIN h <=> id \in DOMAIN group \/ id = a.id
      /\ h[a.id] = q
      /\ \A id \in DOMAIN group : h[id] = group[id]
  BY <1>4
<1> HIDE DEF h
<1>10. Posted(published, h)
  BY <1>1, <1>9 DEF Posted
<1>11. Identified(h)
  BY <1>1, <1>7, <1>8, <1>9 DEF Identified
<1>12. FrameOf(feed, h)
  <2>1. DOMAIN group \subseteq DOMAIN h
    BY <1>9
  <2>2. feed \in Seq(DOMAIN group)
    BY <1>1 DEF FrameOf
  <2>3. feed \in Seq(DOMAIN h)
    BY <2>1, <2>2
  <2> QED BY <1>1, <2>3 DEF FrameOf
<1>13. Parsed(feed)' = Parsed(feed)
  <2>1. \A i \in DOMAIN feed : feed[i] \in DOMAIN group
    BY <1>1 DEF FrameOf
  <2>2. \A i \in DOMAIN feed : h[feed[i]] = group[feed[i]]
    BY <1>9, <2>1
  <2>3. Parsed(feed)' = [i \in DOMAIN feed |-> h[feed[i]]]
    BY <1>2 DEF Parsed
  <2> QED BY <2>2, <2>3 DEF Parsed
<1>14. ASSUME NEW d \in published, d.id = a.root_event_id PROVE ValidAnswer(d.questions, a.answers)
  <2>1. item \in Flatten(queue.items) /\ item.id = d.id
    BY <1>3, <1>14 DEF Visible
  <2>2. item.questions = MeantQuestions(d.questions)
    BY <1>1, <2>1 DEF AsksMeant
  <2>3. d \in FrozenSpokenItem(d.author) /\ ValidSpokenItem(d)
    BY <1>1 DEF Posted
  <2>4. d.questions \in Seq(Question) /\ ValidQuestions(d.questions)
    BY <2>3 DEF FrozenSpokenItem, ValidSpokenItem
  <2>5. ValidAnswer(MeantQuestions(d.questions), a.answers) <=> ValidAnswer(d.questions, a.answers)
    BY <2>4, MeantQuestionsAccept
  <2> QED BY <1>3, <2>2, <2>5
<1>15. Delivered(sent', published, h)
  <2>1. sent' \subseteq Replies
    BY <1>1, <1>2 DEF Delivered
  <2>2. \A b \in Replies : b.id \in DOMAIN h => b \in sent'
    BY <1>1, <1>2, <1>5, <1>9 DEF Delivered
  <2>3. ASSUME NEW b \in sent'
        PROVE  /\ ComposeAnswer(b) # None
               /\ b.id \in DOMAIN h
               /\ h[b.id] = Parse(ComposeAnswer(b))
               /\ \A d \in published : d.id = b.root_event_id => ValidAnswer(d.questions, b.answers)
    <3>1. CASE b = a
      BY <1>2, <1>9, <1>14, <3>1 DEF q
    <3>2. CASE b \in sent
      BY <1>1, <1>9, <3>2 DEF Delivered
    <3> QED BY <1>2, <3>1, <3>2
  <2> QED BY <2>1, <2>2, <2>3 DEF Delivered
<1>16. feed' # <<>> => queue' = Project(Parsed(feed)', viewer')
  BY <1>1, <1>2, <1>13
<1>17. /\ Posted(published', group')
       /\ Identified(group')
       /\ FrameOf(feed', group')
       /\ AsksMeant(queue'.items, published')
       /\ Delivered(sent', published', group')
  BY <1>1, <1>2, <1>10, <1>11, <1>12, <1>15
<1> QED BY <1>16, <1>17 DEF SessionInv

\* Every step keeps the invariant.
LEMMA SessionSteps == SessionInv /\ [Next]_vars => SessionInv'
<1> SUFFICES ASSUME SessionInv, [Next]_vars PROVE SessionInv'
  OBVIOUS
<1>1. FrameOf(feed, group) /\ feed \in Seq(DOMAIN group)
  BY DEF SessionInv, FrameOf
<1>2. ASSUME NEW frame, FrameOf(frame, group), UpdateRows(frame) PROVE SessionInv'
  <2>1. /\ feed' = frame
        /\ Reproject(frame, viewer)
        /\ viewer' = viewer
        /\ UNCHANGED <<published, group, sent>>
    BY <1>2 DEF UpdateRows
  <2> QED BY <1>2, <2>1, ReprojectKeeps
<1>3. CASE FrameGains
  <2>1. PICK id \in DOMAIN group \ Range(feed) : UpdateRows(Append(feed, id))
    BY <1>3 DEF FrameGains
  <2>2. FrameOf(Append(feed, id), group)
    BY <1>1, FrameMore
  <2> QED BY <1>2, <2>1, <2>2
<1>4. CASE FrameLoses
  <2>1. PICK i \in DOMAIN feed : UpdateRows(RemoveAt(feed, i))
    BY <1>4 DEF FrameLoses
  <2>2. FrameOf(RemoveAt(feed, i), group)
    BY <1>1, FrameLess
  <2> QED BY <1>2, <2>1, <2>2
<1>5. CASE FrameEmpties
  <2>1. FrameOf(<<>>, group)
    BY DEF FrameOf, IsInjective
  <2>2. UpdateRows(<<>>)
    BY <1>5 DEF FrameEmpties
  <2> QED BY <1>2, <2>1, <2>2
<1>6. CASE AccountChanges
  <2>1. PICK account : /\ viewer' = account
                       /\ Reproject(feed, account)
                       /\ UNCHANGED <<published, group, feed, sent>>
    BY <1>6 DEF AccountChanges
  <2>2. feed' = feed /\ UNCHANGED <<published, group, sent>>
    BY <2>1
  <2> QED BY <1>1, <2>1, <2>2, ReprojectKeeps
<1>7. CASE \E a \in Replies : SubmitAnswer(a)
  BY <1>7, SubmitKeeps
<1>8. CASE UNCHANGED vars
  <2>1. UNCHANGED <<published, group, feed, viewer, queue, sent>>
    BY <1>8 DEF vars
  <2>2. Parsed(feed)' = Parsed(feed)
    BY <2>1 DEF Parsed
  <2>3. /\ Posted(published, group)
        /\ Identified(group)
        /\ FrameOf(feed, group)
        /\ feed # <<>> => queue = Project(Parsed(feed), viewer)
        /\ AsksMeant(queue.items, published)
        /\ Delivered(sent, published, group)
    BY DEF SessionInv
  <2>4. feed' # <<>> => queue' = Project(Parsed(feed)', viewer')
    BY <2>1, <2>2, <2>3
  <2>5. /\ Posted(published', group')
        /\ Identified(group')
        /\ FrameOf(feed', group')
        /\ AsksMeant(queue'.items, published')
        /\ Delivered(sent', published', group')
    BY <2>1, <2>3
  <2> QED BY <2>4, <2>5 DEF SessionInv
<1> QED BY <1>3, <1>4, <1>5, <1>6, <1>7, <1>8 DEF Next

\* The session keeps what it promises, whatever frames NMP delivers and whoever signs in:
\* its queue is that of the last frame with rows and of the account of now, and it asks
\* the questions that the daemon published.
THEOREM SessionKeeps == Spec => []SessionInv
<1>1. Init => SessionInv
  BY SessionStarts
<1>2. SessionInv /\ [Next]_vars => SessionInv'
  BY SessionSteps
<1> QED BY <1>1, <1>2, PTL DEF Spec

\* Whatever passes the checks before publication is understood by those who read it
\* (ComposedIsReadable), for every set of items, of answers and of other events.
THEOREM ComposedUnderstood == Spec => []ComposedIsReadable
<1>1. SessionInv => ComposedIsReadable
  <2> SUFFICES ASSUME SessionInv PROVE ComposedIsReadable
    OBVIOUS
  <2>1. Posted(published, group) /\ Delivered(sent, published, group)
    BY DEF SessionInv
  <2>2. ASSUME NEW d \in published, BoundedLabels(d) PROVE group[d.id] = Meant(d)
    <3>1. /\ d \in FrozenSpokenItem(d.author) /\ ValidSpokenItem(d)
          /\ group[d.id] = Parse(ComposeSpokenItem(d))
      BY <2>1 DEF Posted
    <3>2. Parse(ComposeSpokenItem(d)) = IF BoundedLabels(d) THEN Meant(d) ELSE None
      BY <3>1, ItemRoundTrip
    <3> QED BY <2>2, <3>1, <3>2
  <2>3. ASSUME NEW a \in sent, NEW d \in published, d.id = a.root_event_id
        PROVE  /\ group[a.id] # None
               /\ group[a.id].root_id = d.id
               /\ ValidAnswer(d.questions, group[a.id].value)
    <3>1. /\ a \in Replies /\ ComposeAnswer(a) # None
          /\ group[a.id] = Parse(ComposeAnswer(a))
          /\ ValidAnswer(d.questions, a.answers)
      BY <2>1, <2>3 DEF Delivered
    <3>2. a \in FrozenAnswer(a.author) /\ None \notin Answer(a.author)
      BY <3>1, EventsAssumption
    <3> DEFINE q == Parse(ComposeAnswer(a))
    <3>3. /\ q = [type |-> "answer", root_id |-> a.root_event_id, event_id |-> a.id,
                  author |-> a.author, created_at |-> a.created_at, value |-> ReadAnswers(a.answers)]
          /\ q \in Answer(a.author)
      BY <3>1, <3>2, AnswerRoundTrip
    <3> HIDE DEF q
    <3>4. q # None /\ q.root_id = a.root_event_id /\ q.value = ReadAnswers(a.answers)
      BY <3>2, <3>3
    <3>5. d \in FrozenSpokenItem(d.author) /\ ValidSpokenItem(d)
      BY <2>1 DEF Posted
    <3>6. d.questions \in Seq(Question) /\ ValidQuestions(d.questions)
      BY <3>5 DEF FrozenSpokenItem, ValidSpokenItem
    <3>7. a.answers \in Seq(QuestionAnswer)
      BY <3>2 DEF FrozenAnswer
    <3>8. ValidAnswer(d.questions, ReadAnswers(a.answers))
      BY <3>1, <3>6, <3>7, ReadAnswersAccepted
    <3> QED BY <2>3, <3>1, <3>4, <3>8 DEF q
  <2> QED BY <2>2, <2>3 DEF ComposedIsReadable
<1> QED BY <1>1, SessionKeeps, PTL

\* The user and the agent see the same answer (AnswersAgree): what the screen shows and
\* what the daemon selects are the latest of one set, for every order of the rows.
THEOREM UserAndAgentAgree == Spec => []AnswersAgree
<1>1. SessionInv => AnswersAgree
  <2> SUFFICES ASSUME SessionInv, feed # <<>>,
                      NEW item \in Flatten(queue.items), NEW d \in published, d.id = item.id
               PROVE  item.answer = AnswerFromRows(Parsed(feed), d.id, d.questions)
    BY DEF AnswersAgree
  <2> DEFINE X == {group[id] : id \in DOMAIN group}
             rows == RowsOf(feed, group)
  <2>1. /\ Posted(published, group) /\ Identified(group) /\ FrameOf(feed, group)
        /\ queue = Project(Parsed(feed), viewer)
    BY DEF SessionInv
  <2>2. Parsed(feed) = rows
    BY DEF Parsed, RowsOf
  <2>3. rows \in Seq(X) /\ Clean(rows)
    BY <2>1, RowsClean
  <2> HIDE DEF X, rows
  <2>4. Shows(item, rows)
    <3>1. item \in Flatten(Project(rows, viewer).items)
      BY <2>1, <2>2
    <3> QED BY <2>3, <3>1, ShownItem
  <2>5. PICK i \in All(rows, "item") :
               /\ item.id = i.id
               /\ item.answer = Latest({a \in All(rows, "answer") : ValidFor(i, a)})
    BY <2>4 DEF Shows
  <2>6. i.questions = MeantQuestions(d.questions)
    <3>1. i \in All(RowsOf(feed, group), "item") /\ i.id = d.id
      BY <2>5 DEF rows
    <3> QED BY <2>1, <3>1, PublishedRow
  <2>7. d.questions \in Seq(Question) /\ ValidQuestions(d.questions)
    <3>1. d \in FrozenSpokenItem(d.author) /\ ValidSpokenItem(d)
      BY <2>1 DEF Posted
    <3> QED BY <3>1 DEF FrozenSpokenItem, ValidSpokenItem
  <2>8. \A v : ValidAnswer(i.questions, v) <=> ValidAnswer(d.questions, v)
    BY <2>6, <2>7, MeantQuestionsAccept
  <2> DEFINE C == {p \in Range(rows) : p # None /\ p.type = "answer" /\ p.root_id = d.id}
             V == {c \in C : ValidAnswer(d.questions, c.value)}
  <2>9. {a \in All(rows, "answer") : ValidFor(i, a)} = V
    BY <2>5, <2>8 DEF All, ValidFor
  <2>10. AnswerFromRows(rows, d.id, d.questions) = SelectAnswer(d.questions, C)
    BY DEF AnswerFromRows
  <2>11. SelectAnswer(d.questions, C) = Latest(V)
    BY DEF SelectAnswer, Latest
  <2> QED BY <2>2, <2>5, <2>9, <2>10, <2>11
<1> QED BY <1>1, SessionKeeps, PTL

(***************************************************************************)
(* The queue.  A class of events with one key has one winner, the latest,  *)
(* and the classes do not depend on the order of the rows; the places of   *)
(* the items that are shown are their ranks in the order of the screen, a  *)
(* bijection; levels of the tree match from the last one up; and the items *)
(* that are dropped are counted through the disjoint sets below the nodes  *)
(* of each level.                                                          *)
(***************************************************************************)

(* What the queue shows                                                    *)

\* In a class of events with one key the winner is the latest.
LEMMA Champion ==
  ASSUME NEW A, Comparable(A), Beaten(A), NEW K \in SUBSET A,
         \A a, b \in K : SameKey(a, b),
         \A a \in K, b \in A : SameKey(a, b) => b \in K
  PROVE  /\ \A w \in K : w \in Winners(A) <=> w = Latest(K)
         /\ K = {} => Latest(K) = None
         /\ K # {} => Latest(K) \in K /\ Latest(K) \in Winners(A)
<1>1. \A a, b \in A : SameKey(a, b) => SameKey(b, a)
  BY LaterOrder
<1>2. ASSUME NEW w \in K, w \in Winners(A) PROVE w = Latest(K)
  <2>1. \A b \in A \ {w} : SameKey(w, b) => Later(w, b)
    BY <1>2 DEF Winners
  <2>2. Tops(w, K)
    BY <2>1 DEF Tops
  <2> QED BY <2>2, TopsUnique
<1>3. CASE K = {}
  BY <1>3 DEF Latest
<1>4. CASE K # {}
  <2>1. PICK b \in K : TRUE
    BY <1>4
  <2>2. PICK w \in Winners(A) : SameKey(w, b)
    BY DEF Beaten
  <2>3. w \in A
    BY <2>2 DEF Winners
  <2>4. w \in K
    BY <1>1, <2>2, <2>3
  <2>5. w = Latest(K)
    BY <1>2, <2>2, <2>4
  <2> QED BY <1>2, <1>4, <2>2, <2>4, <2>5
<1> QED BY <1>3, <1>4

\* The rows of the last frame.
LEMMA RowsSeen ==
  ASSUME SessionInv
  PROVE  /\ Parsed(feed) \in Seq({group[id] : id \in DOMAIN group})
         /\ Clean(Parsed(feed))
         /\ \A type : Of(type) = All(Parsed(feed), type)
<1> DEFINE rows == Parsed(feed)
<1>1. Identified(group) /\ FrameOf(feed, group)
  BY DEF SessionInv
<1>2. rows = RowsOf(feed, group)
  BY DEF Parsed, RowsOf
<1>3. RowsOf(feed, group) \in Seq({group[id] : id \in DOMAIN group}) /\ Clean(RowsOf(feed, group))
  BY <1>1, RowsClean
<1>4. \A p : p \in Range(rows) <=> \E id \in Range(feed) : p = group[id]
  BY DEF Parsed, Range
<1> HIDE DEF rows
<1>5. ASSUME NEW type PROVE Of(type) = All(rows, type)
  <2>1. \A p : p \in Of(type) <=> \E id \in Range(feed) : group[id] # None /\ group[id].type = type /\ p = group[id]
    BY DEF Of
  <2>2. \A p : p \in All(rows, type) <=> p \in Range(rows) /\ p # None /\ p.type = type
    BY DEF All
  <2> QED BY <1>4, <2>1, <2>2
<1> QED BY <1>2, <1>3, <1>5 DEF rows

\* How the session sees an item of the rows.
Seen(i) == Resolve(i, Collect(Parsed(feed)), viewer)

\* The pairs of an author and an emoji among the reactions of an item.
Pairs(reactions) ==
  UNION {{<<author, emoji>> : author \in reactions[emoji]} : emoji \in DOMAIN reactions}

\* The acknowledgement of an item is the account's latest.
LEMMA SeenAck ==
  ASSUME SessionInv, NEW i \in Of("item")
  PROVE  Seen(i).acknowledgement = AckOf(i)
<1> DEFINE rows == Parsed(feed)
           A == All(rows, "ack")
           K == {a \in A : a.root_id = i.id /\ a.author = viewer}
           own == {a \in Winners(A) : a.root_id = i.id /\ a.author = viewer}
<1>1. rows \in Seq({group[id] : id \in DOMAIN group}) /\ Clean(rows) /\ Of("ack") = A
  BY RowsSeen
<1>2. PICK answers : CollectedAll(Collect(rows), answers, rows)
  BY <1>1, CollectIs
<1>3. Collect(rows).acks = Winners(A) /\ Beaten(A) /\ Comparable(A)
  BY <1>2 DEF CollectedAll, Gathered
<1>4. Seen(i).acknowledgement = Acknowledgement(i, viewer, Winners(A))
  BY <1>3 DEF Seen, Resolve
<1>5. Acknowledgement(i, viewer, Winners(A))
        = IF viewer = None \/ own = {} THEN None ELSE CHOOSE a \in own : TRUE
  BY DEF Acknowledgement
<1>6. AckOf(i) = Latest(K)
  BY <1>1 DEF AckOf
<1>7. \A a \in A : a.type = "ack"
  BY DEF All
<1>8. K \in SUBSET A /\ (\A a, b \in K : SameKey(a, b)) /\ (\A a \in K, b \in A : SameKey(a, b) => b \in K)
  BY <1>7 DEF SameKey
<1>9. own = Winners(A) \cap K
  BY DEF Winners
<1> HIDE DEF K, A, own
<1>10. /\ \A w \in K : w \in Winners(A) <=> w = Latest(K)
       /\ K = {} => Latest(K) = None
       /\ K # {} => Latest(K) \in K /\ Latest(K) \in Winners(A)
  BY <1>3, <1>8, Champion
<1>13. viewer = None => K = {}
  <2>1. ASSUME NEW a \in A PROVE a.author # None
    <3>1. a # None /\ a.type = "ack" /\ a \in Range(rows)
      BY DEF All, A
    <3>2. Readable(a)
      BY <1>1, <3>1 DEF Clean, Range
    <3> QED BY <3>1, <3>2 DEF Readable
  <2> QED BY <2>1 DEF K
<1>11. CASE K = {}
  BY <1>4, <1>5, <1>6, <1>9, <1>10, <1>11
<1>12. CASE K # {}
  <2>1. own = {Latest(K)}
    BY <1>9, <1>10, <1>12
  <2>2. (CHOOSE a \in own : TRUE) = Latest(K)
    BY <2>1
  <2> QED BY <1>4, <1>5, <1>6, <1>12, <1>13, <2>1, <2>2
<1> QED BY <1>11, <1>12

\* The reactions to an item are those that every account's latest for an emoji adds.
Added(i) ==
  {<<r.author, r.value.emoji>> : r \in {s \in Of("reaction") :
     s.root_id = i.id /\ Latest(ReactionsBy(i, s.author, s.value.emoji)).value.active}}

\* The session shows those.
LEMMA SeenReactions ==
  ASSUME SessionInv, NEW i \in Of("item")
  PROVE  Pairs(Seen(i).reactions) = Added(i)
<1> DEFINE rows == Parsed(feed)
           A == All(rows, "reaction")
           K(s) == ReactionsBy(i, s.author, s.value.emoji)
           active == {r \in Winners(A) : r.root_id = i.id /\ r.value.active}
<1>1. rows \in Seq({group[id] : id \in DOMAIN group}) /\ Clean(rows) /\ Of("reaction") = A
  BY RowsSeen
<1>2. PICK answers : CollectedAll(Collect(rows), answers, rows)
  BY <1>1, CollectIs
<1>3. Collect(rows).reactions = Winners(A) /\ Beaten(A) /\ Comparable(A)
  BY <1>2 DEF CollectedAll, Gathered
<1>4. Seen(i).reactions = ReactionSummaries(i, Winners(A))
  BY <1>3 DEF Seen, Resolve
<1>5. \A a \in A : a.type = "reaction"
  BY DEF All
<1> HIDE DEF A
<1>6. Winners(A) \subseteq A
  BY DEF Winners
<1>7. \A s, r : r \in K(s) <=>
        r \in A /\ r.root_id = i.id /\ r.author = s.author /\ r.value.emoji = s.value.emoji
  BY <1>1 DEF ReactionsBy
<1> HIDE DEF K
<1>8. ASSUME NEW s \in A, s.root_id = i.id
      PROVE  /\ Latest(K(s)) \in K(s) /\ Latest(K(s)) \in Winners(A)
             /\ s \in Winners(A) => s = Latest(K(s))
  <2> DEFINE L == K(s)
  <2>1. s \in L /\ L \in SUBSET A
    BY <1>7, <1>8
  <2>2. \A a, b \in L : SameKey(a, b)
    BY <1>7 DEF SameKey
  <2>3. \A a \in L, b \in A : SameKey(a, b) => b \in L
    BY <1>5, <1>7 DEF SameKey
  <2> HIDE DEF L
  <2>4. /\ \A w \in L : w \in Winners(A) <=> w = Latest(L)
        /\ L = {} => Latest(L) = None
        /\ L # {} => Latest(L) \in L /\ Latest(L) \in Winners(A)
    BY <1>3, <2>1, <2>2, <2>3, Champion
  <2> QED BY <2>1, <2>4 DEF L
<1>9. \A x : x \in Added(i) <=>
        \E s \in A : s.root_id = i.id /\ Latest(K(s)).value.active /\ x = <<s.author, s.value.emoji>>
  BY <1>1 DEF Added, K
<1>10. \A x : x \in Pairs(Seen(i).reactions) <=> \E r \in active : x = <<r.author, r.value.emoji>>
  <2> DEFINE R == ReactionSummaries(i, Winners(A))
  <2>1. R = [emoji \in {r.value.emoji : r \in active} |->
               {r.author : r \in {q \in active : q.value.emoji = emoji}}]
    BY DEF ReactionSummaries
  <2> HIDE DEF R, active
  <2>2. \A emoji : emoji \in DOMAIN R <=> \E r \in active : emoji = r.value.emoji
    BY <2>1
  <2>3. \A emoji \in DOMAIN R : \A author :
          author \in R[emoji] <=> \E r \in active : r.value.emoji = emoji /\ author = r.author
    BY <2>1
  <2>4. \A x : x \in Pairs(R) <=>
          \E emoji \in DOMAIN R : \E author \in R[emoji] : x = <<author, emoji>>
    BY DEF Pairs
  <2>5. ASSUME NEW r \in active PROVE <<r.author, r.value.emoji>> \in Pairs(R)
    <3>1. r.value.emoji \in DOMAIN R
      BY <2>2
    <3>2. r.author \in R[r.value.emoji]
      BY <2>3, <3>1
    <3> QED BY <2>4, <3>1, <3>2
  <2>6. ASSUME NEW x \in Pairs(R) PROVE \E r \in active : x = <<r.author, r.value.emoji>>
    <3>1. PICK emoji \in DOMAIN R : \E author \in R[emoji] : x = <<author, emoji>>
      BY <2>4, <2>6
    <3>2. PICK author \in R[emoji] : x = <<author, emoji>>
      BY <3>1
    <3>3. PICK r \in active : r.value.emoji = emoji /\ author = r.author
      BY <2>3
    <3> QED BY <3>2, <3>3
  <2> QED BY <1>4, <2>5, <2>6 DEF R
<1>11. ASSUME NEW x \in Added(i) PROVE x \in Pairs(Seen(i).reactions)
  <2>1. PICK s \in A : s.root_id = i.id /\ Latest(K(s)).value.active /\ x = <<s.author, s.value.emoji>>
    BY <1>9, <1>11
  <2> DEFINE w == Latest(K(s))
  <2>2. w \in K(s) /\ w \in Winners(A)
    BY <1>8, <2>1
  <2>3. w.value.active
    BY <2>1
  <2> HIDE DEF w
  <2>4. w \in active /\ w.author = s.author /\ w.value.emoji = s.value.emoji
    BY <1>7, <2>2, <2>3
  <2> QED BY <1>10, <2>1, <2>4
<1>12. ASSUME NEW x \in Pairs(Seen(i).reactions) PROVE x \in Added(i)
  <2>1. PICK r \in active : x = <<r.author, r.value.emoji>>
    BY <1>10, <1>12
  <2>2. r \in A /\ r \in Winners(A) /\ r.root_id = i.id /\ r.value.active
    BY <1>6, <2>1
  <2>3. r = Latest(K(r))
    BY <1>8, <2>2
  <2>4. Latest(K(r)).value.active
    BY <2>2, <2>3
  <2> QED BY <1>9, <2>1, <2>2, <2>4
<1> QED BY <1>11, <1>12

(* The items of the rows and of the screen                                 *)

\* As many values as members, if no two have the same.
LEMMA CardImage ==
  ASSUME NEW B, IsFiniteSet(B), NEW f, \A a, b \in B : f[a] = f[b] => a = b
  PROVE  /\ IsFiniteSet({f[b] : b \in B})
         /\ Cardinality({f[b] : b \in B}) = Cardinality(B)
<1> DEFINE T == {f[b] : b \in B}
           g == [b \in B |-> f[b]]
<1>1. g \in Surjection(B, T)
  BY DEF Surjection
<1>2. g \in Injection(B, T)
  BY DEF Injection, IsInjective
<1> HIDE DEF g, T
<1>3. IsFiniteSet(T) /\ (Cardinality(T) = Cardinality(B) <=> g \in Injection(B, T))
  BY <1>1, FS_Surjection
<1> QED BY <1>2, <1>3 DEF T

\* Other records of the items, with their ids, parents and times.
Copies(f, A) ==
  \A i \in A : f[i].id = i.id /\ f[i].attach = i.attach /\ f[i].created_at = i.created_at
ImageOf(f, C) == {f[i] : i \in C}

\* A copy has the place among the copies that the item has among the items.
LEMMA SamePlace ==
  ASSUME NEW A, Ordered(A), NEW f, Copies(f, A), NEW C \in SUBSET A, NEW x \in C
  PROVE  /\ Place(f[x], ImageOf(f, C), OldestFirst) = Place(x, C, OldestFirst)
         /\ Place(f[x], ImageOf(f, C), NewestFirst) = Place(x, C, NewestFirst)
<1>1. \A a \in A : f[a].id = a.id /\ f[a].created_at = a.created_at
  BY DEF Copies
<1>2. \A a, b \in A : f[a] = f[b] => a = b
  BY <1>1 DEF Ordered
<1>3. IsFiniteSet(C)
  BY FS_Subset DEF Ordered
<1>4. ASSUME NEW B \in SUBSET C PROVE Cardinality({f[b] : b \in B}) = Cardinality(B)
  <2>1. IsFiniteSet(B)
    BY <1>3, FS_Subset
  <2>2. \A a, b \in B : f[a] = f[b] => a = b
    BY <1>2
  <2> QED BY <2>1, <2>2, CardImage
<1>5. Place(f[x], ImageOf(f, C), OldestFirst) = Place(x, C, OldestFirst)
  <2> DEFINE B == {o \in C : OldestFirst(o, x)}
             T == {o \in ImageOf(f, C) : OldestFirst(o, f[x])}
  <2>1. \A o \in C : OldestFirst(f[o], f[x]) <=> OldestFirst(o, x)
    BY <1>1 DEF OldestFirst
  <2>2. T = {f[b] : b \in B}
    BY <2>1 DEF ImageOf
  <2>3. Place(f[x], ImageOf(f, C), OldestFirst) = 1 + Cardinality(T)
          /\ Place(x, C, OldestFirst) = 1 + Cardinality(B)
    BY DEF Place
  <2>4. B \in SUBSET C
    OBVIOUS
  <2> HIDE DEF B, T
  <2> QED BY <1>4, <2>2, <2>3, <2>4
<1>6. Place(f[x], ImageOf(f, C), NewestFirst) = Place(x, C, NewestFirst)
  <2> DEFINE B == {o \in C : NewestFirst(o, x)}
             T == {o \in ImageOf(f, C) : NewestFirst(o, f[x])}
  <2>1. \A o \in C : NewestFirst(f[o], f[x]) <=> NewestFirst(o, x)
    BY <1>1 DEF NewestFirst
  <2>2. T = {f[b] : b \in B}
    BY <2>1 DEF ImageOf
  <2>3. Place(f[x], ImageOf(f, C), NewestFirst) = 1 + Cardinality(T)
          /\ Place(x, C, NewestFirst) = 1 + Cardinality(B)
    BY DEF Place
  <2>4. B \in SUBSET C
    OBVIOUS
  <2> HIDE DEF B, T
  <2> QED BY <1>4, <2>2, <2>3, <2>4
<1> QED BY <1>5, <1>6

\* The screen's records of the rows' items.
View == [i \in Of("item") |-> Seen(i)]
Screen == Resolved(Parsed(feed), viewer)

\* How the session sees an item is what the rows say of it.
LEMMA SeenIs ==
  ASSUME SessionInv
  PROVE  /\ Ordered(Of("item")) /\ Ordered(Screen)
         /\ \A x \in Screen : OnScreen(x)
         /\ Screen = ImageOf(View, Of("item"))
         /\ Copies(View, Of("item"))
         /\ \A i, j \in Of("item") : View[i] = View[j] => i = j
         /\ \A i \in Of("item") : View[i] \in Screen /\ View[i].answer = Latest(Answers(i))
         /\ \A i \in Of("item") : IsHidden(View[i]) <=> Dismissed(i)
         /\ \A i \in Of("item") : Pairs(View[i].reactions) = Added(i)
<1> DEFINE rows == Parsed(feed)
           X == {group[id] : id \in DOMAIN group}
           A == Of("item")
<1>1. rows \in Seq(X) /\ Clean(rows) /\ A = All(rows, "item") /\ Of("answer") = All(rows, "answer")
  BY RowsSeen
<1>2. \A i \in A : View[i] = Seen(i)
  BY DEF View
<1>3. Screen = ImageOf(View, A)
  BY <1>1, <1>2 DEF Screen, Resolved, ImageOf, Seen
<1> HIDE DEF X, rows
<1>4. Ordered(A) /\ Ordered(Screen) /\ \A x \in Screen : OnScreen(x)
  <2>1. Ordered(All(rows, "item"))
    BY <1>1, ItemsOrdered
  <2>2. Ordered(Resolved(rows, viewer)) /\ \A x \in Resolved(rows, viewer) : OnScreen(x)
    BY <1>1, ResolvedOrdered
  <2> QED BY <1>1, <2>1, <2>2 DEF Screen, rows
<1> HIDE DEF A
<1>5. Copies(View, A)
  <2>1. \A i : Seen(i).id = i.id /\ Seen(i).attach = i.attach /\ Seen(i).created_at = i.created_at
    BY DEF Seen, Resolve
  <2> QED BY <1>2, <2>1 DEF Copies
<1>6. \A i, j \in A : View[i] = View[j] => i = j
  BY <1>4, <1>5 DEF Copies, Ordered
<1>7. \A i \in A : View[i] \in Screen
  BY <1>3 DEF ImageOf
<1>8. ASSUME NEW i \in A PROVE View[i].answer = Latest(Answers(i))
  <2> DEFINE B == All(rows, "answer")
  <2>1. PICK answers : CollectedAll(Collect(rows), answers, rows)
    BY <1>1, CollectIs
  <2>2. /\ Collect(rows).answers = answers
        /\ answers \in Seq(B) /\ Range(answers) = B /\ Comparable(B)
    BY <2>1 DEF CollectedAll, Gathered, InOrder
  <2>3. None \notin B
    BY DEF All
  <2>4. Answers(i) = {a \in B : ValidFor(i, a)}
    BY <1>1 DEF Answers, ValidFor
  <2> HIDE DEF B
  <2>5. BestAnswer(i, answers) = Latest({a \in B : ValidFor(i, a)})
    BY <2>2, <2>3, BestAnswerIs
  <2>6. View[i].answer = BestAnswer(i, Collect(rows).answers)
    <3>1. Seen(i) = Resolve(i, Collect(rows), viewer)
      BY DEF Seen, rows
    <3>2. Resolve(i, Collect(rows), viewer).answer = BestAnswer(i, Collect(rows).answers)
      BY DEF Resolve
    <3> QED BY <1>2, <3>1, <3>2
  <2> QED BY <2>2, <2>4, <2>5, <2>6
<1>9. ASSUME NEW i \in A PROVE IsHidden(View[i]) <=> Dismissed(i)
  <2>1. Seen(i).acknowledgement = AckOf(i)
    BY SeenAck DEF A
  <2> QED BY <1>2, <2>1 DEF IsHidden, Dismissed
<1>10. ASSUME NEW i \in A PROVE Pairs(View[i].reactions) = Added(i)
  <2>1. Pairs(Seen(i).reactions) = Added(i)
    BY SeenReactions DEF A
  <2> QED BY <1>2, <2>1
<1> QED BY <1>3, <1>4, <1>5, <1>6, <1>7, <1>8, <1>9, <1>10 DEF A

(* Levels                                                                  *)

Beneath(P) ==
  {[item |-> i, place |-> Place(i, Siblings(i), OldestFirst)] :
     i \in {j \in Of("item") : /\ j.attach \in {n.item.id : n \in P}
                               /\ Place(j, Siblings(j), OldestFirst) <= MaxChildren}}
FirstLevel == {node \in Roots : node.place <= MaxProjectedItems}

\* A level is found from the one above.
LEMMA LevelSteps ==
  Level[0] = FirstLevel /\ \A d \in 1..MaxAttachDepth : Level[d] = Beneath(Level[d - 1])
<1> DEFINE N == MaxAttachDepth
           b == FirstLevel
           Step(x) == Beneath(x)
           Up(f, n) == f = [k \in 0..n |-> IF k = 0 THEN b ELSE Step(f[k - 1])]
           T == {n \in 0..N : \E f : Up(f, n)}
<1> HIDE DEF b, Step
<1>1. N \in Nat
  BY LimitsAssumption
<1> HIDE DEF N
<1>2. 0 \in T
  <2> DEFINE f == [k \in 0..0 |-> b]
  <2>1. Up(f, 0)
    OBVIOUS
  <2>2. 0 \in 0..N
    BY <1>1
  <2> HIDE DEF f, Up
  <2> QED BY <2>1, <2>2
<1>3. ASSUME NEW n \in 0..(N - 1), n \in T PROVE n + 1 \in T
  <2>1. PICK f : Up(f, n)
    BY <1>3
  <2> DEFINE g == [k \in 0..(n + 1) |-> IF k <= n THEN f[k] ELSE Step(f[n])]
             h == [k \in 0..(n + 1) |-> IF k = 0 THEN b ELSE Step(g[k - 1])]
  <2>2. ASSUME NEW k \in 0..(n + 1) PROVE g[k] = IF k = 0 THEN b ELSE Step(g[k - 1])
    <3>1. CASE k = 0
      BY <1>1, <2>1, <3>1
    <3>2. CASE k \in 1..n
      <4>1. k - 1 \in 0..n /\ k \in 0..n /\ k - 1 \in 0..(n + 1) /\ k - 1 <= n /\ k <= n /\ k # 0
        BY <1>1, <3>2
      <4>2. f[k] = Step(f[k - 1])
        BY <2>1, <4>1
      <4> QED BY <3>2, <4>1, <4>2
    <3>3. CASE k = n + 1
      <4>1. k - 1 = n /\ ~(k <= n) /\ n \in 0..(n + 1) /\ n <= n /\ k # 0
        BY <1>1, <3>3
      <4> QED BY <3>3, <4>1
    <3>4. k = 0 \/ k \in 1..n \/ k = n + 1
      BY <1>1, <2>2
    <3> QED BY <3>1, <3>2, <3>3, <3>4
  <2>3. g = h
    BY <2>2
  <2>4. Up(g, n + 1)
    BY <2>3
  <2>5. n + 1 \in 0..N
    BY <1>1
  <2> QED BY <2>4, <2>5
<1>4. N \in T
  <2> HIDE DEF T
  <2>1. \A n \in 0..N : n \in T
    BY <1>1, <1>2, <1>3, Induction
  <2> QED BY <1>1, <2>1
<1>5. \E f : Up(f, N)
  BY <1>4
<1> DEFINE e == CHOOSE f : Up(f, N)
<1>6. Up(e, N)
  BY <1>5
<1>7. Level = e
  BY DEF Level, Step, Beneath, b, FirstLevel, N
<1> HIDE DEF e
<1>8. e[0] = b
  BY <1>1, <1>6
<1>9. ASSUME NEW n \in 1..N PROVE e[n] = Step(e[n - 1])
  <2>1. n \in 0..N /\ n # 0
    BY <1>1
  <2> QED BY <1>6, <2>1
<1> QED BY <1>7, <1>8, <1>9 DEF N, b, Step

\* The members of a list, with their places.
Nodes(siblings) == {[item |-> siblings[i], place |-> i] : i \in DOMAIN siblings}
Displayed(n) ==
  [id |-> n.item.id, attach |-> n.item.attach, place |-> n.place, answer |-> n.item.answer,
   hidden |-> IsHidden(n.item), reactions |-> Pairs(n.item.reactions)]
EntriesRun(e, items) ==
  /\ e[0] = Nodes(items)
  /\ \A d \in 1..(MaxAttachDepth + 1) : e[d] = UNION {Nodes(n.item.children) : n \in e[d - 1]}
  /\ Entries(items) = {Displayed(n) : n \in UNION {e[d] : d \in 0..(MaxAttachDepth + 1)}}

\* The entries of the screen are found level by level.
LEMMA EntriesSteps ==
  ASSUME NEW items
  PROVE  \E e : EntriesRun(e, items)
<1> DEFINE N == MaxAttachDepth + 1
           b == Nodes(items)
           Step(P) == UNION {Nodes(n.item.children) : n \in P}
           Up(f, n) == f = [k \in 0..n |-> IF k = 0 THEN b ELSE Step(f[k - 1])]
           T == {n \in 0..N : \E f : Up(f, n)}
<1> HIDE DEF b, Step
<1>1. N \in Nat
  BY LimitsAssumption
<1> HIDE DEF N
<1>2. 0 \in T
  <2> DEFINE f == [k \in 0..0 |-> b]
  <2>1. Up(f, 0)
    OBVIOUS
  <2>2. 0 \in 0..N
    BY <1>1
  <2> HIDE DEF f, Up
  <2> QED BY <2>1, <2>2
<1>3. ASSUME NEW n \in 0..(N - 1), n \in T PROVE n + 1 \in T
  <2>1. PICK f : Up(f, n)
    BY <1>3
  <2> DEFINE g == [k \in 0..(n + 1) |-> IF k <= n THEN f[k] ELSE Step(f[n])]
             h == [k \in 0..(n + 1) |-> IF k = 0 THEN b ELSE Step(g[k - 1])]
  <2>2. ASSUME NEW k \in 0..(n + 1) PROVE g[k] = IF k = 0 THEN b ELSE Step(g[k - 1])
    <3>1. CASE k = 0
      BY <1>1, <2>1, <3>1
    <3>2. CASE k \in 1..n
      <4>1. k - 1 \in 0..n /\ k \in 0..n /\ k - 1 \in 0..(n + 1) /\ k - 1 <= n /\ k <= n /\ k # 0
        BY <1>1, <3>2
      <4>2. f[k] = Step(f[k - 1])
        BY <2>1, <4>1
      <4> QED BY <3>2, <4>1, <4>2
    <3>3. CASE k = n + 1
      <4>1. k - 1 = n /\ ~(k <= n) /\ n \in 0..(n + 1) /\ n <= n /\ k # 0
        BY <1>1, <3>3
      <4> QED BY <3>3, <4>1
    <3>4. k = 0 \/ k \in 1..n \/ k = n + 1
      BY <1>1, <2>2
    <3> QED BY <3>1, <3>2, <3>3, <3>4
  <2>3. g = h
    BY <2>2
  <2>4. Up(g, n + 1)
    BY <2>3
  <2>5. n + 1 \in 0..N
    BY <1>1
  <2> QED BY <2>4, <2>5
<1>4. N \in T
  <2> HIDE DEF T
  <2>1. \A n \in 0..N : n \in T
    BY <1>1, <1>2, <1>3, Induction
  <2> QED BY <1>1, <2>1
<1>5. \E f : Up(f, N)
  BY <1>4
<1> DEFINE e == CHOOSE f : Up(f, N)
<1>6. Up(e, N)
  BY <1>5
<1>7. Entries(items) = {Displayed(n) : n \in UNION Range(e)}
  BY DEF Entries, Step, b, N, Nodes, Displayed, Pairs
<1> HIDE DEF e
<1>8. e[0] = b
  BY <1>1, <1>6
<1>9. ASSUME NEW n \in 1..N PROVE e[n] = Step(e[n - 1])
  <2>1. n \in 0..N /\ n # 0
    BY <1>1
  <2> QED BY <1>6, <2>1
<1>10. Range(e) = {e[d] : d \in 0..N}
  <2>1. DOMAIN e = 0..N
    BY <1>6
  <2> QED BY <2>1 DEF Range
<1>11. EntriesRun(e, items)
  BY <1>7, <1>8, <1>9, <1>10 DEF EntriesRun, N, b, Step
<1> QED BY <1>11

\* The children of an item that the screen keeps, each in its place.
Child(j, i) == j \in Of("item") /\ j.attach = i.id
PlaceOf(j) == Place(j, Siblings(j), OldestFirst)
KeptAre(s, i) ==
  /\ \A k \in DOMAIN s : \E j \in Of("item") :
       Child(j, i) /\ s[k] = View[j] /\ PlaceOf(j) = k /\ k <= MaxChildren
  /\ \A j \in Of("item") : Child(j, i) /\ PlaceOf(j) <= MaxChildren =>
       PlaceOf(j) \in DOMAIN s /\ s[PlaceOf(j)] = View[j]

\* Those are the first ones among the children of the rows.
LEMMA KeptIs ==
  ASSUME SessionInv, NEW i \in Of("item")
  PROVE  /\ KeptAre(Kept(View[i], Screen), i)
         /\ Len(ChildrenOf(View[i].id, Screen)) = Cardinality({j \in Of("item") : j.attach = i.id})
         /\ Len(Kept(View[i], Screen)) \in Nat /\ DOMAIN Kept(View[i], Screen) = 1..Len(Kept(View[i], Screen))
<1> DEFINE A == Of("item")
           S == Screen
           C == {j \in A : j.attach = i.id}
           D == AttachedTo(i.id, S)
           M == Cardinality(D)
           k0 == Least(M, MaxChildren)
           s == ChildrenOf(i.id, S)
           kept == Kept(View[i], S)
<1>1. /\ Ordered(A) /\ Ordered(S) /\ S = ImageOf(View, A) /\ Copies(View, A)
      /\ \A x, y \in A : View[x] = View[y] => x = y
  BY SeenIs
<1>2. View[i].id = i.id /\ \A j \in A : View[j].attach = j.attach
  BY <1>1 DEF Copies
<1>3. kept = Truncate(s, MaxChildren)
  BY <1>2 DEF Kept
<1>4. D = ImageOf(View, C)
  BY <1>1, <1>2 DEF AttachedTo, ImageOf
<1>5. \A j \in C : j \in A /\ Siblings(j) = C
  BY DEF Siblings
<1>6. C \in SUBSET A
  OBVIOUS
<1>7. /\ M \in Nat
      /\ Len(s) = M
      /\ Truncate(s, MaxChildren) = [k \in 1..k0 |-> s[k]]
      /\ Len(Truncate(s, MaxChildren)) = k0
      /\ k0 \in Nat /\ k0 <= M /\ k0 <= MaxChildren
      /\ \A k \in 1..k0 : s[k] \in D
      /\ \A k \in 1..k0 : Place(s[k], D, OldestFirst) = k
      /\ \A x \in D : Place(x, D, OldestFirst) \in 1..M
      /\ \A x \in D : \A k \in 1..M : Place(x, D, OldestFirst) = k <=> s[k] = x
  <2> HIDE DEF S
  <2> QED BY <1>1, ChildrenAre
<1>8. MaxChildren \in Nat /\ (k0 = M \/ k0 = MaxChildren)
  BY LimitsAssumption DEF Least
<1> HIDE DEF A, S, k0, s
<1>9. \A j \in C : PlaceOf(j) = Place(View[j], D, OldestFirst) /\ View[j] \in D
  <2> TAKE j \in C
  <2>1. Place(View[j], ImageOf(View, C), OldestFirst) = Place(j, C, OldestFirst)
    <3> HIDE DEF C
    <3> QED BY <1>1, <1>6, SamePlace
  <2>2. PlaceOf(j) = Place(j, C, OldestFirst)
    BY <1>5 DEF PlaceOf
  <2>3. View[j] \in ImageOf(View, C)
    BY DEF ImageOf
  <2> QED BY <1>4, <2>1, <2>2, <2>3
<1>10. \A x \in D : \E j \in C : x = View[j]
  BY <1>4 DEF ImageOf
<1>11. \A j : j \in C <=> Child(j, i)
  BY DEF Child, A
<1>12. M = Cardinality(C)
  <2>1. IsFiniteSet(C)
    BY <1>1, <1>6, FS_Subset DEF Ordered
  <2>2. \A x, y \in C : View[x] = View[y] => x = y
    BY <1>1, <1>6
  <2>3. Cardinality({View[j] : j \in C}) = Cardinality(C)
    <3> HIDE DEF C
    <3> QED BY <2>1, <2>2, CardImage
  <2> QED BY <1>4, <2>3 DEF ImageOf
<1>13. Len(kept) = k0 /\ DOMAIN kept = 1..k0 /\ \A k \in 1..k0 : kept[k] = s[k]
  BY <1>3, <1>7
<1>14. Cardinality(C) = Len(ChildrenOf(View[i].id, S))
  BY <1>2, <1>7, <1>12 DEF s
<1> HIDE DEF D, M, kept
<1>15. ASSUME NEW k \in DOMAIN kept
       PROVE  \E j \in A : Child(j, i) /\ kept[k] = View[j] /\ PlaceOf(j) = k /\ k <= MaxChildren
  <2>1. k \in 1..k0 /\ kept[k] = s[k] /\ s[k] \in D /\ Place(s[k], D, OldestFirst) = k
    BY <1>7, <1>13
  <2>2. PICK j \in C : s[k] = View[j]
    BY <1>10, <2>1
  <2>3. j \in A /\ Child(j, i) /\ PlaceOf(j) = k
    BY <1>5, <1>9, <1>11, <2>1, <2>2
  <2>4. k <= MaxChildren
    BY <1>7, <1>8, <2>1
  <2> QED BY <2>1, <2>2, <2>3, <2>4
<1>16. ASSUME NEW j \in A, Child(j, i), PlaceOf(j) <= MaxChildren
       PROVE  PlaceOf(j) \in DOMAIN kept /\ kept[PlaceOf(j)] = View[j]
  <2>1. j \in C /\ View[j] \in D /\ PlaceOf(j) = Place(View[j], D, OldestFirst)
    BY <1>9, <1>11, <1>16
  <2>2. PlaceOf(j) \in 1..M /\ s[PlaceOf(j)] = View[j]
    BY <1>7, <2>1
  <2>3. PlaceOf(j) \in 1..k0
    BY <1>7, <1>8, <1>16, <2>2
  <2> QED BY <1>13, <2>2, <2>3
<1>17. KeptAre(kept, i)
  BY <1>15, <1>16 DEF KeptAre, A
<1> QED BY <1>7, <1>13, <1>14, <1>17 DEF kept, A, S

\* What a level of the screen is drawn from.
Drawn(m, t, r) == [item |-> t[r][View[m.item]].item, place |-> m.place]
Matches(P, L, t, r) == \A n : n \in P <=> \E m \in L : n = Drawn(m, t, r)
OfRows(L) == \A m \in L : m.item \in Of("item")

\* The nodes of every level are rows, and those below the first level are in their places.
LEMMA LevelRows ==
  /\ \A m : m \in Level[0] <=>
       \E i \in Of("item") :
         /\ i.attach = None /\ ~Dismissed(i)
         /\ m = [item |-> i, place |-> Place(i, {j \in Of("item") : j.attach = None /\ ~Dismissed(j)}, NewestFirst)]
         /\ m.place <= MaxProjectedItems
  /\ \A d \in 1..MaxAttachDepth : \A m : m \in Level[d] <=>
       \E i \in Of("item") :
         /\ \E n \in Level[d - 1] : Child(i, n.item)
         /\ m = [item |-> i, place |-> PlaceOf(i)]
         /\ PlaceOf(i) <= MaxChildren
  /\ \A d \in 0..MaxAttachDepth : OfRows(Level[d])
<1>1. Level[0] = FirstLevel /\ \A d \in 1..MaxAttachDepth : Level[d] = Beneath(Level[d - 1])
  BY LevelSteps
<1> DEFINE open == {j \in Of("item") : j.attach = None /\ ~Dismissed(j)}
<1>2. \A m : m \in FirstLevel <=>
        \E i \in open : m = [item |-> i, place |-> Place(i, open, NewestFirst)] /\ m.place <= MaxProjectedItems
  BY DEF FirstLevel, Roots
<1>3. \A m : m \in Level[0] <=>
        \E i \in Of("item") :
          /\ i.attach = None /\ ~Dismissed(i)
          /\ m = [item |-> i, place |-> Place(i, open, NewestFirst)]
          /\ m.place <= MaxProjectedItems
  <2> DEFINE pl(i) == Place(i, open, NewestFirst)
  <2>1. \A i : i \in open <=> i \in Of("item") /\ i.attach = None /\ ~Dismissed(i)
    OBVIOUS
  <2>2. \A m : m \in FirstLevel <=>
          \E i \in open : m = [item |-> i, place |-> pl(i)] /\ m.place <= MaxProjectedItems
    BY <1>2
  <2> HIDE DEF pl, open
  <2>3. \A m : m \in Level[0] <=>
        \E i \in Of("item") :
          /\ i.attach = None /\ ~Dismissed(i)
          /\ m = [item |-> i, place |-> pl(i)]
          /\ m.place <= MaxProjectedItems
    BY <1>1, <2>1, <2>2
  <2> QED BY <2>3 DEF pl
<1>4. ASSUME NEW d \in 1..MaxAttachDepth, NEW m
      PROVE  m \in Level[d] <=>
               \E i \in Of("item") :
                 /\ \E n \in Level[d - 1] : Child(i, n.item)
                 /\ m = [item |-> i, place |-> PlaceOf(i)]
                 /\ PlaceOf(i) <= MaxChildren
  <2> DEFINE P == Level[d - 1]
             J == {j \in Of("item") : /\ j.attach \in {n.item.id : n \in P}
                                      /\ Place(j, Siblings(j), OldestFirst) <= MaxChildren}
  <2>1. Beneath(P) = {[item |-> i, place |-> PlaceOf(i)] : i \in J}
    BY DEF Beneath, PlaceOf
  <2>2. \A j : j \in J <=> j \in Of("item") /\ PlaceOf(j) <= MaxChildren /\ \E n \in P : Child(j, n.item)
    BY DEF Child, PlaceOf
  <2> HIDE DEF J, P
  <2>3. m \in Beneath(P) <=> \E i \in J : m = [item |-> i, place |-> PlaceOf(i)]
    BY <2>1
  <2>4. Level[d] = Beneath(P)
    BY <1>1 DEF P
  <2> QED BY <2>2, <2>3, <2>4 DEF P
<1>5. ASSUME NEW d \in 0..MaxAttachDepth, NEW m \in Level[d] PROVE m.item \in Of("item")
  <2>1. CASE d = 0
    <3>1. PICK i \in Of("item") : m = [item |-> i, place |-> Place(i, open, NewestFirst)]
      BY <1>3, <1>5, <2>1
    <3> QED BY <3>1
  <2>2. CASE d # 0
    <3>1. d \in 1..MaxAttachDepth
      BY <2>2, LimitsAssumption
    <3>2. PICK i \in Of("item") : m = [item |-> i, place |-> PlaceOf(i)]
      BY <1>4, <1>5, <3>1
    <3> QED BY <3>2
  <2> QED BY <2>1, <2>2
<1> QED BY <1>3, <1>4, <1>5 DEF OfRows

\* A list of the screen that shows the first level, every item in its place.
TopAre(s) ==
  /\ Len(s) \in Nat
  /\ DOMAIN s = 1..Len(s)
  /\ \A k \in DOMAIN s : \E m \in Level[0] : m.place = k /\ s[k] = View[m.item]
  /\ \A m \in Level[0] : m.place \in DOMAIN s /\ s[m.place] = View[m.item]

\* The items at the top of the screen are that.
LEMMA TopList ==
  ASSUME SessionInv
  PROVE  TopAre(TopLevel(Screen))
<1> DEFINE A == Of("item")
           S == Screen
           open == {j \in A : j.attach = None /\ ~Dismissed(j)}
           O == Open(S)
           M == Cardinality(O)
           k0 == Least(M, MaxProjectedItems)
           top == TopLevel(S)
<1>1. /\ Ordered(A) /\ Ordered(S) /\ S = ImageOf(View, A) /\ Copies(View, A)
      /\ \A i \in A : IsHidden(View[i]) <=> Dismissed(i)
  BY SeenIs
<1>2. /\ O \in SUBSET S /\ M \in Nat
      /\ top = [i \in 1..k0 |-> Sorted(O, NewestFirst)[i]]
      /\ k0 \in Nat /\ k0 <= M /\ k0 <= MaxProjectedItems
      /\ \A i \in 1..k0 : top[i] \in O
      /\ \A x \in O : Place(x, O, NewestFirst) \in 1..M
      /\ \A x \in O : \A i \in 1..k0 : Place(x, O, NewestFirst) = i <=> top[i] = x
  <2> HIDE DEF S
  <2> QED BY <1>1, TopIs
<1>3. MaxProjectedItems \in Nat /\ (k0 = M \/ k0 = MaxProjectedItems)
  BY LimitsAssumption DEF Least
<1>4. O = ImageOf(View, open)
  BY <1>1 DEF Open, ImageOf, Copies
<1>5. ASSUME NEW i \in open
      PROVE  Place(View[i], O, NewestFirst) = Place(i, open, NewestFirst) /\ View[i] \in O
  <2>1. open \in SUBSET A
    OBVIOUS
  <2>2. View[i] \in ImageOf(View, open)
    BY DEF ImageOf
  <2> HIDE DEF A, open
  <2>3. Place(View[i], ImageOf(View, open), NewestFirst) = Place(i, open, NewestFirst)
    BY <1>1, <1>5, <2>1, SamePlace
  <2> QED BY <1>4, <2>2, <2>3
<1>6. \A x \in O : \E i \in open : x = View[i]
  BY <1>4 DEF ImageOf
<1>7. DOMAIN top = 1..k0 /\ Len(top) = k0
  <2>1. top \in [1..k0 -> O]
    BY <1>2
  <2> HIDE DEF top, k0, O
  <2>2. Len(top) = k0
    BY <1>2, <2>1, FunctionIsSeq
  <2> QED BY <2>1, <2>2
<1> DEFINE pl(i) == Place(i, open, NewestFirst)
           op(x) == Place(x, O, NewestFirst)
<1>8. \A m : m \in Level[0] <=>
        \E i \in open : m = [item |-> i, place |-> pl(i)] /\ m.place <= MaxProjectedItems
  <2>1. \A i : i \in open <=> i \in A /\ i.attach = None /\ ~Dismissed(i)
    OBVIOUS
  <2>2. \A m : m \in Level[0] <=>
          \E i \in A : /\ i.attach = None /\ ~Dismissed(i)
                       /\ m = [item |-> i, place |-> pl(i)]
                       /\ m.place <= MaxProjectedItems
    BY LevelRows
  <2> HIDE DEF open, pl, A
  <2> QED BY <2>1, <2>2
<1>9. /\ \A x \in O : op(x) \in 1..M /\ \A i \in 1..k0 : op(x) = i <=> top[i] = x
      /\ \A i \in open : op(View[i]) = pl(i) /\ View[i] \in O
  BY <1>2, <1>5
<1> HIDE DEF top, k0, S, O, open, M, A, pl, op
<1>10. ASSUME NEW k \in 1..k0 PROVE \E m \in Level[0] : m.place = k /\ top[k] = View[m.item]
  <2>1. top[k] \in O
    BY <1>2
  <2>2. PICK i \in open : top[k] = View[i]
    BY <1>6, <2>1
  <2>3. pl(i) = k
    BY <1>9, <2>1, <2>2
  <2> DEFINE m == [item |-> i, place |-> pl(i)]
  <2>4. m.place <= MaxProjectedItems
    BY <1>2, <1>3, <2>3
  <2>5. m \in Level[0]
    BY <1>8, <2>4
  <2> QED BY <2>2, <2>3, <2>5
<1>11. ASSUME NEW m \in Level[0] PROVE m.place \in 1..k0 /\ top[m.place] = View[m.item]
  <2>1. PICK i \in open : m = [item |-> i, place |-> pl(i)] /\ m.place <= MaxProjectedItems
    BY <1>8, <1>11
  <2>2. op(View[i]) = pl(i) /\ View[i] \in O /\ pl(i) \in 1..M
    BY <1>9
  <2>3. pl(i) \in 1..k0
    BY <1>2, <1>3, <2>1, <2>2
  <2>4. top[pl(i)] = View[i]
    BY <1>9, <2>2, <2>3
  <2> QED BY <2>1, <2>3, <2>4
<1> QED BY <1>2, <1>7, <1>10, <1>11 DEF TopAre, top, S

\* The list of the screen is the first level.
LEMMA FirstMatches ==
  ASSUME SessionInv, feed # <<>>, NEW t, TreeRun(t, Screen)
  PROVE  Matches(Nodes(queue.items), Level[0], t, MaxAttachDepth)
<1> DEFINE S == Screen
           D == MaxAttachDepth
           top == TopLevel(S)
<1>1. queue.items = [i \in DOMAIN top |-> AssembleSubtree(S)[top[i]].item]
  <2>1. queue = Project(Parsed(feed), viewer)
    BY DEF SessionInv
  <2>2. Parsed(feed) \in Seq({group[id] : id \in DOMAIN group}) /\ Clean(Parsed(feed))
    BY RowsSeen
  <2> QED BY <2>1, <2>2, ProjectItems DEF Screen
<1>2. AssembleSubtree(S) = t[D]
  BY DEF TreeRun
<1>3. TopAre(top)
  BY TopList
<1> HIDE DEF top, S
<1>4. \A n : n \in Nodes(queue.items) <=>
        \E k \in DOMAIN top : n = [item |-> t[D][top[k]].item, place |-> k]
  BY <1>1, <1>2 DEF Nodes
<1>5. ASSUME NEW n \in Nodes(queue.items) PROVE \E m \in Level[0] : n = Drawn(m, t, D)
  <2>1. PICK k \in DOMAIN top : n = [item |-> t[D][top[k]].item, place |-> k]
    BY <1>4, <1>5
  <2>2. PICK m \in Level[0] : m.place = k /\ top[k] = View[m.item]
    BY <1>3 DEF TopAre
  <2>3. n = Drawn(m, t, D)
    BY <2>1, <2>2 DEF Drawn
  <2> QED BY <2>3
<1>6. ASSUME NEW m \in Level[0] PROVE Drawn(m, t, D) \in Nodes(queue.items)
  <2>1. m.place \in DOMAIN top /\ top[m.place] = View[m.item]
    BY <1>3 DEF TopAre
  <2>2. Drawn(m, t, D) = [item |-> t[D][top[m.place]].item, place |-> m.place]
    BY <2>1 DEF Drawn
  <2> QED BY <1>4, <2>1, <2>2
<1> QED BY <1>5, <1>6 DEF Matches, D

\* The children of a level of the screen are the next level.
LEMMA NextMatches ==
  ASSUME SessionInv, NEW t, TreeRun(t, Screen), NEW d \in 1..MaxAttachDepth,
         NEW P, Matches(P, Level[d - 1], t, MaxAttachDepth - (d - 1))
  PROVE  Matches(UNION {Nodes(n.item.children) : n \in P}, Level[d], t, MaxAttachDepth - d)
<1> DEFINE A == Of("item")
           S == Screen
           r == MaxAttachDepth - d
           Q == UNION {Nodes(n.item.children) : n \in P}
           L == Level[d - 1]
<1>1. /\ Ordered(S) /\ \A x \in S : OnScreen(x)
      /\ \A i \in A : View[i] \in S
  BY SeenIs
<1>2. /\ MaxAttachDepth - (d - 1) = r + 1 /\ r + 1 \in 0..MaxAttachDepth /\ r + 1 # 0
      /\ (r + 1) - 1 = r /\ d - 1 \in 0..MaxAttachDepth
  BY LimitsAssumption
<1> HIDE DEF r
<1>3. \A m \in L : m.item \in A
  BY <1>2, LevelRows DEF OfRows
<1>4. \A m : m \in Level[d] <=>
        \E i \in A : /\ \E n \in L : Child(i, n.item)
                     /\ m = [item |-> i, place |-> PlaceOf(i)]
                     /\ PlaceOf(i) <= MaxChildren
  BY LevelRows
<1>5. ASSUME NEW i \in A
      PROVE  /\ t[r + 1][View[i]].item.children = Below0(t, r, Kept(View[i], S))
             /\ KeptAre(Kept(View[i], S), i)
  <2>1. KeptAre(Kept(View[i], S), i)
    BY KeptIs
  <2>2. View[i] \in S /\ OnScreen(View[i])
    BY <1>1
  <2> HIDE DEF S
  <2>3. TreeRun(t, S)
    BY DEF S
  <2>4. t[r + 1][View[i]].item.children = Below0(t, (r + 1) - 1, Kept(View[i], S))
    BY <1>1, <1>2, <2>2, <2>3, TreeNode
  <2> QED BY <1>2, <2>1, <2>4
<1>6. \A n : n \in P <=> \E m \in L : n = Drawn(m, t, r + 1)
  BY <1>2 DEF Matches
<1>7. \A q : q \in Q <=> \E n \in P : q \in Nodes(n.item.children)
  OBVIOUS
<1>8. ASSUME NEW i \in A, NEW q
      PROVE  q \in Nodes(Below0(t, r, Kept(View[i], S))) <=>
               \E j \in A : Child(j, i) /\ PlaceOf(j) <= MaxChildren /\ q = Drawn([item |-> j, place |-> PlaceOf(j)], t, r)
  <2> DEFINE s == Kept(View[i], S)
  <2>1. KeptAre(s, i)
    BY <1>5
  <2> HIDE DEF s, A
  <2>2. q \in Nodes(Below0(t, r, s)) <=> \E k \in DOMAIN s : q = [item |-> t[r][s[k]].item, place |-> k]
    <3>1. DOMAIN Below0(t, r, s) = DOMAIN s /\ \A k \in DOMAIN s : Below0(t, r, s)[k] = t[r][s[k]].item
      BY DEF Below0
    <3> QED BY <3>1 DEF Nodes
  <2>3. ASSUME NEW k \in DOMAIN s, q = [item |-> t[r][s[k]].item, place |-> k]
        PROVE  \E j \in A : Child(j, i) /\ PlaceOf(j) <= MaxChildren /\ q = Drawn([item |-> j, place |-> PlaceOf(j)], t, r)
    <3>1. PICK j \in A : Child(j, i) /\ s[k] = View[j] /\ PlaceOf(j) = k /\ k <= MaxChildren
      BY <2>1 DEF KeptAre, A
    <3>2. q = Drawn([item |-> j, place |-> PlaceOf(j)], t, r)
      BY <2>3, <3>1 DEF Drawn
    <3> QED BY <3>1, <3>2
  <2>4. ASSUME NEW j \in A, Child(j, i), PlaceOf(j) <= MaxChildren, q = Drawn([item |-> j, place |-> PlaceOf(j)], t, r)
        PROVE  \E k \in DOMAIN s : q = [item |-> t[r][s[k]].item, place |-> k]
    <3>1. PlaceOf(j) \in DOMAIN s /\ s[PlaceOf(j)] = View[j]
      BY <2>1, <2>4 DEF KeptAre, A
    <3>2. q = [item |-> t[r][s[PlaceOf(j)]].item, place |-> PlaceOf(j)]
      BY <2>4, <3>1 DEF Drawn
    <3> QED BY <3>1, <3>2
  <2> QED BY <2>2, <2>3, <2>4 DEF s
<1> HIDE DEF A, S, L, Q
<1>9. ASSUME NEW q \in Q PROVE \E m \in Level[d] : q = Drawn(m, t, r)
  <2>1. PICK n \in P : q \in Nodes(n.item.children)
    BY <1>7, <1>9
  <2>2. PICK m \in L : n = Drawn(m, t, r + 1)
    BY <1>6
  <2> DEFINE i == m.item
  <2>3. i \in A
    BY <1>3
  <2>4. n.item = t[r + 1][View[i]].item
    BY <2>2 DEF Drawn
  <2>5. q \in Nodes(Below0(t, r, Kept(View[i], S)))
    BY <1>5, <2>1, <2>3, <2>4
  <2> HIDE DEF i
  <2>6. PICK j \in A : Child(j, i) /\ PlaceOf(j) <= MaxChildren /\ q = Drawn([item |-> j, place |-> PlaceOf(j)], t, r)
    BY <1>8, <2>3, <2>5
  <2>7. [item |-> j, place |-> PlaceOf(j)] \in Level[d]
    <3>1. \E x \in L : Child(j, x.item)
      BY <2>6 DEF i
    <3> QED BY <1>4, <2>6, <3>1
  <2> QED BY <2>6, <2>7
<1>10. ASSUME NEW m \in Level[d] PROVE Drawn(m, t, r) \in Q
  <2>1. PICK j \in A : /\ \E x \in L : Child(j, x.item)
                       /\ m = [item |-> j, place |-> PlaceOf(j)]
                       /\ PlaceOf(j) <= MaxChildren
    BY <1>4, <1>10
  <2>2. PICK x \in L : Child(j, x.item)
    BY <2>1
  <2> DEFINE i == x.item
             n == Drawn(x, t, r + 1)
  <2>3. i \in A /\ n \in P
    BY <1>3, <1>6
  <2>4. n.item = t[r + 1][View[i]].item
    BY DEF Drawn
  <2> HIDE DEF i, n
  <2>5. Drawn(m, t, r) \in Nodes(Below0(t, r, Kept(View[i], S)))
    <3>1. Child(j, i) /\ PlaceOf(j) <= MaxChildren /\ Drawn(m, t, r) = Drawn([item |-> j, place |-> PlaceOf(j)], t, r)
      BY <2>1, <2>2 DEF i
    <3> QED BY <1>8, <2>3, <3>1
  <2>6. Drawn(m, t, r) \in Nodes(n.item.children)
    BY <1>5, <2>3, <2>4, <2>5
  <2> QED BY <1>7, <2>3, <2>6
<1> QED BY <1>9, <1>10 DEF Matches, Q, r

\* The last level of the screen has no children.
LEMMA LastMatches ==
  ASSUME SessionInv, NEW t, TreeRun(t, Screen),
         NEW P, Matches(P, Level[MaxAttachDepth], t, 0)
  PROVE  UNION {Nodes(n.item.children) : n \in P} = {}
<1> DEFINE S == Screen
<1>1. /\ Ordered(S) /\ \A x \in S : OnScreen(x)
      /\ \A i \in Of("item") : View[i] \in S
  BY SeenIs
<1>2. MaxAttachDepth \in 0..MaxAttachDepth /\ 0 \in 0..MaxAttachDepth
  BY LimitsAssumption
<1>3. ASSUME NEW n \in P PROVE Nodes(n.item.children) = {}
  <2>1. PICK m \in Level[MaxAttachDepth] : n = Drawn(m, t, 0)
    BY <1>3 DEF Matches
  <2>2. m.item \in Of("item")
    BY <1>2, LevelRows DEF OfRows
  <2>3. View[m.item] \in S /\ OnScreen(View[m.item])
    BY <1>1, <2>2
  <2> HIDE DEF S
  <2>4. TreeRun(t, S)
    BY DEF S
  <2>5. t[0][View[m.item]].item.children = <<>>
    BY <1>1, <1>2, <2>3, <2>4, TreeNode
  <2>6. n.item = t[0][View[m.item]].item
    BY <2>1 DEF Drawn
  <2> QED BY <2>5, <2>6 DEF Nodes
<1> QED BY <1>3

\* An entry of the screen is what is expected of the row.
LEMMA EntryDrawn ==
  ASSUME SessionInv, NEW t, TreeRun(t, Screen), NEW r \in 0..MaxAttachDepth,
         NEW m, m.item \in Of("item")
  PROVE  Displayed(Drawn(m, t, r)) = Entry(m.item, m.place)
<1> DEFINE S == Screen
           i == m.item
           x == View[i]
           y == t[r][x].item
<1>1. /\ Ordered(S) /\ OnScreen(x) /\ x \in S
      /\ x.answer = Latest(Answers(i))
      /\ IsHidden(x) <=> Dismissed(i)
      /\ Pairs(x.reactions) = Added(i)
      /\ Copies(View, Of("item"))
  BY SeenIs
<1>2. x.id = i.id /\ x.attach = i.attach
  BY <1>1 DEF Copies
<1>3. Over(y, x)
  <2> HIDE DEF S, x
  <2>1. TreeRun(t, S)
    BY DEF S
  <2> QED BY <1>1, <2>1, TreeNode
<1> HIDE DEF S, x, y, i
<1>4. /\ y.id = i.id /\ y.attach = i.attach /\ y.answer = Latest(Answers(i))
      /\ Pairs(y.reactions) = Added(i)
  BY <1>1, <1>2, <1>3 DEF Over
<1>5. IsHidden(y) = Dismissed(i)
  <2>1. y.acknowledgement = x.acknowledgement
    BY <1>3 DEF Over
  <2>2. IsHidden(y) <=> Dismissed(i)
    BY <1>1, <2>1 DEF IsHidden
  <2>3. IsHidden(y) \in BOOLEAN /\ Dismissed(i) \in BOOLEAN
    BY DEF IsHidden, Dismissed
  <2> QED BY <2>2, <2>3
<1>6. Displayed(Drawn(m, t, r))
        = [id |-> y.id, attach |-> y.attach, place |-> m.place, answer |-> y.answer,
           hidden |-> IsHidden(y), reactions |-> Pairs(y.reactions)]
  BY DEF Displayed, Drawn, y, x, i
<1>7. Entry(i, m.place)
        = [id |-> i.id, attach |-> i.attach, place |-> m.place, answer |-> Latest(Answers(i)),
           hidden |-> Dismissed(i), reactions |-> Added(i)]
  BY DEF Entry, Added
<1> QED BY <1>4, <1>5, <1>6, <1>7 DEF i

\* The screen shows what is expected.
LEMMA EntriesExpected ==
  ASSUME SessionInv, feed # <<>>
  PROVE  Entries(queue.items) = Expected
<1> DEFINE D == MaxAttachDepth
<1>1. PICK t : TreeRun(t, Screen)
  BY TreeSteps
<1>2. PICK e : EntriesRun(e, queue.items)
  BY EntriesSteps
<1>3. D \in Nat
  BY LimitsAssumption
<1> DEFINE T == {d \in 0..D : Matches(e[d], Level[d], t, D - d)}
<1>4. 0 \in T
  <2>1. Matches(Nodes(queue.items), Level[0], t, D)
    BY <1>1, FirstMatches
  <2>2. D - 0 = D /\ 0 \in 0..D
    BY <1>3
  <2> QED BY <1>2, <2>1, <2>2 DEF EntriesRun
<1>5. ASSUME NEW d \in 0..(D - 1), d \in T PROVE d + 1 \in T
  <2> DEFINE c == d + 1
  <2>1. c \in 1..D /\ c \in 0..D /\ c - 1 = d /\ c \in 1..(D + 1)
    BY <1>3
  <2>2. e[c] = UNION {Nodes(n.item.children) : n \in e[c - 1]}
    BY <1>2, <2>1 DEF EntriesRun
  <2>3. Matches(e[c - 1], Level[c - 1], t, D - (c - 1))
    BY <1>5, <2>1
  <2> HIDE DEF c
  <2>4. Matches(UNION {Nodes(n.item.children) : n \in e[c - 1]}, Level[c], t, D - c)
    BY <1>1, <2>1, <2>3, NextMatches
  <2> QED BY <2>1, <2>2, <2>4 DEF c
<1>6. \A d \in 0..D : d \in T
  <2> HIDE DEF T, D
  <2> QED BY <1>3, <1>4, <1>5, Induction
<1>7. e[D + 1] = {}
  <2>1. D + 1 \in 1..(D + 1) /\ (D + 1) - 1 = D /\ D - D = 0 /\ D \in 0..D
    BY <1>3
  <2>2. Matches(e[D], Level[D], t, 0)
    BY <1>6, <2>1
  <2>3. UNION {Nodes(n.item.children) : n \in e[D]} = {}
    BY <1>1, <2>2, LastMatches
  <2>4. e[D + 1] = UNION {Nodes(n.item.children) : n \in e[(D + 1) - 1]}
    BY <1>2, <2>1 DEF EntriesRun
  <2> QED BY <2>1, <2>3, <2>4
<1>8. \A d \in 0..D : \A n : n \in e[d] <=> \E m \in Level[d] : n = Drawn(m, t, D - d)
  BY <1>6 DEF Matches
<1>9. \A d \in 0..D : \A m \in Level[d] : Displayed(Drawn(m, t, D - d)) = Entry(m.item, m.place)
  <2> TAKE d \in 0..D
  <2> TAKE m \in Level[d]
  <2>1. m.item \in Of("item")
    BY LevelRows DEF OfRows
  <2>2. D - d \in 0..D
    BY <1>3
  <2> QED BY <1>1, <2>1, <2>2, EntryDrawn
<1>10. \A x : x \in Entries(queue.items) <=> \E d \in 0..(D + 1) : \E n \in e[d] : x = Displayed(n)
  BY <1>2 DEF EntriesRun
<1>11. \A x : x \in Expected <=> \E d \in 0..D : \E m \in Level[d] : x = Entry(m.item, m.place)
  BY DEF Expected
<1>12. \A d : d \in 0..(D + 1) <=> d \in 0..D \/ d = D + 1
  BY <1>3
<1> HIDE DEF D, T
<1>13. ASSUME NEW x \in Entries(queue.items) PROVE x \in Expected
  <2>1. PICK d \in 0..(D + 1) : \E n \in e[d] : x = Displayed(n)
    BY <1>10, <1>13
  <2>2. PICK n \in e[d] : x = Displayed(n)
    BY <2>1
  <2>3. d \in 0..D
    BY <1>7, <1>12, <2>2
  <2>4. PICK m \in Level[d] : n = Drawn(m, t, D - d)
    BY <1>8, <2>3
  <2>5. x = Entry(m.item, m.place)
    BY <1>9, <2>2, <2>3, <2>4
  <2> QED BY <1>11, <2>3, <2>5
<1>14. ASSUME NEW x \in Expected PROVE x \in Entries(queue.items)
  <2>1. PICK d \in 0..D : \E m \in Level[d] : x = Entry(m.item, m.place)
    BY <1>11, <1>14
  <2>2. PICK m \in Level[d] : x = Entry(m.item, m.place)
    BY <2>1
  <2>3. Drawn(m, t, D - d) \in e[d]
    BY <1>8
  <2>4. x = Displayed(Drawn(m, t, D - d))
    BY <1>9, <2>2
  <2> QED BY <1>10, <1>12, <2>3, <2>4
<1> QED BY <1>13, <1>14

(* What the queue rejects                                                  *)

SumRun(sum, trees) ==
  /\ sum[0] = 0
  /\ \A n \in 1..Len(trees) : sum[n] = sum[n - 1] + trees[n].dropped
  /\ Dropped(trees) = sum[Len(trees)]

\* The numbers of the trees are added one by one.
LEMMA SumSteps ==
  ASSUME NEW X, NEW trees \in Seq(X)
  PROVE  \E sum : SumRun(sum, trees)
<1> DEFINE N == Len(trees)
           Step(n, x) == x + trees[n].dropped
           Up(f, n) == f = [k \in 0..n |-> IF k = 0 THEN 0 ELSE Step(k, f[k - 1])]
           T == {n \in 0..N : \E f : Up(f, n)}
<1> HIDE DEF Step
<1>1. N \in Nat
  OBVIOUS
<1> HIDE DEF N
<1>2. 0 \in T
  <2> DEFINE f == [k \in 0..0 |-> 0]
  <2>1. Up(f, 0)
    OBVIOUS
  <2>2. 0 \in 0..N
    BY <1>1
  <2> HIDE DEF f, Up
  <2> QED BY <2>1, <2>2
<1>3. ASSUME NEW n \in 0..(N - 1), n \in T PROVE n + 1 \in T
  <2>1. PICK f : Up(f, n)
    BY <1>3
  <2> DEFINE g == [k \in 0..(n + 1) |-> IF k <= n THEN f[k] ELSE Step(n + 1, f[n])]
             h == [k \in 0..(n + 1) |-> IF k = 0 THEN 0 ELSE Step(k, g[k - 1])]
  <2>2. ASSUME NEW k \in 0..(n + 1) PROVE g[k] = IF k = 0 THEN 0 ELSE Step(k, g[k - 1])
    <3>1. CASE k = 0
      BY <1>1, <2>1, <3>1
    <3>2. CASE k \in 1..n
      <4>1. k - 1 \in 0..n /\ k \in 0..n /\ k - 1 \in 0..(n + 1) /\ k - 1 <= n /\ k <= n
        BY <1>1, <3>2
      <4>2. f[k] = Step(k, f[k - 1])
        BY <2>1, <3>2, <4>1
      <4> QED BY <3>2, <4>1, <4>2
    <3>3. CASE k = n + 1
      <4>1. k - 1 = n /\ ~(k <= n) /\ n \in 0..(n + 1) /\ n <= n /\ k # 0
        BY <1>1, <3>3
      <4> QED BY <3>3, <4>1
    <3>4. k = 0 \/ k \in 1..n \/ k = n + 1
      BY <1>1, <2>2
    <3> QED BY <3>1, <3>2, <3>3, <3>4
  <2>3. g = h
    BY <2>2
  <2>4. Up(g, n + 1)
    BY <2>3
  <2>5. n + 1 \in 0..N
    BY <1>1
  <2> QED BY <2>4, <2>5
<1>4. N \in T
  <2> HIDE DEF T
  <2>1. \A n \in 0..N : n \in T
    BY <1>1, <1>2, <1>3, Induction
  <2> QED BY <1>1, <2>1
<1>5. \E f : Up(f, N)
  BY <1>4
<1> DEFINE e == CHOOSE f : Up(f, N)
<1>6. Up(e, N)
  BY <1>5
<1>7. Dropped(trees) = e[N]
  BY DEF Dropped, Step, N
<1> HIDE DEF e
<1>8. e[0] = 0
  BY <1>1, <1>6
<1>9. ASSUME NEW n \in 1..N PROVE e[n] = Step(n, e[n - 1])
  <2>1. n \in 0..N /\ n # 0
    BY <1>1
  <2> QED BY <1>6, <2>1
<1>10. SumRun(e, trees)
  BY <1>7, <1>8, <1>9 DEF SumRun, N, Step
<1> QED BY <1>10

\* A tree for each of some sets, that have no members in common.
Counts(f, trees) ==
  /\ \A k \in 1..Len(trees) : IsFiniteSet(f[k]) /\ trees[k].dropped = Cardinality(f[k])
  /\ \A k, m \in 1..Len(trees) : k # m => f[k] \cap f[m] = {}

\* The trees drop as many items as there are in all of the sets.
LEMMA DroppedIs ==
  ASSUME NEW X, NEW trees \in Seq(X), NEW f, Counts(f, trees)
  PROVE  /\ Dropped(trees) = Cardinality(UNION {f[k] : k \in 1..Len(trees)})
         /\ IsFiniteSet(UNION {f[k] : k \in 1..Len(trees)})
<1> DEFINE N == Len(trees)
           U(n) == UNION {f[k] : k \in 1..n}
<1>1. N \in Nat
  OBVIOUS
<1>2. PICK sum : SumRun(sum, trees)
  BY SumSteps
<1> DEFINE T == {n \in 0..N : IsFiniteSet(U(n)) /\ sum[n] = Cardinality(U(n))}
<1>3. 0 \in T
  <2>1. U(0) = {} /\ 0 \in 0..N
    BY <1>1
  <2>2. IsFiniteSet({}) /\ Cardinality({}) = 0
    BY FS_EmptySet
  <2> QED BY <1>2, <2>1, <2>2 DEF SumRun
<1>4. ASSUME NEW n \in 0..(N - 1), n \in T PROVE n + 1 \in T
  <2>1. n + 1 \in 1..N /\ n + 1 \in 0..N /\ (n + 1) - 1 = n
          /\ \A k : k \in 1..(n + 1) <=> k \in 1..n \/ k = n + 1
    BY <1>1
  <2>2. U(n + 1) = U(n) \union f[n + 1]
    BY <2>1
  <2>3. U(n) \cap f[n + 1] = {}
    <3>1. \A k \in 1..n : k \in 1..N /\ k # n + 1
      BY <1>1
    <3>2. \A k \in 1..n : f[k] \cap f[n + 1] = {}
      BY <2>1, <3>1 DEF Counts
    <3> QED BY <3>2
  <2>4. IsFiniteSet(f[n + 1]) /\ trees[n + 1].dropped = Cardinality(f[n + 1])
    BY <2>1 DEF Counts
  <2>5. IsFiniteSet(U(n)) /\ sum[n] = Cardinality(U(n))
    BY <1>4
  <2>6. sum[n + 1] = sum[n] + trees[n + 1].dropped
    BY <1>2, <2>1 DEF SumRun
  <2> HIDE DEF U
  <2>7. /\ IsFiniteSet(U(n) \union f[n + 1])
        /\ Cardinality(U(n) \union f[n + 1])
             = Cardinality(U(n)) + Cardinality(f[n + 1]) - Cardinality(U(n) \cap f[n + 1])
    BY <2>4, <2>5, FS_Union
  <2>8. Cardinality(U(n) \cap f[n + 1]) = 0
    BY <2>3, FS_EmptySet
  <2>9. Cardinality(U(n)) \in Nat /\ Cardinality(f[n + 1]) \in Nat
    BY <2>4, <2>5, FS_CardinalityType
  <2>11. sum[n + 1] = Cardinality(U(n)) + Cardinality(f[n + 1])
    BY <2>4, <2>5, <2>6
  <2>12. Cardinality(U(n) \union f[n + 1]) = Cardinality(U(n)) + Cardinality(f[n + 1])
    BY <2>7, <2>8, <2>9
  <2>10. sum[n + 1] = Cardinality(U(n + 1)) /\ IsFiniteSet(U(n + 1))
    BY <2>2, <2>7, <2>11, <2>12
  <2> QED BY <2>1, <2>10
<1>5. N \in T
  <2> HIDE DEF T, N
  <2>1. \A n \in 0..N : n \in T
    BY <1>1, <1>3, <1>4, Induction
  <2> QED BY <1>1, <2>1
<1> QED BY <1>2, <1>5 DEF SumRun

\* A list of the screen that shows the items of a set, each once.
Lists(s, K) ==
  /\ Len(s) \in Nat
  /\ DOMAIN s = 1..Len(s)
  /\ \A k \in DOMAIN s : \E i \in K : s[k] = View[i]
  /\ \A i \in K : \E k \in DOMAIN s : s[k] = View[i]
  /\ \A k, m \in DOMAIN s : s[k] = s[m] => k = m

\* What is lost below the items of a set: a set of its own for each.
Apart(f, K) == \A i, j \in K : i # j => f[i] \cap f[j] = {}
Losses(f, K, t, r) ==
  \A i \in K : IsFiniteSet(f[i]) /\ t[r][View[i]].dropped = Cardinality(f[i])

\* The trees of such a list drop what is lost below its items.
LEMMA ListDropped ==
  ASSUME SessionInv, NEW K \in SUBSET Of("item"), IsFiniteSet(K), NEW s, Lists(s, K),
         NEW t, NEW r, NEW f, Losses(f, K, t, r), Apart(f, K)
  PROVE  /\ Len(s) = Cardinality(K)
         /\ Dropped(Trees0(t, r, s)) = Cardinality(UNION {f[i] : i \in K})
         /\ IsFiniteSet(UNION {f[i] : i \in K})
<1> DEFINE N == Len(s)
           w == [k \in 1..N |-> CHOOSE i \in K : s[k] = View[i]]
           trees == Trees0(t, r, s)
           g == [k \in 1..N |-> f[w[k]]]
           X == {t[r][x] : x \in {s[k] : k \in 1..N}}
<1>1. /\ N \in Nat /\ DOMAIN s = 1..N
      /\ \A k \in 1..N : \E i \in K : s[k] = View[i]
      /\ \A i \in K : \E k \in 1..N : s[k] = View[i]
      /\ \A k, m \in 1..N : s[k] = s[m] => k = m
  BY DEF Lists
<1>2. \A i, j \in K : View[i] = View[j] => i = j
  BY SeenIs
<1>3. \A k \in 1..N : w[k] \in K /\ s[k] = View[w[k]]
  BY <1>1
<1>4. trees = [k \in 1..N |-> t[r][s[k]]]
  BY <1>1 DEF Trees0
<1>5. \A k \in 1..N : g[k] = f[w[k]]
  OBVIOUS
<1> HIDE DEF w, N, trees, g
<1>6. \A k, m \in 1..N : w[k] = w[m] => k = m
  BY <1>1, <1>3
<1>7. \A i \in K : \E k \in 1..N : i = w[k]
  BY <1>1, <1>2, <1>3
<1>8. N = Cardinality(K)
  <2>1. {w[k] : k \in 1..N} = K
    BY <1>3, <1>7
  <2>2. IsFiniteSet(1..N) /\ Cardinality(1..N) = N
    BY <1>1, FS_Interval
  <2>3. Cardinality({w[k] : k \in 1..N}) = Cardinality(1..N)
    <3> DEFINE I == 1..N
    <3>1. IsFiniteSet(I) /\ \A k, m \in I : w[k] = w[m] => k = m
      BY <1>6, <2>2
    <3> HIDE DEF I
    <3>2. Cardinality({w[k] : k \in I}) = Cardinality(I)
      BY <3>1, CardImage
    <3> QED BY <3>2 DEF I
  <2> QED BY <2>1, <2>2, <2>3
<1>9. trees \in Seq(X) /\ Len(trees) = N
  <2>1. trees \in [1..N -> X]
    BY <1>4
  <2> HIDE DEF X
  <2> QED BY <1>1, <2>1, FunctionIsSeq
<1>10. Counts(g, trees)
  <2>1. ASSUME NEW k \in 1..N PROVE IsFiniteSet(g[k]) /\ trees[k].dropped = Cardinality(g[k])
    <3>1. w[k] \in K /\ trees[k] = t[r][View[w[k]]]
      BY <1>3, <1>4
    <3> QED BY <1>5, <3>1 DEF Losses
  <2>2. \A k, m \in 1..N : k # m => g[k] \cap g[m] = {}
    BY <1>3, <1>5, <1>6 DEF Apart
  <2> QED BY <1>9, <2>1, <2>2 DEF Counts
<1>11. UNION {g[k] : k \in 1..N} = UNION {f[i] : i \in K}
  BY <1>3, <1>5, <1>7
<1> HIDE DEF X
<1>12. /\ Dropped(trees) = Cardinality(UNION {g[k] : k \in 1..Len(trees)})
       /\ IsFiniteSet(UNION {g[k] : k \in 1..Len(trees)})
  BY <1>9, <1>10, DroppedIs
<1> QED BY <1>8, <1>9, <1>11, <1>12 DEF N, trees

\* The items of a level.
Shelf(d) == {m.item : m \in Level[d]}

\* The first level has no parents, the others have theirs on the level above, and an item
\* is on one level only.
LEMMA Shelves ==
  ASSUME SessionInv
  PROVE  /\ \A d \in 0..MaxAttachDepth : Shelf(d) \in SUBSET Of("item")
         /\ \A i \in Shelf(0) : i.attach = None
         /\ \A d \in 1..MaxAttachDepth : \A i : i \in Shelf(d) <=>
              \E z \in Shelf(d - 1) : Child(i, z) /\ PlaceOf(i) <= MaxChildren
         /\ \A d, e \in 0..MaxAttachDepth : \A i : i \in Shelf(d) /\ i \in Shelf(e) => d = e
<1> DEFINE D == MaxAttachDepth
           A == Of("item")
           open == {j \in Of("item") : j.attach = None /\ ~Dismissed(j)}
           pl(i) == Place(i, open, NewestFirst)
<1>1. D \in Nat
  BY LimitsAssumption
<1>2. Ordered(A)
  BY SeenIs
<1>3. \A d \in 0..D : Shelf(d) \in SUBSET A
  BY LevelRows DEF Shelf, OfRows
<1>4. \A i \in Shelf(0) : i.attach = None
  <2>1. \A m : m \in Level[0] => \E i \in A : i.attach = None /\ m = [item |-> i, place |-> pl(i)]
    BY LevelRows
  <2> HIDE DEF pl, A
  <2> QED BY <2>1 DEF Shelf
<1>5. \A d \in 1..D : \A i : i \in Shelf(d) <=>
        \E z \in Shelf(d - 1) : Child(i, z) /\ PlaceOf(i) <= MaxChildren
  <2> TAKE d \in 1..D
  <2>1. \A m : m \in Level[d] <=>
          \E i \in A : /\ \E n \in Level[d - 1] : Child(i, n.item)
                       /\ m = [item |-> i, place |-> PlaceOf(i)]
                       /\ PlaceOf(i) <= MaxChildren
    BY LevelRows
  <2> HIDE DEF A
  <2>3. ASSUME NEW i \in Shelf(d) PROVE \E z \in Shelf(d - 1) : Child(i, z) /\ PlaceOf(i) <= MaxChildren
    <3>1. PICK m \in Level[d] : i = m.item
      BY <2>3 DEF Shelf
    <3>2. PICK j \in A : /\ \E n \in Level[d - 1] : Child(j, n.item)
                         /\ m = [item |-> j, place |-> PlaceOf(j)]
                         /\ PlaceOf(j) <= MaxChildren
      BY <2>1
    <3>3. i = j
      BY <3>1, <3>2
    <3>4. PICK n \in Level[d - 1] : Child(j, n.item)
      BY <3>2
    <3>5. n.item \in Shelf(d - 1)
      BY DEF Shelf
    <3> QED BY <3>2, <3>3, <3>4, <3>5
  <2>4. ASSUME NEW i, NEW z \in Shelf(d - 1), Child(i, z), PlaceOf(i) <= MaxChildren PROVE i \in Shelf(d)
    <3>1. PICK n \in Level[d - 1] : z = n.item
      BY DEF Shelf
    <3>2. i \in A
      BY <2>4 DEF Child, A
    <3>3. [item |-> i, place |-> PlaceOf(i)] \in Level[d]
      BY <2>1, <2>4, <3>1, <3>2
    <3>4. [item |-> i, place |-> PlaceOf(i)].item = i
      OBVIOUS
    <3> QED BY <3>3, <3>4 DEF Shelf
  <2> QED BY <2>3, <2>4
<1>6. \A i, z, y : z \in A /\ y \in A /\ Child(i, z) /\ Child(i, y) => z = y
  BY <1>2 DEF Child, Ordered
<1>7. ASSUME NEW i, NEW z \in A, Child(i, z) PROVE i.attach # None
  <2>1. z.id \in Nat
    BY <1>2 DEF Ordered
  <2> QED BY <1>7, <2>1, TextAssumption DEF Child
<1> DEFINE T == {d \in 0..D : \A e \in 0..D : \A i : i \in Shelf(d) /\ i \in Shelf(e) => d = e}
<1> HIDE DEF A
<1>8. 0 \in T
  <2>1. ASSUME NEW e \in 0..D, NEW i \in Shelf(0), i \in Shelf(e), e # 0 PROVE FALSE
    <3>1. e \in 1..D /\ e - 1 \in 0..D
      BY <1>1, <2>1
    <3>2. PICK z \in Shelf(e - 1) : Child(i, z)
      BY <1>5, <2>1, <3>1
    <3>3. i.attach # None
      BY <1>3, <1>7, <3>1, <3>2
    <3> QED BY <1>4, <3>3
  <2>2. 0 \in 0..D
    BY <1>1
  <2> QED BY <2>1, <2>2
<1>9. ASSUME NEW d \in 0..(D - 1), d \in T PROVE d + 1 \in T
  <2>1. d + 1 \in 1..D /\ d + 1 \in 0..D /\ (d + 1) - 1 = d /\ d \in 0..D
    BY <1>1
  <2>2. ASSUME NEW e \in 0..D, NEW i, i \in Shelf(d + 1), i \in Shelf(e) PROVE d + 1 = e
    <3>1. PICK z \in Shelf(d) : Child(i, z)
      BY <1>5, <2>1, <2>2
    <3>2. e # 0
      <4>1. i.attach # None
        BY <1>3, <1>7, <2>1, <3>1
      <4> QED BY <1>4, <2>2, <4>1
    <3>3. e \in 1..D /\ e - 1 \in 0..D
      BY <1>1, <3>2
    <3>4. PICK y \in Shelf(e - 1) : Child(i, y)
      BY <1>5, <2>2, <3>3
    <3>5. z = y
      BY <1>3, <1>6, <2>1, <3>1, <3>3, <3>4
    <3>6. d = e - 1
      BY <1>9, <3>3, <3>4, <3>5
    <3> QED BY <1>1, <3>3, <3>6
  <2> QED BY <2>1, <2>2
<1>10. \A d \in 0..D : d \in T
  <2> HIDE DEF T, D
  <2> QED BY <1>1, <1>8, <1>9, Induction
<1> QED BY <1>3, <1>4, <1>5, <1>10 DEF A

\* All children of an item, and those that are kept.
Children(i) == {j \in Of("item") : j.attach = i.id}
KeptChildren(i) == {j \in Children(i) : PlaceOf(j) <= MaxChildren}

\* The kept children are a list of the screen.
LEMMA ChildList ==
  ASSUME SessionInv, NEW i \in Of("item")
  PROVE  /\ Lists(Kept(View[i], Screen), KeptChildren(i))
         /\ Children(i) \in SUBSET Of("item") /\ IsFiniteSet(Children(i))
         /\ KeptChildren(i) \in SUBSET Children(i) /\ IsFiniteSet(KeptChildren(i))
         /\ Len(ChildrenOf(View[i].id, Screen)) = Cardinality(Children(i))
<1> DEFINE A == Of("item")
           s == Kept(View[i], Screen)
           K == KeptChildren(i)
<1>1. /\ KeptAre(s, i)
      /\ Len(ChildrenOf(View[i].id, Screen)) = Cardinality({j \in A : j.attach = i.id})
      /\ Len(s) \in Nat /\ DOMAIN s = 1..Len(s)
  BY KeptIs
<1>2. \A j : j \in K <=> j \in A /\ Child(j, i) /\ PlaceOf(j) <= MaxChildren
  BY DEF KeptChildren, Children, Child
<1>3. \A x, y \in A : View[x] = View[y] => x = y
  BY SeenIs
<1>4. Children(i) \in SUBSET A /\ K \in SUBSET Children(i)
  BY DEF KeptChildren, Children
<1>5. IsFiniteSet(Children(i)) /\ IsFiniteSet(K)
  <2>1. IsFiniteSet(A)
    BY SeenIs DEF Ordered
  <2>2. IsFiniteSet(Children(i))
    BY <1>4, <2>1, FS_Subset
  <2> QED BY <1>4, <2>2, FS_Subset
<1> HIDE DEF s, K, A
<1>6. \A k \in DOMAIN s : \E j \in K : s[k] = View[j] /\ PlaceOf(j) = k
  BY <1>1, <1>2 DEF KeptAre, A
<1>7. \A j \in K : \E k \in DOMAIN s : s[k] = View[j]
  BY <1>1, <1>2 DEF KeptAre, A
<1>8. \A k, m \in DOMAIN s : s[k] = s[m] => k = m
  <2> TAKE k, m \in DOMAIN s
  <2>1. PICK j \in K : s[k] = View[j] /\ PlaceOf(j) = k
    BY <1>6
  <2>2. PICK l \in K : s[m] = View[l] /\ PlaceOf(l) = m
    BY <1>6
  <2>3. j \in A /\ l \in A
    BY <1>2
  <2> QED BY <1>3, <2>1, <2>2, <2>3
<1>9. Lists(s, K)
  BY <1>1, <1>6, <1>7, <1>8 DEF Lists
<1> QED BY <1>1, <1>4, <1>5, <1>9 DEF s, K, A, Children

\* The items that are lost below a level and those under it: their parents are shown, and
\* they are not.
Under(d) ==
  {j \in Of("item") : \E e \in d..MaxAttachDepth :
     /\ \E z \in Shelf(e) : Child(j, z)
     /\ e < MaxAttachDepth => j \notin Shelf(e + 1)}

\* A set of lost items for each item of a level.
Told(f, d, t) ==
  /\ Losses(f, Shelf(d), t, MaxAttachDepth - d)
  /\ Apart(f, Shelf(d))
  /\ UNION {f[i] : i \in Shelf(d)} = Under(d)

\* Below the last level every child is lost.
LEMMA LostBelowLast ==
  ASSUME SessionInv, NEW t, TreeRun(t, Screen)
  PROVE  \E f : Told(f, MaxAttachDepth, t)
<1> DEFINE D == MaxAttachDepth
           A == Of("item")
           S == Screen
           K == Shelf(D)
           f == [i \in A |-> Children(i)]
<1>1. D \in Nat /\ D - D = 0 /\ 0 \in 0..D /\ D \in 0..D
  BY LimitsAssumption
<1>2. K \in SUBSET A
  BY <1>1, Shelves
<1>3. /\ Ordered(A) /\ Ordered(S) /\ \A x \in S : OnScreen(x)
      /\ \A i \in A : View[i] \in S
  BY SeenIs
<1>4. ASSUME NEW i \in A PROVE IsFiniteSet(Children(i)) /\ t[0][View[i]].dropped = Cardinality(Children(i))
  <2>1. IsFiniteSet(Children(i)) /\ Len(ChildrenOf(View[i].id, S)) = Cardinality(Children(i))
    BY ChildList
  <2>2. View[i] \in S /\ OnScreen(View[i])
    BY <1>3
  <2>3. t[0][View[i]].dropped = Len(ChildrenOf(View[i].id, S)) - 0 + Dropped(<<>>)
    <3>1. TreeRun(t, S)
      OBVIOUS
    <3> HIDE DEF S
    <3> QED BY <1>1, <1>3, <2>2, <3>1, TreeNode
  <2>4. Dropped(<<>>) = 0
    <3>1. <<>> \in Seq({}) /\ Len(<<>>) = 0
      OBVIOUS
    <3>2. PICK sum : SumRun(sum, <<>>)
      BY <3>1, SumSteps
    <3> QED BY <3>1, <3>2 DEF SumRun
  <2>5. Cardinality(Children(i)) \in Nat
    BY <2>1, FS_CardinalityType
  <2> QED BY <2>1, <2>3, <2>4, <2>5
<1>5. \A i \in K : f[i] = Children(i)
  BY <1>2
<1>6. Losses(f, K, t, D - D)
  BY <1>1, <1>2, <1>4, <1>5 DEF Losses
<1>7. Apart(f, K)
  BY <1>2, <1>3, <1>5 DEF Apart, Children, Ordered
<1>8. UNION {f[i] : i \in K} = Under(D)
  <2>1. \A j : j \in Under(D) <=> \E z \in K : Child(j, z)
    <3>1. \A e : e \in D..D <=> e = D
      BY <1>1
    <3>2. ~(D < D)
      BY <1>1
    <3> QED BY <3>1, <3>2 DEF Under, Child
  <2>2. \A j, z : Child(j, z) <=> j \in Children(z)
    BY DEF Child, Children
  <2> QED BY <1>5, <2>1, <2>2
<1> HIDE DEF f
<1> QED BY <1>6, <1>7, <1>8 DEF Told

\* Below an item of a level above, the children that are cut off are lost, and what is lost
\* below the others.
LEMMA LostAbove ==
  ASSUME SessionInv, NEW t, TreeRun(t, Screen), NEW d \in 0..(MaxAttachDepth - 1),
         NEW g, Told(g, d + 1, t)
  PROVE  \E f : Told(f, d, t)
<1> DEFINE D == MaxAttachDepth
           A == Of("item")
           S == Screen
           H == Shelf(d)
           L == Shelf(d + 1)
           r == D - d
           Cut(i) == Children(i) \ KeptChildren(i)
           Deep(i) == UNION {g[j] : j \in KeptChildren(i)}
           f == [i \in A |-> Cut(i) \union Deep(i)]
<1>1. /\ D \in Nat /\ d \in 0..D /\ d + 1 \in 0..D /\ d + 1 \in 1..D /\ (d + 1) - 1 = d
      /\ r \in 0..D /\ r # 0 /\ r - 1 = D - (d + 1)
  BY LimitsAssumption
<1>2. /\ H \in SUBSET A /\ L \in SUBSET A
      /\ \A i : i \in L <=> \E z \in H : Child(i, z) /\ PlaceOf(i) <= MaxChildren
  BY <1>1, Shelves
<1>3. \A p, q \in 0..D : \A i : i \in Shelf(p) /\ i \in Shelf(q) => p = q
  BY Shelves
<1>4. /\ Ordered(A) /\ Ordered(S) /\ \A x \in S : OnScreen(x)
      /\ \A i \in A : View[i] \in S
  BY SeenIs
<1>5. \A j, z : Child(j, z) <=> j \in Children(z)
  BY DEF Child, Children
<1>6. \A j, z : j \in KeptChildren(z) <=> Child(j, z) /\ PlaceOf(j) <= MaxChildren
  BY <1>5 DEF KeptChildren
<1>7. \A j, y, z : y \in A /\ z \in A /\ Child(j, y) /\ Child(j, z) => y = z
  BY <1>4 DEF Child, Ordered
<1>8. /\ Losses(g, L, t, D - (d + 1))
      /\ Apart(g, L)
      /\ UNION {g[i] : i \in L} = Under(d + 1)
  BY DEF Told
<1>9. \A i \in H : KeptChildren(i) \in SUBSET L
  BY <1>2, <1>6
\* Whatever is lost deeper has its parent on a deeper level.
<1>10. ASSUME NEW i \in H, NEW z \in H PROVE Cut(i) \cap Deep(z) = {}
  <2>1. ASSUME NEW j \in Cut(i), j \in Deep(z) PROVE FALSE
    <3>1. PICK l \in KeptChildren(z) : j \in g[l]
      BY <2>1
    <3>2. j \in Under(d + 1)
      BY <1>8, <1>9, <3>1
    <3>3. PICK e \in (d + 1)..D : \E y \in Shelf(e) : Child(j, y)
      BY <3>2 DEF Under
    <3>4. PICK y \in Shelf(e) : Child(j, y)
      BY <3>3
    <3>5. e \in 0..D /\ e # d
      BY <1>1
    <3>6. y \in A
      BY <3>4, <3>5, Shelves
    <3>7. Child(j, i)
      BY <1>5
    <3>8. i = y
      BY <1>2, <1>7, <3>4, <3>6, <3>7
    <3> QED BY <1>1, <1>3, <3>4, <3>5, <3>8
  <2> QED BY <2>1
<1>11. \A i \in H : f[i] = Cut(i) \union Deep(i)
  BY <1>2
<1> HIDE DEF f
<1>12. ASSUME NEW i \in H PROVE IsFiniteSet(f[i]) /\ t[r][View[i]].dropped = Cardinality(f[i])
  <2> DEFINE K == KeptChildren(i)
             C == Children(i)
             s == Kept(View[i], S)
  <2>1. /\ Lists(s, K) /\ C \in SUBSET A /\ IsFiniteSet(C)
        /\ K \in SUBSET C /\ IsFiniteSet(K)
        /\ Len(ChildrenOf(View[i].id, S)) = Cardinality(C)
    BY <1>2, ChildList
  <2>2. Losses(g, K, t, D - (d + 1)) /\ Apart(g, K)
    BY <1>8, <1>9 DEF Losses, Apart
  <2>3. /\ Len(s) = Cardinality(K)
        /\ Dropped(Trees0(t, D - (d + 1), s)) = Cardinality(Deep(i))
        /\ IsFiniteSet(Deep(i))
    <3>1. K \in SUBSET A
      BY <2>1
    <3> HIDE DEF K, s
    <3>2. /\ Len(s) = Cardinality(K)
          /\ Dropped(Trees0(t, D - (d + 1), s)) = Cardinality(UNION {g[j] : j \in K})
          /\ IsFiniteSet(UNION {g[j] : j \in K})
      BY <2>1, <2>2, <3>1, ListDropped
    <3> QED BY <3>2 DEF K
  <2>4. t[r][View[i]].dropped = Len(ChildrenOf(View[i].id, S)) - Len(s) + Dropped(Trees0(t, r - 1, s))
    <3>1. View[i] \in S /\ OnScreen(View[i]) /\ TreeRun(t, S)
      BY <1>2, <1>4
    <3> HIDE DEF S, r
    <3> QED BY <1>1, <1>4, <3>1, TreeNode
  <2>5. IsFiniteSet(Cut(i)) /\ Cardinality(Cut(i)) = Cardinality(C) - Cardinality(K)
    <3>1. C \cap K = K
      BY <2>1
    <3>2. IsFiniteSet(C \ K) /\ Cardinality(C \ K) = Cardinality(C) - Cardinality(C \cap K)
      <4> HIDE DEF C, K
      <4> QED BY <2>1, FS_Difference
    <3> QED BY <3>1, <3>2
  <2>6. Cut(i) \cap Deep(i) = {}
    BY <1>10
  <2> HIDE DEF C, K, Cut, Deep, s
  <2>7. /\ IsFiniteSet(Cut(i) \union Deep(i))
        /\ Cardinality(Cut(i) \union Deep(i))
             = Cardinality(Cut(i)) + Cardinality(Deep(i)) - Cardinality(Cut(i) \cap Deep(i))
    BY <2>3, <2>5, FS_Union
  <2>8. Cardinality(Cut(i) \cap Deep(i)) = 0
    BY <2>6, FS_EmptySet
  <2>9. /\ Cardinality(C) \in Nat /\ Cardinality(K) \in Nat
        /\ Cardinality(Cut(i)) \in Nat /\ Cardinality(Deep(i)) \in Nat
    BY <2>1, <2>3, <2>5, FS_CardinalityType
  <2>10. Cardinality(Cut(i) \union Deep(i)) = Cardinality(C) - Cardinality(K) + Cardinality(Deep(i))
    BY <2>5, <2>7, <2>8, <2>9
  <2>11. t[r][View[i]].dropped = Cardinality(C) - Cardinality(K) + Cardinality(Deep(i))
    BY <1>1, <2>1, <2>3, <2>4
  <2> QED BY <1>11, <2>7, <2>10, <2>11
<1>13. Losses(f, H, t, D - d)
  BY <1>12 DEF Losses
<1>14. Apart(f, H)
  <2>1. ASSUME NEW i \in H, NEW z \in H, i # z, NEW x, x \in f[i], x \in f[z] PROVE FALSE
    <3>1. x \in Cut(i) \/ x \in Deep(i)
      BY <1>11, <2>1
    <3>2. x \in Cut(z) \/ x \in Deep(z)
      BY <1>11, <2>1
    <3>3. CASE x \in Cut(i) /\ x \in Cut(z)
      <4>1. Child(x, i) /\ Child(x, z)
        BY <1>5, <3>3
      <4> QED BY <1>2, <1>7, <2>1, <4>1
    <3>4. CASE x \in Deep(i) /\ x \in Deep(z)
      <4>1. PICK j \in KeptChildren(i) : x \in g[j]
        BY <3>4
      <4>2. PICK l \in KeptChildren(z) : x \in g[l]
        BY <3>4
      <4>3. j # l
        BY <1>2, <1>6, <1>7, <2>1
      <4>4. j \in L /\ l \in L
        BY <1>9
      <4> QED BY <1>8, <4>1, <4>2, <4>3, <4>4 DEF Apart
    <3> HIDE DEF Cut, Deep
    <3>5. Cut(i) \cap Deep(z) = {} /\ Cut(z) \cap Deep(i) = {}
      BY <1>10
    <3> QED BY <3>1, <3>2, <3>3, <3>4, <3>5
  <2> QED BY <2>1 DEF Apart
<1>15. UNION {f[i] : i \in H} = Under(d)
  <2>1. \A x : x \in UNION {f[i] : i \in H} <=>
          \E i \in H : x \in Cut(i) \/ \E j \in KeptChildren(i) : x \in g[j]
    BY <1>11
  <2>2. \A x : (\E i \in H : \E j \in KeptChildren(i) : x \in g[j]) <=> x \in Under(d + 1)
    <3>1. \A j : (\E i \in H : j \in KeptChildren(i)) <=> j \in L
      BY <1>2, <1>6
    <3>2. \A x : x \in Under(d + 1) <=> \E j \in L : x \in g[j]
      BY <1>8
    <3> QED BY <3>1, <3>2
  <2>3. \A x : (\E i \in H : x \in Cut(i)) <=> (\E z \in H : Child(x, z)) /\ x \notin L
    <3>1. ASSUME NEW x, NEW i \in H, x \in Cut(i) PROVE Child(x, i) /\ x \notin L
      <4>1. Child(x, i) /\ ~(PlaceOf(x) <= MaxChildren)
        BY <1>5, <1>6, <3>1
      <4> QED BY <1>2, <4>1
    <3>2. ASSUME NEW x, NEW z \in H, Child(x, z), x \notin L PROVE x \in Cut(z)
      BY <1>2, <1>5, <1>6, <3>2
    <3> QED BY <3>1, <3>2
  <2>4. \A x : x \in Under(d) <=> ((\E z \in H : Child(x, z)) /\ x \notin L) \/ x \in Under(d + 1)
    <3>1. \A e : e \in d..D <=> e = d \/ e \in (d + 1)..D
      BY <1>1
    <3>2. d < D
      BY <1>1
    <3>3. \A x, z : Child(x, z) => x \in A
      BY DEF Child
    <3> DEFINE P(x, e) == (\E z \in Shelf(e) : Child(x, z)) /\ (e < D => x \notin Shelf(e + 1))
    <3>4. \A x : x \in Under(d) <=> x \in A /\ \E e \in d..D : P(x, e)
      BY DEF Under
    <3>5. \A x : x \in Under(d + 1) <=> x \in A /\ \E e \in (d + 1)..D : P(x, e)
      BY DEF Under
    <3>6. \A x : P(x, d) <=> (\E z \in H : Child(x, z)) /\ x \notin L
      BY <3>2
    <3>7. \A x : P(x, d) => x \in A
      BY <3>3
    <3> HIDE DEF P
    <3> QED BY <3>1, <3>4, <3>5, <3>6, <3>7
  <2> HIDE DEF Cut
  <2> QED BY <2>1, <2>2, <2>3, <2>4
<1>16. Told(f, d, t)
  BY <1>13, <1>14, <1>15 DEF Told
<1> QED BY <1>16

\* The screen's trees drop the items that are not shown though their parents are.
LEMMA ScreenDrops ==
  ASSUME SessionInv
  PROVE  Dropped([i \in DOMAIN TopLevel(Screen) |-> AssembleSubtree(Screen)[TopLevel(Screen)[i]]])
           = Cardinality({i \in Of("item") : i.attach \in ShownIds /\ i.id \notin ShownIds})
<1> DEFINE D == MaxAttachDepth
           A == Of("item")
           S == Screen
           top == TopLevel(S)
           H == Shelf(0)
<1>1. D \in Nat /\ D - 0 = D /\ 0 \in 0..D
  BY LimitsAssumption
<1>2. PICK t : TreeRun(t, S)
  BY TreeSteps
<1>3. \E f : Told(f, 0, t)
  <2> DEFINE T == {n \in 0..D : \E f : Told(f, D - n, t)}
  <2>1. 0 \in T
    <3>1. \E f : Told(f, D, t)
      BY <1>2, LostBelowLast
    <3> QED BY <1>1, <3>1
  <2>2. ASSUME NEW n \in 0..(D - 1), n \in T PROVE n + 1 \in T
    <3> DEFINE d == D - (n + 1)
    <3>1. d \in 0..(D - 1) /\ d + 1 = D - n /\ n + 1 \in 0..D
      BY <1>1
    <3>2. PICK g : Told(g, D - n, t)
      BY <2>2
    <3> HIDE DEF d
    <3>3. Told(g, d + 1, t)
      BY <3>1, <3>2
    <3>4. \E f : Told(f, d, t)
      BY <1>2, <3>1, <3>3, LostAbove
    <3> QED BY <3>1, <3>4 DEF d
  <2>3. \A n \in 0..D : n \in T
    <3> HIDE DEF T, D
    <3> QED BY <1>1, <2>1, <2>2, Induction
  <2>4. D \in T /\ D - D = 0
    BY <1>1, <2>3
  <2> QED BY <2>4
<1>4. PICK f : Told(f, 0, t)
  BY <1>3
<1>5. Losses(f, H, t, D) /\ Apart(f, H) /\ UNION {f[i] : i \in H} = Under(0)
  BY <1>1, <1>4 DEF Told
<1>6. H \in SUBSET A /\ IsFiniteSet(H)
  <2>1. H \in SUBSET A
    BY <1>1, Shelves
  <2>2. IsFiniteSet(A)
    BY SeenIs DEF Ordered
  <2> QED BY <2>1, <2>2, FS_Subset
<1>7. Lists(top, H)
  <2>1. TopAre(top)
    BY TopList
  <2> HIDE DEF top, H
  <2>2. /\ Len(top) \in Nat /\ DOMAIN top = 1..Len(top)
        /\ \A k \in DOMAIN top : \E m \in Level[0] : m.place = k /\ top[k] = View[m.item]
        /\ \A m \in Level[0] : m.place \in DOMAIN top /\ top[m.place] = View[m.item]
    BY <2>1 DEF TopAre
  <2>3. \A i : i \in H <=> \E m \in Level[0] : i = m.item
    BY DEF H, Shelf
  <2>4. \A k \in DOMAIN top : \E i \in H : top[k] = View[i]
    BY <2>2, <2>3
  <2>5. \A i \in H : \E k \in DOMAIN top : top[k] = View[i]
    BY <2>2, <2>3
  <2>6. \A x, y \in A : View[x] = View[y] => x = y
    BY SeenIs
  <2>7. \A k, l \in DOMAIN top : top[k] = top[l] => k = l
    <3> TAKE k, l \in DOMAIN top
    <3>1. PICK m \in Level[0] : m.place = k /\ top[k] = View[m.item]
      BY <2>2
    <3>2. PICK n \in Level[0] : n.place = l /\ top[l] = View[n.item]
      BY <2>2
    <3>3. m.item \in A /\ n.item \in A
      BY <1>6, <2>3
    <3>4. m.item = n.item => m.place = n.place
      <4> DEFINE open == {j \in A : j.attach = None /\ ~Dismissed(j)}
                 pl(i) == Place(i, open, NewestFirst)
      <4>1. \A x : x \in Level[0] => \E i \in A : x = [item |-> i, place |-> pl(i)]
        BY LevelRows
      <4> HIDE DEF pl
      <4>2. PICK i \in A : m = [item |-> i, place |-> pl(i)]
        BY <4>1
      <4>3. PICK j \in A : n = [item |-> j, place |-> pl(j)]
        BY <4>1
      <4> QED BY <4>2, <4>3
    <3> QED BY <2>6, <3>1, <3>2, <3>3, <3>4
  <2> QED BY <2>2, <2>4, <2>5, <2>7 DEF Lists
<1>8. Dropped(Trees0(t, D, top)) = Cardinality(UNION {f[i] : i \in H})
  <2> HIDE DEF H, top, D
  <2> QED BY <1>5, <1>6, <1>7, ListDropped
<1>9. [i \in DOMAIN top |-> AssembleSubtree(S)[top[i]]] = Trees0(t, D, top)
  BY <1>2 DEF TreeRun, Trees0
<1>10. \A d \in 0..D : Shelf(d) \in SUBSET A
  BY Shelves
<1>11. \A x : x \in ShownIds <=> \E d \in 0..D : \E i \in Shelf(d) : x = i.id
  <2>1. \A x : x \in Expected <=> \E d \in 0..D : \E m \in Level[d] : x = Entry(m.item, m.place)
    BY DEF Expected
  <2>2. \A i, place : Entry(i, place).id = i.id
    BY DEF Entry
  <2>3. \A x : x \in ShownIds <=> \E entry \in Expected : x = entry.id
    BY DEF ShownIds
  <2>4. \A d, i : i \in Shelf(d) <=> \E m \in Level[d] : i = m.item
    BY DEF Shelf
  <2>5. ASSUME NEW x \in ShownIds PROVE \E d \in 0..D : \E i \in Shelf(d) : x = i.id
    <3>1. PICK entry \in Expected : x = entry.id
      BY <2>3, <2>5
    <3>2. PICK d \in 0..D : \E m \in Level[d] : entry = Entry(m.item, m.place)
      BY <2>1
    <3>3. PICK m \in Level[d] : entry = Entry(m.item, m.place)
      BY <3>2
    <3> QED BY <2>2, <2>4, <3>1, <3>3
  <2>6. ASSUME NEW d \in 0..D, NEW i \in Shelf(d) PROVE i.id \in ShownIds
    <3>1. PICK m \in Level[d] : i = m.item
      BY <2>4
    <3>2. Entry(m.item, m.place) \in Expected
      BY <2>1
    <3> QED BY <2>2, <2>3, <3>1, <3>2
  <2> QED BY <2>5, <2>6
<1>12. Ordered(A)
  BY SeenIs
<1>13. \A j, z : Child(j, z) <=> j \in A /\ j.attach = z.id
  BY DEF Child
<1>14. \A x, y \in A : x.id = y.id => x = y
  BY <1>12 DEF Ordered
<1>15. \A j : j \in Under(0) <=> j \in A /\ j.attach \in ShownIds /\ j.id \notin ShownIds
  <2>1. ASSUME NEW j \in Under(0) PROVE j \in A /\ j.attach \in ShownIds /\ j.id \notin ShownIds
    <3>1. PICK e \in 0..D : (\E z \in Shelf(e) : Child(j, z)) /\ (e < D => j \notin Shelf(e + 1))
      BY <2>1 DEF Under
    <3>2. PICK z \in Shelf(e) : Child(j, z)
      BY <3>1
    <3>3. j \in A /\ j.attach = z.id
      BY <1>13, <3>2
    <3>4. j.attach \in ShownIds
      BY <1>11, <3>3
    <3>5. ASSUME j.id \in ShownIds PROVE FALSE
      <4>1. PICK c \in 0..D : \E i \in Shelf(c) : j.id = i.id
        BY <1>11, <3>5
      <4>2. j \in Shelf(c)
        BY <1>10, <1>14, <3>3, <4>1
      <4>3. c # 0
        <5>1. j.attach \in Nat
          BY <1>10, <1>12, <3>3 DEF Ordered
        <5>2. j.attach # None
          BY <5>1, TextAssumption
        <5>3. \A i \in Shelf(0) : i.attach = None
          BY Shelves
        <5> QED BY <4>2, <5>2, <5>3
      <4>4. c \in 1..D /\ c - 1 \in 0..D /\ (c - 1) + 1 = c
        BY <1>1, <4>3
      <4>5. PICK y \in Shelf(c - 1) : Child(j, y)
        BY <4>2, <4>4, Shelves
      <4>6. y = z
        BY <1>10, <1>13, <1>14, <3>2, <4>4, <4>5
      <4>7. c - 1 = e
        BY <3>2, <4>4, <4>5, <4>6, Shelves
      <4>8. e < D /\ e + 1 = c
        BY <1>1, <4>4, <4>7
      <4> QED BY <3>1, <4>2, <4>8
    <3> QED BY <3>3, <3>4, <3>5
  <2>2. ASSUME NEW j \in A, j.attach \in ShownIds, j.id \notin ShownIds PROVE j \in Under(0)
    <3>1. PICK e \in 0..D : \E z \in Shelf(e) : j.attach = z.id
      BY <1>11, <2>2
    <3>2. \E z \in Shelf(e) : Child(j, z)
      BY <1>13, <3>1
    <3>3. e < D => j \notin Shelf(e + 1)
      <4>1. e < D => e + 1 \in 0..D
        BY <1>1
      <4> QED BY <1>11, <2>2, <4>1
    <3> QED BY <3>2, <3>3 DEF Under
  <2> QED BY <2>1, <2>2
<1>16. Under(0) = {i \in A : i.attach \in ShownIds /\ i.id \notin ShownIds}
  BY <1>15
<1> QED BY <1>5, <1>8, <1>9, <1>16

\* Rows that cannot be read.
LEMMA UnreadCount ==
  ASSUME SessionInv
  PROVE  /\ Cardinality(Unread(Parsed(feed), Len(Parsed(feed))))
              = Cardinality({id \in Range(feed) : group[id] = None})
         /\ Cardinality({id \in Range(feed) : group[id] = None}) \in Nat
<1> DEFINE N == Len(feed)
           rows == Parsed(feed)
           B == Unread(rows, Len(rows))
<1>1. FrameOf(feed, group) /\ Identified(group)
  BY DEF SessionInv
<1>2. /\ N \in Nat /\ DOMAIN feed = 1..N
      /\ \A k, m \in 1..N : feed[k] = feed[m] => k = m
  BY <1>1 DEF FrameOf, IsInjective
<1>3. rows = RowsOf(feed, group)
  BY DEF Parsed, RowsOf
<1>4. Len(RowsOf(feed, group)) = Len(feed)
  BY <1>1, RowsClean
<1>5. \A k \in 1..N : rows[k] = group[feed[k]]
  BY <1>2 DEF Parsed
<1>6. B = {k \in 1..N : group[feed[k]] = None}
  BY <1>3, <1>4, <1>5 DEF Unread
<1>7. IsFiniteSet(B)
  <2>1. IsFiniteSet(1..N)
    BY <1>2, FS_Interval
  <2>2. B \in SUBSET (1..N)
    BY <1>6
  <2> HIDE DEF B
  <2> QED BY <2>1, <2>2, FS_Subset
<1>8. {feed[k] : k \in B} = {id \in Range(feed) : group[id] = None}
  BY <1>2, <1>6 DEF Range
<1>9. \A k, m \in B : feed[k] = feed[m] => k = m
  BY <1>2, <1>6
<1> HIDE DEF B
<1>10. IsFiniteSet({feed[k] : k \in B}) /\ Cardinality({feed[k] : k \in B}) = Cardinality(B)
  BY <1>7, <1>9, CardImage
<1>11. Cardinality(B) \in Nat
  BY <1>7, FS_CardinalityType
<1> QED BY <1>8, <1>10, <1>11 DEF B

\* Answers without their item, and answers that do not answer its questions.
Answered(a) == \E item \in Of("item") : a \in Answers(item)
Stray(answers) == {k \in DOMAIN answers : \A i \in Of("item") : i.id # answers[k].root_id}
Wrong(answers) ==
  {k \in DOMAIN answers : \E item \in Of("item") : /\ answers[k].root_id = item.id
                                                   /\ ~ValidFor(item, answers[k])}

\* Those are the answers that answer nothing.
LEMMA AnswersCount ==
  ASSUME SessionInv, NEW answers, InOrder(answers, Parsed(feed))
  PROVE  /\ Cardinality(Stray(answers)) + Cardinality(Wrong(answers))
              = Cardinality({a \in Of("answer") : ~Answered(a)})
         /\ Cardinality(Stray(answers)) \in Nat /\ Cardinality(Wrong(answers)) \in Nat
<1> DEFINE A == Of("item")
           B == Of("answer")
           N == Len(answers)
           P == Stray(answers)
           Q == Wrong(answers)
           R == P \union Q
<1>1. B = All(Parsed(feed), "answer")
  BY RowsSeen
<1>2. /\ N \in Nat /\ DOMAIN answers = 1..N /\ Range(answers) = B
      /\ \A k \in 1..N : answers[k] \in B
      /\ \A k, m \in 1..N : answers[k] = answers[m] => k = m
  BY <1>1 DEF InOrder, IsInjective
<1>3. IsFiniteSet(1..N)
  BY <1>2, FS_Interval
<1>4. P \in SUBSET (1..N) /\ Q \in SUBSET (1..N) /\ P \cap Q = {}
  BY <1>2 DEF Stray, Wrong
<1>5. \A x, y \in A : x.id = y.id => x = y
  BY SeenIs DEF Ordered
<1>6. ASSUME NEW k \in 1..N PROVE k \in R <=> ~Answered(answers[k])
  <2>1. answers[k] \in B
    BY <1>2
  <2>2. Answered(answers[k]) <=> \E item \in A : ValidFor(item, answers[k])
    BY <2>1 DEF Answered, Answers, ValidFor
  <2>3. k \in P <=> \A i \in A : i.id # answers[k].root_id
    BY <1>2 DEF Stray
  <2>4. k \in Q <=> \E i \in A : answers[k].root_id = i.id /\ ~ValidFor(i, answers[k])
    BY <1>2 DEF Wrong
  <2>5. \A i : ValidFor(i, answers[k]) => answers[k].root_id = i.id
    BY DEF ValidFor
  <2> HIDE DEF P, Q, A
  <2> QED BY <1>5, <2>2, <2>3, <2>4, <2>5
<1>7. R \in SUBSET (1..N)
  BY <1>4
<1>8. {answers[k] : k \in R} = {a \in B : ~Answered(a)}
  <2>1. \A a : a \in B <=> \E k \in 1..N : a = answers[k]
    BY <1>2 DEF Range
  <2> HIDE DEF R, B
  <2> QED BY <1>6, <1>7, <2>1
<1>9. IsFiniteSet(P) /\ IsFiniteSet(Q)
  <2> HIDE DEF P, Q
  <2> QED BY <1>3, <1>4, FS_Subset
<1>10. \A k, m \in R : answers[k] = answers[m] => k = m
  BY <1>2, <1>7
<1> HIDE DEF P, Q
<1>11. IsFiniteSet(R) /\ Cardinality(R) = Cardinality(P) + Cardinality(Q) - Cardinality(P \cap Q)
  BY <1>9, FS_Union
<1>12. Cardinality(P \cap Q) = 0
  BY <1>4, FS_EmptySet
<1>13. Cardinality(P) \in Nat /\ Cardinality(Q) \in Nat
  BY <1>9, FS_CardinalityType
<1>14. Cardinality({answers[k] : k \in R}) = Cardinality(R)
  <2> HIDE DEF R
  <2> QED BY <1>10, <1>11, CardImage
<1>15. Cardinality(R) = Cardinality(P) + Cardinality(Q)
  BY <1>11, <1>12, <1>13
<1> QED BY <1>8, <1>13, <1>14, <1>15 DEF P, Q

\* Two winners with one key are the same.
LEMMA OneWinner ==
  ASSUME NEW A, Comparable(A), NEW w \in Winners(A), NEW v \in Winners(A), SameKey(w, v)
  PROVE  w = v
<1>1. w \in A /\ v \in A
  BY DEF Winners
<1>2. SameKey(v, w) /\ ~(Later(w, v) /\ Later(v, w))
  BY <1>1, LaterOrder
<1>3. w # v => Later(w, v) /\ Later(v, w)
  BY <1>1, <1>2 DEF Winners
<1> QED BY <1>2, <1>3

\* The latest of each key without an item are as many as the keys.
Lonely(A) == {a \in A : \A i \in Of("item") : i.id # a.root_id}

\* Acknowledgements.
LEMMA AcksCount ==
  ASSUME SessionInv, NEW A, A = Of("ack"), Comparable(A), Beaten(A), IsFiniteSet(A)
  PROVE  /\ Cardinality(Lonely(Winners(A))) = Cardinality({<<a.root_id, a.author>> : a \in Lonely(A)})
         /\ Cardinality(Lonely(Winners(A))) \in Nat
<1> DEFINE G == Lonely(Winners(A))
           key == [a \in A |-> <<a.root_id, a.author>>]
<1>1. \A a \in A : a.type = "ack"
  BY RowsSeen DEF All
<1>2. G \in SUBSET A /\ G \in SUBSET Winners(A)
  BY DEF Lonely, Winners
<1>3. \A a \in A : key[a] = <<a.root_id, a.author>>
  OBVIOUS
<1>4. \A a, b \in A : key[a] = key[b] <=> SameKey(a, b)
  BY <1>1, <1>3 DEF SameKey
<1> HIDE DEF key
<1>5. \A w, v \in G : key[w] = key[v] => w = v
  <2> HIDE DEF G
  <2> QED BY <1>2, <1>4, OneWinner
<1>6. \A x : x \in {key[w] : w \in G} <=> x \in {<<a.root_id, a.author>> : a \in Lonely(A)}
  <2>1. ASSUME NEW w \in G PROVE key[w] \in {<<a.root_id, a.author>> : a \in Lonely(A)}
    BY <1>2, <1>3 DEF Lonely
  <2>2. ASSUME NEW a \in Lonely(A) PROVE <<a.root_id, a.author>> \in {key[w] : w \in G}
    <3>1. a \in A /\ \A i \in Of("item") : i.id # a.root_id
      BY DEF Lonely
    <3>2. PICK w \in Winners(A) : SameKey(w, a)
      BY <3>1 DEF Beaten
    <3>3. w \in A
      BY DEF Winners
    <3>4. key[w] = <<a.root_id, a.author>>
      BY <1>3, <1>4, <3>1, <3>2, <3>3
    <3>5. w \in G
      BY <3>1, <3>2 DEF Lonely, SameKey
    <3> QED BY <3>4, <3>5
  <2> QED BY <2>1, <2>2
<1>7. IsFiniteSet(G)
  <2> HIDE DEF G
  <2> QED BY <1>2, FS_Subset
<1> HIDE DEF G
<1>8. Cardinality({key[w] : w \in G}) = Cardinality(G)
  BY <1>5, <1>7, CardImage
<1>9. {key[w] : w \in G} = {<<a.root_id, a.author>> : a \in Lonely(A)}
  BY <1>6
<1>10. Cardinality(G) \in Nat
  BY <1>7, FS_CardinalityType
<1> QED BY <1>8, <1>9, <1>10 DEF G

\* Reactions.
LEMMA ReactionsCount ==
  ASSUME SessionInv, NEW A, A = Of("reaction"), Comparable(A), Beaten(A), IsFiniteSet(A)
  PROVE  /\ Cardinality(Lonely(Winners(A)))
              = Cardinality({<<a.root_id, a.author, a.value.emoji>> : a \in Lonely(A)})
         /\ Cardinality(Lonely(Winners(A))) \in Nat
<1> DEFINE G == Lonely(Winners(A))
           key == [a \in A |-> <<a.root_id, a.author, a.value.emoji>>]
<1>1. \A a \in A : a.type = "reaction"
  BY RowsSeen DEF All
<1>2. G \in SUBSET A /\ G \in SUBSET Winners(A)
  BY DEF Lonely, Winners
<1>3. \A a \in A : key[a] = <<a.root_id, a.author, a.value.emoji>>
  OBVIOUS
<1>4. \A a, b \in A : key[a] = key[b] <=> SameKey(a, b)
  BY <1>1, <1>3 DEF SameKey
<1> HIDE DEF key
<1>5. \A w, v \in G : key[w] = key[v] => w = v
  <2> HIDE DEF G
  <2> QED BY <1>2, <1>4, OneWinner
<1>6. \A x : x \in {key[w] : w \in G} <=> x \in {<<a.root_id, a.author, a.value.emoji>> : a \in Lonely(A)}
  <2>1. ASSUME NEW w \in G PROVE key[w] \in {<<a.root_id, a.author, a.value.emoji>> : a \in Lonely(A)}
    BY <1>2, <1>3 DEF Lonely
  <2>2. ASSUME NEW a \in Lonely(A)
        PROVE  <<a.root_id, a.author, a.value.emoji>> \in {key[w] : w \in G}
    <3>1. a \in A /\ \A i \in Of("item") : i.id # a.root_id
      BY DEF Lonely
    <3>2. PICK w \in Winners(A) : SameKey(w, a)
      BY <3>1 DEF Beaten
    <3>3. w \in A
      BY DEF Winners
    <3>4. key[w] = <<a.root_id, a.author, a.value.emoji>>
      BY <1>3, <1>4, <3>1, <3>2, <3>3
    <3>5. w \in G
      BY <3>1, <3>2 DEF Lonely, SameKey
    <3> QED BY <3>4, <3>5
  <2> QED BY <2>1, <2>2
<1>7. IsFiniteSet(G)
  <2> HIDE DEF G
  <2> QED BY <1>2, FS_Subset
<1> HIDE DEF G
<1>8. Cardinality({key[w] : w \in G}) = Cardinality(G)
  BY <1>5, <1>7, CardImage
<1>9. {key[w] : w \in G} = {<<a.root_id, a.author, a.value.emoji>> : a \in Lonely(A)}
  BY <1>6
<1>10. Cardinality(G) \in Nat
  BY <1>7, FS_CardinalityType
<1> QED BY <1>8, <1>9, <1>10 DEF G

\* Items whose parent is not among the rows.
Parentless == {i \in Of("item") : i.attach # None /\ \A p \in Of("item") : p.id # i.attach}

\* The screen counts them.
LEMMA OrphansCount ==
  ASSUME SessionInv
  PROVE  /\ Cardinality(Orphans(Screen)) = Cardinality(Parentless)
         /\ Cardinality(Parentless) \in Nat
<1> DEFINE A == Of("item")
<1>1. /\ Ordered(A) /\ Screen = ImageOf(View, A) /\ Copies(View, A)
      /\ \A x, y \in A : View[x] = View[y] => x = y
  BY SeenIs
<1>2. Parentless \in SUBSET A
  BY DEF Parentless
<1>3. Orphans(Screen) = {View[i] : i \in Parentless}
  <2>1. \A x : x \in Screen <=> \E i \in A : x = View[i]
    BY <1>1 DEF ImageOf
  <2>2. \A i \in A : View[i].id = i.id /\ View[i].attach = i.attach
    BY <1>1 DEF Copies
  <2>3. \A i : i \in Parentless <=> i \in A /\ i.attach # None /\ \A p \in A : p.id # i.attach
    BY DEF Parentless
  <2>4. \A x : x \in Orphans(Screen) <=> x \in Screen /\ x.attach # None /\ \A p \in Screen : p.id # x.attach
    BY DEF Orphans
  <2> HIDE DEF A
  <2>5. ASSUME NEW x \in Orphans(Screen) PROVE x \in {View[i] : i \in Parentless}
    <3>1. PICK i \in A : x = View[i]
      BY <2>1, <2>4
    <3>2. \A p \in A : p.id # i.attach
      BY <2>1, <2>2, <2>4, <3>1
    <3>3. i \in Parentless
      BY <2>2, <2>3, <2>4, <3>1, <3>2
    <3> QED BY <3>1, <3>3
  <2>6. ASSUME NEW i \in Parentless PROVE View[i] \in Orphans(Screen)
    BY <2>1, <2>2, <2>3, <2>4
  <2> QED BY <2>5, <2>6
<1>4. IsFiniteSet(Parentless)
  BY <1>1, <1>2, FS_Subset DEF Ordered
<1>5. \A x, y \in Parentless : View[x] = View[y] => x = y
  BY <1>1, <1>2
<1>6. Cardinality({View[i] : i \in Parentless}) = Cardinality(Parentless)
  BY <1>4, <1>5, CardImage
<1>7. Cardinality(Parentless) \in Nat
  BY <1>4, FS_CardinalityType
<1> QED BY <1>3, <1>6, <1>7

\* The number of rejected rows is what is expected.
LEMMA RejectionsExpected ==
  ASSUME SessionInv, feed # <<>>
  PROVE  queue.rejected = ExpectedRejections
<1> DEFINE rows == Parsed(feed)
           c == Collect(rows)
           A == Of("item")
           acks == Of("ack")
           reactions == Of("reaction")
           ids == {item.id : item \in A}
           top == TopLevel(Screen)
           trees == [i \in DOMAIN top |-> AssembleSubtree(Screen)[top[i]]]
           a1 == Cardinality({id \in Range(feed) : group[id] = None})
           b1 == Cardinality({a \in Of("answer") : ~Answered(a)})
           c1 == Cardinality({<<a.root_id, a.author>> : a \in Lonely(acks)})
           d1 == Cardinality({<<a.root_id, a.author, a.value.emoji>> : a \in Lonely(reactions)})
           e1 == Cardinality(Parentless)
           f1 == Cardinality({i \in A : i.attach \in ShownIds /\ i.id \notin ShownIds})
<1>1. /\ rows \in Seq({group[id] : id \in DOMAIN group}) /\ Clean(rows)
      /\ A = All(rows, "item") /\ acks = All(rows, "ack") /\ reactions = All(rows, "reaction")
  BY RowsSeen
<1>2. PICK answers : CollectedAll(c, answers, rows)
  BY <1>1, CollectIs
<1> DEFINE s1 == Cardinality(Stray(answers))
           w1 == Cardinality(Wrong(answers))
<1>3. /\ c = Gathered(A, answers, Winners(acks), Winners(reactions), Cardinality(Unread(rows, Len(rows))))
      /\ InOrder(answers, rows)
      /\ Beaten(acks) /\ Beaten(reactions) /\ Comparable(acks) /\ Comparable(reactions)
  BY <1>1, <1>2 DEF CollectedAll
<1>4. /\ c.items = A /\ c.answers = answers /\ c.acks = Winners(acks)
      /\ c.reactions = Winners(reactions) /\ c.rejected = Cardinality(Unread(rows, Len(rows)))
  BY <1>3 DEF Gathered
<1>5. IsFiniteSet(acks) /\ IsFiniteSet(reactions)
  <2> DEFINE N == Len(rows)
  <2>1. N \in Nat /\ DOMAIN rows = 1..N
    BY <1>1
  <2>2. rows \in Surjection(1..N, Range(rows))
    BY <1>1, <2>1 DEF Surjection, Range
  <2>3. IsFiniteSet(1..N)
    BY <2>1, FS_Interval
  <2>4. IsFiniteSet(Range(rows))
    BY <2>2, <2>3, FS_Surjection
  <2>5. All(rows, "ack") \in SUBSET Range(rows) /\ All(rows, "reaction") \in SUBSET Range(rows)
    BY DEF All
  <2> QED BY <1>1, <2>4, <2>5, FS_Subset
<1>6. c.rejected = a1 /\ a1 \in Nat
  BY <1>4, UnreadCount
<1>7. s1 + w1 = b1 /\ s1 \in Nat /\ w1 \in Nat
  BY <1>3, AnswersCount
<1>8. Cardinality(Lonely(Winners(acks))) = c1 /\ c1 \in Nat
  <2> HIDE DEF acks
  <2>1. acks = Of("ack")
    BY DEF acks
  <2> QED BY <1>3, <1>5, <2>1, AcksCount
<1>9. Cardinality(Lonely(Winners(reactions))) = d1 /\ d1 \in Nat
  <2> HIDE DEF reactions
  <2>1. reactions = Of("reaction")
    BY DEF reactions
  <2> QED BY <1>3, <1>5, <2>1, ReactionsCount
<1>10. Cardinality(Orphans(Screen)) = e1 /\ e1 \in Nat
  BY OrphansCount
<1>11. Dropped(trees) = f1
  BY ScreenDrops
<1>12. f1 \in Nat
  <2>1. IsFiniteSet(A)
    BY SeenIs DEF Ordered
  <2>2. {i \in A : i.attach \in ShownIds /\ i.id \notin ShownIds} \in SUBSET A
    OBVIOUS
  <2>3. IsFiniteSet({i \in A : i.attach \in ShownIds /\ i.id \notin ShownIds})
    <3> HIDE DEF A
    <3> QED BY <2>1, <2>2, FS_Subset
  <2> QED BY <2>3, FS_CardinalityType
<1>13. \A x : x \in ids <=> \E i \in A : i.id = x
  OBVIOUS
<1>14. KnownIds(c) = ids
  BY <1>4 DEF KnownIds
<1>15. Unknown(c) = s1 + c1 + d1
  <2>1. {k \in DOMAIN c.answers : c.answers[k].root_id \notin KnownIds(c)} = Stray(answers)
    BY <1>4, <1>14 DEF Stray
  <2>2. {v \in c.acks : v.root_id \notin KnownIds(c)} = Lonely(Winners(acks))
    BY <1>4, <1>14 DEF Lonely
  <2>3. {v \in c.reactions : v.root_id \notin KnownIds(c)} = Lonely(Winners(reactions))
    BY <1>4, <1>14 DEF Lonely
  <2> HIDE DEF c1, d1, acks, reactions
  <2> QED BY <1>8, <1>9, <2>1, <2>2, <2>3 DEF Unknown
<1>16. Invalid(c) = w1
  <2>1. {k \in DOMAIN c.answers : \E item \in c.items : /\ c.answers[k].root_id = item.id
                                                        /\ ~ValidFor(item, c.answers[k])}
          = Wrong(answers)
    BY <1>4 DEF Wrong
  <2> QED BY <2>1 DEF Invalid
<1>17. queue.rejected = c.rejected + Unknown(c) + Invalid(c) + Cardinality(Orphans(Screen)) + Dropped(trees)
  <2>1. queue = Project(rows, viewer)
    BY DEF SessionInv
  <2>2. {Resolve(item, c, viewer) : item \in c.items} = Screen
    BY <1>1, <1>4 DEF Screen, Resolved
  <2> HIDE DEF c, rows
  <2>3. Project(rows, viewer).rejected
          = c.rejected + Unknown(c) + Invalid(c) + Cardinality(Orphans(Screen)) + Dropped(trees)
    BY <2>2 DEF Project, c
  <2> QED BY <2>1, <2>3
<1>18. ExpectedRejections = a1 + b1 + c1 + d1 + e1 + f1
  <2>1. {b \in acks : b.root_id \notin ids} = Lonely(acks)
    BY DEF Lonely
  <2>2. {b \in reactions : b.root_id \notin ids} = Lonely(reactions)
    BY DEF Lonely
  <2>3. {i \in A : i.attach # None /\ i.attach \notin ids} = Parentless
    BY DEF Parentless
  <2>4. \A a : Answered(a) <=> \E item \in A : a \in Answers(item)
    BY DEF Answered
  <2>5. {a \in Of("answer") : ~\E item \in A : a \in Answers(item)} = {a \in Of("answer") : ~Answered(a)}
    BY <2>4
  <2>6. ExpectedRejections
          = a1 + Cardinality({a \in Of("answer") : ~\E item \in A : a \in Answers(item)})
              + Cardinality({<<a.root_id, a.author>> : a \in {b \in acks : b.root_id \notin ids}})
              + Cardinality({<<r.root_id, r.author, r.value.emoji>> :
                               r \in {s \in reactions : s.root_id \notin ids}})
              + Cardinality({i \in A : i.attach # None /\ i.attach \notin ids})
              + f1
    BY DEF ExpectedRejections
  <2> HIDE DEF a1, f1, A, ids, acks, reactions
  <2> QED BY <2>1, <2>2, <2>3, <2>5, <2>6
<1> HIDE DEF a1, b1, c1, d1, e1, f1, s1, w1, c, trees
<1>19. queue.rejected = a1 + (s1 + c1 + d1) + w1 + e1 + f1
  BY <1>6, <1>10, <1>11, <1>15, <1>16, <1>17
<1>20. a1 + (s1 + c1 + d1) + w1 + e1 + f1 = a1 + (s1 + w1) + c1 + d1 + e1 + f1
  BY <1>6, <1>7, <1>8, <1>9, <1>10, <1>12
<1> QED BY <1>7, <1>18, <1>19, <1>20

\* The queue is the one the code's order describes (QueueIsDeterministic): for every group of
\* events, in whatever order NMP delivers the rows and accounts come and go, it is a function
\* of the set of rows and of the account alone.
THEOREM QueueDetermined == Spec => []QueueIsDeterministic
<1>1. SessionInv => QueueIsDeterministic
  BY EntriesExpected, RejectionsExpected DEF QueueIsDeterministic
<1> QED BY <1>1, SessionKeeps, PTL

(***************************************************************************)
(* The player.  PlaysWhatIsShown is not inductive: a notification that     *)
(* arrives late loads the item after the selected one, so the selection    *)
(* must be known to be on the screen also while nothing is loaded, and the *)
(* list must be a part of the tree, which is what the next synchronization *)
(* looks at.                                                               *)
(***************************************************************************)
\* The list is a part of the tree.
ListInTree == \A i \in DOMAIN screen.top : screen.top[i] \in screen.all

\* The selection is on the screen, and nothing else is in the player.
SelectionShown ==
  /\ selected # None => selected \in screen.all
  /\ loaded # None => loaded = selected

PlayInv == ListInTree /\ SelectionShown

\* The shape of any queue has its list in its tree.
LEMMA ShapeFacts ==
  ASSUME NEW items
  PROVE  \A i \in DOMAIN Shape(items).top : Shape(items).top[i] \in Shape(items).all
<1> SUFFICES ASSUME NEW i \in DOMAIN items
             PROVE  items[i].id \in {item.id : item \in Flatten(items)}
  BY DEF Shape
<1>1. items[i] \in Range(items)
  BY DEF Range
<1>2. items[i] \in Flatten(items)
  BY <1>1 DEF Flatten
<1> QED BY <1>2

\* An item of the screen, or the selected one, may be toggled whatever the
\* phase is: the selection and the player stay in step.
LEMMA ToggleShown ==
  ASSUME PlayInv, NEW id, id \in screen.all, Toggle(id), screen' = screen
  PROVE  PlayInv'
<1>1. selected' = id
  BY DEF Toggle
<1>2. loaded' = None \/ loaded' = id
  <2>1. CASE Fail \/ Stop
    BY <2>1 DEF Fail, Stop
  <2>2. CASE LoadAndPlay(id)
    BY <2>2 DEF LoadAndPlay, Fail, Stop
  <2>3. CASE selected = id /\ (Pause \/ Resume)
    BY <2>3 DEF Pause, Resume, Stop, PlayInv, SelectionShown
  <2> QED BY <2>1, <2>2, <2>3 DEF Toggle
<1>3. ListInTree'
  BY DEF PlayInv, ListInTree
<1> QED BY <1>1, <1>2, <1>3 DEF PlayInv, SelectionShown

\* The steps of the controller and of the player keep it.
LEMMA PlayStep ==
  ASSUME PlayInv, [PlayNext]_playVars
  PROVE  PlayInv'
<1> USE DEF PlayInv, ListInTree, SelectionShown
<1>1. CASE QueueStep \/ UNCHANGED playVars
  BY <1>1 DEF QueueStep, playVars, playback
<1>2. CASE Synchronize
  <2>1. ListInTree'
    BY <1>2, ShapeFacts DEF Synchronize
  <2>2. CASE selected # None /\ selected \notin screen'.all
    BY <1>2, <2>1, <2>2 DEF Synchronize, Reset, Stop
  <2>3. CASE ~(selected # None /\ selected \notin screen'.all)
    BY <1>2, <2>1, <2>3 DEF Synchronize
  <2> QED BY <2>2, <2>3
<1>3. CASE Tap
  <2>1. PICK id \in screen.all \union ({selected} \ {None}) : Toggle(id)
    BY <1>3 DEF Tap
  <2>2. id \in screen.all
    BY <2>1
  <2> QED BY <1>3, <2>1, <2>2, ToggleShown DEF Tap
<1>4. CASE Seek
  BY <1>4 DEF Seek
<1>5. CASE Ready
  BY <1>5 DEF Ready
<1>6. CASE TickFails \/ Failed
  BY <1>6 DEF TickFails, Failed, Fail, Stop
<1>7. CASE \E outcome \in {"completed", "failed"} : PlayedToEnd(outcome)
  BY <1>7 DEF PlayedToEnd
<1>8. CASE Completed
  <2>1. CASE \E id \in NextIds : Toggle(id)
    <3>1. PICK id \in NextIds : Toggle(id)
      BY <2>1
    <3>2. id \in screen.all
      BY <3>1 DEF NextIds
    <3> QED BY <1>8, <3>1, <3>2, ToggleShown DEF Completed
  <2>2. CASE UNCHANGED <<selected, timed, loaded, running, ready>>
    BY <1>8, <2>2 DEF Completed
  <2> QED BY <1>8, <2>1, <2>2 DEF Completed
<1>9. CASE Interrupted
  BY <1>9 DEF Interrupted, Pause
<1> QED BY <1>1, <1>2, <1>3, <1>4, <1>5, <1>6, <1>7, <1>8, <1>9 DEF PlayNext, User, Audio

\* The audio in the player is that of the selected item, an item of the list
\* or of a tree on the screen (PlaybackController.toggle, synchronize and
\* autoplayNextIfPossible): no late notification, refused audio session or
\* new queue leaves an item playing that the screen no longer has.
THEOREM Shown == PlaySpec => []PlaysWhatIsShown
<1>1. PlayInit => PlayInv
  <2> SUFFICES ASSUME PlayInit PROVE PlayInv
    OBVIOUS
  <2> QED BY ShapeFacts DEF PlayInit, PlayInv, ListInTree, SelectionShown
<1>2. PlayInv /\ [PlayNext]_playVars => PlayInv'
  BY PlayStep
<1>3. PlayInv => PlaysWhatIsShown
  BY DEF PlayInv, SelectionShown, PlaysWhatIsShown
<1> QED BY <1>1, <1>2, <1>3, PTL DEF PlaySpec
=============================================================================
