--------------------------- MODULE ProtocolProofs ---------------------------
(***************************************************************************)
(* Composing and parsing are inverse, for every item, every answer and all *)
(* limits.  The rows of an event are selected and put together by          *)
(* recursive functions, so the module begins with induction: over sets of  *)
(* naturals, from the well-foundedness of the finite sets.                 *)
(***************************************************************************)
EXTENDS Protocol, FiniteSetTheorems, SequenceTheorems, TLAPS

(* Induction                                                               *)

\* A set of naturals that is not empty has a least member.
LEMMA LeastNat ==
  ASSUME NEW T \in SUBSET Nat, T # {}
  PROVE  \E n \in T : \A m \in T : n <= m
<1> DEFINE I == {1..n : n \in T}
<1>1. I \subseteq FiniteSubsetsOf(Nat) /\ I # {}
  <2>1. ASSUME NEW n \in T PROVE 1..n \in FiniteSubsetsOf(Nat)
    <3>1. IsFiniteSet(1..n)
      BY FS_Interval
    <3> QED BY <3>1 DEF FiniteSubsetsOf
  <2> QED BY <2>1
<1>2. PICK i \in I : \A j \in I : ~(<<j, i>> \in StrictSubsetOrdering(Nat))
  <2> HIDE DEF I
  <2> QED BY <1>1, FS_StrictSubsetOrderingWellFounded, WFMin
<1>3. PICK n \in T : i = 1..n
  OBVIOUS
<1>4. ASSUME NEW m \in T, m < n PROVE FALSE
  <2>1. 1..m \in I /\ 1..m \in SUBSET Nat /\ 1..n \in SUBSET Nat
    OBVIOUS
  <2>2. 1..m \subseteq 1..n /\ 1..m # 1..n
    BY <1>4
  <2>3. <<1..m, 1..n>> \in StrictSubsetOrdering(Nat)
    BY <2>1, <2>2 DEF StrictSubsetOrdering
  <2> QED BY <1>2, <1>3, <2>1, <2>3
<1> QED BY <1>4

\* A set with 0 and with the successors of its members up to N has all of 0..N.
LEMMA Induction ==
  ASSUME NEW N \in Nat, NEW T, 0 \in T, \A n \in 0..(N - 1) : n \in T => n + 1 \in T
  PROVE  \A n \in 0..N : n \in T
<1> SUFFICES ASSUME NEW k \in 0..N, k \notin T PROVE FALSE
  OBVIOUS
<1> DEFINE U == {n \in 0..N : n \notin T}
<1>1. U \in SUBSET Nat /\ U # {}
  OBVIOUS
<1>2. PICK n \in U : \A m \in U : n <= m
  <2> HIDE DEF U
  <2> QED BY <1>1, LeastNat
<1>3. n - 1 \in 0..(N - 1) /\ (n - 1) + 1 = n
  BY <1>2
<1>4. n - 1 \notin U
  BY <1>2, <1>3
<1>5. n - 1 \in T
  BY <1>3, <1>4
<1>6. n \in T
  BY <1>3, <1>5
<1> QED BY <1>2, <1>6

Solves(c, N, b, F) == c[0] = b /\ \A n \in 1..N : c[n] = F[<<n, c[n - 1]>>]

\* A recursion equation whose steps stay in a set has a solution.
LEMMA Recursion ==
  ASSUME NEW N \in Nat, NEW S, NEW b \in S, NEW F \in [(1..N) \X S -> S]
  PROVE  \E c \in [0..N -> S] : Solves(c, N, b, F)
<1> DEFINE Good(k, c) == c[0] = b /\ \A n \in 1..k : c[n] = F[<<n, c[n - 1]>>]
           T == {k \in 0..N : \E c \in [0..k -> S] : Good(k, c)}
<1>1. 0 \in T
  <2> DEFINE c == [i \in 0..0 |-> b]
  <2>1. c \in [0..0 -> S] /\ Good(0, c) /\ 0 \in 0..N
    OBVIOUS
  <2> HIDE DEF c
  <2> QED BY <2>1
<1>2. ASSUME NEW k \in 0..(N - 1), k \in T PROVE k + 1 \in T
  <2>1. PICK c \in [0..k -> S] : Good(k, c)
    BY <1>2
  <2>2. k + 1 \in 1..N /\ k + 1 \in 0..N /\ k \in 0..k
    OBVIOUS
  <2> DEFINE x == F[<<k + 1, c[k]>>]
             d == [i \in 0..(k + 1) |-> IF i = k + 1 THEN x ELSE c[i]]
  <2>3. x \in S
    BY <2>2
  <2>4. d[k + 1] = x /\ \A i \in 0..k : d[i] = c[i]
    BY <2>2
  <2>5. d \in [0..(k + 1) -> S]
    <3> HIDE DEF x
    <3> QED BY <2>3
  <2> HIDE DEF d
  <2>6. d[0] = b
    BY <2>1, <2>4
  <2>7. ASSUME NEW n \in 1..(k + 1) PROVE d[n] = F[<<n, d[n - 1]>>]
    <3>1. CASE n = k + 1
      <4>1. n - 1 = k
        BY <3>1
      <4> QED BY <2>2, <2>4, <3>1, <4>1
    <3>2. CASE n \in 1..k
      <4>1. n \in 0..k /\ n - 1 \in 0..k
        BY <3>2
      <4> QED BY <2>1, <2>4, <3>2, <4>1
    <3> QED BY <3>1, <3>2
  <2> QED BY <2>2, <2>5, <2>6, <2>7
<1>3. N \in T
  <2> HIDE DEF T
  <2>1. \A n \in 0..N : n \in T
    BY <1>1, <1>2, Induction
  <2> QED BY <2>1
<1> QED BY <1>3 DEF Solves

\* A set of sequences with the empty one that is closed under Append has all of them.
LEMMA SeqInduction ==
  ASSUME NEW X, NEW T, <<>> \in T, \A s \in Seq(X), x \in X : s \in T => Append(s, x) \in T
  PROVE  \A s \in Seq(X) : s \in T
<1> SUFFICES ASSUME NEW s \in Seq(X) PROVE s \in T
  OBVIOUS
<1> DEFINE N == Len(s)
           U == {n \in 0..N : SubSeq(s, 1, n) \in T}
<1>1. N \in Nat /\ 0 \in 0..N /\ N \in 0..N
  OBVIOUS
<1>2. 0 \in U
  <2>1. SubSeq(s, 1, 0) = <<>>
    OBVIOUS
  <2> QED BY <1>1, <2>1
<1>3. ASSUME NEW n \in 0..(N - 1), n \in U PROVE n + 1 \in U
  <2>1. n + 1 \in 0..N /\ n + 1 \in 1..Len(s) /\ SubSeq(s, 1, n) \in Seq(X) /\ s[n + 1] \in X
    OBVIOUS
  <2>2. SubSeq(s, 1, n + 1) = Append(SubSeq(s, 1, n), s[n + 1])
    BY <2>1
  <2> QED BY <1>3, <2>1, <2>2
<1>4. N \in U
  <2> HIDE DEF U, N
  <2>1. \A n \in 0..N : n \in U
    BY <1>1, <1>2, <1>3, Induction
  <2> QED BY <1>1, <2>1
<1>5. SubSeq(s, 1, N) = s
  OBVIOUS
<1> QED BY <1>4, <1>5

\* A function on an interval from 1 is a sequence.
LEMMA FunctionIsSeq ==
  ASSUME NEW S, NEW n \in Nat, NEW f \in [1..n -> S]
  PROVE  f \in Seq(S) /\ Len(f) = n
OBVIOUS

\* A pair is two sequences of one.
LEMMA PairConcat ==
  ASSUME NEW S, NEW a \in S, NEW b \in S
  PROVE  <<a, b>> = <<a>> \o <<b>>
<1> DEFINE u == <<a>> \o <<b>>
           v == <<a, b>>
<1>1. v \in Seq(S) /\ Len(v) = 2 /\ v[1] = a /\ v[2] = b
  OBVIOUS
<1>2. u \in Seq(S) /\ Len(u) = 2
  OBVIOUS
<1>3. u[1] = a /\ u[2] = b
  OBVIOUS
<1> HIDE DEF u, v
<1>4. Len(u) = Len(v) /\ \A i \in 1..Len(u) : u[i] = v[i]
  BY <1>1, <1>2, <1>3
<1>5. u = v
  BY <1>1, <1>2, <1>4, SeqEqual
<1> QED BY <1>5 DEF u, v

(* Selecting rows                                                          *)

\* The selected rows of every prefix.
WhereRun(k, rows, column, value) ==
  /\ k[0] = <<>>
  /\ \A n \in 1..Len(rows) :
       k[n] = IF rows[n][column] = value THEN Append(k[n - 1], rows[n]) ELSE k[n - 1]
  /\ Where(rows, column, value) = k[Len(rows)]

\* Where is computed row by row.
LEMMA WhereSteps ==
  ASSUME NEW X, NEW rows \in Seq(X), NEW column, NEW value
  PROVE  \E k \in [0..Len(rows) -> Seq(X)] : WhereRun(k, rows, column, value)
<1> DEFINE N == Len(rows)
           S == Seq(X)
           b == <<>>
           Step(n, c) == IF rows[n][column] = value THEN Append(c, rows[n]) ELSE c
           F == [x \in (1..N) \X S |-> Step(x[1], x[2])]
           D(c) == c = [n \in 0..N |-> IF n = 0 THEN b ELSE Step(n, c[n - 1])]
<1>1. F \in [(1..N) \X S -> S] /\ N \in Nat /\ b \in S
  OBVIOUS
<1>2. PICK c \in [0..N -> S] : Solves(c, N, b, F)
  <2> HIDE DEF F, N, S, b
  <2> QED BY <1>1, Recursion
<1>3. ASSUME NEW n \in 1..N PROVE c[n] = Step(n, c[n - 1])
  <2>1. n - 1 \in 0..N /\ c[n - 1] \in S
    OBVIOUS
  <2> QED BY <1>2, <2>1 DEF Solves
<1>4. D(c)
  <2> HIDE DEF Step, b
  <2> QED BY <1>2, <1>3 DEF Solves
<1> DEFINE e == CHOOSE f : D(f)
<1>5. D(e)
  BY <1>4
<1>6. Where(rows, column, value) = e[N]
  BY DEF Where
<1>7. ASSUME NEW n \in 1..N PROVE e[n] = Step(n, e[n - 1])
  <2> HIDE DEF e
  <2>1. n \in 0..N /\ n # 0
    OBVIOUS
  <2> QED BY <1>5, <2>1
<1>8. e[0] = b
  <2> HIDE DEF e, b
  <2>1. 0 \in 0..N
    OBVIOUS
  <2> QED BY <1>5, <2>1
<1>9. \A n \in 0..N : e[n] \in S
  <2> DEFINE T == {n \in 0..N : e[n] \in S}
  <2>1. 0 \in T
    <3>1. 0 \in 0..N
      OBVIOUS
    <3> HIDE DEF b, e
    <3> QED BY <1>1, <1>8, <3>1
  <2>2. ASSUME NEW n \in 0..(N - 1), n \in T PROVE n + 1 \in T
    <3> HIDE DEF e
    <3>1. n + 1 \in 1..N /\ n + 1 \in 0..N /\ (n + 1) - 1 = n /\ rows[n + 1] \in X
      OBVIOUS
    <3>2. e[n + 1] = Step(n + 1, e[n])
      BY <1>7, <3>1
    <3>3. Step(n + 1, e[n]) \in S
      BY <2>2, <3>1
    <3> QED BY <3>1, <3>2, <3>3
  <2> HIDE DEF T
  <2>3. \A n \in 0..N : n \in T
    BY <1>1, <2>1, <2>2, Induction
  <2> QED BY <2>3 DEF T
<1> HIDE DEF e
<1>10. e \in [0..N -> S]
  BY <1>5, <1>9
<1> QED BY <1>6, <1>7, <1>8, <1>10 DEF WhereRun

\* No row is selected of none.
LEMMA WhereEmpty == ASSUME NEW column, NEW value PROVE Where(<<>>, column, value) = <<>>
<1>1. <<>> \in Seq({}) /\ Len(<<>>) = 0
  OBVIOUS
<1>2. PICK k : WhereRun(k, <<>>, column, value)
  BY <1>1, WhereSteps, Zenon
<1> QED BY <1>1, <1>2 DEF WhereRun

\* One more row is selected after the others, or not at all.
LEMMA WhereAppend ==
  ASSUME NEW X, NEW rows \in Seq(X), NEW row \in X, NEW column, NEW value
  PROVE  /\ Where(rows, column, value) \in Seq(X)
         /\ Where(Append(rows, row), column, value)
              = IF row[column] = value THEN Append(Where(rows, column, value), row)
                ELSE Where(rows, column, value)
<1> DEFINE N == Len(rows)
           more == Append(rows, row)
<1>1. more \in Seq(X) /\ Len(more) = N + 1 /\ N \in Nat /\ more[N + 1] = row
        /\ \A n \in 1..N : more[n] = rows[n]
  OBVIOUS
<1> HIDE DEF more
<1>2. PICK k \in [0..Len(rows) -> Seq(X)] : WhereRun(k, rows, column, value)
  BY WhereSteps
<1>3. PICK m \in [0..Len(more) -> Seq(X)] : WhereRun(m, more, column, value)
  BY <1>1, WhereSteps
<1> DEFINE T == {n \in 0..N : m[n] = k[n]}
<1>4. 0 \in T
  BY <1>1, <1>2, <1>3 DEF WhereRun
<1>5. ASSUME NEW n \in 0..(N - 1), n \in T PROVE n + 1 \in T
  <2>1. n + 1 \in 1..N /\ n + 1 \in 0..N /\ (n + 1) - 1 = n /\ n + 1 \in 1..(N + 1)
    OBVIOUS
  <2>2. more[n + 1] = rows[n + 1]
    BY <1>1, <2>1
  <2>3. k[n + 1] = IF rows[n + 1][column] = value THEN Append(k[n], rows[n + 1]) ELSE k[n]
    BY <1>2, <2>1 DEF WhereRun
  <2>4. m[n + 1] = IF more[n + 1][column] = value THEN Append(m[n], more[n + 1]) ELSE m[n]
    BY <1>1, <1>3, <2>1 DEF WhereRun
  <2>5. m[n] = k[n]
    BY <1>5
  <2>6. m[n + 1] = k[n + 1]
    BY <2>2, <2>3, <2>4, <2>5, Zenon
  <2> QED BY <2>1, <2>6
<1>6. m[N] = k[N]
  <2> HIDE DEF T
  <2>1. \A n \in 0..N : n \in T
    BY <1>1, <1>4, <1>5, Induction
  <2>2. N \in 0..N
    BY <1>1
  <2> QED BY <2>1, <2>2 DEF T
<1>7. N + 1 \in 1..(N + 1) /\ (N + 1) - 1 = N /\ N \in 0..N
  BY <1>1
<1>8. m[N + 1] = IF more[N + 1][column] = value THEN Append(m[N], more[N + 1]) ELSE m[N]
  BY <1>1, <1>3, <1>7 DEF WhereRun
<1>9. Where(more, column, value)
        = IF row[column] = value THEN Append(Where(rows, column, value), row)
          ELSE Where(rows, column, value)
  <2>1. Where(rows, column, value) = k[N] /\ Where(more, column, value) = m[N + 1]
    BY <1>1, <1>2, <1>3 DEF WhereRun
  <2> QED BY <1>1, <1>6, <1>8, <2>1, Zenon
<1> QED BY <1>2, <1>7, <1>9 DEF more, WhereRun
\* The rows selected are rows.
LEMMA WhereType ==
  ASSUME NEW X, NEW rows \in Seq(X), NEW column, NEW value
  PROVE  Where(rows, column, value) \in Seq(X)
<1>1. PICK k \in [0..Len(rows) -> Seq(X)] : WhereRun(k, rows, column, value)
  BY WhereSteps
<1>2. Len(rows) \in 0..Len(rows)
  OBVIOUS
<1> QED BY <1>1, <1>2 DEF WhereRun

\* Selecting from a concatenation concatenates what is selected.
LEMMA WhereConcat ==
  ASSUME NEW X, NEW s \in Seq(X), NEW t \in Seq(X), NEW column, NEW value
  PROVE  Where(s \o t, column, value) = Where(s, column, value) \o Where(t, column, value)
<1> DEFINE W(u) == Where(u, column, value)
           T == {u \in Seq(X) : W(s \o u) = W(s) \o W(u)}
<1>1. W(s) \in Seq(X)
  BY WhereType
<1>2. <<>> \in T
  <2>1. s \o <<>> = s /\ <<>> \in Seq(X)
    OBVIOUS
  <2>2. W(<<>>) = <<>>
    BY WhereEmpty
  <2>3. W(s) \o <<>> = W(s)
    BY <1>1
  <2> QED BY <2>1, <2>2, <2>3
<1>3. ASSUME NEW u \in Seq(X), NEW x \in X, u \in T PROVE Append(u, x) \in T
  <2>1. s \o u \in Seq(X) /\ Append(u, x) \in Seq(X) /\ s \o Append(u, x) = Append(s \o u, x)
    OBVIOUS
  <2>2. W(u) \in Seq(X)
    BY WhereType
  <2>3. W(Append(s \o u, x)) = IF x[column] = value THEN Append(W(s \o u), x) ELSE W(s \o u)
    <3> DEFINE v == s \o u
    <3> HIDE DEF v
    <3>1. v \in Seq(X)
      BY <2>1 DEF v
    <3>2. W(Append(v, x)) = IF x[column] = value THEN Append(W(v), x) ELSE W(v)
      BY <3>1, WhereAppend
    <3> QED BY <3>2 DEF v
  <2>4. W(Append(u, x)) = IF x[column] = value THEN Append(W(u), x) ELSE W(u)
    BY WhereAppend
  <2>5. W(s \o u) = W(s) \o W(u)
    BY <1>3
  <2>6. W(s) \o Append(W(u), x) = Append(W(s) \o W(u), x)
    <3> HIDE DEF W
    <3> QED BY <1>1, <2>2
  <2> HIDE DEF W
  <2>7. W(s \o Append(u, x)) = W(s) \o W(Append(u, x))
    <3>1. CASE x[column] = value
      BY <2>1, <2>3, <2>4, <2>5, <2>6, <3>1, Zenon
    <3>2. CASE x[column] # value
      BY <2>1, <2>3, <2>4, <2>5, <2>6, <3>2, Zenon
    <3> QED BY <3>1, <3>2
  <2> QED BY <2>1, <2>7
<1> HIDE DEF T
<1>4. \A u \in Seq(X) : u \in T
  BY <1>2, <1>3, SeqInduction
<1> QED BY <1>4 DEF T

\* All rows are selected if all have the value, none if none has.
LEMMA WhereSame ==
  ASSUME NEW X, NEW rows \in Seq(X), NEW column, NEW value
  PROVE  /\ (\A i \in DOMAIN rows : rows[i][column] = value) => Where(rows, column, value) = rows
         /\ (\A i \in DOMAIN rows : rows[i][column] # value) => Where(rows, column, value) = <<>>
<1> DEFINE W(u) == Where(u, column, value)
           All(u) == \A i \in DOMAIN u : u[i][column] = value
           Not(u) == \A i \in DOMAIN u : u[i][column] # value
           T == {u \in Seq(X) : (All(u) => W(u) = u) /\ (Not(u) => W(u) = <<>>)}
<1>1. <<>> \in T
  <2>1. <<>> \in Seq(X)
    OBVIOUS
  <2> QED BY <2>1, WhereEmpty
<1>2. ASSUME NEW u \in Seq(X), NEW x \in X, u \in T PROVE Append(u, x) \in T
  <2>1. W(Append(u, x)) = IF x[column] = value THEN Append(W(u), x) ELSE W(u)
    BY WhereAppend
  <2>2. Append(u, x) \in Seq(X) /\ DOMAIN u \subseteq DOMAIN Append(u, x)
          /\ (\A i \in DOMAIN u : Append(u, x)[i] = u[i])
          /\ Append(u, x)[Len(u) + 1] = x /\ Len(u) + 1 \in DOMAIN Append(u, x)
    OBVIOUS
  <2> HIDE DEF W
  <2>3. ASSUME All(Append(u, x)) PROVE W(Append(u, x)) = Append(u, x)
    <3>1. x[column] = value /\ All(u)
      BY <2>2, <2>3, Zenon
    <3> QED BY <1>2, <2>1, <3>1, Zenon
  <2>4. ASSUME Not(Append(u, x)) PROVE W(Append(u, x)) = <<>>
    <3>1. x[column] # value /\ Not(u)
      BY <2>2, <2>4, Zenon
    <3> QED BY <1>2, <2>1, <3>1, Zenon
  <2> QED BY <2>2, <2>3, <2>4
<1> HIDE DEF T
<1>3. \A u \in Seq(X) : u \in T
  BY <1>1, <1>2, SeqInduction
<1> QED BY <1>3 DEF T

(* Putting rows together                                                   *)

\* The concatenation of every prefix.
FlattenRun(k, ss) ==
  /\ k[0] = <<>>
  /\ \A n \in 1..Len(ss) : k[n] = k[n - 1] \o ss[n]
  /\ FlattenSeq(ss) = k[Len(ss)]

\* FlattenSeq is computed piece by piece.
LEMMA FlattenSteps ==
  ASSUME NEW X, NEW ss \in Seq(Seq(X))
  PROVE  \E k \in [0..Len(ss) -> Seq(X)] : FlattenRun(k, ss)
<1> DEFINE N == Len(ss)
           S == Seq(X)
           b == <<>>
           F == [x \in (1..N) \X S |-> x[2] \o ss[x[1]]]
<1>1. F \in [(1..N) \X S -> S] /\ N \in Nat /\ b \in S
  OBVIOUS
<1>2. PICK c \in [0..N -> S] : Solves(c, N, b, F)
  <2> HIDE DEF F, N, S, b
  <2> QED BY <1>1, Recursion
<1>3. ASSUME NEW n \in 1..N PROVE c[n] = c[n - 1] \o ss[n]
  <2>1. n - 1 \in 0..N
    BY <1>1
  <2>2. c[n - 1] \in S
    <3> HIDE DEF S
    <3> QED BY <1>2, <2>1
  <2> QED BY <1>2, <2>1, <2>2 DEF Solves
<1>4. c[0] = <<>>
  BY <1>2 DEF Solves
<1>5. CASE N = 0
  <2>1. FlattenSeq(ss) = <<>>
    BY <1>5 DEF FlattenSeq
  <2> QED BY <1>3, <1>4, <1>5, <2>1 DEF FlattenRun
<1>6. CASE N # 0
  <2> DEFINE D(f) == f = [i \in 1..N |-> IF i = 1 THEN ss[i] ELSE f[i - 1] \o ss[i]]
             r == [i \in 1..N |-> c[i]]
             e == CHOOSE f : D(f)
  <2>1. ASSUME NEW i \in 1..N
        PROVE  r[i] = IF i = 1 THEN ss[i] ELSE r[i - 1] \o ss[i]
    <3>1. CASE i = 1
      <4>0. 1 \in 1..N /\ 1 - 1 = 0
        BY <3>1
      <4>1. c[1] = c[0] \o ss[1]
        BY <1>3, <4>0
      <4>3. ss[1] \in Seq(X)
        BY <4>0
      <4>2. <<>> \o ss[1] = ss[1]
        BY <4>3
      <4> QED BY <1>4, <3>1, <4>1, <4>2
    <3>2. CASE i # 1
      <4>1. i - 1 \in 1..N
        BY <3>2
      <4> QED BY <1>3, <3>2, <4>1
    <3> QED BY <3>1, <3>2
  <2>2. D(r)
    <3>1. r = [i \in 1..N |-> r[i]]
      OBVIOUS
    <3> HIDE DEF r
    <3> QED BY <2>1, <3>1
  <2>3. D(e)
    <3> HIDE DEF r
    <3> QED BY <2>2
  <2>4. FlattenSeq(ss) = e[N]
    BY <1>6 DEF FlattenSeq
  <2> DEFINE T == {n \in 0..N : n # 0 => e[n] = c[n]}
  <2> HIDE DEF e
  <2>5. 0 \in T
    BY <1>1
  <2>6. ASSUME NEW n \in 0..(N - 1), n \in T PROVE n + 1 \in T
    <3>1. n + 1 \in 1..N /\ n + 1 \in 0..N /\ (n + 1) - 1 = n
      OBVIOUS
    <3>2. e[n + 1] = IF n + 1 = 1 THEN ss[n + 1] ELSE e[n] \o ss[n + 1]
      BY <2>3, <3>1
    <3>3. r[n + 1] = IF n + 1 = 1 THEN ss[n + 1] ELSE r[n] \o ss[n + 1]
      BY <2>1, <3>1
    <3>4. r[n + 1] = c[n + 1] /\ (n # 0 => r[n] = c[n])
      BY <3>1
    <3>5. e[n + 1] = c[n + 1]
      <4> HIDE DEF r
      <4>1. CASE n = 0
        BY <3>2, <3>3, <3>4, <4>1
      <4>2. CASE n # 0
        <5>1. n + 1 # 1
          BY <4>2
        <5>2. e[n] = r[n]
          BY <2>6, <3>4, <4>2
        <5> QED BY <3>2, <3>3, <3>4, <5>1, <5>2, Zenon
      <4> QED BY <4>1, <4>2
    <3> QED BY <3>1, <3>5
  <2>7. e[N] = c[N]
    <3> HIDE DEF T
    <3>1. \A n \in 0..N : n \in T
      BY <1>1, <2>5, <2>6, Induction
    <3>2. N \in 0..N
      BY <1>1
    <3> QED BY <1>6, <3>1, <3>2 DEF T
  <2> QED BY <1>3, <1>4, <2>4, <2>7 DEF FlattenRun
<1> QED BY <1>5, <1>6

\* FlattenSeq concatenates: nothing for no sequence, and one more at the end.
LEMMA FlattenAppend ==
  ASSUME NEW X, NEW ss \in Seq(Seq(X)), NEW s \in Seq(X)
  PROVE  /\ FlattenSeq(ss) \in Seq(X)
         /\ FlattenSeq(Append(ss, s)) = FlattenSeq(ss) \o s
<1> DEFINE N == Len(ss)
           more == Append(ss, s)
<1>1. more \in Seq(Seq(X)) /\ Len(more) = N + 1 /\ N \in Nat /\ more[N + 1] = s
        /\ \A n \in 1..N : more[n] = ss[n]
  OBVIOUS
<1> HIDE DEF more
<1>2. PICK k \in [0..Len(ss) -> Seq(X)] : FlattenRun(k, ss)
  BY FlattenSteps
<1>3. PICK m \in [0..Len(more) -> Seq(X)] : FlattenRun(m, more)
  BY <1>1, FlattenSteps
<1> DEFINE T == {n \in 0..N : m[n] = k[n]}
<1>4. 0 \in T
  BY <1>1, <1>2, <1>3 DEF FlattenRun
<1>5. ASSUME NEW n \in 0..(N - 1), n \in T PROVE n + 1 \in T
  <2>1. n + 1 \in 1..N /\ n + 1 \in 0..N /\ (n + 1) - 1 = n /\ n + 1 \in 1..(N + 1)
    OBVIOUS
  <2>2. k[n + 1] = k[n] \o ss[n + 1]
    BY <1>2, <2>1 DEF FlattenRun
  <2>3. m[n + 1] = m[n] \o more[n + 1]
    BY <1>1, <1>3, <2>1 DEF FlattenRun
  <2>4. m[n] = k[n] /\ more[n + 1] = ss[n + 1]
    BY <1>1, <1>5, <2>1
  <2>5. m[n + 1] = k[n + 1]
    BY <2>2, <2>3, <2>4, Zenon
  <2> QED BY <2>1, <2>5
<1>6. m[N] = k[N]
  <2> HIDE DEF T
  <2>1. \A n \in 0..N : n \in T
    BY <1>1, <1>4, <1>5, Induction
  <2>2. N \in 0..N
    BY <1>1
  <2> QED BY <2>1, <2>2 DEF T
<1>7. N + 1 \in 1..(N + 1) /\ (N + 1) - 1 = N /\ N \in 0..N
  BY <1>1
<1>8. m[N + 1] = m[N] \o s
  BY <1>1, <1>3, <1>7 DEF FlattenRun
<1>9. FlattenSeq(ss) = k[N] /\ FlattenSeq(more) = m[N + 1]
  BY <1>1, <1>2, <1>3 DEF FlattenRun
<1>10. FlattenSeq(more) = FlattenSeq(ss) \o s
  BY <1>6, <1>8, <1>9, Zenon
<1> QED BY <1>2, <1>7, <1>9, <1>10 DEF more

\* The concatenation of nothing.
LEMMA FlattenEmpty == FlattenSeq(<<>>) = <<>>
BY DEF FlattenSeq
\* Selecting from a concatenation of pieces concatenates what is selected.
LEMMA WhereFlatten ==
  ASSUME NEW X, NEW ss \in Seq(Seq(X)), NEW column, NEW value
  PROVE  Where(FlattenSeq(ss), column, value)
           = FlattenSeq([i \in DOMAIN ss |-> Where(ss[i], column, value)])
<1> DEFINE W(u) == Where(u, column, value)
           M(tt) == [i \in DOMAIN tt |-> W(tt[i])]
           T == {tt \in Seq(Seq(X)) : W(FlattenSeq(tt)) = FlattenSeq(M(tt))}
<1>1. <<>> \in T
  <2>1. M(<<>>) = <<>> /\ <<>> \in Seq(Seq(X))
    OBVIOUS
  <2> QED BY <2>1, WhereEmpty, FlattenEmpty
<1>2. ASSUME NEW tt \in Seq(Seq(X)), NEW s \in Seq(X), tt \in T PROVE Append(tt, s) \in T
  <2>1. \A u \in Seq(X) : W(u) \in Seq(X)
    BY WhereType
  <2>2. FlattenSeq(Append(tt, s)) = FlattenSeq(tt) \o s /\ FlattenSeq(tt) \in Seq(X)
    BY FlattenAppend
  <2>3. W(FlattenSeq(tt) \o s) = W(FlattenSeq(tt)) \o W(s)
    <3> DEFINE f == FlattenSeq(tt)
    <3> HIDE DEF f
    <3>1. f \in Seq(X)
      BY <2>2 DEF f
    <3>2. W(f \o s) = W(f) \o W(s)
      BY <3>1, WhereConcat
    <3> QED BY <3>2 DEF f
  <2> HIDE DEF W
  <2>4. M(tt) \in Seq(Seq(X)) /\ W(s) \in Seq(X)
    <3>1. Len(tt) \in Nat /\ DOMAIN tt = 1..Len(tt) /\ \A i \in 1..Len(tt) : tt[i] \in Seq(X)
      OBVIOUS
    <3>2. M(tt) \in [1..Len(tt) -> Seq(X)]
      BY <2>1, <3>1
    <3> HIDE DEF M
    <3>3. M(tt) \in Seq(Seq(X))
      BY <3>1, <3>2, FunctionIsSeq, Zenon
    <3>4. W(s) \in Seq(X)
      BY <2>1
    <3> QED BY <3>3, <3>4
  <2>5. M(Append(tt, s)) = Append(M(tt), W(s))
    OBVIOUS
  <2>6. FlattenSeq(Append(M(tt), W(s))) = FlattenSeq(M(tt)) \o W(s)
    <3> DEFINE m == M(tt)
    <3> HIDE DEF M
    <3> QED BY <2>4, FlattenAppend
  <2>7. Append(tt, s) \in Seq(Seq(X))
    OBVIOUS
  <2>8. W(FlattenSeq(tt)) = FlattenSeq(M(tt))
    BY <1>2
  <2> HIDE DEF M
  <2>9. W(FlattenSeq(Append(tt, s))) = FlattenSeq(M(Append(tt, s)))
    BY <2>2, <2>3, <2>5, <2>6, <2>8, Zenon
  <2> QED BY <2>7, <2>9
<1> HIDE DEF T
<1>3. \A tt \in Seq(Seq(X)) : tt \in T
  BY <1>1, <1>2, SeqInduction
<1> QED BY <1>3 DEF T

\* Empty pieces add nothing, so that a single other piece is the result.
LEMMA FlattenSole ==
  ASSUME NEW X, NEW ss \in Seq(Seq(X)), NEW s \in Seq(X)
  PROVE  /\ (\A i \in DOMAIN ss : ss[i] = <<>>) => FlattenSeq(ss) = <<>>
         /\ \A j \in DOMAIN ss :
              ss[j] = s /\ (\A i \in DOMAIN ss \ {j} : ss[i] = <<>>) => FlattenSeq(ss) = s
<1> DEFINE None0(tt) == \A i \in DOMAIN tt : tt[i] = <<>>
           Sole(tt, j) == tt[j] = s /\ \A i \in DOMAIN tt \ {j} : tt[i] = <<>>
           T == {tt \in Seq(Seq(X)) : /\ None0(tt) => FlattenSeq(tt) = <<>>
                                      /\ \A j \in DOMAIN tt : Sole(tt, j) => FlattenSeq(tt) = s}
<1>1. <<>> \in T
  <2>1. <<>> \in Seq(Seq(X)) /\ DOMAIN <<>> = {}
    OBVIOUS
  <2> QED BY <2>1, FlattenEmpty
<1>2. ASSUME NEW tt \in Seq(Seq(X)), NEW r \in Seq(X), tt \in T PROVE Append(tt, r) \in T
  <2> DEFINE n == Len(tt) + 1
             uu == Append(tt, r)
  <2>1. FlattenSeq(uu) = FlattenSeq(tt) \o r /\ FlattenSeq(tt) \in Seq(X)
    BY FlattenAppend
  <2>2. uu \in Seq(Seq(X)) /\ DOMAIN uu = DOMAIN tt \union {n} /\ uu[n] = r /\ n \notin DOMAIN tt
          /\ \A i \in DOMAIN tt : uu[i] = tt[i]
    OBVIOUS
  <2> HIDE DEF n, uu
  <2>3. ASSUME None0(uu) PROVE FlattenSeq(uu) = <<>>
    <3>1. None0(tt) /\ r = <<>>
      BY <2>2, <2>3, Zenon
    <3>2. FlattenSeq(tt) = <<>>
      BY <1>2, <3>1
    <3> QED BY <2>1, <3>1, <3>2
  <2>4. ASSUME NEW j \in DOMAIN uu, Sole(uu, j) PROVE FlattenSeq(uu) = s
    <3>1. CASE j = n
      <4>1. None0(tt) /\ r = s
        BY <2>2, <2>4, <3>1, Zenon
      <4>2. FlattenSeq(tt) = <<>>
        BY <1>2, <4>1
      <4> QED BY <2>1, <4>1, <4>2
    <3>2. CASE j # n
      <4>1. j \in DOMAIN tt /\ Sole(tt, j) /\ r = <<>>
        BY <2>2, <2>4, <3>2, Zenon
      <4>2. FlattenSeq(tt) = s
        BY <1>2, <4>1
      <4>3. s \o <<>> = s
        OBVIOUS
      <4> QED BY <2>1, <4>1, <4>2, <4>3
    <3> QED BY <3>1, <3>2
  <2> QED BY <2>2, <2>3, <2>4 DEF uu
<1> HIDE DEF T
<1>3. \A tt \in Seq(Seq(X)) : tt \in T
  BY <1>1, <1>2, SeqInduction
<1> QED BY <1>3 DEF T
\* The rows of a concatenation are the rows of the pieces.
LEMMA FlattenRange ==
  ASSUME NEW X, NEW ss \in Seq(Seq(X))
  PROVE  \A x : x \in Range(FlattenSeq(ss)) <=> \E i \in DOMAIN ss : x \in Range(ss[i])
<1> DEFINE T == {tt \in Seq(Seq(X)) :
                   \A x : x \in Range(FlattenSeq(tt)) <=> \E i \in DOMAIN tt : x \in Range(tt[i])}
<1>1. <<>> \in T
  <2>1. <<>> \in Seq(Seq(X)) /\ DOMAIN <<>> = {} /\ Range(<<>>) = {}
    BY DEF Range
  <2> QED BY <2>1, FlattenEmpty
<1>2. ASSUME NEW tt \in Seq(Seq(X)), NEW r \in Seq(X), tt \in T PROVE Append(tt, r) \in T
  <2> DEFINE n == Len(tt) + 1
             uu == Append(tt, r)
  <2>1. FlattenSeq(uu) = FlattenSeq(tt) \o r /\ FlattenSeq(tt) \in Seq(X)
    BY FlattenAppend
  <2>2. uu \in Seq(Seq(X)) /\ DOMAIN uu = DOMAIN tt \union {n} /\ uu[n] = r /\ n \notin DOMAIN tt
          /\ \A i \in DOMAIN tt : uu[i] = tt[i]
    OBVIOUS
  <2> HIDE DEF n, uu
  <2>3. Range(FlattenSeq(tt) \o r) = Range(FlattenSeq(tt)) \union Range(r)
    <3> DEFINE f == FlattenSeq(tt)
    <3> HIDE DEF f
    <3>1. f \in Seq(X)
      BY <2>1 DEF f
    <3>2. Range(f \o r) = Range(f) \union Range(r)
      BY <3>1, RangeConcatenation
    <3> QED BY <3>2 DEF f
  <2>4. ASSUME NEW x
        PROVE  x \in Range(FlattenSeq(uu)) <=> \E i \in DOMAIN uu : x \in Range(uu[i])
    <3>1. x \in Range(FlattenSeq(uu)) <=> x \in Range(FlattenSeq(tt)) \/ x \in Range(r)
      BY <2>1, <2>3
    <3>2. x \in Range(FlattenSeq(tt)) <=> \E i \in DOMAIN tt : x \in Range(tt[i])
      BY <1>2
    <3> QED BY <2>2, <3>1, <3>2, Zenon
  <2> QED BY <2>2, <2>4 DEF uu
<1> HIDE DEF T
<1>3. \A tt \in Seq(Seq(X)) : tt \in T
  BY <1>1, <1>2, SeqInduction
<1> QED BY <1>3 DEF T

\* The concatenation of single rows is the sequence of the rows.
LEMMA FlattenOnes ==
  ASSUME NEW X, NEW s \in Seq(X)
  PROVE  FlattenSeq([i \in DOMAIN s |-> <<s[i]>>]) = s
<1> DEFINE M(t) == [i \in DOMAIN t |-> <<t[i]>>]
           T == {t \in Seq(X) : FlattenSeq(M(t)) = t}
<1>1. <<>> \in T
  <2>1. <<>> \in Seq(X) /\ M(<<>>) = <<>>
    OBVIOUS
  <2> QED BY <2>1, FlattenEmpty
<1>2. ASSUME NEW t \in Seq(X), NEW x \in X, t \in T PROVE Append(t, x) \in T
  <2>1. M(t) \in Seq(Seq(X)) /\ <<x>> \in Seq(X)
    <3>1. Len(t) \in Nat /\ DOMAIN t = 1..Len(t) /\ \A i \in 1..Len(t) : t[i] \in X
      OBVIOUS
    <3>2. M(t) \in [1..Len(t) -> Seq(X)]
      BY <3>1
    <3> HIDE DEF M
    <3> QED BY <3>1, <3>2
  <2>2. M(Append(t, x)) = Append(M(t), <<x>>)
    OBVIOUS
  <2> HIDE DEF M
  <2>3. FlattenSeq(Append(M(t), <<x>>)) = FlattenSeq(M(t)) \o <<x>>
    <3> DEFINE y == <<x>>
    <3> HIDE DEF y
    <3>1. y \in Seq(X)
      BY <2>1 DEF y
    <3>2. FlattenSeq(Append(M(t), y)) = FlattenSeq(M(t)) \o y
      BY <2>1, <3>1, FlattenAppend
    <3> QED BY <3>2 DEF y
  <2>4. FlattenSeq(M(t)) = t
    BY <1>2
  <2>5. t \o <<x>> = Append(t, x) /\ Append(t, x) \in Seq(X)
    OBVIOUS
  <2>6. FlattenSeq(M(Append(t, x))) = Append(t, x)
    BY <2>2, <2>3, <2>4, <2>5, Zenon
  <2> QED BY <2>5, <2>6
<1> HIDE DEF T
<1>3. \A t \in Seq(X) : t \in T
  BY <1>1, <1>2, SeqInduction
<1> QED BY <1>3 DEF T

\* At most one row of each piece, and other values in other pieces: no value is repeated.
LEMMA FlattenDistinct ==
  ASSUME NEW X, NEW ss \in Seq(Seq(X)), NEW column,
         \A i \in DOMAIN ss : Len(ss[i]) <= 1,
         \A i, j \in DOMAIN ss : \A x \in Range(ss[i]), y \in Range(ss[j]) :
           x[column] = y[column] => i = j
  PROVE  Distinct(Column(FlattenSeq(ss), column))
<1> DEFINE Small(tt) == \A i \in DOMAIN tt : Len(tt[i]) <= 1
           Apart(tt) == \A i, j \in DOMAIN tt : \A x \in Range(tt[i]), y \in Range(tt[j]) :
                          x[column] = y[column] => i = j
           Inj(f) == \A a, b \in DOMAIN f : f[a][column] = f[b][column] => a = b
           T == {tt \in Seq(Seq(X)) : Small(tt) /\ Apart(tt) => Inj(FlattenSeq(tt))}
<1>1. <<>> \in T
  <2>1. <<>> \in Seq(Seq(X)) /\ DOMAIN <<>> = {}
    OBVIOUS
  <2> QED BY <2>1, FlattenEmpty
<1>2. ASSUME NEW tt \in Seq(Seq(X)), NEW r \in Seq(X), tt \in T PROVE Append(tt, r) \in T
  <2> DEFINE n == Len(tt) + 1
             uu == Append(tt, r)
             f == FlattenSeq(tt)
  <2>1. FlattenSeq(uu) = f \o r /\ f \in Seq(X)
    BY FlattenAppend
  <2>2. uu \in Seq(Seq(X)) /\ DOMAIN uu = DOMAIN tt \union {n} /\ uu[n] = r /\ n \notin DOMAIN tt
          /\ \A i \in DOMAIN tt : uu[i] = tt[i]
    OBVIOUS
  <2>3. \A x : x \in Range(f) <=> \E i \in DOMAIN tt : x \in Range(tt[i])
    BY FlattenRange
  <2> HIDE DEF n, uu, f
  <2>4. ASSUME Small(uu), Apart(uu) PROVE Inj(f \o r)
    <3>1. Small(tt) /\ Len(r) <= 1
      BY <2>2, <2>4, Zenon
    <3>2. Apart(tt)
      BY <2>2, <2>4, Zenon
    <3>3. Inj(f)
      BY <1>2, <3>1, <3>2 DEF f
    <3>4. ASSUME NEW x \in Range(f), NEW y \in Range(r) PROVE x[column] # y[column]
      <4>1. PICK i \in DOMAIN tt : x \in Range(tt[i])
        BY <2>3
      <4>2. i # n /\ i \in DOMAIN uu /\ n \in DOMAIN uu /\ x \in Range(uu[i]) /\ y \in Range(uu[n])
        BY <2>2, <4>1
      <4> QED BY <2>4, <4>2, Zenon
    <3>5. SUFFICES ASSUME NEW a \in DOMAIN (f \o r), NEW b \in DOMAIN (f \o r),
                          (f \o r)[a][column] = (f \o r)[b][column], a # b
                   PROVE  FALSE
      OBVIOUS
    <3>6. Len(f) \in Nat /\ Len(r) \in Nat /\ DOMAIN (f \o r) = 1..(Len(f) + Len(r))
      BY <2>1
    <3>7. ASSUME NEW c \in DOMAIN (f \o r)
          PROVE  \/ c \in 1..Len(f) /\ (f \o r)[c] = f[c]
                 \/ c = Len(f) + 1 /\ 1 \in 1..Len(r) /\ (f \o r)[c] = r[1]
      BY <2>1, <3>1, <3>6
    <3>8. \A c \in 1..Len(f) : c \in DOMAIN f /\ f[c] \in Range(f)
      BY <2>1 DEF Range
    <3>9. 1 \in 1..Len(r) => r[1] \in Range(r)
      BY DEF Range
    <3> QED BY <3>3, <3>4, <3>5, <3>7, <3>8, <3>9
  <2> QED BY <2>1, <2>2, <2>4 DEF uu
<1> HIDE DEF T
<1>3. \A tt \in Seq(Seq(X)) : tt \in T
  BY <1>1, <1>2, SeqInduction
<1>4. Inj(FlattenSeq(ss))
  BY <1>3 DEF T
<1> QED BY <1>4 DEF Distinct, IsInjective, Column

(* The rows of an item                                                     *)

Names ==
  {"h", "tts29", "title", "agent", "summary", "audio", "attachment", "e", "question", "label",
   "description", "option", "answer"}
Value == Nat \union STRING \union Names \union Kinds \union {"", "item", "1", "attach", "root"}
Tag == Seq(Value)

\* The words of the rows are values, and so are texts and ids.
LEMMA Values ==
  /\ \A x \in STRING : x \in Value
  /\ \A x \in Nat : x \in Value
  /\ \A x \in Names \union Kinds : x \in Value
  /\ \A x \in {"", "item", "1", "attach", "root"} : x \in Value
BY DEF Value

\* Values in a row are a tag.
LEMMA TagType ==
  /\ \A a, b \in Value : <<a, b>> \in Tag
  /\ \A a, b, c \in Value : <<a, b, c>> \in Tag
  /\ \A a, b, c, d \in Value : <<a, b, c, d>> \in Tag
BY DEF Tag

\* A row with one more value.
LEMMA RowAdd ==
  ASSUME NEW V, NEW h \in Seq(V), NEW x \in V
  PROVE  /\ h \o <<x>> \in Seq(V)
         /\ Len(h \o <<x>>) = Len(h) + 1
         /\ (h \o <<x>>)[Len(h) + 1] = x
         /\ h \o <<>> = h
OBVIOUS

\* The values before it stay.
LEMMA RowKept ==
  ASSUME NEW V, NEW h \in Seq(V), NEW x \in V, NEW i \in 1..Len(h)
  PROVE  (h \o <<x>>)[i] = h[i]
OBVIOUS

\* Rows of a name that is new are found under that name, and change no other.
LEMMA RowsExtend ==
  ASSUME NEW s \in Seq(Tag), NEW t \in Seq(Tag), NEW name,
         \A i \in DOMAIN t : t[i][1] = name, Where(s, 1, name) = <<>>
  PROVE  \A n : Where(s \o t, 1, n) = IF n = name THEN t ELSE Where(s, 1, n)
<1> SUFFICES ASSUME NEW n PROVE Where(s \o t, 1, n) = IF n = name THEN t ELSE Where(s, 1, n)
  OBVIOUS
<1>1. Where(s \o t, 1, n) = Where(s, 1, n) \o Where(t, 1, n)
  BY WhereConcat
<1>2. Where(s, 1, n) \in Seq(Tag)
  BY WhereType
<1>3. CASE n = name
  <2>1. Where(t, 1, n) = t
    BY <1>3, WhereSame
  <2>2. <<>> \o t = t
    OBVIOUS
  <2> QED BY <1>1, <1>3, <2>1, <2>2
<1>4. CASE n # name
  <2>1. Where(t, 1, n) = <<>>
    BY <1>4, WhereSame
  <2> DEFINE w == Where(s, 1, n)
  <2> HIDE DEF w
  <2>2. w \o <<>> = w
    BY <1>2 DEF w
  <2> QED BY <1>1, <1>4, <2>1, <2>2 DEF w
<1> QED BY <1>3, <1>4

\* Rows of one name are found under it and nowhere else.
LEMMA RowsOne ==
  ASSUME NEW t \in Seq(Tag), NEW name, \A i \in DOMAIN t : t[i][1] = name
  PROVE  \A n : Where(t, 1, n) = IF n = name THEN t ELSE <<>>
<1> SUFFICES ASSUME NEW n PROVE Where(t, 1, n) = IF n = name THEN t ELSE <<>>
  OBVIOUS
<1>1. CASE n = name
  BY <1>1, WhereSame
<1>2. CASE n # name
  BY <1>2, WhereSame
<1> QED BY <1>1, <1>2

DescriptionRows(q) ==
  IF q.description = None THEN <<>> ELSE << <<"description", q.id, q.description>> >>
OptionRow(q, i) ==
  <<"option", q.id, q.options[i].id, q.options[i].title>>
    \o IF q.options[i].description = None THEN <<>> ELSE <<q.options[i].description>>
OptionRows(q) == [i \in DOMAIN q.options |-> OptionRow(q, i)]

\* The rows of an option are texts.
LEMMA OptionRowType ==
  ASSUME NEW q \in Question, NEW i \in DOMAIN q.options
  PROVE  /\ OptionRow(q, i) \in Tag
         /\ OptionRow(q, i)[1] = "option"
         /\ OptionRow(q, i)[2] = q.id
         /\ OptionRow(q, i)[3] = q.options[i].id
         /\ OptionRow(q, i)[4] = q.options[i].title
         /\ q.options[i].description = None => Len(OptionRow(q, i)) = 4
         /\ q.options[i].description # None => /\ Len(OptionRow(q, i)) = 5
                                               /\ OptionRow(q, i)[5] = q.options[i].description
<1>1. q.options \in Seq(QuestionOption) /\ q.id \in STRING
  BY DEF Question
<1>2. q.options[i] \in QuestionOption
  BY <1>1
<1>3. q.options[i].id \in STRING /\ q.options[i].title \in STRING
        /\ q.options[i].description \in STRING \union {None}
  BY <1>2 DEF QuestionOption
<1> DEFINE h == <<"option", q.id, q.options[i].id, q.options[i].title>>
<1>4. /\ h \in Tag
      /\ Len(h) = 4
      /\ h[1] = "option"
      /\ h[2] = q.id
      /\ h[3] = q.options[i].id
      /\ h[4] = q.options[i].title
  <2>1. "option" \in Value /\ q.id \in Value /\ q.options[i].id \in Value
          /\ q.options[i].title \in Value
    BY <1>1, <1>3, Values DEF Names
  <2> QED BY <2>1 DEF Tag
<1>5. CASE q.options[i].description = None
  <2>1. OptionRow(q, i) = h \o <<>>
    BY <1>5 DEF OptionRow
  <2>2. h \o <<>> = h
    <3> HIDE DEF h
    <3> QED BY <1>4 DEF Tag
  <2> QED BY <1>4, <1>5, <2>1, <2>2
<1>6. CASE q.options[i].description # None
  <2> DEFINE d == q.options[i].description
  <2>1. OptionRow(q, i) = h \o <<d>>
    BY <1>6 DEF OptionRow
  <2>2. d \in STRING
    BY <1>3, <1>6
  <2> HIDE DEF h, d
  <2>3. /\ h \o <<d>> \in Tag
        /\ Len(h \o <<d>>) = 5
        /\ (h \o <<d>>)[5] = d
        /\ (h \o <<d>>)[1] = h[1]
        /\ (h \o <<d>>)[2] = h[2]
        /\ (h \o <<d>>)[3] = h[3]
        /\ (h \o <<d>>)[4] = h[4]
    <3>1. d \in Value /\ h \in Seq(Value)
      BY <1>4, <2>2, Values DEF Tag
    <3>2. /\ h \o <<d>> \in Tag
          /\ Len(h \o <<d>>) = Len(h) + 1
          /\ (h \o <<d>>)[Len(h) + 1] = d
      BY <3>1, RowAdd DEF Tag
    <3>3. Len(h) + 1 = 5
      BY <1>4
    <3>4. \A j \in 1..Len(h) : (h \o <<d>>)[j] = h[j]
      BY <3>1, RowKept
    <3>5. 1 \in 1..Len(h) /\ 2 \in 1..Len(h) /\ 3 \in 1..Len(h) /\ 4 \in 1..Len(h)
      BY <1>4
    <3> QED BY <3>2, <3>3, <3>4, <3>5, Zenon
  <2> QED BY <1>4, <1>6, <2>1, <2>3 DEF d
<1> QED BY <1>5, <1>6
\* The rows of a question, by their names.
LEMMA QuestionTagsRows ==
  ASSUME NEW q \in Question
  PROVE  /\ QuestionTags(q) \in Seq(Tag)
         /\ Where(QuestionTags(q), 1, "question") = << <<"question", q.id, q.kind, q.title>> >>
         /\ Where(QuestionTags(q), 1, "label") = << <<"label", q.id, q.short_title>> >>
         /\ Where(QuestionTags(q), 1, "description") = DescriptionRows(q)
         /\ Where(QuestionTags(q), 1, "option") = OptionRows(q)
         /\ \A n : n \notin {"question", "label", "description", "option"} =>
                     Where(QuestionTags(q), 1, n) = <<>>
         /\ DescriptionRows(q) \in Seq(Tag)
         /\ OptionRows(q) \in Seq(Tag)
<1> DEFINE a == <<"question", q.id, q.kind, q.title>>
           b == <<"label", q.id, q.short_title>>
           D == DescriptionRows(q)
           O == OptionRows(q)
<1>1. /\ q.id \in Value /\ q.kind \in Value /\ q.title \in Value /\ q.short_title \in Value
      /\ "question" \in Value /\ "label" \in Value /\ "description" \in Value
      /\ q.description \in Value \/ q.description = None
      /\ q.options \in Seq(QuestionOption)
  BY Values DEF Question, Names
<1>2. a \in Tag /\ a[1] = "question"
  BY <1>1 DEF Tag
<1>3. b \in Tag /\ b[1] = "label"
  BY <1>1 DEF Tag
<1>4. D \in Seq(Tag) /\ \A i \in DOMAIN D : D[i][1] = "description"
  <2>1. CASE q.description = None
    BY <2>1 DEF DescriptionRows
  <2>2. CASE q.description # None
    <3> DEFINE r == <<"description", q.id, q.description>>
    <3>1. r \in Tag /\ r[1] = "description"
      BY <1>1, <2>2 DEF Tag
    <3>2. D = <<r>>
      BY <2>2 DEF DescriptionRows
    <3> HIDE DEF r, D
    <3> QED BY <3>1, <3>2
  <2> QED BY <2>1, <2>2
<1>5. O \in Seq(Tag) /\ \A i \in DOMAIN O : O[i][1] = "option"
  <2>1. \A i \in DOMAIN q.options : OptionRow(q, i) \in Tag /\ OptionRow(q, i)[1] = "option"
    BY OptionRowType
  <2>2. DOMAIN q.options = 1..Len(q.options) /\ Len(q.options) \in Nat
    BY <1>1
  <2>3. O \in [1..Len(q.options) -> Tag] /\ \A i \in DOMAIN O : O[i][1] = "option"
    BY <2>1, <2>2 DEF OptionRows
  <2> QED BY <2>2, <2>3, FunctionIsSeq
<1>6. QuestionTags(q) = (<<a, b>> \o D) \o O
  BY DEF QuestionTags, DescriptionRows, OptionRows, OptionRow
<1> HIDE DEF a, b, D, O
<1>7. <<a>> \in Seq(Tag) /\ <<b>> \in Seq(Tag) /\ <<a, b>> = <<a>> \o <<b>> /\ <<a, b>> \in Seq(Tag)
  <2>1. <<a>> \in Seq(Tag) /\ <<b>> \in Seq(Tag) /\ <<a, b>> \in Seq(Tag)
    BY <1>2, <1>3
  <2>2. <<a, b>> = <<a>> \o <<b>>
    BY <1>2, <1>3, PairConcat
  <2> QED BY <2>1, <2>2
<1>8. \A n : Where(<<a>>, 1, n) = IF n = "question" THEN <<a>> ELSE <<>>
  <2> DEFINE s == <<a>>
  <2>1. s \in Seq(Tag) /\ \A i \in DOMAIN s : s[i][1] = "question"
    BY <1>2
  <2> HIDE DEF s
  <2>2. \A n : Where(s, 1, n) = IF n = "question" THEN s ELSE <<>>
    BY <2>1, RowsOne
  <2> QED BY <2>2 DEF s
<1>9. \A n : Where(<<a, b>>, 1, n) = IF n = "label" THEN <<b>> ELSE Where(<<a>>, 1, n)
  <2> DEFINE s == <<a>>
             t == <<b>>
  <2>1. s \in Seq(Tag) /\ t \in Seq(Tag) /\ \A i \in DOMAIN t : t[i][1] = "label"
    BY <1>2, <1>3
  <2>2. Where(s, 1, "label") = <<>>
    BY <1>8
  <2> HIDE DEF s, t
  <2>3. \A n : Where(s \o t, 1, n) = IF n = "label" THEN t ELSE Where(s, 1, n)
    BY <2>1, <2>2, RowsExtend
  <2> QED BY <1>7, <2>3 DEF s, t
<1> DEFINE s1 == <<a, b>>
           s2 == s1 \o D
<1>10. s1 \in Seq(Tag) /\ s2 \in Seq(Tag)
  <2>1. s1 \in Seq(Tag)
    BY <1>7
  <2> HIDE DEF s1
  <2> QED BY <1>4, <2>1
<1> HIDE DEF s1, s2
<1>11. \A n : Where(s2, 1, n) = IF n = "description" THEN D ELSE Where(s1, 1, n)
  <2>1. Where(s1, 1, "description") = <<>>
    BY <1>8, <1>9 DEF s1
  <2>2. \A n : Where(s1 \o D, 1, n) = IF n = "description" THEN D ELSE Where(s1, 1, n)
    BY <1>4, <1>10, <2>1, RowsExtend
  <2> QED BY <2>2 DEF s2
<1>12. \A n : Where(s2 \o O, 1, n) = IF n = "option" THEN O ELSE Where(s2, 1, n)
  <2>1. Where(s2, 1, "option") = <<>>
    BY <1>8, <1>9, <1>11 DEF s1
  <2> QED BY <1>5, <1>10, <2>1, RowsExtend
<1>13. QuestionTags(q) = s2 \o O
  BY <1>6 DEF s1, s2
<1>14. \A n : Where(QuestionTags(q), 1, n)
                = IF n = "option" THEN O ELSE IF n = "description" THEN D
                  ELSE IF n = "label" THEN <<b>> ELSE IF n = "question" THEN <<a>> ELSE <<>>
  <2> SUFFICES ASSUME NEW n
      PROVE Where(QuestionTags(q), 1, n)
                = IF n = "option" THEN O ELSE IF n = "description" THEN D
                  ELSE IF n = "label" THEN <<b>> ELSE IF n = "question" THEN <<a>> ELSE <<>>
    OBVIOUS
  <2> DEFINE w1 == Where(<<a>>, 1, n)
             w2 == Where(<<a, b>>, 1, n)
             w3 == Where(s2, 1, n)
             w4 == Where(QuestionTags(q), 1, n)
  <2>1. w4 = IF n = "option" THEN O ELSE w3
    BY <1>12, <1>13
  <2>2. w3 = IF n = "description" THEN D ELSE w2
    BY <1>11 DEF s1
  <2>3. w2 = IF n = "label" THEN <<b>> ELSE w1
    BY <1>9
  <2>4. w1 = IF n = "question" THEN <<a>> ELSE <<>>
    BY <1>8
  <2> HIDE DEF w1, w2, w3, w4
  <2>5. w4 = IF n = "option" THEN O ELSE IF n = "description" THEN D
             ELSE IF n = "label" THEN <<b>> ELSE IF n = "question" THEN <<a>> ELSE <<>>
    BY <2>1, <2>2, <2>3, <2>4
  <2> QED BY <2>5 DEF w4
<1>15. QuestionTags(q) \in Seq(Tag)
  BY <1>5, <1>10, <1>13
<1>16. /\ Where(QuestionTags(q), 1, "question") = <<a>>
       /\ Where(QuestionTags(q), 1, "label") = <<b>>
       /\ Where(QuestionTags(q), 1, "description") = D
       /\ Where(QuestionTags(q), 1, "option") = O
       /\ \A n : n \notin {"question", "label", "description", "option"} =>
                   Where(QuestionTags(q), 1, n) = <<>>
  BY <1>14
<1> QED BY <1>4, <1>5, <1>15, <1>16 DEF a, b, D, O
QuestionnaireTags(questions) ==
  FlattenSeq([i \in DOMAIN questions |-> QuestionTags(questions[i])])

\* The rows of all questions, by their names.
LEMMA QuestionnaireRows ==
  ASSUME NEW qs \in Seq(Question)
  PROVE  /\ QuestionnaireTags(qs) \in Seq(Tag)
         /\ Where(QuestionnaireTags(qs), 1, "question")
              = [i \in DOMAIN qs |-> <<"question", qs[i].id, qs[i].kind, qs[i].title>>]
         /\ Where(QuestionnaireTags(qs), 1, "label")
              = [i \in DOMAIN qs |-> <<"label", qs[i].id, qs[i].short_title>>]
         /\ Where(QuestionnaireTags(qs), 1, "description")
              = FlattenSeq([i \in DOMAIN qs |-> DescriptionRows(qs[i])])
         /\ Where(QuestionnaireTags(qs), 1, "option")
              = FlattenSeq([i \in DOMAIN qs |-> OptionRows(qs[i])])
         /\ \A n : n \notin {"question", "label", "description", "option"} =>
                     Where(QuestionnaireTags(qs), 1, n) = <<>>
<1> DEFINE N == Len(qs)
           ss == [i \in DOMAIN qs |-> QuestionTags(qs[i])]
           W(n) == Where(QuestionnaireTags(qs), 1, n)
           a == [i \in DOMAIN qs |-> <<"question", qs[i].id, qs[i].kind, qs[i].title>>]
           b == [i \in DOMAIN qs |-> <<"label", qs[i].id, qs[i].short_title>>]
<1>1. N \in Nat /\ DOMAIN qs = 1..N /\ \A i \in 1..N : qs[i] \in Question
  OBVIOUS
<1>2. ss \in Seq(Seq(Tag)) /\ DOMAIN ss = DOMAIN qs /\ \A i \in DOMAIN qs : ss[i] = QuestionTags(qs[i])
  <2>1. \A i \in 1..N : QuestionTags(qs[i]) \in Seq(Tag)
    BY <1>1, QuestionTagsRows
  <2>2. ss \in [1..N -> Seq(Tag)]
    BY <1>1, <2>1
  <2> HIDE DEF N
  <2>3. ss \in Seq(Seq(Tag))
    <3> HIDE DEF ss
    <3> QED BY <1>1, <2>2, FunctionIsSeq, Zenon
  <2> QED BY <2>3
<1>3. QuestionnaireTags(qs) = FlattenSeq(ss)
  BY DEF QuestionnaireTags
<1> HIDE DEF ss
<1>4. QuestionnaireTags(qs) \in Seq(Tag)
  <2>1. <<>> \in Seq(Tag)
    OBVIOUS
  <2> QED BY <1>2, <1>3, <2>1, FlattenAppend
<1>5. \A n : W(n) = FlattenSeq([i \in DOMAIN qs |-> Where(QuestionTags(qs[i]), 1, n)])
  <2> SUFFICES ASSUME NEW n
               PROVE  W(n) = FlattenSeq([i \in DOMAIN qs |-> Where(QuestionTags(qs[i]), 1, n)])
    OBVIOUS
  <2>1. Where(FlattenSeq(ss), 1, n) = FlattenSeq([i \in DOMAIN ss |-> Where(ss[i], 1, n)])
    BY <1>2, WhereFlatten
  <2>2. [i \in DOMAIN ss |-> Where(ss[i], 1, n)]
          = [i \in DOMAIN qs |-> Where(QuestionTags(qs[i]), 1, n)]
    BY <1>2
  <2> QED BY <1>3, <2>1, <2>2
<1>6. W("question") = a
  <2> DEFINE m == [i \in DOMAIN qs |-> Where(QuestionTags(qs[i]), 1, "question")]
  <2>1. ASSUME NEW i \in DOMAIN qs PROVE a[i] \in Tag /\ m[i] = <<a[i]>>
    <3>1. qs[i] \in Question
      BY <1>1
    <3>2. a[i] \in Tag
      <4>1. "question" \in Value /\ qs[i].id \in Value /\ qs[i].kind \in Value /\ qs[i].title \in Value
        BY <3>1, Values DEF Question, Names
      <4> QED BY <4>1 DEF Tag
    <3> QED BY <3>1, <3>2, QuestionTagsRows
  <2>2. a \in [1..N -> Tag] /\ DOMAIN a = DOMAIN qs
    BY <1>1, <2>1
  <2> HIDE DEF a
  <2>3. a \in Seq(Tag)
    BY <1>1, <2>2, FunctionIsSeq
  <2>4. m = [i \in DOMAIN a |-> <<a[i]>>]
    BY <2>1, <2>2
  <2>5. FlattenSeq([i \in DOMAIN a |-> <<a[i]>>]) = a
    BY <2>3, FlattenOnes
  <2> HIDE DEF m
  <2>6. W("question") = FlattenSeq(m)
    BY <1>5 DEF m
  <2> QED BY <2>4, <2>5, <2>6
<1>7. W("label") = b
  <2> DEFINE m == [i \in DOMAIN qs |-> Where(QuestionTags(qs[i]), 1, "label")]
  <2>1. ASSUME NEW i \in DOMAIN qs PROVE b[i] \in Tag /\ m[i] = <<b[i]>>
    <3>1. qs[i] \in Question
      BY <1>1
    <3>2. b[i] \in Tag
      <4>1. "label" \in Value /\ qs[i].id \in Value /\ qs[i].short_title \in Value
        BY <3>1, Values DEF Question, Names
      <4> QED BY <4>1 DEF Tag
    <3> QED BY <3>1, <3>2, QuestionTagsRows
  <2>2. b \in [1..N -> Tag] /\ DOMAIN b = DOMAIN qs
    BY <1>1, <2>1
  <2> HIDE DEF b
  <2>3. b \in Seq(Tag)
    BY <1>1, <2>2, FunctionIsSeq
  <2>4. m = [i \in DOMAIN b |-> <<b[i]>>]
    BY <2>1, <2>2
  <2>5. FlattenSeq([i \in DOMAIN b |-> <<b[i]>>]) = b
    BY <2>3, FlattenOnes
  <2> HIDE DEF m
  <2>6. W("label") = FlattenSeq(m)
    BY <1>5 DEF m
  <2> QED BY <2>4, <2>5, <2>6
<1>8. W("description") = FlattenSeq([i \in DOMAIN qs |-> DescriptionRows(qs[i])])
  <2>1. [i \in DOMAIN qs |-> DescriptionRows(qs[i])]
          = [i \in DOMAIN qs |-> Where(QuestionTags(qs[i]), 1, "description")]
    BY <1>1, QuestionTagsRows
  <2> QED BY <1>5, <2>1
<1>9. W("option") = FlattenSeq([i \in DOMAIN qs |-> OptionRows(qs[i])])
  <2>1. [i \in DOMAIN qs |-> OptionRows(qs[i])]
          = [i \in DOMAIN qs |-> Where(QuestionTags(qs[i]), 1, "option")]
    BY <1>1, QuestionTagsRows
  <2> QED BY <1>5, <2>1
<1>10. ASSUME NEW n, n \notin {"question", "label", "description", "option"} PROVE W(n) = <<>>
  <2> DEFINE m == [i \in DOMAIN qs |-> Where(QuestionTags(qs[i]), 1, n)]
  <2>1. \A i \in DOMAIN qs : m[i] = <<>>
    BY <1>1, <1>10, QuestionTagsRows
  <2>2. m \in [1..N -> Seq(Tag)] /\ DOMAIN m = DOMAIN qs
    <3>1. <<>> \in Seq(Tag)
      OBVIOUS
    <3>2. \A i \in 1..N : Where(QuestionTags(qs[i]), 1, n) \in Seq(Tag)
      BY <1>1, <2>1, <3>1
    <3> QED BY <1>1, <3>2
  <2>3. W(n) = FlattenSeq(m)
    BY <1>5
  <2> HIDE DEF m
  <2>4. m \in Seq(Seq(Tag)) /\ <<>> \in Seq(Tag)
    BY <1>1, <2>2, FunctionIsSeq
  <2> QED BY <2>1, <2>2, <2>3, <2>4, FlattenSole
<1> QED BY <1>4, <1>6, <1>7, <1>8, <1>9, <1>10
\* The row of an artifact.
LEMMA ArtifactRowType ==
  ASSUME NEW v \in DurableArtifact, NEW name \in Names
  PROVE  /\ ArtifactRow(v, name) \in Tag
         /\ ArtifactRow(v, name)[1] = name
         /\ ArtifactRow(v, name)[2] = v.url
         /\ ArtifactRow(v, name)[3] = v.sha256
         /\ ArtifactRow(v, name)[4] = v.media_type
         /\ ArtifactRow(v, name)[5] = v.byte_count
         /\ v.label = None => Len(ArtifactRow(v, name)) = 5
         /\ v.label # None => Len(ArtifactRow(v, name)) = 6 /\ ArtifactRow(v, name)[6] = v.label
<1> DEFINE h == <<name, v.url, v.sha256, v.media_type, v.byte_count>>
<1>1. /\ name \in Value /\ v.url \in Value /\ v.sha256 \in Value /\ v.media_type \in Value
      /\ v.byte_count \in Value
      /\ v.label \in Value \/ v.label = None
  BY Values DEF DurableArtifact
<1>2. /\ h \in Seq(Value) /\ Len(h) = 5
      /\ h[1] = name /\ h[2] = v.url /\ h[3] = v.sha256 /\ h[4] = v.media_type
      /\ h[5] = v.byte_count
  BY <1>1
<1>3. CASE v.label = None
  <2>1. ArtifactRow(v, name) = h \o <<>>
    BY <1>3 DEF ArtifactRow
  <2>2. h \o <<>> = h
    <3> HIDE DEF h
    <3> QED BY <1>2
  <2> QED BY <1>2, <1>3, <2>1, <2>2 DEF Tag
<1>4. CASE v.label # None
  <2> DEFINE d == v.label
  <2>1. ArtifactRow(v, name) = h \o <<d>> /\ d \in Value
    BY <1>1, <1>4 DEF ArtifactRow
  <2> HIDE DEF h, d
  <2>2. /\ h \o <<d>> \in Seq(Value)
        /\ Len(h \o <<d>>) = Len(h) + 1
        /\ (h \o <<d>>)[Len(h) + 1] = d
    BY <1>2, <2>1, RowAdd
  <2>3. Len(h) + 1 = 6
    BY <1>2
  <2>4. \A j \in 1..Len(h) : (h \o <<d>>)[j] = h[j]
    BY <1>2, <2>1, RowKept
  <2>5. 1 \in 1..Len(h) /\ 2 \in 1..Len(h) /\ 3 \in 1..Len(h) /\ 4 \in 1..Len(h) /\ 5 \in 1..Len(h)
    BY <1>2
  <2>6. /\ h \o <<d>> \in Tag
        /\ Len(h \o <<d>>) = 6 /\ (h \o <<d>>)[6] = d
        /\ (h \o <<d>>)[1] = name /\ (h \o <<d>>)[2] = v.url /\ (h \o <<d>>)[3] = v.sha256
        /\ (h \o <<d>>)[4] = v.media_type /\ (h \o <<d>>)[5] = v.byte_count
    BY <1>2, <2>2, <2>3, <2>4, <2>5, Zenon DEF Tag
  <2> QED BY <1>4, <2>1, <2>6 DEF d
<1> QED BY <1>3, <1>4

AttachmentRows(item) ==
  [i \in DOMAIN item.attachments |-> ArtifactRow(item.attachments[i], "attachment")]
AttachRows(item) == IF item.attach = None THEN <<>> ELSE << <<"e", item.attach, "", "attach">> >>

\* The pieces of an item's tags, each under its name.
LEMMA ItemPieces ==
  ASSUME NEW author, NEW d \in FrozenSpokenItem(author)
  PROVE  /\ Present("agent", d.agent_name) \in Seq(Tag)
         /\ Present("summary", d.summary) \in Seq(Tag)
         /\ << ArtifactRow(d.audio, "audio") >> \in Seq(Tag)
         /\ AttachmentRows(d) \in Seq(Tag)
         /\ AttachRows(d) \in Seq(Tag)
         /\ \A i \in DOMAIN Present("agent", d.agent_name) :
              Present("agent", d.agent_name)[i][1] = "agent"
         /\ \A i \in DOMAIN Present("summary", d.summary) :
              Present("summary", d.summary)[i][1] = "summary"
         /\ ArtifactRow(d.audio, "audio")[1] = "audio"
         /\ \A i \in DOMAIN AttachmentRows(d) : AttachmentRows(d)[i][1] = "attachment"
         /\ \A i \in DOMAIN AttachRows(d) : AttachRows(d)[i][1] = "e"
<1>1. /\ d.subject \in Value /\ d.agent_name \in Value /\ d.summary \in Value
      /\ d.audio \in DurableArtifact /\ d.attachments \in Seq(DurableArtifact)
      /\ d.attach \in Value \/ d.attach = None
  BY Values DEF FrozenSpokenItem
<1>2. "tts29" \in Value /\ "item" \in Value /\ "1" \in Value /\ "title" \in Value
        /\ "agent" \in Value /\ "summary" \in Value /\ "e" \in Value /\ "" \in Value
        /\ "attach" \in Value /\ "audio" \in Names /\ "attachment" \in Names
  BY Values DEF Names
<1>4. ASSUME NEW name \in Value, NEW text \in Value
      PROVE  /\ Present(name, text) \in Seq(Tag)
             /\ \A i \in DOMAIN Present(name, text) : Present(name, text)[i][1] = name
  <2> DEFINE r == <<name, text>>
  <2>1. r \in Tag /\ r[1] = name
    BY DEF Tag
  <2>2. Present(name, text) = IF text = "" THEN <<>> ELSE <<r>>
    BY DEF Present
  <2> HIDE DEF r
  <2>3. <<r>> \in Seq(Tag) /\ \A i \in DOMAIN <<r>> : <<r>>[i][1] = name
    BY <2>1
  <2>4. CASE text = ""
    <3>1. Present(name, text) = <<>>
      BY <2>2, <2>4
    <3> QED BY <3>1
  <2>5. CASE text # ""
    BY <2>2, <2>3, <2>5
  <2> QED BY <2>4, <2>5
<1>5. ArtifactRow(d.audio, "audio") \in Tag /\ ArtifactRow(d.audio, "audio")[1] = "audio"
  BY <1>1, <1>2, ArtifactRowType
<1>6. << ArtifactRow(d.audio, "audio") >> \in Seq(Tag)
  BY <1>5
<1>7. AttachmentRows(d) \in Seq(Tag)
        /\ \A i \in DOMAIN AttachmentRows(d) : AttachmentRows(d)[i][1] = "attachment"
  <2> DEFINE N == Len(d.attachments)
             c == AttachmentRows(d)
  <2>1. N \in Nat /\ DOMAIN d.attachments = 1..N /\ \A i \in 1..N : d.attachments[i] \in DurableArtifact
    BY <1>1
  <2>2. \A i \in 1..N : /\ ArtifactRow(d.attachments[i], "attachment") \in Tag
                        /\ ArtifactRow(d.attachments[i], "attachment")[1] = "attachment"
    BY <1>2, <2>1, ArtifactRowType
  <2>3. c \in [1..N -> Tag] /\ \A i \in DOMAIN c : c[i][1] = "attachment"
    BY <2>1, <2>2 DEF AttachmentRows
  <2> HIDE DEF c, N
  <2>4. c \in Seq(Tag)
    BY <2>1, <2>3, FunctionIsSeq
  <2> QED BY <2>3, <2>4 DEF c
<1>8. AttachRows(d) \in Seq(Tag) /\ \A i \in DOMAIN AttachRows(d) : AttachRows(d)[i][1] = "e"
  <2>1. CASE d.attach = None
    <3>1. AttachRows(d) = <<>>
      BY <2>1 DEF AttachRows
    <3> QED BY <3>1
  <2>2. CASE d.attach # None
    <3> DEFINE r == <<"e", d.attach, "", "attach">>
    <3>1. r \in Tag /\ r[1] = "e"
      <4>1. r \in Tag
        BY <1>1, <1>2, <2>2, TagType, Zenon
      <4> QED BY <4>1
    <3>2. AttachRows(d) = <<r>>
      BY <2>2 DEF AttachRows
    <3> HIDE DEF r
    <3> QED BY <3>1, <3>2
  <2> QED BY <2>1, <2>2
<1>9. /\ Present("agent", d.agent_name) \in Seq(Tag)
      /\ \A i \in DOMAIN Present("agent", d.agent_name) :
           Present("agent", d.agent_name)[i][1] = "agent"
  BY <1>1, <1>2, <1>4
<1>10. /\ Present("summary", d.summary) \in Seq(Tag)
       /\ \A i \in DOMAIN Present("summary", d.summary) :
            Present("summary", d.summary)[i][1] = "summary"
  BY <1>1, <1>2, <1>4
<1> QED BY <1>5, <1>6, <1>7, <1>8, <1>9, <1>10

\* The rows of an item, by their names.
LEMMA ItemRows ==
  ASSUME NEW author, NEW d \in FrozenSpokenItem(author)
  PROVE  /\ Where(Tags(d), 1, "tts29") = << <<"tts29", "item", "1">> >>
         /\ Where(Tags(d), 1, "title") = << <<"title", d.subject>> >>
         /\ Where(Tags(d), 1, "agent") = Present("agent", d.agent_name)
         /\ Where(Tags(d), 1, "summary") = Present("summary", d.summary)
         /\ Where(Tags(d), 1, "audio") = << ArtifactRow(d.audio, "audio") >>
         /\ Where(Tags(d), 1, "attachment") = AttachmentRows(d)
         /\ Where(Tags(d), 1, "e") = AttachRows(d)
         /\ \A n \in {"question", "label", "description", "option"} :
              Where(Tags(d), 1, n) = Where(QuestionnaireTags(d.questions), 1, n)
         /\ Where(Tags(d), 1, "h") = <<>>
         /\ Tags(d) \in Seq(Tag)
<1> DEFINE m1 == <<"tts29", "item", "1">>
           m2 == <<"title", d.subject>>
           A == Present("agent", d.agent_name)
           B == Present("summary", d.summary)
           c == ArtifactRow(d.audio, "audio")
           D == AttachmentRows(d)
           E == AttachRows(d)
           Q == QuestionnaireTags(d.questions)
<1>1. Tags(d) = (((((<<m1, m2>> \o A) \o B) \o <<c>>) \o D) \o E) \o Q
  BY DEF Tags, AttachmentRows, AttachRows, QuestionnaireTags
<1>2. m1 \in Tag /\ m2 \in Tag
  <2>1. "tts29" \in Value /\ "item" \in Value /\ "1" \in Value /\ "title" \in Value
    BY Values DEF Names
  <2>2. d.subject \in Value
    BY Values DEF FrozenSpokenItem
  <2> QED BY <2>1, <2>2, TagType, Zenon
<1>3. m1[1] = "tts29" /\ m2[1] = "title"
  OBVIOUS
<1>4. A \in Seq(Tag) /\ B \in Seq(Tag) /\ D \in Seq(Tag) /\ E \in Seq(Tag) /\ <<c>> \in Seq(Tag)
  BY ItemPieces
<1>5. /\ \A i \in DOMAIN A : A[i][1] = "agent"
      /\ \A i \in DOMAIN B : B[i][1] = "summary"
      /\ c[1] = "audio"
      /\ \A i \in DOMAIN D : D[i][1] = "attachment"
      /\ \A i \in DOMAIN E : E[i][1] = "e"
  <2>1. \A i \in DOMAIN A : A[i][1] = "agent"
    BY ItemPieces
  <2>2. \A i \in DOMAIN B : B[i][1] = "summary"
    BY ItemPieces
  <2>3. c[1] = "audio"
    BY ItemPieces
  <2>4. \A i \in DOMAIN D : D[i][1] = "attachment"
    BY ItemPieces
  <2>5. \A i \in DOMAIN E : E[i][1] = "e"
    BY ItemPieces
  <2> QED BY <2>1, <2>2, <2>3, <2>4, <2>5
<1>6. /\ Q \in Seq(Tag)
      /\ \A n : n \notin {"question", "label", "description", "option"} => Where(Q, 1, n) = <<>>
  <2>1. d.questions \in Seq(Question)
    BY DEF FrozenSpokenItem
  <2> QED BY <2>1, QuestionnaireRows
<1> HIDE DEF m1, m2, A, B, c, D, E, Q
<1> DEFINE r1 == <<m1>>
           r2 == <<m2>>
           r5 == <<c>>
<1>7. /\ r1 \in Seq(Tag) /\ r2 \in Seq(Tag) /\ r5 \in Seq(Tag)
      /\ \A i \in DOMAIN r1 : r1[i][1] = "tts29"
      /\ \A i \in DOMAIN r2 : r2[i][1] = "title"
      /\ \A i \in DOMAIN r5 : r5[i][1] = "audio"
      /\ <<m1, m2>> = r1 \o r2
  <2>1. <<m1, m2>> = r1 \o r2
    BY <1>2, PairConcat
  <2> QED BY <1>2, <1>3, <1>4, <1>5, <2>1
<1> HIDE DEF r1, r2, r5
<1> DEFINE s2 == r1 \o r2
           s3 == s2 \o A
           s4 == s3 \o B
           s5 == s4 \o r5
           s6 == s5 \o D
           s7 == s6 \o E
<1>8. s2 \in Seq(Tag)
  BY <1>7
<1>9. Tags(d) = s7 \o Q
  BY <1>1, <1>7 DEF r5
<1>11. \A n : Where(r1, 1, n) = IF n = "tts29" THEN r1 ELSE <<>>
  BY <1>7, RowsOne
<1>10. \A n : Where(s2, 1, n) = IF n = "title" THEN r2 ELSE Where(r1, 1, n)
  <2>1. Where(r1, 1, "title") = <<>>
    BY <1>11
  <2> QED BY <1>7, <2>1, RowsExtend
<1> HIDE DEF s2
<1>12. s3 \in Seq(Tag) /\ \A n : Where(s3, 1, n) = IF n = "agent" THEN A ELSE Where(s2, 1, n)
  <2>1. Where(s2, 1, "agent") = <<>>
    BY <1>10, <1>11
  <2>2. s3 \in Seq(Tag)
    BY <1>4, <1>8
  <2>3. A \in Seq(Tag) /\ (\A i \in DOMAIN A : A[i][1] = "agent") /\ s2 \in Seq(Tag)
    BY <1>4, <1>5, <1>8
  <2>4. \A n : Where(s2 \o A, 1, n) = IF n = "agent" THEN A ELSE Where(s2, 1, n)
    BY <2>1, <2>3, RowsExtend
  <2> QED BY <2>2, <2>4
<1> HIDE DEF s3
<1>13. s4 \in Seq(Tag) /\ \A n : Where(s4, 1, n) = IF n = "summary" THEN B ELSE Where(s3, 1, n)
  <2>1. Where(s3, 1, "summary") = <<>>
    BY <1>10, <1>11, <1>12
  <2>2. s4 \in Seq(Tag)
    BY <1>4, <1>12
  <2>3. B \in Seq(Tag) /\ (\A i \in DOMAIN B : B[i][1] = "summary") /\ s3 \in Seq(Tag)
    BY <1>4, <1>5, <1>12
  <2>4. \A n : Where(s3 \o B, 1, n) = IF n = "summary" THEN B ELSE Where(s3, 1, n)
    BY <2>1, <2>3, RowsExtend
  <2> QED BY <2>2, <2>4
<1> HIDE DEF s4
<1>14. s5 \in Seq(Tag) /\ \A n : Where(s5, 1, n) = IF n = "audio" THEN r5 ELSE Where(s4, 1, n)
  <2>1. Where(s4, 1, "audio") = <<>>
    BY <1>10, <1>11, <1>12, <1>13
  <2>2. s5 \in Seq(Tag)
    BY <1>7, <1>13
  <2>3. r5 \in Seq(Tag) /\ (\A i \in DOMAIN r5 : r5[i][1] = "audio") /\ s4 \in Seq(Tag)
    BY <1>7, <1>13
  <2>4. \A n : Where(s4 \o r5, 1, n) = IF n = "audio" THEN r5 ELSE Where(s4, 1, n)
    BY <2>1, <2>3, RowsExtend
  <2> QED BY <2>2, <2>4
<1> HIDE DEF s5
<1>15. s6 \in Seq(Tag) /\ \A n : Where(s6, 1, n) = IF n = "attachment" THEN D ELSE Where(s5, 1, n)
  <2>1. Where(s5, 1, "attachment") = <<>>
    BY <1>10, <1>11, <1>12, <1>13, <1>14
  <2>2. s6 \in Seq(Tag)
    BY <1>4, <1>14
  <2>3. D \in Seq(Tag) /\ (\A i \in DOMAIN D : D[i][1] = "attachment") /\ s5 \in Seq(Tag)
    BY <1>4, <1>5, <1>14
  <2>4. \A n : Where(s5 \o D, 1, n) = IF n = "attachment" THEN D ELSE Where(s5, 1, n)
    BY <2>1, <2>3, RowsExtend
  <2> QED BY <2>2, <2>4
<1> HIDE DEF s6
<1>16. s7 \in Seq(Tag) /\ \A n : Where(s7, 1, n) = IF n = "e" THEN E ELSE Where(s6, 1, n)
  <2>1. Where(s6, 1, "e") = <<>>
    BY <1>10, <1>11, <1>12, <1>13, <1>14, <1>15
  <2>2. s7 \in Seq(Tag)
    BY <1>4, <1>15
  <2>3. E \in Seq(Tag) /\ (\A i \in DOMAIN E : E[i][1] = "e") /\ s6 \in Seq(Tag)
    BY <1>4, <1>5, <1>15
  <2>4. \A n : Where(s6 \o E, 1, n) = IF n = "e" THEN E ELSE Where(s6, 1, n)
    BY <2>1, <2>3, RowsExtend
  <2> QED BY <2>2, <2>4
<1> HIDE DEF s7
<1>17. /\ Where(s7, 1, "tts29") = r1 /\ Where(s7, 1, "title") = r2 /\ Where(s7, 1, "agent") = A
       /\ Where(s7, 1, "summary") = B /\ Where(s7, 1, "audio") = r5
       /\ Where(s7, 1, "attachment") = D /\ Where(s7, 1, "e") = E
       /\ Where(s7, 1, "h") = <<>>
       /\ \A n \in {"question", "label", "description", "option"} : Where(s7, 1, n) = <<>>
  <2>1. Where(s7, 1, "tts29") = r1
    BY <1>10, <1>11, <1>12, <1>13, <1>14, <1>15, <1>16
  <2>2. Where(s7, 1, "title") = r2
    BY <1>10, <1>12, <1>13, <1>14, <1>15, <1>16
  <2>3. Where(s7, 1, "agent") = A
    BY <1>12, <1>13, <1>14, <1>15, <1>16
  <2>4. Where(s7, 1, "summary") = B
    BY <1>13, <1>14, <1>15, <1>16
  <2>5. Where(s7, 1, "audio") = r5
    BY <1>14, <1>15, <1>16
  <2>6. Where(s7, 1, "attachment") = D
    BY <1>15, <1>16
  <2>7. Where(s7, 1, "e") = E
    BY <1>16
  <2>8. \A n \in {"h", "question", "label", "description", "option"} : Where(s7, 1, n) = <<>>
    <3> TAKE n \in {"h", "question", "label", "description", "option"}
    <3>1. Where(s7, 1, n) = Where(s6, 1, n) /\ Where(s6, 1, n) = Where(s5, 1, n)
      BY <1>15, <1>16
    <3>2. Where(s5, 1, n) = Where(s4, 1, n) /\ Where(s4, 1, n) = Where(s3, 1, n)
      BY <1>13, <1>14
    <3>3. Where(s3, 1, n) = Where(s2, 1, n) /\ Where(s2, 1, n) = Where(r1, 1, n)
      BY <1>10, <1>12
    <3>4. Where(r1, 1, n) = <<>>
      BY <1>11
    <3> QED BY <3>1, <3>2, <3>3, <3>4
  <2> QED BY <2>1, <2>2, <2>3, <2>4, <2>5, <2>6, <2>7, <2>8
<1>18. ASSUME NEW n
       PROVE  /\ Where(s7, 1, n) = <<>> => Where(Tags(d), 1, n) = Where(Q, 1, n)
              /\ Where(Q, 1, n) = <<>> => Where(Tags(d), 1, n) = Where(s7, 1, n)
  <2> DEFINE u == Where(s7, 1, n)
             v == Where(Q, 1, n)
  <2>1. Where(Tags(d), 1, n) = u \o v
    BY <1>6, <1>9, <1>16, WhereConcat
  <2>2. u \in Seq(Tag) /\ v \in Seq(Tag)
    BY <1>6, <1>16, WhereType
  <2> HIDE DEF u, v
  <2>3. u \o <<>> = u /\ <<>> \o v = v
    BY <2>2
  <2>4. (u = <<>> => Where(Tags(d), 1, n) = v) /\ (v = <<>> => Where(Tags(d), 1, n) = u)
    BY <2>1, <2>3
  <2> QED BY <2>4 DEF u, v
<1>19. Tags(d) \in Seq(Tag)
  BY <1>6, <1>9, <1>16
<1>20. \A n \in {"question", "label", "description", "option"} : Where(Tags(d), 1, n) = Where(Q, 1, n)
  BY <1>17, <1>18
<1>21. \A n : n \notin {"question", "label", "description", "option"} =>
                Where(Tags(d), 1, n) = Where(s7, 1, n)
  BY <1>6, <1>18
<1>22. /\ Where(Tags(d), 1, "tts29") = r1 /\ Where(Tags(d), 1, "title") = r2
       /\ Where(Tags(d), 1, "agent") = A /\ Where(Tags(d), 1, "summary") = B
       /\ Where(Tags(d), 1, "audio") = r5 /\ Where(Tags(d), 1, "attachment") = D
       /\ Where(Tags(d), 1, "e") = E /\ Where(Tags(d), 1, "h") = <<>>
  BY <1>17, <1>21
<1> QED BY <1>19, <1>20, <1>22, Zenon DEF r1, r2, r5, m1, m2, A, B, c, D, E, Q

(* Reading what was written                                                *)

\* A text that is read is a text, and nothing is read of an absent one.
LEMMA BoundedType ==
  /\ \A text \in STRING : Bounded(text) \in STRING \union {None}
  /\ \A text \in STRING : text # None
  /\ Bounded(None) = None
  /\ Bounded("") = None
  /\ \A id \in Identifiers : Bounded(id) = id /\ id \in STRING
<1>1. \A x \in {"", "blank", "long", "padded", "word"} : x \in STRING
  BY TextAssumption
<1>2. None \notin STRING
  BY TextAssumption
<1>3. \A text \in STRING : Bounded(text) \in STRING \union {None}
  BY <1>1 DEF Bounded
<1>4. Bounded(None) = None
  BY <1>1, <1>2 DEF Bounded
<1>5. Bounded("") = None
  BY DEF Bounded
<1>6. \A id \in Identifiers : Bounded(id) = id /\ id \in STRING
  BY TextAssumption DEF Bounded
<1> QED BY <1>2, <1>3, <1>4, <1>5, <1>6

\* An option of a question is read back.
LEMMA OptionRead ==
  ASSUME NEW q \in Question, NEW i \in DOMAIN q.options, q.options[i].id \in Identifiers,
         Bounded(q.options[i].title) # None, AbsentOrBounded(q.options[i].description)
  PROVE  /\ OptionOf(OptionRow(q, i)) = ReadAll(q.options[i])
         /\ OptionOf(OptionRow(q, i)) \in QuestionOption
         /\ Len(OptionRow(q, i)) \in {4, 5}
         /\ OptionRow(q, i)[3] \in Identifiers
         /\ Bounded(OptionRow(q, i)[4]) # None
         /\ Len(OptionRow(q, i)) = 5 /\ OptionRow(q, i)[5] # "" => Bounded(OptionRow(q, i)[5]) # None
<1> DEFINE o == q.options[i]
           r == OptionRow(q, i)
<1>1. o \in QuestionOption
  <2>1. q.options \in Seq(QuestionOption)
    BY DEF Question
  <2> QED BY <2>1
<1>2. /\ r[3] = o.id
      /\ r[4] = o.title
      /\ o.description = None => Len(r) = 4
      /\ o.description # None => Len(r) = 5 /\ r[5] = o.description
  BY OptionRowType
<1>3. o.id \in Identifiers /\ Bounded(o.title) # None /\ AbsentOrBounded(o.description)
  OBVIOUS
<1> HIDE DEF o, r
<1>4. o.title \in STRING /\ o.description \in STRING \union {None} /\ DOMAIN o = {"id", "title", "description"}
  BY <1>1 DEF QuestionOption
<1>5. Read(o.id) = o.id /\ Read(o.title) = Bounded(o.title)
  BY <1>3, <1>4, BoundedType DEF Read
<1>6. o.description # None => o.description # "" /\ Bounded(o.description) # None
  BY <1>3, BoundedType DEF AbsentOrBounded
<1>7. OptionOf(r) = [id |-> o.id, title |-> Bounded(o.title), description |-> Read(o.description)]
  <2> DEFINE x == IF Len(r) = 5 /\ r[5] # "" THEN Bounded(r[5]) ELSE None
  <2>1. OptionOf(r) = [id |-> r[3], title |-> Bounded(r[4]), description |-> x]
    BY DEF OptionOf
  <2>2. x = Read(o.description)
    <3>1. CASE o.description = None
      <4>1. Len(r) # 5
        BY <1>2, <3>1
      <4> QED BY <3>1, <4>1 DEF Read
    <3>2. CASE o.description # None
      BY <1>2, <1>6, <3>2 DEF Read
    <3> QED BY <3>1, <3>2
  <2> HIDE DEF x
  <2> QED BY <1>2, <2>1, <2>2
<1>8. ReadAll(o) = [id |-> Read(o.id), title |-> Read(o.title), description |-> Read(o.description)]
  BY <1>4 DEF ReadAll
<1>9. OptionOf(r) = ReadAll(o)
  BY <1>5, <1>7, <1>8
<1>10. OptionOf(r) \in QuestionOption
  <2>1. o.id \in STRING /\ Bounded(o.title) \in STRING /\ Read(o.description) \in STRING \union {None}
    BY <1>3, <1>4, BoundedType DEF Read
  <2> QED BY <1>7, <2>1 DEF QuestionOption
<1>11. /\ Len(r) \in {4, 5}
       /\ r[3] \in Identifiers
       /\ Bounded(r[4]) # None
       /\ Len(r) = 5 /\ r[5] # "" => Bounded(r[5]) # None
  BY <1>2, <1>3, <1>6
<1> QED BY <1>9, <1>10, <1>11 DEF o, r
\* Rows with a key and a text that can be read, and the function that reads them.
Keyed(rows) ==
  /\ \A row \in Range(rows) : /\ Len(row) = 3
                              /\ row[2] \in Identifiers
                              /\ row[3] \in STRING
                              /\ Bounded(row[3]) # None
  /\ Distinct(Column(rows, 2))
ReadsKeyed(f, rows) ==
  /\ f # None
  /\ DOMAIN f = {row[2] : row \in Range(rows)}
  /\ \A row \in Range(rows) : f[row[2]] = Bounded(row[3])

\* Keyed rows whose keys are distinct are read as a function of the key.
LEMMA KeyedTextIs ==
  ASSUME NEW event, NEW name, NEW rows, Rows(event, name) = rows, Keyed(rows)
  PROVE  ReadsKeyed(KeyedText(event, name), rows)
<1> USE DEF Keyed
<1> DEFINE ids == {row[2] : row \in Range(rows)}
           pick(id) == CHOOSE row \in Range(rows) : row[2] = id
           f == [id \in ids |-> Bounded(pick(id)[3])]
<1>1. KeyedText(event, name) = f
  BY DEF KeyedText
<1>2. \A a, b \in DOMAIN rows : rows[a][2] = rows[b][2] => a = b
  BY DEF Distinct, IsInjective, Column
<1>3. ASSUME NEW row \in Range(rows) PROVE pick(row[2]) = row
  <2>1. pick(row[2]) \in Range(rows) /\ pick(row[2])[2] = row[2]
    OBVIOUS
  <2> HIDE DEF pick
  <2>2. PICK a \in DOMAIN rows : row = rows[a]
    BY DEF Range
  <2>3. PICK b \in DOMAIN rows : pick(row[2]) = rows[b]
    BY <2>1 DEF Range
  <2>4. a = b
    BY <1>2, <2>1, <2>2, <2>3
  <2> QED BY <2>2, <2>3, <2>4
<1> HIDE DEF pick
<1>4. \A row \in Range(rows) : row[2] \in ids /\ f[row[2]] = Bounded(row[3])
  BY <1>3
<1>5. f # None
  <2>1. ids \in SUBSET Identifiers
    OBVIOUS
  <2>2. ASSUME NEW id \in ids PROVE Bounded(pick(id)[3]) \in STRING
    <3>1. PICK row \in Range(rows) : id = row[2]
      OBVIOUS
    <3>2. pick(id) = row
      BY <1>3, <3>1
    <3> QED BY <3>2, BoundedType
  <2>3. f \in [ids -> STRING]
    BY <2>2
  <2> HIDE DEF f, ids
  <2> QED BY <2>1, <2>3, TextAssumption
<1> QED BY <1>1, <1>4, <1>5 DEF ReadsKeyed

\* The options of a question are its own among those of all questions.
LEMMA OptionRowsOf ==
  ASSUME NEW qs \in Seq(Question), Distinct(Column(qs, "id")), NEW j \in DOMAIN qs
  PROVE  Where(FlattenSeq([i \in DOMAIN qs |-> OptionRows(qs[i])]), 2, qs[j].id) = OptionRows(qs[j])
<1> DEFINE N == Len(qs)
           ss == [i \in DOMAIN qs |-> OptionRows(qs[i])]
           ww == [i \in DOMAIN ss |-> Where(ss[i], 2, qs[j].id)]
<1>1. N \in Nat /\ DOMAIN qs = 1..N /\ \A i \in 1..N : qs[i] \in Question
  OBVIOUS
<1>2. \A i \in 1..N : OptionRows(qs[i]) \in Seq(Tag)
  BY <1>1, QuestionTagsRows
<1>3. ss \in [1..N -> Seq(Tag)]
  BY <1>1, <1>2
<1>4. ss \in Seq(Seq(Tag)) /\ DOMAIN ss = 1..N
  <2> HIDE DEF ss, N
  <2> QED BY <1>1, <1>3, FunctionIsSeq
<1>5. \A i \in 1..N : ss[i] = OptionRows(qs[i])
  BY <1>1
<1>6. ASSUME NEW i \in 1..N
      PROVE  /\ i = j => ww[i] = OptionRows(qs[j])
             /\ i # j => ww[i] = <<>>
  <2>1. \A k \in DOMAIN OptionRows(qs[i]) : OptionRows(qs[i])[k][2] = qs[i].id
    <3>1. qs[i] \in Question
      BY <1>1
    <3>2. \A k \in DOMAIN qs[i].options : OptionRow(qs[i], k)[2] = qs[i].id
      BY <3>1, OptionRowType
    <3> QED BY <3>2 DEF OptionRows
  <2>2. i # j => qs[i].id # qs[j].id
    BY <1>1 DEF Distinct, IsInjective, Column
  <2>3. OptionRows(qs[i]) \in Seq(Tag)
    BY <1>2
  <2>4. ww[i] = Where(OptionRows(qs[i]), 2, qs[j].id)
    BY <1>4, <1>5
  <2> HIDE DEF ww
  <2>5. CASE i = j
    <3>1. Where(OptionRows(qs[i]), 2, qs[j].id) = OptionRows(qs[i])
      BY <2>1, <2>3, <2>5, WhereSame
    <3> QED BY <2>4, <2>5, <3>1
  <2>6. CASE i # j
    <3>1. Where(OptionRows(qs[i]), 2, qs[j].id) = <<>>
      BY <2>1, <2>2, <2>3, <2>6, WhereSame
    <3> QED BY <2>4, <2>6, <3>1
  <2> QED BY <2>5, <2>6
<1>7. ww \in Seq(Seq(Tag)) /\ DOMAIN ww = 1..N
  <2>1. <<>> \in Seq(Tag)
    OBVIOUS
  <2>2. \A i \in 1..N : ww[i] \in Seq(Tag)
    <3> HIDE DEF ww
    <3> QED BY <1>2, <1>6, <2>1
  <2>3. DOMAIN ww = 1..N /\ ww = [i \in 1..N |-> ww[i]]
    BY <1>4
  <2> HIDE DEF ww, N
  <2>4. ww \in [1..N -> Seq(Tag)]
    BY <2>2, <2>3
  <2> QED BY <1>1, <2>3, <2>4, FunctionIsSeq
<1>8. Where(FlattenSeq(ss), 2, qs[j].id) = FlattenSeq(ww)
  <2> HIDE DEF ss
  <2> QED BY <1>4, WhereFlatten
<1> HIDE DEF ww, ss
<1>9. FlattenSeq(ww) = OptionRows(qs[j])
  <2>1. OptionRows(qs[j]) \in Seq(Tag) /\ j \in DOMAIN ww
    BY <1>1, <1>2, <1>7
  <2>2. ww[j] = OptionRows(qs[j]) /\ \A i \in DOMAIN ww \ {j} : ww[i] = <<>>
    BY <1>1, <1>6, <1>7
  <2> QED BY <1>7, <2>1, <2>2, FlattenSole
<1> QED BY <1>8, <1>9 DEF ss
\* What the checks say of each question.
LEMMA ValidQuestion ==
  ASSUME NEW qs \in Seq(Question), ValidQuestions(qs), NEW i \in DOMAIN qs
  PROVE  /\ qs[i] \in Question
         /\ qs[i].id \in Identifiers
         /\ Bounded(qs[i].title) # None
         /\ Bounded(qs[i].short_title) # None
         /\ AbsentOrBounded(qs[i].description)
         /\ Choice(qs[i].kind) = (qs[i].options # <<>>)
         /\ Len(qs[i].options) <= MaxOptions
         /\ Distinct(Column(qs[i].options, "id"))
         /\ \A k \in DOMAIN qs[i].options :
              /\ qs[i].options[k].id \in Identifiers
              /\ Bounded(qs[i].options[k].title) # None
              /\ AbsentOrBounded(qs[i].options[k].description)
         /\ \A j \in DOMAIN qs : qs[i].id = qs[j].id => i = j
<1>1. qs[i] \in Range(qs) /\ qs[i] \in Question
  BY DEF Range
<1>2. \A k \in DOMAIN qs[i].options : qs[i].options[k] \in Range(qs[i].options)
  BY DEF Range
<1>3. \A j \in DOMAIN qs : qs[i].id = qs[j].id => i = j
  BY DEF ValidQuestions, Distinct, IsInjective, Column
<1> QED BY <1>1, <1>2, <1>3 DEF ValidQuestions

\* The short titles are read back.
LEMMA LabelsRead ==
  ASSUME NEW event, NEW qs \in Seq(Question), ValidQuestions(qs),
         Rows(event, "label") = Where(QuestionnaireTags(qs), 1, "label")
  PROVE  /\ KeyedText(event, "label") # None
         /\ DOMAIN KeyedText(event, "label") \subseteq {qs[i].id : i \in DOMAIN qs}
         /\ \A i \in DOMAIN qs : /\ qs[i].id \in DOMAIN KeyedText(event, "label")
                                 /\ KeyedText(event, "label")[qs[i].id] = Bounded(qs[i].short_title)
<1> DEFINE row(i) == <<"label", qs[i].id, qs[i].short_title>>
           rows == [i \in DOMAIN qs |-> row(i)]
<1>1. Rows(event, "label") = rows
  BY QuestionnaireRows
<1>2. \A i \in DOMAIN qs : Len(row(i)) = 3 /\ row(i)[2] = qs[i].id /\ row(i)[3] = qs[i].short_title
  OBVIOUS
<1>3. \A i \in DOMAIN qs : /\ qs[i].id \in Identifiers
                           /\ qs[i].short_title \in STRING
                           /\ Bounded(qs[i].short_title) # None
  BY ValidQuestion DEF Question
<1> HIDE DEF row
<1>4. \A r : r \in Range(rows) <=> \E i \in DOMAIN qs : r = row(i)
  BY DEF Range
<1>5. Distinct(Column(rows, 2))
  <2>1. \A i, j \in DOMAIN qs : qs[i].id = qs[j].id => i = j
    BY ValidQuestion
  <2> QED BY <1>2, <2>1 DEF Distinct, IsInjective, Column
<1> HIDE DEF rows
<1>6. \A r \in Range(rows) : Len(r) = 3 /\ r[2] \in Identifiers /\ r[3] \in STRING /\ Bounded(r[3]) # None
  BY <1>2, <1>3, <1>4
<1> DEFINE f == KeyedText(event, "label")
<1>7. /\ f # None
      /\ DOMAIN f = {r[2] : r \in Range(rows)}
      /\ \A r \in Range(rows) : f[r[2]] = Bounded(r[3])
  <2>1. Keyed(rows)
    BY <1>5, <1>6 DEF Keyed
  <2>2. ReadsKeyed(f, rows)
    BY <1>1, <2>1, KeyedTextIs
  <2> QED BY <2>2 DEF ReadsKeyed
<1> HIDE DEF f
<1>8. ASSUME NEW i \in DOMAIN qs PROVE qs[i].id \in DOMAIN f /\ f[qs[i].id] = Bounded(qs[i].short_title)
  <2>1. row(i) \in Range(rows)
    BY <1>4
  <2> QED BY <1>2, <1>7, <2>1
<1>9. DOMAIN f \subseteq {qs[i].id : i \in DOMAIN qs}
  BY <1>2, <1>4, <1>7
<1> QED BY <1>7, <1>8, <1>9 DEF f

\* The descriptions are read back, and only of the questions that have one.
LEMMA DescriptionsRead ==
  ASSUME NEW event, NEW qs \in Seq(Question), ValidQuestions(qs),
         Rows(event, "description") = Where(QuestionnaireTags(qs), 1, "description")
  PROVE  /\ KeyedText(event, "description") # None
         /\ DOMAIN KeyedText(event, "description") \subseteq {qs[i].id : i \in DOMAIN qs}
         /\ \A i \in DOMAIN qs :
              At(KeyedText(event, "description"), qs[i].id, None) = Read(qs[i].description)
<1> DEFINE N == Len(qs)
           row(i) == <<"description", qs[i].id, qs[i].description>>
           ss == [i \in DOMAIN qs |-> DescriptionRows(qs[i])]
           rows == FlattenSeq(ss)
<1>1. Rows(event, "description") = rows
  BY QuestionnaireRows
<1>2. N \in Nat /\ DOMAIN qs = 1..N
  OBVIOUS
<1>3. \A i \in DOMAIN qs : Len(row(i)) = 3 /\ row(i)[2] = qs[i].id /\ row(i)[3] = qs[i].description
  OBVIOUS
<1>4. \A i \in DOMAIN qs : DescriptionRows(qs[i]) = IF qs[i].description = None THEN <<>> ELSE << row(i) >>
  BY DEF DescriptionRows
<1>5. \A i \in DOMAIN qs : /\ qs[i].id \in Identifiers
                           /\ qs[i].description \in STRING \union {None}
                           /\ qs[i].description # None => Bounded(qs[i].description) # None
  BY ValidQuestion DEF Question, AbsentOrBounded
<1> HIDE DEF row
<1>6. ss \in Seq(Seq(Tag)) /\ DOMAIN ss = DOMAIN qs /\ \A i \in DOMAIN qs : ss[i] = DescriptionRows(qs[i])
  <2>1. \A i \in 1..N : DescriptionRows(qs[i]) \in Seq(Tag)
    BY <1>2, QuestionTagsRows
  <2>2. ss \in [1..N -> Seq(Tag)]
    BY <1>2, <2>1
  <2>3. ss \in Seq(Seq(Tag))
    <3> HIDE DEF ss, N
    <3> QED BY <1>2, <2>2, FunctionIsSeq
  <2> QED BY <2>3
<1> HIDE DEF ss
<1>7. \A i \in DOMAIN qs : /\ Len(ss[i]) <= 1
                           /\ \A x : x \in Range(ss[i]) <=> qs[i].description # None /\ x = row(i)
  <2> TAKE i \in DOMAIN qs
  <2>1. CASE qs[i].description = None
    <3>1. ss[i] = <<>>
      BY <1>4, <1>6, <2>1
    <3>2. Len(<<>>) = 0 /\ Range(<<>>) = {}
      BY DEF Range
    <3> QED BY <2>1, <3>1, <3>2
  <2>2. CASE qs[i].description # None
    <3> DEFINE r == row(i)
    <3>1. ss[i] = <<r>>
      BY <1>4, <1>6, <2>2
    <3> HIDE DEF r
    <3>2. Len(<<r>>) = 1 /\ \A x : x \in Range(<<r>>) <=> x = r
      BY DEF Range
    <3> QED BY <2>2, <3>1, <3>2 DEF r
  <2> QED BY <2>1, <2>2
<1>8. \A x : x \in Range(rows) <=> \E i \in DOMAIN qs : qs[i].description # None /\ x = row(i)
  <2>1. \A x : x \in Range(rows) <=> \E i \in DOMAIN ss : x \in Range(ss[i])
    BY <1>6, FlattenRange
  <2> QED BY <1>6, <1>7, <2>1
<1>9. Distinct(Column(rows, 2))
  <2>1. \A i, j \in DOMAIN qs : qs[i].id = qs[j].id => i = j
    BY ValidQuestion
  <2>2. \A i \in DOMAIN ss : Len(ss[i]) <= 1
    BY <1>6, <1>7
  <2>3. \A i, j \in DOMAIN ss : \A x \in Range(ss[i]), y \in Range(ss[j]) : x[2] = y[2] => i = j
    BY <1>3, <1>6, <1>7, <2>1
  <2> QED BY <1>6, <2>2, <2>3, FlattenDistinct
<1> HIDE DEF rows
<1>10. \A r \in Range(rows) : Len(r) = 3 /\ r[2] \in Identifiers /\ r[3] \in STRING /\ Bounded(r[3]) # None
  BY <1>3, <1>5, <1>8
<1> DEFINE f == KeyedText(event, "description")
<1>11. /\ f # None
       /\ DOMAIN f = {r[2] : r \in Range(rows)}
       /\ \A r \in Range(rows) : f[r[2]] = Bounded(r[3])
  <2>1. Keyed(rows)
    BY <1>9, <1>10 DEF Keyed
  <2>2. ReadsKeyed(f, rows)
    BY <1>1, <2>1, KeyedTextIs
  <2> QED BY <2>2 DEF ReadsKeyed
<1> HIDE DEF f
<1>12. ASSUME NEW i \in DOMAIN qs PROVE At(f, qs[i].id, None) = Read(qs[i].description)
  <2>1. CASE qs[i].description = None
    <3>1. ASSUME qs[i].id \in DOMAIN f PROVE FALSE
      <4>1. PICK r \in Range(rows) : r[2] = qs[i].id
        BY <1>11, <3>1
      <4>2. PICK j \in DOMAIN qs : qs[j].description # None /\ r = row(j)
        BY <1>8
      <4>3. qs[j].id = qs[i].id
        BY <1>3, <4>1, <4>2
      <4>4. i = j
        BY <4>3, ValidQuestion
      <4> QED BY <2>1, <4>2, <4>4
    <3> QED BY <2>1, <3>1 DEF At, Read
  <2>2. CASE qs[i].description # None
    <3>1. row(i) \in Range(rows)
      BY <1>8, <2>2
    <3>2. qs[i].id \in DOMAIN f /\ f[qs[i].id] = Bounded(qs[i].description)
      BY <1>3, <1>11, <3>1
    <3> QED BY <2>2, <3>2 DEF At, Read
  <2> QED BY <2>1, <2>2
<1>13. DOMAIN f \subseteq {qs[i].id : i \in DOMAIN qs}
  BY <1>3, <1>8, <1>11
<1> QED BY <1>11, <1>12, <1>13 DEF f
ReadOptions(q) == [k \in DOMAIN q.options |-> ReadAll(q.options[k])]

\* The options that are read are those of a question.
LEMMA ReadOptionsType ==
  ASSUME NEW qs \in Seq(Question), ValidQuestions(qs), NEW i \in DOMAIN qs
  PROVE  /\ ReadOptions(qs[i]) \in Seq(QuestionOption)
         /\ ReadOptions(qs[i]) = [k \in DOMAIN OptionRows(qs[i]) |-> OptionOf(OptionRows(qs[i])[k])]
<1> DEFINE q == qs[i]
           n == Len(q.options)
<1>1. q \in Question /\ \A k \in DOMAIN q.options : /\ q.options[k].id \in Identifiers
                                                    /\ Bounded(q.options[k].title) # None
                                                    /\ AbsentOrBounded(q.options[k].description)
  BY ValidQuestion
<1> HIDE DEF q
<1>2. n \in Nat /\ DOMAIN q.options = 1..n
  <2>1. q.options \in Seq(QuestionOption)
    BY <1>1 DEF Question
  <2> QED BY <2>1
<1>3. \A k \in DOMAIN q.options : /\ OptionOf(OptionRow(q, k)) = ReadAll(q.options[k])
                                  /\ OptionOf(OptionRow(q, k)) \in QuestionOption
  BY <1>1, OptionRead
<1>4. ReadOptions(q) \in [1..n -> QuestionOption]
  BY <1>2, <1>3 DEF ReadOptions
<1>5. ReadOptions(q) \in Seq(QuestionOption)
  <2> HIDE DEF n
  <2> QED BY <1>2, <1>4, FunctionIsSeq
<1>6. ReadOptions(q) = [k \in DOMAIN OptionRows(q) |-> OptionOf(OptionRows(q)[k])]
  BY <1>3 DEF ReadOptions, OptionRows
<1> QED BY <1>5, <1>6 DEF q

\* The options are read back, and only of the questions that have some.
LEMMA OptionsRead ==
  ASSUME NEW event, NEW qs \in Seq(Question), ValidQuestions(qs),
         Rows(event, "option") = Where(QuestionnaireTags(qs), 1, "option")
  PROVE  /\ KeyedOptions(event) # None
         /\ DOMAIN KeyedOptions(event) \subseteq {qs[i].id : i \in DOMAIN qs}
         /\ \A i \in DOMAIN qs :
              /\ (qs[i].id \in DOMAIN KeyedOptions(event)) = (qs[i].options # <<>>)
              /\ At(KeyedOptions(event), qs[i].id, <<>>) = ReadOptions(qs[i])
<1> DEFINE N == Len(qs)
           ss == [i \in DOMAIN qs |-> OptionRows(qs[i])]
           rows == FlattenSeq(ss)
           of(id) == Where(rows, 2, id)
           ids == {row[2] : row \in Range(rows)}
           f == [id \in ids |-> [k \in DOMAIN of(id) |-> OptionOf(of(id)[k])]]
<1>1. Rows(event, "option") = rows
  BY QuestionnaireRows
<1>2. N \in Nat /\ DOMAIN qs = 1..N
  OBVIOUS
<1>3. \A i \in DOMAIN qs : of(qs[i].id) = OptionRows(qs[i])
  <2>1. Distinct(Column(qs, "id"))
    BY DEF ValidQuestions
  <2> QED BY <2>1, OptionRowsOf
<1>4. ss \in Seq(Seq(Tag)) /\ DOMAIN ss = DOMAIN qs /\ \A i \in DOMAIN qs : ss[i] = OptionRows(qs[i])
  <2>1. \A i \in 1..N : qs[i] \in Question
    BY <1>2
  <2>2. \A i \in 1..N : OptionRows(qs[i]) \in Seq(Tag)
    BY <2>1, QuestionTagsRows
  <2>3. ss \in [1..N -> Seq(Tag)]
    BY <1>2, <2>2
  <2>4. ss \in Seq(Seq(Tag))
    <3> HIDE DEF ss, N
    <3> QED BY <1>2, <2>3, FunctionIsSeq
  <2> QED BY <2>4
<1> HIDE DEF ss
<1>5. \A x : x \in Range(rows) <=> \E i \in DOMAIN qs : \E k \in DOMAIN qs[i].options : x = OptionRow(qs[i], k)
  <2>1. \A x : x \in Range(rows) <=> \E i \in DOMAIN ss : x \in Range(ss[i])
    BY <1>4, FlattenRange
  <2>2. \A i \in DOMAIN qs : \A x : x \in Range(OptionRows(qs[i])) <=>
                                      \E k \in DOMAIN qs[i].options : x = OptionRow(qs[i], k)
    BY DEF Range, OptionRows
  <2> QED BY <1>4, <2>1, <2>2
<1> HIDE DEF rows
<1>6. ASSUME NEW i \in DOMAIN qs, NEW k \in DOMAIN qs[i].options
      PROVE  LET row == OptionRow(qs[i], k)
             IN  /\ Len(row) \in {4, 5}
                 /\ row[2] = qs[i].id
                 /\ row[2] \in Identifiers
                 /\ row[3] \in Identifiers
                 /\ Bounded(row[4]) # None
                 /\ Len(row) = 5 /\ row[5] # "" => Bounded(row[5]) # None
                 /\ Len(of(row[2])) <= MaxOptions
                 /\ Distinct(Column(of(row[2]), 3))
  <2> DEFINE q == qs[i]
             row == OptionRow(q, k)
  <2>1. /\ q \in Question /\ q.id \in Identifiers /\ Len(q.options) <= MaxOptions
        /\ Distinct(Column(q.options, "id"))
        /\ \A l \in DOMAIN q.options : /\ q.options[l].id \in Identifiers
                                       /\ Bounded(q.options[l].title) # None
                                       /\ AbsentOrBounded(q.options[l].description)
    BY ValidQuestion
  <2>2. of(q.id) = OptionRows(q) /\ k \in DOMAIN q.options
    BY <1>3
  <2> HIDE DEF q, of
  <2>3. row[2] = q.id
    BY <2>1, <2>2, OptionRowType
  <2>4. /\ Len(row) \in {4, 5}
        /\ row[3] \in Identifiers
        /\ Bounded(row[4]) # None
        /\ Len(row) = 5 /\ row[5] # "" => Bounded(row[5]) # None
    BY <2>1, <2>2, OptionRead
  <2>5. q.options \in Seq(QuestionOption)
    BY <2>1 DEF Question
  <2>6. Len(OptionRows(q)) = Len(q.options)
    <3>1. OptionRows(q) \in Seq(Tag) /\ DOMAIN OptionRows(q) = DOMAIN q.options
      BY <2>1, QuestionTagsRows DEF OptionRows
    <3> QED BY <2>5, <3>1
  <2>7. Distinct(Column(OptionRows(q), 3))
    <3>1. \A l \in DOMAIN q.options : OptionRow(q, l)[3] = q.options[l].id
      BY <2>1, OptionRowType
    <3>2. \A a, b \in DOMAIN q.options : q.options[a].id = q.options[b].id => a = b
      BY <2>1 DEF Distinct, IsInjective, Column
    <3> QED BY <3>1, <3>2 DEF Distinct, IsInjective, Column, OptionRows
  <2>8. /\ Len(of(row[2])) <= MaxOptions
        /\ Distinct(Column(of(row[2]), 3))
    BY <2>1, <2>2, <2>3, <2>6, <2>7
  <2> QED BY <2>1, <2>3, <2>4, <2>8 DEF q
<1>7. KeyedOptions(event) = f
  <2>1. \A row \in Range(rows) :
          /\ Len(row) \in {4, 5}
          /\ row[2] \in Identifiers
          /\ row[3] \in Identifiers
          /\ Bounded(row[4]) # None
          /\ Len(row) = 5 /\ row[5] # "" => Bounded(row[5]) # None
          /\ Len(of(row[2])) <= MaxOptions
          /\ Distinct(Column(of(row[2]), 3))
    <3> HIDE DEF of
    <3> TAKE row \in Range(rows)
    <3>1. PICK i \in DOMAIN qs : \E k \in DOMAIN qs[i].options : row = OptionRow(qs[i], k)
      BY <1>5
    <3>2. PICK k \in DOMAIN qs[i].options : row = OptionRow(qs[i], k)
      BY <3>1
    <3> QED BY <1>6, <3>2
  <2> QED BY <1>1, <2>1 DEF KeyedOptions
<1>8. \A i \in DOMAIN qs : (qs[i].id \in ids) = (qs[i].options # <<>>)
  <2> TAKE i \in DOMAIN qs
  <2>0. qs[i] \in Question /\ qs[i].options \in Seq(QuestionOption)
    <3>1. qs[i] \in Question
      BY ValidQuestion
    <3> QED BY <3>1 DEF Question
  <2>1. ASSUME qs[i].id \in ids PROVE qs[i].options # <<>>
    <3>1. PICK row \in Range(rows) : row[2] = qs[i].id
      BY <2>1
    <3>2. PICK j \in DOMAIN qs : \E k \in DOMAIN qs[j].options : row = OptionRow(qs[j], k)
      BY <1>5
    <3>3. PICK k \in DOMAIN qs[j].options : row = OptionRow(qs[j], k)
      BY <3>2
    <3>4. row[2] = qs[j].id
      BY <1>6, <3>3
    <3>5. i = j
      BY <3>1, <3>4, ValidQuestion
    <3> QED BY <3>3, <3>5
  <2>2. ASSUME qs[i].options # <<>> PROVE qs[i].id \in ids
    <3>1. 1 \in DOMAIN qs[i].options
      BY <2>0, <2>2
    <3>2. OptionRow(qs[i], 1) \in Range(rows)
      BY <1>5, <3>1
    <3>3. OptionRow(qs[i], 1)[2] = qs[i].id
      BY <1>6, <3>1
    <3> QED BY <3>2, <3>3
  <2> QED BY <2>1, <2>2
<1>9. ids \subseteq {qs[i].id : i \in DOMAIN qs} /\ ids \in SUBSET Identifiers
  <2> SUFFICES ASSUME NEW row \in Range(rows)
               PROVE  (\E i \in DOMAIN qs : row[2] = qs[i].id) /\ row[2] \in Identifiers
    OBVIOUS
  <2>1. PICK i \in DOMAIN qs : \E k \in DOMAIN qs[i].options : row = OptionRow(qs[i], k)
    BY <1>5
  <2>2. PICK k \in DOMAIN qs[i].options : row = OptionRow(qs[i], k)
    BY <2>1
  <2> QED BY <1>6, <2>2
<1>10. ASSUME NEW i \in DOMAIN qs, qs[i].id \in ids PROVE f[qs[i].id] = ReadOptions(qs[i])
  <2>1. f[qs[i].id] = [k \in DOMAIN OptionRows(qs[i]) |-> OptionOf(OptionRows(qs[i])[k])]
    <3> HIDE DEF ids, of
    <3> QED BY <1>3, <1>10
  <2> QED BY <2>1, ReadOptionsType
<1>11. f # None
  <2> HIDE DEF of
  <2>1. ASSUME NEW id \in ids
        PROVE  [k \in DOMAIN of(id) |-> OptionOf(of(id)[k])] \in Seq(QuestionOption)
    <3>1. PICK i \in DOMAIN qs : id = qs[i].id
      BY <1>9, <2>1
    <3>2. [k \in DOMAIN of(id) |-> OptionOf(of(id)[k])] = ReadOptions(qs[i])
      <4> HIDE DEF ids
      <4> QED BY <1>10, <2>1, <3>1
    <3> QED BY <3>2, ReadOptionsType
  <2>2. f \in [ids -> Seq(QuestionOption)]
    <3> HIDE DEF ids
    <3> QED BY <2>1
  <2> HIDE DEF f, ids
  <2> QED BY <1>9, <2>2, TextAssumption
<1>12. DOMAIN f = ids
  OBVIOUS
<1> HIDE DEF f, ids
<1>13. ASSUME NEW i \in DOMAIN qs PROVE At(f, qs[i].id, <<>>) = ReadOptions(qs[i])
  <2>1. CASE qs[i].id \in ids
    BY <1>10, <1>12, <2>1 DEF At
  <2>2. CASE qs[i].id \notin ids
    <3>1. qs[i].options = <<>>
      BY <1>8, <2>2
    <3>2. ReadOptions(qs[i]) = <<>>
      BY <3>1 DEF ReadOptions
    <3> QED BY <1>12, <2>2, <3>2 DEF At
  <2> QED BY <2>1, <2>2
<1>14. /\ f # None
       /\ DOMAIN f \subseteq {qs[i].id : i \in DOMAIN qs}
       /\ \A i \in DOMAIN qs : /\ (qs[i].id \in DOMAIN f) = (qs[i].options # <<>>)
                               /\ At(f, qs[i].id, <<>>) = ReadOptions(qs[i])
  BY <1>8, <1>9, <1>11, <1>12, <1>13
<1> QED BY <1>7, <1>14
QuestionsSent(event, questions) ==
  \A n \in {"question", "label", "description", "option"} :
    Rows(event, n) = Where(QuestionnaireTags(questions), 1, n)

\* The questions of an item are read back: the same ids and kinds, and the texts
\* without the blanks around them.
LEMMA QuestionsRead ==
  ASSUME NEW event, NEW qs \in Seq(Question), ValidQuestions(qs), QuestionsSent(event, qs)
  PROVE  Questions(event) = MeantQuestions(qs) /\ Questions(event) # None
<1> DEFINE N == Len(qs)
           row(i) == <<"question", qs[i].id, qs[i].kind, qs[i].title>>
           rows == [i \in DOMAIN qs |-> row(i)]
           labels == KeyedText(event, "label")
           descriptions == KeyedText(event, "description")
           options == KeyedOptions(event)
           ids == {r[2] : r \in Range(rows)}
           question(r) ==
             [id |-> r[2], kind |-> r[3], title |-> Bounded(r[4]),
              short_title |-> At(labels, r[2], Bounded(r[4])),
              description |-> At(descriptions, r[2], None),
              options |-> At(options, r[2], <<>>)]
<1>1. Rows(event, "question") = rows
  BY QuestionnaireRows DEF QuestionsSent
<1>2. /\ labels # None
      /\ DOMAIN labels \subseteq {qs[i].id : i \in DOMAIN qs}
      /\ \A i \in DOMAIN qs : /\ qs[i].id \in DOMAIN labels
                              /\ labels[qs[i].id] = Bounded(qs[i].short_title)
  BY LabelsRead DEF QuestionsSent
<1>3. /\ descriptions # None
      /\ DOMAIN descriptions \subseteq {qs[i].id : i \in DOMAIN qs}
      /\ \A i \in DOMAIN qs : At(descriptions, qs[i].id, None) = Read(qs[i].description)
  BY DescriptionsRead DEF QuestionsSent
<1>4. /\ options # None
      /\ DOMAIN options \subseteq {qs[i].id : i \in DOMAIN qs}
      /\ \A i \in DOMAIN qs : /\ (qs[i].id \in DOMAIN options) = (qs[i].options # <<>>)
                              /\ At(options, qs[i].id, <<>>) = ReadOptions(qs[i])
  BY OptionsRead DEF QuestionsSent
<1>5. \A i \in DOMAIN qs : /\ row(i)[2] = qs[i].id
                           /\ row(i)[3] = qs[i].kind
                           /\ row(i)[4] = qs[i].title
                           /\ Len(row(i)) = 4
  OBVIOUS
<1> HIDE DEF row, labels, descriptions, options
<1>6. \A r : r \in Range(rows) <=> \E i \in DOMAIN qs : r = row(i)
  BY DEF Range
<1>7. ids = {qs[i].id : i \in DOMAIN qs}
  <2> HIDE DEF rows
  <2> QED BY <1>5, <1>6
<1>8. \A r \in Range(rows) : /\ Len(r) = 4
                             /\ r[2] \in Identifiers
                             /\ r[3] \in Kinds
                             /\ Bounded(r[4]) # None
                             /\ Choice(r[3]) = (r[2] \in DOMAIN options)
  <2>1. \A i \in DOMAIN qs : /\ qs[i].id \in Identifiers
                             /\ qs[i].kind \in Kinds
                             /\ Bounded(qs[i].title) # None
                             /\ Choice(qs[i].kind) = (qs[i].options # <<>>)
    BY ValidQuestion DEF Question
  <2> HIDE DEF rows
  <2> QED BY <1>4, <1>5, <1>6, <2>1
<1>9. Distinct(Column(rows, 2))
  <2>1. \A i, j \in DOMAIN qs : qs[i].id = qs[j].id => i = j
    BY ValidQuestion
  <2> QED BY <1>5, <2>1 DEF Distinct, IsInjective, Column
<1>10. Len(rows) <= MaxQuestions
  <2>1. Len(rows) = Len(qs)
    OBVIOUS
  <2> QED BY <2>1 DEF ValidQuestions
<1>11. Questions(event) = [i \in DOMAIN rows |-> question(rows[i])]
  <2>1. DOMAIN labels \union DOMAIN descriptions \union DOMAIN options \subseteq ids
    BY <1>2, <1>3, <1>4, <1>7
  <2> HIDE DEF rows
  <2> QED BY <1>1, <1>2, <1>3, <1>4, <1>8, <1>9, <1>10, <2>1
          DEF Questions, labels, descriptions, options
<1>12. ASSUME NEW i \in DOMAIN qs PROVE question(row(i)) = MeantQuestion(qs[i])
  <2>1. /\ At(labels, qs[i].id, Bounded(qs[i].title)) = Read(qs[i].short_title)
        /\ Bounded(qs[i].title) = Read(qs[i].title)
    <3>1. qs[i].title \in STRING /\ qs[i].short_title \in STRING
      BY ValidQuestion DEF Question
    <3>2. qs[i].title # None /\ qs[i].short_title # None
      BY <3>1, BoundedType
    <3> QED BY <1>2, <3>2 DEF At, Read
  <2>2. MeantQuestion(qs[i])
          = [id |-> qs[i].id, kind |-> qs[i].kind, title |-> Read(qs[i].title),
             short_title |-> Read(qs[i].short_title), description |-> Read(qs[i].description),
             options |-> ReadOptions(qs[i])]
    BY DEF MeantQuestion, ReadOptions
  <2> QED BY <1>3, <1>4, <1>5, <2>1, <2>2
<1>13. Questions(event) = MeantQuestions(qs)
  <2>1. DOMAIN rows = DOMAIN qs /\ \A i \in DOMAIN qs : rows[i] = row(i)
    OBVIOUS
  <2> HIDE DEF rows, question
  <2> QED BY <1>11, <1>12, <2>1 DEF MeantQuestions
<1>14. MeantQuestions(qs) \in Seq(Question)
  <2>1. N \in Nat /\ DOMAIN qs = 1..N
    OBVIOUS
  <2>2. ASSUME NEW i \in 1..N PROVE MeantQuestion(qs[i]) \in Question
    <3> DEFINE q == qs[i]
    <3>1. /\ q \in Question /\ Bounded(q.title) # None /\ Bounded(q.short_title) # None
          /\ AbsentOrBounded(q.description)
      BY <2>1, ValidQuestion
    <3>2. ReadOptions(q) \in Seq(QuestionOption)
      BY <2>1, ReadOptionsType
    <3> HIDE DEF q
    <3>3. q.id \in STRING /\ q.kind \in Kinds /\ q.title \in STRING /\ q.short_title \in STRING
            /\ q.description \in STRING \union {None}
      BY <3>1 DEF Question
    <3>4. Read(q.title) \in STRING /\ Read(q.short_title) \in STRING
            /\ Read(q.description) \in STRING \union {None}
      BY <3>1, <3>3, BoundedType DEF Read
    <3>5. MeantQuestion(q)
            = [id |-> q.id, kind |-> q.kind, title |-> Read(q.title),
               short_title |-> Read(q.short_title), description |-> Read(q.description),
               options |-> ReadOptions(q)]
      BY DEF MeantQuestion, ReadOptions
    <3>6. MeantQuestion(q) \in Question
      BY <3>2, <3>3, <3>4, <3>5 DEF Question
    <3> QED BY <3>6 DEF q
  <2>3. MeantQuestions(qs) \in [1..N -> Question]
    BY <2>1, <2>2 DEF MeantQuestions
  <2> HIDE DEF N
  <2> QED BY <2>1, <2>3, FunctionIsSeq
<1> QED BY <1>13, <1>14, TextAssumption

\* NMP's group send puts one row before the others, that of the group.
LEMMA SentRows ==
  ASSUME NEW frozen, NEW content, NEW tags \in Seq(Tag), Where(tags, 1, "h") = <<>>
  PROVE  /\ Rows(GroupSend(frozen, content, tags), "h") = << <<"h", GroupId>> >>
         /\ \A n : n # "h" => Rows(GroupSend(frozen, content, tags), n) = Where(tags, 1, n)
<1> DEFINE h == <<"h", GroupId>>
           r == <<h>>
<1>1. h \in Tag /\ h[1] = "h"
  <2>1. "h" \in Value /\ GroupId \in Value
    BY Values, TextAssumption DEF Names
  <2>2. h \in Tag
    BY <2>1, TagType, Zenon
  <2> QED BY <2>2
<1>2. GroupSend(frozen, content, tags).tags = r \o tags
  BY DEF GroupSend
<1> HIDE DEF h
<1>3. r \in Seq(Tag) /\ \A i \in DOMAIN r : r[i][1] = "h"
  BY <1>1
<1> HIDE DEF r
<1>4. \A n : Where(r, 1, n) = IF n = "h" THEN r ELSE <<>>
  BY <1>3, RowsOne
<1>5. \A n : Where(r \o tags, 1, n) = Where(r, 1, n) \o Where(tags, 1, n)
  BY <1>3, WhereConcat
<1>6. \A n : Where(tags, 1, n) \in Seq(Tag)
  BY WhereType
<1>7. Where(r \o tags, 1, "h") = r
  <2>1. Where(r \o tags, 1, "h") = r \o <<>>
    BY <1>4, <1>5
  <2>2. r \o <<>> = r
    BY <1>3
  <2> QED BY <2>1, <2>2
<1>8. ASSUME NEW n, n # "h" PROVE Where(r \o tags, 1, n) = Where(tags, 1, n)
  <2> DEFINE w == Where(tags, 1, n)
  <2>1. Where(r \o tags, 1, n) = <<>> \o w
    BY <1>4, <1>5, <1>8
  <2>2. w \in Seq(Tag)
    BY <1>6
  <2> HIDE DEF w
  <2>3. <<>> \o w = w
    BY <2>2
  <2> QED BY <2>1, <2>3 DEF w
<1>9. Rows(GroupSend(frozen, content, tags), "h") = r
  BY <1>2, <1>7, Zenon DEF Rows
<1>10. \A n : n # "h" => Rows(GroupSend(frozen, content, tags), n) = Where(tags, 1, n)
  BY <1>2, <1>8, Zenon DEF Rows
<1> QED BY <1>9, <1>10, Zenon DEF r, h

ItemOf(d) == GroupSend(d, d.body, Tags(d))

\* The rows of the event of an item.
LEMMA ItemEventRows ==
  ASSUME NEW author, NEW d \in FrozenSpokenItem(author)
  PROVE  /\ Rows(ItemOf(d), "h") = << <<"h", GroupId>> >>
         /\ Rows(ItemOf(d), "tts29") = << <<"tts29", "item", "1">> >>
         /\ Rows(ItemOf(d), "title") = << <<"title", d.subject>> >>
         /\ Rows(ItemOf(d), "agent") = Present("agent", d.agent_name)
         /\ Rows(ItemOf(d), "summary") = Present("summary", d.summary)
         /\ Rows(ItemOf(d), "audio") = << ArtifactRow(d.audio, "audio") >>
         /\ Rows(ItemOf(d), "attachment") = AttachmentRows(d)
         /\ Rows(ItemOf(d), "e") = AttachRows(d)
         /\ QuestionsSent(ItemOf(d), d.questions)
<1>1. Tags(d) \in Seq(Tag) /\ Where(Tags(d), 1, "h") = <<>>
  BY ItemRows
<1>2. Rows(ItemOf(d), "h") = << <<"h", GroupId>> >>
  BY <1>1, SentRows, Zenon DEF ItemOf
<1>3. \A n : n # "h" => Rows(ItemOf(d), n) = Where(Tags(d), 1, n)
  BY <1>1, SentRows, Zenon DEF ItemOf
<1>4. /\ "tts29" # "h" /\ "title" # "h" /\ "agent" # "h" /\ "summary" # "h" /\ "audio" # "h"
      /\ "attachment" # "h" /\ "e" # "h"
      /\ \A n \in {"question", "label", "description", "option"} : n # "h"
  OBVIOUS
<1>5. QuestionsSent(ItemOf(d), d.questions)
  <2>1. \A n \in {"question", "label", "description", "option"} :
          Where(Tags(d), 1, n) = Where(QuestionnaireTags(d.questions), 1, n)
    BY ItemRows
  <2> QED BY <1>3, <1>4, <2>1, Zenon DEF QuestionsSent
<1>6. Rows(ItemOf(d), "tts29") = << <<"tts29", "item", "1">> >>
  BY <1>3, <1>4, ItemRows, Zenon
<1>7. Rows(ItemOf(d), "title") = << <<"title", d.subject>> >>
  BY <1>3, <1>4, ItemRows, Zenon
<1>8. Rows(ItemOf(d), "agent") = Present("agent", d.agent_name)
  BY <1>3, <1>4, ItemRows, Zenon
<1>9. Rows(ItemOf(d), "summary") = Present("summary", d.summary)
  BY <1>3, <1>4, ItemRows, Zenon
<1>10. Rows(ItemOf(d), "audio") = << ArtifactRow(d.audio, "audio") >>
  BY <1>3, <1>4, ItemRows, Zenon
<1>11. Rows(ItemOf(d), "attachment") = AttachmentRows(d)
  BY <1>3, <1>4, ItemRows, Zenon
<1>12. Rows(ItemOf(d), "e") = AttachRows(d)
  BY <1>3, <1>4, ItemRows, Zenon
<1> QED BY <1>2, <1>5, <1>6, <1>7, <1>8, <1>9, <1>10, <1>11, <1>12, Zenon

\* The artifact that passes the check is read back without the blanks around its texts,
\* and is an artifact again if its label is within its bound.
LEMMA ArtifactRead ==
  ASSUME NEW v \in DurableArtifact, NEW labelled \in BOOLEAN, ValidArtifact(v, labelled)
  PROVE  /\ Artifact(ArtifactRow(v, IF labelled THEN "attachment" ELSE "audio"), labelled)
              = ReadAll(v)
         /\ labelled <=> v.label # None
         /\ ReadAll(v).label = Read(v.label)
         /\ ReadAll(v).media_type = Bounded(v.media_type)
         /\ ReadAll(v) \in DurableArtifact
<1> DEFINE name == IF labelled THEN "attachment" ELSE "audio"
           row == ArtifactRow(v, name)
<1>1. name \in Names
  BY DEF Names
<1> HIDE DEF name
<1>2. /\ row[2] = v.url /\ row[3] = v.sha256 /\ row[4] = v.media_type /\ row[5] = v.byte_count
      /\ v.label = None => Len(row) = 5
      /\ v.label # None => Len(row) = 6 /\ row[6] = v.label
  BY <1>1, ArtifactRowType
<1>3. Artifact(row, labelled) # None
  BY DEF ValidArtifact, name
<1> HIDE DEF row
<1>4. /\ Len(row) = (IF labelled THEN 6 ELSE 5)
      /\ Bounded(row[2]) = "https"
      /\ Bounded(row[3]) = "sha256"
      /\ Bounded(row[4]) \in {"audio/mpeg", "text/plain"}
      /\ row[5] = "bytes"
  BY <1>3 DEF Artifact
<1>5. Artifact(row, labelled)
        = [url |-> Bounded(row[2]), sha256 |-> Bounded(row[3]), media_type |-> Bounded(row[4]),
           byte_count |-> row[5], label |-> IF labelled THEN Bounded(row[6]) ELSE None]
  BY <1>3 DEF Artifact
<1>6. (labelled <=> v.label # None)
  BY <1>2, <1>4
<1>7. /\ DOMAIN v = {"url", "sha256", "media_type", "byte_count", "label"}
      /\ v.url \in STRING /\ v.sha256 \in STRING /\ v.media_type \in STRING /\ v.byte_count \in STRING
      /\ v.label \in STRING \union {None}
  BY DEF DurableArtifact
<1>8. ReadAll(v) = [url |-> Read(v.url), sha256 |-> Read(v.sha256), media_type |-> Read(v.media_type),
                    byte_count |-> Read(v.byte_count), label |-> Read(v.label)]
  BY <1>7 DEF ReadAll
<1>9. Read(v.url) = Bounded(v.url) /\ Read(v.sha256) = Bounded(v.sha256)
        /\ Read(v.media_type) = Bounded(v.media_type) /\ Read(v.byte_count) = v.byte_count
  <2>1. Bounded("bytes") = "bytes"
    BY DEF Bounded
  <2>2. v.url # None /\ v.sha256 # None /\ v.media_type # None /\ v.byte_count # None
    BY <1>7, BoundedType
  <2> QED BY <1>2, <1>4, <2>1, <2>2 DEF Read
<1>10. Read(v.label) = IF labelled THEN Bounded(row[6]) ELSE None
  BY <1>2, <1>6 DEF Read
<1>11. Artifact(row, labelled) = ReadAll(v)
  BY <1>2, <1>5, <1>8, <1>9, <1>10
<1>12. ReadAll(v) \in DurableArtifact
  <2>1. Read(v.label) \in STRING \union {None}
    BY <1>7, BoundedType DEF Read
  <2>2. /\ Read(v.url) \in STRING /\ Read(v.sha256) \in STRING /\ Read(v.media_type) \in STRING
        /\ Read(v.byte_count) \in STRING
    BY <1>2, <1>4, <1>7, <1>9, TextAssumption
  <2> QED BY <1>8, <2>1, <2>2 DEF DurableArtifact
<1>13. ReadAll(v).label = Read(v.label) /\ ReadAll(v).media_type = Bounded(v.media_type)
  BY <1>8, <1>9
<1> QED BY <1>6, <1>11, <1>12, <1>13 DEF row, name
\* The event of an item is one of the group with the marker of an item, and refers to
\* the item it is attached to, if to any.
LEMMA ItemHeader ==
  ASSUME NEW author, NEW d \in FrozenSpokenItem(author), ValidSpokenItem(d)
  PROVE  /\ ItemOf(d).kind = 9
         /\ GroupMatches(ItemOf(d))
         /\ Marker(ItemOf(d)) = "item"
         /\ Reference(ItemOf(d), "attach") = d.attach
         /\ Rows(ItemOf(d), "e") = <<>> \/ d.attach # None
         /\ Unique(ItemOf(d), "title") = Read(d.subject)
         /\ Read(d.subject) # None
         /\ Optional(ItemOf(d), "agent") = ReadOr(d.agent_name)
         /\ ReadOr(d.agent_name) # None
         /\ Optional(ItemOf(d), "summary") = ReadOr(d.summary)
         /\ ReadOr(d.summary) # None
<1> DEFINE e == ItemOf(d)
<1>0. /\ d.subject \in STRING /\ d.agent_name \in STRING /\ d.summary \in STRING
      /\ d.attach \in Nat \union {None}
  BY DEF FrozenSpokenItem
<1>1. e.kind = 9
  BY DEF ItemOf, GroupSend
<1>2. GroupMatches(e)
  BY ItemEventRows, Zenon DEF GroupMatches
<1>3. Marker(e) = "item"
  <2> DEFINE r == <<"tts29", "item", "1">>
  <2>1. Rows(e, "tts29") = <<r>>
    BY ItemEventRows, Zenon
  <2>2. Len(r) = 3 /\ r[3] = "1" /\ r[2] = "item"
    OBVIOUS
  <2> HIDE DEF r
  <2>3. Len(<<r>>) = 1 /\ <<r>>[1] = r
    OBVIOUS
  <2> HIDE DEF e
  <2> QED BY <2>1, <2>2, <2>3 DEF Marker
<1>4. Reference(e, "attach") = d.attach /\ (Rows(e, "e") = <<>> \/ d.attach # None)
  <2>1. Rows(e, "e") = AttachRows(d)
    BY ItemEventRows, Zenon
  <2> HIDE DEF e
  <2>2. CASE d.attach = None
    <3>1. Rows(e, "e") = <<>>
      BY <2>1, <2>2 DEF AttachRows
    <3> QED BY <2>2, <3>1 DEF Reference
  <2>3. CASE d.attach # None
    <3> DEFINE r == <<"e", d.attach, "", "attach">>
    <3>1. Rows(e, "e") = <<r>>
      BY <2>1, <2>3 DEF AttachRows
    <3>2. Len(r) = 4 /\ r[4] = "attach" /\ r[2] = d.attach /\ r[3] = ""
      OBVIOUS
    <3>3. d.attach > 0
      BY <2>3 DEF ValidSpokenItem
    <3> HIDE DEF r
    <3>4. Len(<<r>>) = 1 /\ <<r>>[1] = r
      OBVIOUS
    <3> QED BY <2>3, <3>1, <3>2, <3>3, <3>4 DEF Reference
  <2> QED BY <2>2, <2>3
<1>5. ASSUME NEW name, NEW text, Rows(e, name) = << <<name, text>> >>
      PROVE  Unique(e, name) = Bounded(text) /\ Rows(e, name) # <<>>
  <2> DEFINE r == <<name, text>>
  <2>1. Len(r) = 2 /\ r[2] = text
    OBVIOUS
  <2>2. Rows(e, name) = <<r>>
    BY <1>5
  <2> HIDE DEF r, e
  <2>3. Len(<<r>>) = 1 /\ <<r>>[1] = r /\ <<r>> # <<>>
    OBVIOUS
  <2> QED BY <2>1, <2>2, <2>3 DEF Unique
<1>6. Unique(e, "title") = Read(d.subject) /\ Read(d.subject) # None
  <2>1. Rows(e, "title") = << <<"title", d.subject>> >>
    BY ItemEventRows, Zenon
  <2>2. Unique(e, "title") = Bounded(d.subject)
    BY <1>5, <2>1, Zenon
  <2>3. Bounded(d.subject) # None
    BY DEF ValidSpokenItem
  <2>4. Read(d.subject) = Bounded(d.subject)
    BY <1>0, BoundedType DEF Read
  <2> QED BY <2>2, <2>3, <2>4
<1>7. ASSUME NEW name, NEW text \in STRING, Rows(e, name) = Present(name, text),
             text = "" \/ Bounded(text) # None
      PROVE  Optional(e, name) = ReadOr(text) /\ ReadOr(text) # None
  <2>1. CASE text = ""
    <3>1. Rows(e, name) = <<>>
      BY <1>7, <2>1 DEF Present
    <3>2. "" # None
      BY TextAssumption
    <3> QED BY <2>1, <3>1, <3>2 DEF Optional, ReadOr
  <2>2. CASE text # ""
    <3>1. Rows(e, name) = << <<name, text>> >>
      BY <1>7, <2>2 DEF Present
    <3>2. Unique(e, name) = Bounded(text) /\ Rows(e, name) # <<>>
      BY <1>5, <3>1
    <3>3. ReadOr(text) = Bounded(text) /\ Bounded(text) # None
      BY <1>7, <2>2 DEF ReadOr
    <3> HIDE DEF e
    <3> QED BY <3>2, <3>3 DEF Optional
  <2> QED BY <2>1, <2>2
<1>8. Optional(e, "agent") = ReadOr(d.agent_name) /\ ReadOr(d.agent_name) # None
  <2>1. Rows(e, "agent") = Present("agent", d.agent_name)
    BY ItemEventRows, Zenon
  <2>2. d.agent_name = "" \/ Bounded(d.agent_name) # None
    BY DEF ValidSpokenItem
  <2> QED BY <1>0, <1>7, <2>1, <2>2
<1>9. Optional(e, "summary") = ReadOr(d.summary) /\ ReadOr(d.summary) # None
  <2>1. Rows(e, "summary") = Present("summary", d.summary)
    BY ItemEventRows, Zenon
  <2>2. d.summary = "" \/ Bounded(d.summary) # None
    BY DEF ValidSpokenItem
  <2> QED BY <1>0, <1>7, <2>1, <2>2
<1> QED BY <1>1, <1>2, <1>3, <1>4, <1>6, <1>8, <1>9

ReadAttachments(d) == [i \in DOMAIN d.attachments |-> ReadAll(d.attachments[i])]

\* The attachments of an item are read back, with their labels if those are bounded.
LEMMA AttachmentsRead ==
  ASSUME NEW author, NEW d \in FrozenSpokenItem(author), ValidSpokenItem(d)
  PROVE  /\ [i \in DOMAIN AttachmentRows(d) |-> Artifact(AttachmentRows(d)[i], TRUE)]
              = ReadAttachments(d)
         /\ Len(AttachmentRows(d)) <= MaxAttachments
         /\ None \notin Range(ReadAttachments(d))
         /\ (\A a \in Range(ReadAttachments(d)) : a.label # None) <=> BoundedLabels(d)
<1> DEFINE N == Len(d.attachments)
<1>1. N \in Nat /\ DOMAIN d.attachments = 1..N /\ \A i \in 1..N : d.attachments[i] \in DurableArtifact
  BY DEF FrozenSpokenItem
<1>2. ASSUME NEW i \in 1..N
      PROVE  /\ Artifact(ArtifactRow(d.attachments[i], "attachment"), TRUE) = ReadAll(d.attachments[i])
             /\ ReadAll(d.attachments[i]).label = Bounded(d.attachments[i].label)
             /\ ReadAll(d.attachments[i]) # None
  <2> DEFINE v == d.attachments[i]
  <2>1. v \in DurableArtifact
    BY <1>1
  <2>2. ValidArtifact(v, TRUE)
    BY <1>1 DEF ValidSpokenItem, Range
  <2> HIDE DEF v
  <2>3. /\ Artifact(ArtifactRow(v, "attachment"), TRUE) = ReadAll(v)
        /\ v.label # None
        /\ ReadAll(v).label = Read(v.label)
        /\ ReadAll(v) \in DurableArtifact
    BY <2>1, <2>2, ArtifactRead
  <2>4. ReadAll(v) # None /\ ReadAll(v).label = Bounded(v.label)
    BY <2>3, TextAssumption DEF Read
  <2> QED BY <2>3, <2>4 DEF v
<1>3. DOMAIN AttachmentRows(d) = 1..N
        /\ \A i \in 1..N : AttachmentRows(d)[i] = ArtifactRow(d.attachments[i], "attachment")
  BY <1>1 DEF AttachmentRows
<1>4. Len(AttachmentRows(d)) <= MaxAttachments
  <2>1. AttachmentRows(d) \in Seq(Tag)
    BY ItemPieces
  <2>2. Len(AttachmentRows(d)) = N
    BY <1>1, <1>3, <2>1
  <2> QED BY <2>2 DEF ValidSpokenItem
<1> HIDE DEF N
<1>5. [i \in DOMAIN AttachmentRows(d) |-> Artifact(AttachmentRows(d)[i], TRUE)] = ReadAttachments(d)
  BY <1>1, <1>2, <1>3 DEF ReadAttachments
<1>6. \A a : a \in Range(ReadAttachments(d)) <=> \E i \in 1..N : a = ReadAll(d.attachments[i])
  BY <1>1 DEF ReadAttachments, Range
<1>7. \A a : a \in Range(d.attachments) <=> \E i \in 1..N : a = d.attachments[i]
  BY <1>1 DEF Range
<1>8. None \notin Range(ReadAttachments(d))
  BY <1>2, <1>6
<1>9. (\A a \in Range(ReadAttachments(d)) : a.label # None) <=> BoundedLabels(d)
  <2>1. ASSUME BoundedLabels(d), NEW a \in Range(ReadAttachments(d)) PROVE a.label # None
    <3>1. PICK i \in 1..N : a = ReadAll(d.attachments[i])
      BY <1>6, <2>1
    <3>2. d.attachments[i] \in Range(d.attachments)
      BY <1>7
    <3>3. Bounded(d.attachments[i].label) # None
      BY <2>1, <3>2 DEF BoundedLabels
    <3> QED BY <1>2, <3>1, <3>3
  <2>2. ASSUME \A a \in Range(ReadAttachments(d)) : a.label # None, NEW b \in Range(d.attachments)
        PROVE  Bounded(b.label) # None
    <3>1. PICK i \in 1..N : b = d.attachments[i]
      BY <1>7, <2>2
    <3>2. ReadAll(d.attachments[i]) \in Range(ReadAttachments(d))
      BY <1>6
    <3> QED BY <1>2, <2>2, <3>1, <3>2
  <2> QED BY <2>1, <2>2 DEF BoundedLabels
<1> QED BY <1>4, <1>5, <1>8, <1>9

\* Reading undoes composing, for every item and all limits: an item that passes the
\* daemon's checks before publication (ValidSpokenItem) parses to itself without the
\* blanks around its texts, and if a label of an attachment is out of bounds, which
\* those checks let pass, to nothing at all.
THEOREM ItemRoundTrip ==
  ASSUME NEW author, NEW d \in FrozenSpokenItem(author), ValidSpokenItem(d)
  PROVE  Parse(ComposeSpokenItem(d)) = IF BoundedLabels(d) THEN Meant(d) ELSE None
<1> DEFINE e == ItemOf(d)
           rows == Rows(e, "attachment")
           audioRows == Rows(e, "audio")
           attachments == [i \in DOMAIN rows |-> Artifact(rows[i], TRUE)]
<1>1. ComposeSpokenItem(d) = e
  BY DEF ComposeSpokenItem, ItemOf
<1>2. /\ e.kind = 9 /\ GroupMatches(e) /\ Marker(e) = "item"
      /\ Reference(e, "attach") = d.attach
      /\ Rows(e, "e") = <<>> \/ d.attach # None
      /\ Unique(e, "title") = Read(d.subject) /\ Read(d.subject) # None
      /\ Optional(e, "agent") = ReadOr(d.agent_name) /\ ReadOr(d.agent_name) # None
      /\ Optional(e, "summary") = ReadOr(d.summary) /\ ReadOr(d.summary) # None
  BY ItemHeader
<1>3. /\ e.id = d.id /\ e.author = d.author /\ e.created_at = d.created_at /\ e.content = d.body
  BY DEF ItemOf, GroupSend
<1>4. Bounded(d.body) = Read(d.body) /\ Read(d.body) # None
  <2>1. d.body \in STRING /\ Bounded(d.body) # None
    BY DEF FrozenSpokenItem, ValidSpokenItem
  <2> QED BY <2>1, BoundedType DEF Read
<1>5. Questions(e) = MeantQuestions(d.questions) /\ Questions(e) # None
  <2>1. d.questions \in Seq(Question) /\ ValidQuestions(d.questions)
    BY DEF FrozenSpokenItem, ValidSpokenItem
  <2>2. QuestionsSent(e, d.questions)
    BY ItemEventRows
  <2> HIDE DEF e
  <2> QED BY <2>1, <2>2, QuestionsRead
<1>6. rows = AttachmentRows(d)
  BY ItemEventRows, Zenon
<1>7. /\ attachments = ReadAttachments(d)
      /\ Len(rows) <= MaxAttachments
      /\ None \notin Range(ReadAttachments(d))
      /\ (\A a \in Range(ReadAttachments(d)) : a.label # None) <=> BoundedLabels(d)
  BY <1>6, AttachmentsRead
<1>8. /\ Len(audioRows) = 1
      /\ Artifact(audioRows[1], FALSE) = ReadAll(d.audio)
      /\ ReadAll(d.audio) # None
      /\ ReadAll(d.audio).media_type = "audio/mpeg"
  <2> DEFINE r == ArtifactRow(d.audio, "audio")
  <2>1. audioRows = <<r>>
    BY ItemEventRows, Zenon
  <2>2. d.audio \in DurableArtifact /\ ValidArtifact(d.audio, FALSE) /\ d.audio.media_type = "audio/mpeg"
    BY DEF FrozenSpokenItem, ValidSpokenItem
  <2>3. /\ Artifact(r, FALSE) = ReadAll(d.audio)
        /\ ReadAll(d.audio).media_type = Bounded(d.audio.media_type)
        /\ ReadAll(d.audio) \in DurableArtifact
    BY <2>2, ArtifactRead
  <2>4. Bounded("audio/mpeg") = "audio/mpeg"
    BY DEF Bounded
  <2> HIDE DEF r, e
  <2>5. Len(<<r>>) = 1 /\ <<r>>[1] = r
    OBVIOUS
  <2>6. ReadAll(d.audio) # None
    BY <2>3, TextAssumption
  <2> QED BY <2>1, <2>2, <2>3, <2>4, <2>5, <2>6
<1> HIDE DEF e, rows, audioRows, attachments
<1>9. Parse(e) = ParseItem(e)
  BY <1>2 DEF Parse
<1>10. CASE BoundedLabels(d)
  <2>1. ParseItem(e)
          = [type |-> "item", id |-> e.id, author |-> e.author, created_at |-> e.created_at,
             agent_name |-> Optional(e, "agent"), subject |-> Unique(e, "title"),
             summary |-> Optional(e, "summary"), body |-> Bounded(e.content),
             audio |-> Artifact(audioRows[1], FALSE), attachments |-> attachments,
             questions |-> Questions(e), attach |-> Reference(e, "attach")]
    BY <1>2, <1>3, <1>4, <1>5, <1>7, <1>8, <1>10 DEF ParseItem, audioRows, attachments, rows
  <2>2. ParseItem(e) = Meant(d)
    BY <1>2, <1>3, <1>4, <1>5, <1>7, <1>8, <2>1 DEF Meant, ReadAttachments
  <2> QED BY <1>1, <1>9, <1>10, <2>2
<1>11. CASE ~BoundedLabels(d)
  <2>1. ~(\A a \in Range(attachments) : a.label # None)
    BY <1>7, <1>11
  <2>2. ParseItem(e) = None
    BY <2>1 DEF ParseItem, attachments, rows
  <2> QED BY <1>1, <1>9, <1>11, <2>2
<1> QED BY <1>10, <1>11

AnswerRows(a) ==
  [i \in DOMAIN a.answers |-> <<"answer", a.answers[i].question_id>> \o a.answers[i].values]
AnswerTags(a) ==
  << <<"tts29", "answer", "1">>, <<"e", a.root_event_id, "", "root">> >> \o AnswerRows(a)
AnswerOf(a) == GroupSend(a, a.content, AnswerTags(a))
ReadAnswer(x) ==
  [question_id |-> x.question_id, values |-> [k \in DOMAIN x.values |-> Bounded(x.values[k])]]
ReadAnswers(answers) == [i \in DOMAIN answers |-> ReadAnswer(answers[i])]

\* The values of two rows, one after the other.
LEMMA RowJoin ==
  ASSUME NEW V, NEW h \in Seq(V), NEW v \in Seq(V)
  PROVE  /\ h \o v \in Seq(V)
         /\ Len(h \o v) = Len(h) + Len(v)
         /\ \A k \in 1..Len(h) : (h \o v)[k] = h[k]
         /\ \A k \in 1..Len(v) : (h \o v)[Len(h) + k] = v[k]
OBVIOUS

\* The row of an answer to one question.
LEMMA AnswerRowType ==
  ASSUME NEW x \in QuestionAnswer
  PROVE  /\ <<"answer", x.question_id>> \o x.values \in Tag
         /\ (<<"answer", x.question_id>> \o x.values)[1] = "answer"
         /\ (<<"answer", x.question_id>> \o x.values)[2] = x.question_id
         /\ Len(<<"answer", x.question_id>> \o x.values) = Len(x.values) + 2
         /\ \A k \in 1..Len(x.values) : (<<"answer", x.question_id>> \o x.values)[k + 2] = x.values[k]
<1> DEFINE h == <<"answer", x.question_id>>
           v == x.values
<1>1. h \in Seq(Value) /\ Len(h) = 2 /\ h[1] = "answer" /\ h[2] = x.question_id
  <2>1. "answer" \in Value /\ x.question_id \in Value
    BY Values DEF Names, QuestionAnswer
  <2> QED BY <2>1
<1>2. v \in Seq(Value)
  <2>1. v \in Seq(STRING)
    BY DEF QuestionAnswer
  <2> HIDE DEF v
  <2>2. \A i \in 1..Len(v) : v[i] \in STRING
    BY <2>1
  <2>3. \A i \in 1..Len(v) : v[i] \in Value
    BY <2>2, Values
  <2>4. Len(v) \in Nat /\ v \in [1..Len(v) -> STRING]
    BY <2>1
  <2>5. v \in [1..Len(v) -> Value]
    BY <2>3, <2>4
  <2> QED BY <2>4, <2>5, FunctionIsSeq
<1> HIDE DEF h, v
<1>3. h \o v \in Seq(Value) /\ Len(h \o v) = Len(h) + Len(v)
  BY <1>1, <1>2, RowJoin
<1>4. \A k \in 1..Len(h) : (h \o v)[k] = h[k]
  BY <1>1, <1>2, RowJoin
<1>5. \A k \in 1..Len(v) : (h \o v)[Len(h) + k] = v[k]
  <2>1. h \in Seq(Value)
    BY <1>1
  <2> QED BY ONLY <1>2, <2>1, RowJoin
<1>6. Len(v) \in Nat /\ Len(h) + Len(v) = Len(v) + 2 /\ 1 \in 1..Len(h) /\ 2 \in 1..Len(h)
        /\ \A k \in 1..Len(v) : Len(h) + k = k + 2
  BY <1>1, <1>2
<1>7. /\ h \o v \in Tag
      /\ (h \o v)[1] = "answer" /\ (h \o v)[2] = x.question_id
      /\ Len(h \o v) = Len(v) + 2
      /\ \A k \in 1..Len(v) : (h \o v)[k + 2] = v[k]
  <2>1. \A k \in 1..Len(v) : (h \o v)[k + 2] = v[k]
    <3> TAKE k \in 1..Len(v)
    <3>1. Len(h) + k = k + 2 /\ (h \o v)[Len(h) + k] = v[k]
      BY <1>5, <1>6
    <3> QED BY <3>1
  <2> QED BY <1>1, <1>3, <1>4, <1>6, <2>1 DEF Tag
<1> QED BY <1>7 DEF h, v

\* The rows of the event of an answer.
LEMMA AnswerEventRows ==
  ASSUME NEW author, NEW a \in FrozenAnswer(author)
  PROVE  /\ Rows(AnswerOf(a), "h") = << <<"h", GroupId>> >>
         /\ Rows(AnswerOf(a), "tts29") = << <<"tts29", "answer", "1">> >>
         /\ Rows(AnswerOf(a), "e") = << <<"e", a.root_event_id, "", "root">> >>
         /\ Rows(AnswerOf(a), "answer") = AnswerRows(a)
         /\ AnswerRows(a) \in Seq(Tag)
<1> DEFINE m1 == <<"tts29", "answer", "1">>
           m2 == <<"e", a.root_event_id, "", "root">>
           A == AnswerRows(a)
<1>1. a.root_event_id \in Nat /\ a.answers \in Seq(QuestionAnswer)
  BY DEF FrozenAnswer
<1>2. m1 \in Tag /\ m2 \in Tag
  <2>1. /\ "tts29" \in Value /\ "answer" \in Value /\ "1" \in Value /\ "e" \in Value
        /\ "" \in Value /\ "root" \in Value /\ a.root_event_id \in Value
    BY <1>1, Values DEF Names
  <2> QED BY <2>1, TagType, Zenon
<1>3. m1[1] = "tts29" /\ m2[1] = "e"
  OBVIOUS
<1>4. A \in Seq(Tag) /\ \A i \in DOMAIN A : A[i][1] = "answer"
  <2> DEFINE N == Len(a.answers)
  <2>1. N \in Nat /\ DOMAIN a.answers = 1..N /\ \A i \in 1..N : a.answers[i] \in QuestionAnswer
    BY <1>1
  <2>2. A \in [1..N -> Tag] /\ \A i \in DOMAIN A : A[i][1] = "answer"
    BY <2>1, AnswerRowType DEF AnswerRows
  <2> HIDE DEF A, N
  <2> QED BY <2>1, <2>2, FunctionIsSeq
<1>5. AnswerTags(a) = <<m1, m2>> \o A
  BY DEF AnswerTags
<1> HIDE DEF m1, m2, A
<1> DEFINE r1 == <<m1>>
           r2 == <<m2>>
<1>6. /\ r1 \in Seq(Tag) /\ r2 \in Seq(Tag)
      /\ \A i \in DOMAIN r1 : r1[i][1] = "tts29"
      /\ \A i \in DOMAIN r2 : r2[i][1] = "e"
      /\ <<m1, m2>> = r1 \o r2
  <2>1. <<m1, m2>> = r1 \o r2
    BY <1>2, PairConcat
  <2> QED BY <1>2, <1>3, <2>1
<1> HIDE DEF r1, r2
<1> DEFINE s2 == r1 \o r2
           s3 == s2 \o A
<1>7. s2 \in Seq(Tag)
  BY <1>6
<1>8. \A n : Where(r1, 1, n) = IF n = "tts29" THEN r1 ELSE <<>>
  BY <1>6, RowsOne
<1>9. \A n : Where(s2, 1, n) = IF n = "e" THEN r2 ELSE Where(r1, 1, n)
  <2>1. Where(r1, 1, "e") = <<>>
    BY <1>8
  <2> QED BY <1>6, <2>1, RowsExtend
<1> HIDE DEF s2
<1>10. s3 \in Seq(Tag) /\ \A n : Where(s3, 1, n) = IF n = "answer" THEN A ELSE Where(s2, 1, n)
  <2>1. Where(s2, 1, "answer") = <<>>
    BY <1>8, <1>9
  <2> QED BY <1>4, <1>7, <2>1, RowsExtend
<1> HIDE DEF s3
<1>11. AnswerTags(a) = s3
  BY <1>5, <1>6 DEF s3, s2
<1>12. Where(s3, 1, "h") = <<>> /\ Where(s3, 1, "tts29") = r1 /\ Where(s3, 1, "e") = r2
         /\ Where(s3, 1, "answer") = A
  BY <1>8, <1>9, <1>10
<1> DEFINE e == GroupSend(a, a.content, s3)
<1>13. /\ Rows(e, "h") = << <<"h", GroupId>> >>
       /\ \A n : n # "h" => Rows(e, n) = Where(s3, 1, n)
  BY <1>10, <1>12, SentRows, Zenon
<1>14. "tts29" # "h" /\ "e" # "h" /\ "answer" # "h"
  OBVIOUS
<1>15. AnswerOf(a) = e
  BY <1>11 DEF AnswerOf
<1> HIDE DEF e
<1>16. Rows(e, "tts29") = r1 /\ Rows(e, "e") = r2 /\ Rows(e, "answer") = A
  BY <1>12, <1>13, <1>14, Zenon
<1> QED BY <1>4, <1>13, <1>15, <1>16, Zenon DEF r1, r2, m1, m2, A

\* A client's answer that is composed parses to itself without the blanks around its
\* values, and is an answer of its author to the item it is for.
THEOREM AnswerRoundTrip ==
  ASSUME NEW author, NEW a \in FrozenAnswer(author), ComposeAnswer(a) # None
  PROVE  /\ Parse(ComposeAnswer(a))
              = [type |-> "answer", root_id |-> a.root_event_id, event_id |-> a.id,
                 author |-> a.author, created_at |-> a.created_at, value |-> ReadAnswers(a.answers)]
         /\ Parse(ComposeAnswer(a)) \in Answer(author)
         /\ ValidAnswers(a.answers)
<1> DEFINE e == AnswerOf(a)
           rows == Rows(e, "answer")
           N == Len(a.answers)
           x(i) == a.answers[i]
           answer(row) == [question_id |-> row[2],
                           values |-> [i \in 1..(Len(row) - 2) |-> Bounded(row[i + 2])]]
<1>1. /\ a.root_event_id > 0 /\ ValidAnswers(a.answers)
      /\ ComposeAnswer(a) = e
  BY DEF ComposeAnswer, AnswerOf, AnswerTags, AnswerRows
<1>2. /\ a.root_event_id \in Nat /\ a.answers \in Seq(QuestionAnswer) /\ a.id \in Nat
      /\ a.author = author /\ a.created_at \in Nat
  BY DEF FrozenAnswer
<1>3. /\ e.kind = 9 /\ e.id = a.id /\ e.author = a.author /\ e.created_at = a.created_at
  BY DEF AnswerOf, GroupSend
<1>4. GroupMatches(e)
  BY AnswerEventRows, Zenon DEF GroupMatches
<1>5. Marker(e) = "answer"
  <2> DEFINE r == <<"tts29", "answer", "1">>
  <2>1. Rows(e, "tts29") = <<r>>
    BY AnswerEventRows, Zenon
  <2>2. Len(r) = 3 /\ r[3] = "1" /\ r[2] = "answer"
    OBVIOUS
  <2> HIDE DEF r
  <2>3. Len(<<r>>) = 1 /\ <<r>>[1] = r
    OBVIOUS
  <2> HIDE DEF e
  <2> QED BY <2>1, <2>2, <2>3 DEF Marker
<1>6. RootEvent(e) = a.root_event_id /\ a.root_event_id # None
  <2> DEFINE r == <<"e", a.root_event_id, "", "root">>
  <2>1. Rows(e, "e") = <<r>>
    BY AnswerEventRows, Zenon
  <2>2. Len(r) = 4 /\ r[4] = "root" /\ r[2] = a.root_event_id /\ r[3] = ""
    OBVIOUS
  <2> HIDE DEF r, e
  <2>3. Len(<<r>>) = 1 /\ <<r>>[1] = r
    OBVIOUS
  <2>4. a.root_event_id # None
    BY <1>2, TextAssumption
  <2> QED BY <1>1, <2>1, <2>2, <2>3, <2>4 DEF RootEvent, Reference
<1>7. rows = AnswerRows(a)
  BY AnswerEventRows, Zenon
<1>8. N \in Nat /\ DOMAIN a.answers = 1..N /\ \A i \in 1..N : x(i) \in QuestionAnswer
  BY <1>2
<1>9. DOMAIN rows = 1..N /\ Len(rows) = N
  <2>1. DOMAIN AnswerRows(a) = 1..N
    BY <1>8 DEF AnswerRows
  <2>2. AnswerRows(a) \in Seq(Tag)
    BY AnswerEventRows
  <2> QED BY <1>7, <1>8, <2>1, <2>2
<1>10. ASSUME NEW i \in 1..N
       PROVE  /\ Len(rows[i]) = Len(x(i).values) + 2
              /\ rows[i][2] = x(i).question_id
              /\ \A k \in 1..Len(x(i).values) : rows[i][k + 2] = x(i).values[k]
  <2>1. rows[i] = <<"answer", x(i).question_id>> \o x(i).values
    BY <1>7, <1>8 DEF AnswerRows
  <2> HIDE DEF x
  <2>2. x(i) \in QuestionAnswer
    BY <1>8
  <2> QED BY <2>1, <2>2, AnswerRowType
<1>11. /\ N \in 1..MaxQuestions
       /\ \A i \in 1..N : /\ x(i).question_id \in Identifiers
                          /\ Len(x(i).values) \in 1..MaxOptions
                          /\ \A k \in 1..Len(x(i).values) : Bounded(x(i).values[k]) # None
       /\ \A i, j \in 1..N : x(i).question_id = x(j).question_id => i = j
  <2>1. \A i \in 1..N : x(i) \in Range(a.answers)
    BY <1>8 DEF Range
  <2>2. ASSUME NEW i \in 1..N, NEW k \in 1..Len(x(i).values) PROVE x(i).values[k] \in Range(x(i).values)
    <3>1. x(i).values \in Seq(STRING)
      BY <1>8 DEF QuestionAnswer
    <3> QED BY <3>1 DEF Range
  <2> QED BY <1>1, <1>8, <2>1, <2>2 DEF ValidAnswers, Distinct, IsInjective, Column
<1>12. ASSUME NEW i \in 1..N
       PROVE  /\ answer(rows[i]) = ReadAnswer(x(i))
              /\ ReadAnswer(x(i)) \in QuestionAnswer
  <2>1. x(i).values \in Seq(STRING) /\ x(i).question_id \in STRING
    BY <1>8 DEF QuestionAnswer
  <2> DEFINE v == x(i).values
             M == Len(v)
  <2>2. M \in Nat /\ DOMAIN v = 1..M /\ Len(rows[i]) - 2 = M
    BY <1>10, <2>1
  <2>3. \A k \in 1..M : rows[i][k + 2] = v[k]
    BY <1>10
  <2>4. \A k \in 1..M : Bounded(v[k]) \in STRING
    <3>1. \A k \in 1..M : v[k] \in STRING /\ Bounded(v[k]) # None
      BY <1>11, <2>1
    <3> HIDE DEF M, v
    <3> QED BY <3>1, BoundedType
  <2> HIDE DEF x, rows, M, v
  <2>5. [k \in 1..(Len(rows[i]) - 2) |-> Bounded(rows[i][k + 2])] = [k \in DOMAIN v |-> Bounded(v[k])]
    BY <2>2, <2>3
  <2>6. [k \in DOMAIN v |-> Bounded(v[k])] \in [1..M -> STRING]
    BY <2>2, <2>4
  <2>7. [k \in DOMAIN v |-> Bounded(v[k])] \in Seq(STRING)
    BY <2>2, <2>6, FunctionIsSeq
  <2> QED BY <1>10, <2>1, <2>5, <2>7 DEF ReadAnswer, QuestionAnswer, v
<1> HIDE DEF rows, e, x
<1> DEFINE value == [i \in DOMAIN rows |-> answer(rows[i])]
<1>13. value = ReadAnswers(a.answers) /\ value \in Seq(QuestionAnswer)
  <2>1. value = ReadAnswers(a.answers)
    BY <1>8, <1>9, <1>12 DEF ReadAnswers, x
  <2>2. value \in [1..N -> QuestionAnswer]
    BY <1>9, <1>12
  <2>3. value \in Seq(QuestionAnswer)
    <3> HIDE DEF value, N
    <3> QED BY <1>8, <2>2, FunctionIsSeq
  <2> QED BY <2>1, <2>3
<1>14. ASSUME NEW row \in Range(rows)
       PROVE  /\ Len(row) \in 3..(MaxOptions + 2)
              /\ row[2] \in Identifiers
              /\ \A i \in 3..Len(row) : Bounded(row[i]) # None
  <2>1. PICK i \in 1..N : row = rows[i]
    BY <1>9, <1>14 DEF Range
  <2> DEFINE M == Len(x(i).values)
  <2>2. M \in 1..MaxOptions /\ Len(row) = M + 2 /\ row[2] \in Identifiers
    BY <1>10, <1>11, <2>1
  <2>3. ASSUME NEW j \in 3..Len(row) PROVE Bounded(row[j]) # None
    <3>1. j - 2 \in 1..M /\ (j - 2) + 2 = j
      BY <2>2, <2>3, BoundsAssumption
    <3>2. rows[i][(j - 2) + 2] = x(i).values[j - 2]
      BY <1>10, <3>1
    <3> QED BY <1>11, <2>1, <3>1, <3>2
  <2>4. Len(row) \in 3..(MaxOptions + 2)
    <3> HIDE DEF M
    <3> QED BY <2>2, BoundsAssumption
  <2> QED BY <2>2, <2>3, <2>4
<1>15. Distinct(Column(rows, 2))
  BY <1>9, <1>10, <1>11 DEF Distinct, IsInjective, Column
<1>16. value # None
  BY <1>13, TextAssumption
<1>17. ParseAnswer(e) = Related(e, value, "answer")
  <2>1. Len(rows) \in 1..MaxQuestions
    BY <1>9, <1>11
  <2> QED BY <1>14, <1>15, <2>1 DEF ParseAnswer, rows
<1> HIDE DEF value
<1>18. Parse(e) = ParseAnswer(e)
  BY <1>3, <1>4, <1>5 DEF Parse
<1>19. Parse(e) = [type |-> "answer", root_id |-> a.root_event_id, event_id |-> a.id,
                   author |-> a.author, created_at |-> a.created_at, value |-> value]
  BY <1>3, <1>6, <1>16, <1>17, <1>18 DEF Related
<1>20. Parse(e) \in Answer(author)
  BY <1>2, <1>13, <1>19 DEF Answer
<1> QED BY <1>1, <1>13, <1>19, <1>20

\* The questions that are read accept the answers that the frozen ones accept: ids and
\* kinds are the same, and so are the ids of the options.
LEMMA MeantQuestionsAccept ==
  ASSUME NEW qs \in Seq(Question), ValidQuestions(qs), NEW answers
  PROVE  ValidAnswer(MeantQuestions(qs), answers) <=> ValidAnswer(qs, answers)
<1> DEFINE ms == MeantQuestions(qs)
           Ids(q) == {o.id : o \in Range(q.options)}
<1>1. ASSUME NEW i \in DOMAIN qs
      PROVE  /\ ms[i].id = qs[i].id
             /\ ms[i].kind = qs[i].kind
             /\ Ids(ms[i]) = Ids(qs[i])
  <2> DEFINE os == qs[i].options
             mo == ms[i].options
  <2>1. ms[i] = MeantQuestion(qs[i])
    BY DEF MeantQuestions
  <2>2. ms[i].id = qs[i].id /\ ms[i].kind = qs[i].kind
    BY <2>1 DEF MeantQuestion
  <2>3. mo = [k \in DOMAIN os |-> ReadAll(os[k])]
    BY <2>1 DEF MeantQuestion
  <2>4. os \in Seq(QuestionOption) /\ \A k \in DOMAIN os : os[k].id \in Identifiers
    <3>1. qs[i] \in Question /\ \A k \in DOMAIN qs[i].options : qs[i].options[k].id \in Identifiers
      BY ValidQuestion
    <3> QED BY <3>1 DEF Question
  <2> HIDE DEF os, mo
  <2>5. ASSUME NEW k \in DOMAIN os PROVE mo[k].id = os[k].id
    <3>1. os[k] \in QuestionOption
      BY <2>4
    <3>2. mo[k].id = Read(os[k].id)
      BY <2>3, <3>1 DEF ReadAll, QuestionOption
    <3>3. Read(os[k].id) = os[k].id
      BY <2>4, BoundedType DEF Read
    <3> QED BY <3>2, <3>3
  <2>6. DOMAIN mo = DOMAIN os
    BY <2>3
  <2>7. {o.id : o \in Range(mo)} = {o.id : o \in Range(os)}
    BY <2>5, <2>6 DEF Range
  <2> QED BY <2>2, <2>7 DEF mo, os
<1>2. DOMAIN ms = DOMAIN qs
  BY DEF MeantQuestions
<1> HIDE DEF ms, Ids
<1> DEFINE Takes(q, answer) ==
             /\ q.id = answer.question_id
             /\ Distinct(answer.values)
             /\ q.kind \in {"single", "freeform"} => Len(answer.values) = 1
             /\ Choice(q.kind) => Range(answer.values) \subseteq Ids(q)
<1>3. \A i \in DOMAIN qs : \A answer : Takes(ms[i], answer) <=> Takes(qs[i], answer)
  BY <1>1
<1>4. \A answer : (\E q \in Range(ms) : Takes(q, answer)) <=> (\E q \in Range(qs) : Takes(q, answer))
  <2> HIDE DEF Takes
  <2> QED BY <1>2, <1>3 DEF Range
<1>5. ValidAnswer(ms, answers) <=> ValidAnswer(qs, answers)
  <2>1. ASSUME NEW ps
        PROVE  ValidAnswer(ps, answers) <=>
                 /\ Len(answers) \in 1..MaxQuestions
                 /\ Distinct(Column(answers, "question_id"))
                 /\ \A answer \in Range(answers) : \E q \in Range(ps) : Takes(q, answer)
    BY DEF ValidAnswer, Ids
  <2> HIDE DEF Takes
  <2> QED BY <1>4, <2>1
<1> QED BY <1>5 DEF ms

\* Reading an answer changes no choice and no number of values, so that the answer that
\* is read is as valid as the one that was given.
LEMMA ReadAnswersAccepted ==
  ASSUME NEW qs \in Seq(Question), ValidQuestions(qs),
         NEW answers \in Seq(QuestionAnswer), ValidAnswer(qs, answers)
  PROVE  ValidAnswer(qs, ReadAnswers(answers))
<1> DEFINE ra == ReadAnswers(answers)
           N == Len(answers)
           Ids(q) == {o.id : o \in Range(q.options)}
           Takes(q, answer) ==
             /\ q.id = answer.question_id
             /\ Distinct(answer.values)
             /\ q.kind \in {"single", "freeform"} => Len(answer.values) = 1
             /\ Choice(q.kind) => Range(answer.values) \subseteq Ids(q)
<1>1. N \in Nat /\ DOMAIN answers = 1..N /\ \A i \in 1..N : answers[i] \in QuestionAnswer
  OBVIOUS
<1>2. DOMAIN ra = 1..N /\ \A i \in 1..N : ra[i] = ReadAnswer(answers[i])
  BY <1>1 DEF ReadAnswers
<1>3. Len(ra) = N
  BY <1>1, <1>2
<1>4. \A i \in 1..N : ra[i].question_id = answers[i].question_id
  BY <1>2 DEF ReadAnswer
<1>5. /\ Len(answers) \in 1..MaxQuestions
      /\ Distinct(Column(answers, "question_id"))
      /\ \A answer \in Range(answers) : \E q \in Range(qs) : Takes(q, answer)
  BY DEF ValidAnswer
<1>6. Distinct(Column(ra, "question_id"))
  <2>1. \A i, j \in 1..N : answers[i].question_id = answers[j].question_id => i = j
    BY <1>1, <1>5 DEF Distinct, IsInjective, Column
  <2> HIDE DEF ra, N
  <2> QED BY <1>2, <1>4, <2>1 DEF Distinct, IsInjective, Column
<1>7. ASSUME NEW i \in 1..N PROVE \E q \in Range(qs) : Takes(q, ra[i])
  <2> DEFINE v == answers[i].values
             w == ra[i].values
             M == Len(v)
  <2>1. PICK q \in Range(qs) : Takes(q, answers[i])
    <3>1. answers[i] \in Range(answers)
      BY <1>1 DEF Range
    <3> HIDE DEF Takes
    <3> QED BY <1>5, <3>1
  <2>2. v \in Seq(STRING)
    BY <1>1 DEF QuestionAnswer
  <2>3. M \in Nat /\ DOMAIN v = 1..M
    BY <2>2
  <2>4. w = [k \in DOMAIN v |-> Bounded(v[k])]
    BY <1>2 DEF ReadAnswer
  <2>5. DOMAIN w = 1..M /\ Len(w) = M
    BY <2>3, <2>4
  <2>6. PICK j \in DOMAIN qs : q = qs[j]
    BY <2>1 DEF Range
  <2>7. /\ q \in Question
        /\ \A k \in DOMAIN q.options : q.options[k].id \in Identifiers
    BY <2>6, ValidQuestion
  <2>8. \A x \in Ids(q) : x \in Identifiers
    BY <2>7 DEF Range
  <2>9. Distinct(v) /\ (q.kind \in {"single", "freeform"} => M = 1)
          /\ (Choice(q.kind) => Range(v) \subseteq Ids(q)) /\ q.id = answers[i].question_id
    BY <2>1
  <2>10. q.kind \in {"single", "freeform"} \/ Choice(q.kind)
    BY <2>7 DEF Question, Kinds, Choice
  <2> HIDE DEF v, w, M, Ids, ra
  <2>11. ASSUME Choice(q.kind) PROVE w = v
    <3>1. \A k \in 1..M : v[k] \in Range(v)
      BY <2>3 DEF Range
    <3>2. \A k \in 1..M : Bounded(v[k]) = v[k]
      BY <2>8, <2>9, <2>11, <3>1, BoundedType
    <3>3. v = [k \in DOMAIN v |-> v[k]]
      BY <2>2
    <3> QED BY <2>3, <2>4, <3>2, <3>3
  <2>12. Distinct(w)
    <3>1. CASE Choice(q.kind)
      BY <2>9, <2>11, <3>1
    <3>2. CASE q.kind \in {"single", "freeform"}
      <4>1. DOMAIN w = 1..1
        BY <2>5, <2>9, <3>2
      <4> QED BY <4>1 DEF Distinct, IsInjective
    <3> QED BY <2>10, <3>1, <3>2
  <2>13. Choice(q.kind) => Range(w) \subseteq Ids(q)
    BY <2>9, <2>11
  <2>14. q.kind \in {"single", "freeform"} => Len(w) = 1
    BY <2>5, <2>9
  <2>15. q.id = ra[i].question_id
    BY <1>4, <2>9
  <2>16. Takes(q, ra[i])
    BY <2>12, <2>13, <2>14, <2>15 DEF w
  <2> HIDE DEF Takes
  <2> QED BY <2>1, <2>16
<1>8. \A answer \in Range(ra) : \E q \in Range(qs) : Takes(q, answer)
  <2> HIDE DEF Takes, ra
  <2> QED BY <1>2, <1>7 DEF Range
<1>9. Len(ra) \in 1..MaxQuestions
  BY <1>3, <1>5
<1> HIDE DEF ra
<1>10. ValidAnswer(qs, ra)
  BY <1>6, <1>8, <1>9 DEF ValidAnswer
<1> QED BY <1>10 DEF ra

\* A parsed event is an item with the event's id and time, or one that is related to an
\* item, with the event's id, author and time.
LEMMA ParseTypes ==
  ASSUME NEW e
  PROVE  LET p == Parse(e)
         IN  \/ p = None
             \/ p.type = "item" /\ p.id = e.id /\ p.created_at = e.created_at
             \/ /\ p.type \in {"answer", "ack", "reaction"}
                /\ p.event_id = e.id /\ p.author = e.author /\ p.created_at = e.created_at
<1> DEFINE Good(p) ==
             \/ p = None
             \/ p.type = "item" /\ p.id = e.id /\ p.created_at = e.created_at
             \/ /\ p.type \in {"answer", "ack", "reaction"}
                /\ p.event_id = e.id /\ p.author = e.author /\ p.created_at = e.created_at
<1>1. Good(ParseItem(e))
  BY DEF ParseItem
<1>2. ASSUME NEW value, NEW type \in {"answer", "ack", "reaction"} PROVE Good(Related(e, value, type))
  <2>1. CASE value = None \/ RootEvent(e) = None
    BY <2>1 DEF Related
  <2>2. CASE ~(value = None \/ RootEvent(e) = None)
    BY <2>2 DEF Related
  <2> QED BY <2>1, <2>2
<1>3. Good(None)
  OBVIOUS
<1> HIDE DEF Good
<1>4. Good(ParseAnswer(e))
  BY <1>2 DEF ParseAnswer
<1>5. Good(ParseAcknowledgement(e))
  BY <1>2 DEF ParseAcknowledgement
<1>6. Good(ParseReaction(e))
  BY <1>2 DEF ParseReaction
<1>7. Good(Parse(e))
  BY <1>1, <1>3, <1>4, <1>5, <1>6 DEF Parse
<1> QED BY <1>7 DEF Good
=============================================================================
