------------------------------ MODULE Recursion ------------------------------
(***************************************************************************)
(* Induction and recursion over numbers without an operator parameter: a   *)
(* set of numbers has a least one, so what holds of a number if it holds   *)
(* of those below holds of all, and what a function is to be at a number,  *)
(* given what it is at the one before, defines it.                         *)
(***************************************************************************)
EXTENDS Integers, SequencesExt, WellFoundedInduction, TLAPS

Less == {pair \in Nat \X Nat : pair[1] < pair[2]}

(* There is no endless way down.                                           *)
LEMMA LessIsWellFounded == IsWellFoundedOn(Less, Nat)
BY NatLessThanWellFounded DEF OpToRel, Less

(* The least-number principle.                                             *)
LEMMA LeastNumber ==
  ASSUME NEW T, T \subseteq Nat, T # {}
  PROVE  \E n \in T : \A m \in T : n <= m
<1>1. PICK n \in T : \A m \in T : ~(<<m, n>> \in Less)
  BY LessIsWellFounded, WFMin
<1>2. ASSUME NEW m \in T  PROVE n <= m
  <2>1. ~(<<m, n>> \in Less) /\ n \in Nat /\ m \in Nat
    BY <1>1
  <2>2. ~(m < n)
    BY <2>1, SMT DEF Less
  <2>. QED
    BY <2>1, <2>2
<1>. QED
  BY <1>2

(* A set of numbers that has 0 and, with one below n, the next has all up  *)
(* to n.                                                                   *)
LEMMA UpTo ==
  ASSUME NEW n \in Nat, NEW T, 0 \in T,
         \A i \in 0 .. n - 1 : i \in T => i + 1 \in T
  PROVE  0 .. n \subseteq T
<1> DEFINE Out == (0 .. n) \ T
<1> SUFFICES ASSUME Out # {} PROVE FALSE
  OBVIOUS
<1>1. PICK k \in Out : \A i \in Out : k <= i
  BY LeastNumber, Out \subseteq Nat
<1>2. k \in 1 .. n /\ k \notin T
  BY <1>1
<1>3. k - 1 \in 0 .. n - 1 /\ k - 1 \notin Out /\ (k - 1) + 1 = k
  BY <1>1, <1>2
<1>4. k - 1 \in T
  BY <1>3
<1>. QED
  BY <1>2, <1>3, <1>4

(* From c, f[i] is what F makes of i and f[i - 1].                         *)
Recurs(f, n, c, F) ==
  f[0] = c /\ \A i \in 1 .. n : f[i] = F[<<i, f[i - 1]>>]

(* There is such a function.                                               *)
LEMMA ByRecursion ==
  ASSUME NEW X, NEW n \in Nat, NEW c \in X, NEW F,
         \A i \in 1 .. n : \A x \in X : F[<<i, x>>] \in X
  PROVE  \E f \in [0 .. n -> X] : Recurs(f, n, c, F)
<1> USE DEF Recurs
<1> DEFINE Up(k, f) == Recurs(f, k, c, F)
           T == {k \in 0 .. n : \E f \in [0 .. k -> X] : Up(k, f)}
<1>1. 0 \in T
  <2>1. [i \in 0 .. 0 |-> c] \in [0 .. 0 -> X]
    OBVIOUS
  <2>2. Up(0, [i \in 0 .. 0 |-> c])
    OBVIOUS
  <2>3. \E f \in [0 .. 0 -> X] : Up(0, f)
    BY <2>1, <2>2, Zenon
  <2>4. 0 \in 0 .. n
    OBVIOUS
  <2> HIDE DEF Up
  <2>. QED
    BY <2>3, <2>4
<1>2. ASSUME NEW k \in 0 .. n - 1, k \in T  PROVE k + 1 \in T
  <2>1. PICK f \in [0 .. k -> X] : Up(k, f)
    BY <1>2
  <2> DEFINE g == [i \in 0 .. k + 1 |->
                     IF i <= k THEN f[i] ELSE F[<<k + 1, f[k]>>]]
  <2>2. f[k] \in X /\ k + 1 \in 1 .. n
    BY <2>1
  <2>3. F[<<k + 1, f[k]>>] \in X
    BY <2>2
  <2>4. g \in [0 .. k + 1 -> X]
    BY <2>1, <2>3
  <2>5. /\ \A i \in 0 .. k : g[i] = f[i]
        /\ g[k + 1] = F[<<k + 1, f[k]>>]
    OBVIOUS
  <2> HIDE DEF g
  <2>6. g[0] = c
    BY <2>1, <2>5
  <2>7. ASSUME NEW i \in 1 .. k + 1  PROVE g[i] = F[<<i, g[i - 1]>>]
    <3>1. CASE i <= k
      <4>1. i \in 1 .. k /\ i \in 0 .. k /\ i - 1 \in 0 .. k
        BY <3>1
      <4>. QED
        BY <2>1, <2>5, <4>1
    <3>2. CASE ~(i <= k)
      <4>1. i = k + 1 /\ i - 1 = k /\ k \in 0 .. k
        BY <3>2
      <4>. QED
        BY <2>5, <4>1
    <3>. QED
      BY <3>1, <3>2
  <2>8. k + 1 \in 0 .. n
    OBVIOUS
  <2>. QED
    BY <2>4, <2>6, <2>7, <2>8
<1>3. 0 .. n \subseteq T
  BY <1>1, <1>2, UpTo
<1>4. n \in T
  BY <1>3
<1>. QED
  BY <1>4

-----------------------------------------------------------------------------
(* A walk goes on from x to next[x] until it comes to a place in Stop, and *)
(* gives what is in out there.  m[x] is a bound on how far it is.          *)

Walks(f, D, Stop, out, next) ==
  f = [x \in D |-> IF x \in Stop THEN out[x] ELSE f[next[x]]]

Ahead(D, Stop, next, n, m) ==
  \A x \in D : /\ m[x] \in 0 .. n
               /\ x \notin Stop => next[x] \in D /\ m[next[x]] < m[x]

(* X[x] has what a walk from x gives at once, and what one gives that goes *)
(* on from there.                                                          *)
Holds(X, D, Stop, out, next) ==
  /\ \A x \in D \cap Stop : out[x] \in X[x]
  /\ \A x \in D \ Stop : X[next[x]] \subseteq X[x]

(* There is a function that says what each walk gives ...                  *)
LEMMA WalkIsDefined ==
  ASSUME NEW D, NEW Stop, NEW out, NEW next, NEW n \in Nat, NEW m,
         Ahead(D, Stop, next, n, m)
  PROVE  \E f : Walks(f, D, Stop, out, next)
<1> DEFINE Step(f) == [x \in D |-> IF x \in Stop THEN out[x] ELSE f[next[x]]]
           T == {k \in 0 .. n + 1 :
                   \E f : \A x \in D : m[x] < k => f[x] = Step(f)[x]}
<1>0. ASSUME NEW x \in D
      PROVE  /\ m[x] \in Int /\ m[x] < n + 1 /\ 0 <= m[x]
             /\ x \notin Stop => next[x] \in D /\ m[next[x]] < m[x]
  BY DEF Ahead
<1>1. 0 \in T
  <2>1. \A x \in D : ~(m[x] < 0)
    BY <1>0
  <2>. QED
    BY <2>1
<1>2. ASSUME NEW k \in 0 .. n, k \in T  PROVE k + 1 \in T
  <2>1. PICK f : \A x \in D : m[x] < k => f[x] = Step(f)[x]
    BY <1>2
  <2> DEFINE g == Step(f)
  <2>2. ASSUME NEW x \in D, m[x] < k + 1  PROVE g[x] = Step(g)[x]
    <3>1. CASE x \in Stop
      BY <3>1
    <3>2. CASE x \notin Stop
      <4>1. next[x] \in D /\ m[next[x]] < k
        BY <1>0, <2>2, <3>2
      <4>2. f[next[x]] = g[next[x]]
        BY <2>1, <4>1
      <4>3. g[x] = f[next[x]] /\ Step(g)[x] = g[next[x]]
        BY <3>2
      <4>. QED
        BY <4>2, <4>3
    <3>. QED
      BY <3>1, <3>2
  <2> HIDE DEF g
  <2>3. k + 1 \in 0 .. n + 1
    OBVIOUS
  <2>. QED
    BY <2>2, <2>3
<1>3. 0 .. n + 1 \subseteq T
  <2>1. n + 1 \in Nat /\ (n + 1) - 1 = n
    OBVIOUS
  <2> HIDE DEF T
  <2>. QED
    BY <1>1, <1>2, <2>1, UpTo
<1>4. PICK f : \A x \in D : m[x] < n + 1 => f[x] = Step(f)[x]
  <2>1. n + 1 \in T
    BY <1>3
  <2>. QED
    BY <2>1
<1> DEFINE g == [x \in D |-> f[x]]
<1>5. ASSUME NEW x \in D  PROVE g[x] = Step(g)[x]
  BY <1>0, <1>4
<1>6. g = Step(g)
  <2>1. Step(g) = [x \in D |-> Step(g)[x]]
    OBVIOUS
  <2>. QED
    BY <1>5, <2>1
<1>. QED
  BY <1>6 DEF Walks

(* ... and what it gives for x is in X[x].                                 *)
LEMMA WalkEndsIn ==
  ASSUME NEW D, NEW Stop, NEW out, NEW next, NEW n \in Nat, NEW m,
         Ahead(D, Stop, next, n, m), NEW f, Walks(f, D, Stop, out, next),
         NEW X, Holds(X, D, Stop, out, next)
  PROVE  \A x \in D : f[x] \in X[x]
<1> USE DEF Holds
<1> DEFINE T == {k \in 0 .. n + 1 : \A x \in D : m[x] < k => f[x] \in X[x]}
<1>0. ASSUME NEW x \in D
      PROVE  /\ m[x] \in Int /\ m[x] < n + 1 /\ 0 <= m[x]
             /\ x \notin Stop => next[x] \in D /\ m[next[x]] < m[x]
  BY DEF Ahead
<1>1. 0 \in T
  BY <1>0
<1>2. ASSUME NEW k \in 0 .. n, k \in T  PROVE k + 1 \in T
  <2>1. ASSUME NEW x \in D, m[x] < k + 1  PROVE f[x] \in X[x]
    <3>1. f[x] = IF x \in Stop THEN out[x] ELSE f[next[x]]
      BY DEF Walks
    <3>2. CASE x \notin Stop
      <4>1. next[x] \in D /\ m[next[x]] < k
        BY <1>0, <2>1, <3>2
      <4>. QED
        BY <1>2, <3>1, <3>2, <4>1
    <3>. QED
      BY <3>1, <3>2
  <2>. QED
    BY <2>1
<1>3. 0 .. n + 1 \subseteq T
  <2>1. n + 1 \in Nat /\ (n + 1) - 1 = n
    OBVIOUS
  <2> HIDE DEF T
  <2>. QED
    BY <1>1, <1>2, <2>1, UpTo
<1>4. n + 1 \in T
  BY <1>3
<1>. QED
  BY <1>0, <1>4

-----------------------------------------------------------------------------
(* The places a walk comes by, from x on, up to the one in Stop.           *)

Enlists(f, D, Stop, next) ==
  f = [x \in D |-> IF x \in Stop THEN <<>> ELSE <<x>> \o f[next[x]]]

(* There is a function that lists them ...                                 *)
LEMMA ListIsDefined ==
  ASSUME NEW D, NEW Stop, NEW next, NEW n \in Nat, NEW m,
         Ahead(D, Stop, next, n, m)
  PROVE  \E f : Enlists(f, D, Stop, next)
<1> DEFINE Step(f) == [x \in D |-> IF x \in Stop THEN <<>>
                                   ELSE <<x>> \o f[next[x]]]
           T == {k \in 0 .. n + 1 :
                   \E f : \A x \in D : m[x] < k => f[x] = Step(f)[x]}
<1>0. ASSUME NEW x \in D
      PROVE  /\ m[x] \in Int /\ m[x] < n + 1 /\ 0 <= m[x]
             /\ x \notin Stop => next[x] \in D /\ m[next[x]] < m[x]
  BY DEF Ahead
<1>1. 0 \in T
  <2>1. \A x \in D : ~(m[x] < 0)
    BY <1>0
  <2>. QED
    BY <2>1
<1>2. ASSUME NEW k \in 0 .. n, k \in T  PROVE k + 1 \in T
  <2>1. PICK f : \A x \in D : m[x] < k => f[x] = Step(f)[x]
    BY <1>2
  <2> DEFINE g == Step(f)
  <2>2. ASSUME NEW x \in D, m[x] < k + 1  PROVE g[x] = Step(g)[x]
    <3>1. CASE x \in Stop
      BY <3>1
    <3>2. CASE x \notin Stop
      <4>1. next[x] \in D /\ m[next[x]] < k
        BY <1>0, <2>2, <3>2
      <4>2. f[next[x]] = g[next[x]]
        BY <2>1, <4>1
      <4>3. g[x] = <<x>> \o f[next[x]] /\ Step(g)[x] = <<x>> \o g[next[x]]
        BY <3>2
      <4>. QED
        BY <4>2, <4>3
    <3>. QED
      BY <3>1, <3>2
  <2> HIDE DEF g
  <2>3. k + 1 \in 0 .. n + 1
    OBVIOUS
  <2>. QED
    BY <2>2, <2>3
<1>3. 0 .. n + 1 \subseteq T
  <2>1. n + 1 \in Nat /\ (n + 1) - 1 = n
    OBVIOUS
  <2> HIDE DEF T
  <2>. QED
    BY <1>1, <1>2, <2>1, UpTo
<1>4. PICK f : \A x \in D : m[x] < n + 1 => f[x] = Step(f)[x]
  <2>1. n + 1 \in T
    BY <1>3
  <2>. QED
    BY <2>1
<1> DEFINE g == [x \in D |-> f[x]]
<1>5. ASSUME NEW x \in D  PROVE g[x] = Step(g)[x]
  BY <1>0, <1>4
<1>6. g = Step(g)
  <2>1. Step(g) = [x \in D |-> Step(g)[x]]
    OBVIOUS
  <2>. QED
    BY <1>5, <2>1
<1>. QED
  BY <1>6 DEF Enlists

(* s is a walk from x on: from each place to the next, and behind the last *)
(* is one in Stop.                                                         *)
IsListFrom(s, x, D, Stop, next) ==
  /\ s \in Seq(D \ Stop)
  /\ s = <<>> => x \in Stop
  /\ s # <<>> => s[1] = x /\ next[s[Len(s)]] \in Stop
  /\ \A i \in 1 .. Len(s) - 1 : s[i + 1] = next[s[i]]

(* A list with its first element in front.                                 *)
LEMMA ListGoesOn ==
  ASSUME NEW D, NEW Stop, NEW next, NEW x \in D \ Stop, NEW s,
         IsListFrom(s, next[x], D, Stop, next)
  PROVE  IsListFrom(<<x>> \o s, x, D, Stop, next)
<1> DEFINE t == <<x>> \o s
           S == D \ Stop
<1>1. s \in Seq(S) /\ Len(s) \in Nat
  BY DEF IsListFrom
<1>2. x \in S
  OBVIOUS
<1>3. /\ t \in Seq(S) /\ Len(t) = Len(s) + 1 /\ t[1] = x
      /\ \A i \in 2 .. Len(s) + 1 : t[i] = s[i - 1]
  <2> HIDE DEF S
  <2>. QED
    BY <1>1, <1>2
<1>4. t # <<>>
  <2> HIDE DEF t, S
  <2>1. Len(t) # 0
    BY <1>1, <1>3
  <2>. QED
    BY <2>1
<1> HIDE DEF t
<1>5. CASE s = <<>>
  <2>1. Len(s) = 0 /\ next[x] \in Stop
    BY <1>5 DEF IsListFrom
  <2>2. next[t[Len(t)]] \in Stop
    BY <1>3, <2>1
  <2>3. \A i \in 1 .. Len(t) - 1 : t[i + 1] = next[t[i]]
    BY <1>3, <2>1
  <2>4. IsListFrom(t, x, D, Stop, next)
    BY <1>3, <1>4, <2>2, <2>3 DEF IsListFrom
  <2>. QED
    BY <2>4 DEF t
<1>6. CASE s # <<>>
  <2>1. /\ s[1] = next[x] /\ next[s[Len(s)]] \in Stop
        /\ \A i \in 1 .. Len(s) - 1 : s[i + 1] = next[s[i]]
    BY <1>6 DEF IsListFrom
  <2>2. Len(s) >= 1
    <3> HIDE DEF S
    <3>1. Len(s) # 0
      BY <1>1, <1>6
    <3>. QED
      BY <1>1, <3>1
  <2>3. t[Len(t)] = s[Len(s)]
    <3>1. Len(t) \in 2 .. Len(s) + 1 /\ Len(t) - 1 = Len(s)
      BY <1>1, <1>3, <2>2
    <3>. QED
      BY <1>3, <3>1
  <2>4. ASSUME NEW i \in 1 .. Len(t) - 1  PROVE t[i + 1] = next[t[i]]
    <3>1. i + 1 \in 2 .. Len(s) + 1 /\ (i + 1) - 1 = i
      BY <1>1, <1>3
    <3>2. t[i + 1] = s[i]
      BY <1>3, <3>1
    <3>3. CASE i = 1
      BY <1>3, <2>1, <3>2, <3>3
    <3>4. CASE i # 1
      <4>1. i \in 2 .. Len(s) + 1 /\ i - 1 \in 1 .. Len(s) - 1 /\ (i - 1) + 1 = i
        BY <1>1, <1>3, <3>4
      <4>2. t[i] = s[i - 1] /\ s[(i - 1) + 1] = next[s[i - 1]]
        BY <1>3, <2>1, <4>1
      <4>. QED
        BY <3>2, <4>1, <4>2
    <3>. QED
      BY <3>3, <3>4
  <2>5. IsListFrom(t, x, D, Stop, next)
    BY <1>3, <1>4, <2>1, <2>3, <2>4 DEF IsListFrom
  <2>. QED
    BY <2>5 DEF t
<1>. QED
  BY <1>5, <1>6

(* ... and no other places.                                                *)
LEMMA ListIs ==
  ASSUME NEW D, NEW Stop, NEW next, NEW n \in Nat, NEW m,
         Ahead(D, Stop, next, n, m), NEW f, Enlists(f, D, Stop, next)
  PROVE  \A x \in D : IsListFrom(f[x], x, D, Stop, next)
<1> DEFINE T == {k \in 0 .. n + 1 :
                   \A x \in D : m[x] < k => IsListFrom(f[x], x, D, Stop, next)}
<1>0. ASSUME NEW x \in D
      PROVE  /\ m[x] \in Int /\ m[x] < n + 1 /\ 0 <= m[x]
             /\ x \notin Stop => next[x] \in D /\ m[next[x]] < m[x]
  BY DEF Ahead
<1>1. 0 \in T
  BY <1>0
<1>2. ASSUME NEW k \in 0 .. n, k \in T  PROVE k + 1 \in T
  <2>1. ASSUME NEW x \in D, m[x] < k + 1
        PROVE  IsListFrom(f[x], x, D, Stop, next)
    <3>1. f[x] = IF x \in Stop THEN <<>> ELSE <<x>> \o f[next[x]]
      BY DEF Enlists
    <3>2. CASE x \in Stop
      <4>1. f[x] = <<>>
        BY <3>1, <3>2
      <4>. QED
        BY <3>2, <4>1 DEF IsListFrom
    <3>3. CASE x \notin Stop
      <4>1. next[x] \in D /\ m[next[x]] < k
        BY <1>0, <2>1, <3>3
      <4>2. IsListFrom(f[next[x]], next[x], D, Stop, next)
        BY <1>2, <4>1
      <4>3. f[x] = <<x>> \o f[next[x]]
        BY <3>1, <3>3
      <4>. QED
        BY <3>3, <4>2, <4>3, ListGoesOn
    <3>. QED
      BY <3>2, <3>3
  <2>2. k + 1 \in 0 .. n + 1
    OBVIOUS
  <2>. QED
    BY <2>1, <2>2
<1>3. 0 .. n + 1 \subseteq T
  <2>1. n + 1 \in Nat /\ (n + 1) - 1 = n
    OBVIOUS
  <2> HIDE DEF T
  <2>. QED
    BY <1>1, <1>2, <2>1, UpTo
<1>4. n + 1 \in T
  BY <1>3
<1>. QED
  BY <1>0, <1>4

-----------------------------------------------------------------------------
(* FlattenSeq puts sequences one behind the other.                         *)

(* FlattenSeq, without its recursion.                                      *)
LEMMA FlattenIs ==
  ASSUME NEW seqs, Len(seqs) \in Nat \ {0}, NEW f, f[1] = seqs[1],
         \A i \in 2 .. Len(seqs) : f[i] = f[i - 1] \o seqs[i]
  PROVE  FlattenSeq(seqs) = f[Len(seqs)]
<1> DEFINE n == Len(seqs)
           Body(g) == [i \in 1 .. n |->
                         IF i = 1 THEN seqs[i] ELSE g[i - 1] \o seqs[i]]
           flatten == CHOOSE g : g = Body(g)
           h == [i \in 1 .. n |-> f[i]]
<1>1. FlattenSeq(seqs) = flatten[n]
  BY DEF FlattenSeq
<1>2. h = Body(h)
  <2>1. ASSUME NEW i \in 1 .. n  PROVE h[i] = Body(h)[i]
    <3>1. CASE i = 1
      BY <3>1
    <3>2. CASE i # 1
      <4>1. i \in 2 .. n /\ i - 1 \in 1 .. n
        BY <3>2
      <4>. QED
        BY <3>2, <4>1
    <3>. QED
      BY <3>1, <3>2
  <2>. QED
    BY <2>1
<1>3. flatten = Body(flatten)
  BY <1>2
<1> HIDE DEF flatten
<1> DEFINE T == {i \in Nat : i + 1 \in 1 .. n => flatten[i + 1] = f[i + 1]}
<1>4. 0 \in T
  BY <1>3
<1>5. ASSUME NEW i \in 0 .. n - 1, i \in T  PROVE i + 1 \in T
  <2>1. i + 1 \in 1 .. n /\ flatten[i + 1] = f[i + 1]
    BY <1>5
  <2>2. ASSUME (i + 1) + 1 \in 1 .. n
        PROVE  flatten[(i + 1) + 1] = f[(i + 1) + 1]
    <3> DEFINE j == (i + 1) + 1
    <3>1. j \in 2 .. n /\ j \in 1 .. n /\ j # 1 /\ j - 1 = i + 1
      BY <2>2
    <3>2. flatten[j] = flatten[j - 1] \o seqs[j]
      BY <1>3, <3>1
    <3>3. f[j] = f[j - 1] \o seqs[j]
      BY <3>1
    <3>. QED
      BY <2>1, <3>1, <3>2, <3>3
  <2>. QED
    BY <2>2
<1>6. 0 .. n \subseteq T
  BY <1>4, <1>5, UpTo
<1>7. n - 1 \in 0 .. n /\ (n - 1) + 1 = n /\ n \in 1 .. n
  OBVIOUS
<1>8. n - 1 \in T
  BY <1>6, <1>7
<1>. QED
  BY <1>1, <1>7, <1>8

(* A sequence put behind others comes behind what they flatten to.         *)
LEMMA FlattenAppend ==
  ASSUME NEW S, NEW seqs \in Seq(Seq(S)), NEW t \in Seq(S)
  PROVE  /\ FlattenSeq(seqs) \in Seq(S)
         /\ FlattenSeq(Append(seqs, t)) = FlattenSeq(seqs) \o t
<1> DEFINE n == Len(seqs)
           all == Append(seqs, t)
           X == Seq(S)
           F == [q \in (1 .. n + 1) \X X |-> q[2] \o all[q[1]]]
<1>1. n \in Nat /\ <<>> \in X
  OBVIOUS
<1>2. /\ all \in Seq(X) /\ Len(all) = n + 1 /\ all[n + 1] = t
      /\ \A i \in 1 .. n : all[i] = seqs[i]
  OBVIOUS
<1>3. \A i \in 1 .. n + 1 : all[i] \in X
  BY <1>1, <1>2
<1> HIDE DEF all
<1>4. \A i \in 1 .. n + 1 : \A s \in X : F[<<i, s>>] = s \o all[i]
  OBVIOUS
<1>5. \A i \in 1 .. n + 1 : \A s \in X : F[<<i, s>>] \in X
  <2>1. ASSUME NEW i \in 1 .. n + 1, NEW s \in X  PROVE s \o all[i] \in X
    BY <1>3
  <2> HIDE DEF F, X
  <2>. QED
    BY <1>4, <2>1
<1> HIDE DEF F, X
<1>6. PICK f \in [0 .. n + 1 -> X] :
        f[0] = <<>> /\ \A i \in 1 .. n + 1 : f[i] = F[<<i, f[i - 1]>>]
  <2> DEFINE m == n + 1
             none == <<>>
  <2>1. /\ m \in Nat /\ none \in X
        /\ \A i \in 1 .. m : \A s \in X : F[<<i, s>>] \in X
    BY <1>1, <1>5
  <2> HIDE DEF m, none, n
  <2>2. \E f \in [0 .. m -> X] : Recurs(f, m, none, F)
    BY <2>1, ByRecursion
  <2>. QED
    BY <2>2 DEF m, none, Recurs
<1>7. ASSUME NEW i \in 1 .. n + 1  PROVE f[i] = f[i - 1] \o all[i]
  <2>1. i - 1 \in 0 .. n + 1
    BY <1>1
  <2>2. f[i - 1] \in X
    BY <2>1, <1>6
  <2>. QED
    BY <1>4, <1>6, <2>2
<1>8. f[1] = all[1]
  <2>1. f[1] = f[0] \o all[1]
    <3>1. 1 \in 1 .. n + 1 /\ 1 - 1 = 0
      BY <1>1
    <3>2. f[1] = f[1 - 1] \o all[1]
      BY <1>7, <3>1
    <3>. QED
      BY <3>1, <3>2
  <2>2. all[1] \in Seq(S)
    BY <1>1, <1>3 DEF X
  <2>. QED
    BY <1>6, <2>1, <2>2
<1>9. FlattenSeq(all) = f[n + 1]
  <2>1. Len(all) \in Nat \ {0}
    BY <1>1, <1>2
  <2>2. ASSUME NEW i \in 2 .. Len(all)  PROVE f[i] = f[i - 1] \o all[i]
    <3>1. i \in 1 .. n + 1
      BY <1>1, <1>2
    <3>. QED
      BY <1>7, <3>1
  <2>. QED
    BY <1>2, <1>8, <2>1, <2>2, FlattenIs
<1>10. FlattenSeq(seqs) = f[n]
  <2>1. CASE n = 0
    <3>1. FlattenSeq(seqs) = seqs /\ seqs = <<>>
      BY <2>1 DEF FlattenSeq
    <3>. QED
      BY <1>6, <2>1, <3>1
  <2>2. CASE n # 0
    <3>1. Len(seqs) \in Nat \ {0} /\ 1 \in 1 .. n
      BY <1>1, <2>2
    <3>3. f[1] = seqs[1]
      BY <1>2, <1>8, <3>1
    <3>2. ASSUME NEW i \in 2 .. Len(seqs)
          PROVE  f[i] = f[i - 1] \o seqs[i]
      <4>1. i \in 1 .. n + 1 /\ i \in 1 .. n
        BY <1>1
      <4>. QED
        BY <1>2, <1>7, <4>1
    <3>. QED
      BY <3>1, <3>2, <3>3, FlattenIs
  <2>. QED
    BY <2>1, <2>2
<1>11. f[n] \in Seq(S)
  BY <1>1, <1>6 DEF X
<1>12. f[n + 1] = f[n] \o t
  <2>1. n + 1 \in 1 .. n + 1 /\ (n + 1) - 1 = n
    BY <1>1
  <2>. QED
    BY <1>2, <1>7, <2>1
<1>. QED
  BY <1>9, <1>10, <1>11, <1>12 DEF all
=============================================================================
