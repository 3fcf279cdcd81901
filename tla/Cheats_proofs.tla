---------------------------- MODULE Cheats_proofs ----------------------------
(***************************************************************************)
(* Proofs about Cheats.  What the two loops of the model compute (Picked,  *)
(* TypedApplied) is proved by induction on the numbers, stated with sets:  *)
(* a set of numbers with zero, and with every number's successor, is Nat.  *)
(***************************************************************************)
EXTENDS Cheats, SequenceTheorems, FiniteSetTheorems, WellFoundedInduction, TLAPS

----------------------------------------------------------------------------
(* Numbers and recursive functions.                                        *)

\* A set of natural numbers that is not empty has a least one.
LEMMA LeastNumber ==
    ASSUME NEW T \in SUBSET Nat, T # {}
    PROVE  \E x \in T : \A y \in T : x <= y
<1>1. PICK x \in T : \A y \in T : ~ (<<y, x>> \in OpToRel(<, Nat))
  BY WFMin, NatLessThanWellFounded
<1>2. \A y \in T : ~ (y < x)
  BY <1>1 DEF OpToRel
<1>3. QED
  BY <1>2

\* Induction up to n, over a set.
LEMMA Induction ==
    ASSUME NEW n \in Nat, NEW T,
           0 \in T, \A k \in 1 .. n : k - 1 \in T => k \in T
    PROVE  0 .. n \subseteq T
<1>1. SUFFICES ASSUME (0 .. n) \ T # {} PROVE FALSE
  OBVIOUS
<1> DEFINE U == (0 .. n) \ T
<1>2. PICK x \in U : \A y \in U : x <= y
  <2>1. U \in SUBSET Nat /\ U # {}
    BY <1>1
  <2> HIDE DEF U
  <2>2. QED
    BY <2>1, LeastNumber
<1>3. x \in 1 .. n /\ x - 1 \in (0 .. n) /\ ~ (x <= x - 1)
  BY <1>2
<1>4. QED
  BY <1>2, <1>3

\* f starts at b and goes on by steps, up to n.
GoesOn(f, n, b, step) == f[0] = b /\ \A k \in 1 .. n : f[k] = step[<<k, f[k - 1]>>]

\* There is such a function, whatever the step.
LEMMA StepsExist ==
    ASSUME NEW n \in Nat, NEW V, NEW b \in V, NEW step \in [(1 .. n) \X V -> V]
    PROVE  \E f \in [0 .. n -> V] : GoesOn(f, n, b, step)
<1> USE DEF GoesOn
<1> DEFINE Is(f, m) == GoesOn(f, m, b, step)
<1> DEFINE T == {m \in 0 .. n : \E f \in [0 .. n -> V] : Is(f, m)}
<1>1. 0 \in T
  <2>1. [k \in 0 .. n |-> b] \in [0 .. n -> V] /\ Is([k \in 0 .. n |-> b], 0)
    OBVIOUS
  <2>2. \E f \in [0 .. n -> V] : Is(f, 0)
    BY <2>1
  <2>3. QED
    BY <2>2
<1>2. ASSUME NEW m \in 1 .. n, m - 1 \in T
      PROVE  m \in T
  <2>1. PICK f \in [0 .. n -> V] : Is(f, m - 1)
    BY <1>2
  <2> DEFINE g == [f EXCEPT ![m] = step[<<m, f[m - 1]>>]]
  <2>2. m - 1 \in 0 .. n /\ f[m - 1] \in V /\ step[<<m, f[m - 1]>>] \in V
    OBVIOUS
  <2>3. g \in [0 .. n -> V]
    BY <2>2
  <2>4. g[0] = b
    BY <2>1
  <2>5. ASSUME NEW k \in 1 .. m
        PROVE  g[k] = step[<<k, g[k - 1]>>]
    <3>1. k \in 0 .. n /\ k - 1 \in 0 .. n /\ k - 1 # m
      OBVIOUS
    <3>2. g[k - 1] = f[k - 1]
      BY <3>1
    <3>3. CASE k = m
      BY <3>1, <3>2, <3>3
    <3>4. CASE k # m
      <4>1. k \in 1 .. m - 1
        BY <3>4
      <4>2. f[k] = step[<<k, f[k - 1]>>]
        BY <2>1, <4>1
      <4>3. QED
        BY <4>2, <3>2, <3>1, <3>4
    <3>5. QED
      BY <3>3, <3>4
  <2>6. Is(g, m)
    BY <2>4, <2>5
  <2>7. \E h \in [0 .. n -> V] : Is(h, m)
    <3> HIDE DEF Is, g
    <3>1. QED
      BY <2>3, <2>6
  <2>8. m \in 0 .. n
    OBVIOUS
  <2>9. QED
    BY <2>7, <2>8
<1>3. n \in T
  <2> HIDE DEF T
  <2>1. 0 .. n \subseteq T
    BY <1>1, <1>2, Induction
  <2>2. QED
    BY <2>1
<1>4. QED
  BY <1>3

----------------------------------------------------------------------------
(* What the loops leave.                                                   *)

\* f is what Picked() has after each member.
Picking(f, s, I) ==
    /\ f[0] = <<>>
    /\ \A k \in 1 .. Len(s) : f[k] = IF k \in I THEN Append(f[k - 1], s[k]) ELSE f[k - 1]
    /\ Picked(s, I) = f[Len(s)]

\* Picked() goes through the sequence member by member.
LEMMA PickedRuns ==
    ASSUME NEW S, NEW s \in Seq(S), NEW I
    PROVE  \E f \in [0 .. Len(s) -> Seq(S)] : Picking(f, s, I)
<1> DEFINE n == Len(s)
           V == Seq(S)
           empty == <<>>
           Runs(f) == f = [k \in 0 .. n |-> IF k = 0 THEN <<>>
                                           ELSE IF k \in I THEN Append(f[k - 1], s[k]) ELSE f[k - 1]]
           step == [p \in (1 .. n) \X V |-> IF p[1] \in I THEN Append(p[2], s[p[1]]) ELSE p[2]]
           f == CHOOSE h : Runs(h)
<1>1. n \in Nat /\ empty \in V /\ (\A k \in 1 .. n : s[k] \in S) /\ 0 \in 0 .. n
  OBVIOUS
<1>2. \A v \in V, k \in 1 .. n : Append(v, s[k]) \in V
  BY <1>1, AppendProperties
<1>3. \A k \in 1 .. n : k \in 0 .. n /\ k - 1 \in 0 .. n /\ k # 0
  BY <1>1
<1>4. Picked(s, I) = f[n]
  BY DEF Picked
<1> HIDE DEF n, V
<1>5. step \in [(1 .. n) \X V -> V]
  BY <1>2
<1>6. PICK g \in [0 .. n -> V] : g[0] = empty /\ \A k \in 1 .. n : g[k] = step[<<k, g[k - 1]>>]
  <2>1. \E g \in [0 .. n -> V] : GoesOn(g, n, empty, step)
    <3> HIDE DEF step, empty
    <3>1. QED
      BY <1>1, <1>5, StepsExist
  <2>2. QED
    BY <2>1 DEF GoesOn
<1>7. \A k \in 1 .. n : g[k] = IF k \in I THEN Append(g[k - 1], s[k]) ELSE g[k - 1]
  <2>1. ASSUME NEW k \in 1 .. n PROVE <<k, g[k - 1]>> \in (1 .. n) \X V
    BY <1>3
  <2>2. QED
    BY <2>1, <1>6
<1>8. Runs(g)
  <2>1. ASSUME NEW k \in 0 .. n
        PROVE  g[k] = IF k = 0 THEN <<>> ELSE IF k \in I THEN Append(g[k - 1], s[k]) ELSE g[k - 1]
    <3>1. CASE k = 0
      BY <3>1, <1>6
    <3>2. CASE k # 0
      <4>1. k \in 1 .. n
        BY <3>2, <1>1
      <4>2. QED
        BY <4>1, <3>2, <1>7
    <3>3. QED
      BY <3>1, <3>2
  <2>2. QED
    BY <2>1
<1>9. Runs(f)
  <2> HIDE DEF Runs
  <2>1. QED
    BY <1>8
<1> HIDE DEF f
<1>10. f[0] = <<>> /\ DOMAIN f = 0 .. n
  BY <1>9, <1>1
<1>11. \A k \in 1 .. n : f[k] = IF k \in I THEN Append(f[k - 1], s[k]) ELSE f[k - 1]
  BY <1>9, <1>3
<1>12. \A k \in 0 .. n : f[k] \in V
  <2> DEFINE T == {k \in 0 .. n : f[k] \in V}
  <2>1. 0 \in T
    BY <1>1, <1>10
  <2>2. ASSUME NEW k \in 1 .. n, k - 1 \in T
        PROVE  k \in T
    BY <2>2, <1>2, <1>3, <1>11
  <2>3. 0 .. n \subseteq T
    <3> HIDE DEF T
    <3>1. QED
      BY <1>1, <2>1, <2>2, Induction
  <2>4. QED
    BY <2>3
<1>13. f \in [0 .. n -> V]
  <2>1. f = [k \in 0 .. n |-> f[k]]
    BY <1>9
  <2>2. QED
    BY <2>1, <1>12
<1>14. \E h \in [0 .. n -> V] :
          /\ h[0] = <<>>
          /\ \A k \in 1 .. n : h[k] = IF k \in I THEN Append(h[k - 1], s[k]) ELSE h[k - 1]
          /\ Picked(s, I) = h[n]
  BY <1>13, <1>10, <1>11, <1>4
<1>15. QED
  BY <1>14 DEF n, V, Picking

\* "at" says where in s, up to k, the members of r come from: from all the
\* places in I, each once.
ComesFrom(r, s, I, k, at) ==
    /\ at \in [1 .. Len(r) -> Nat]
    /\ \A i \in 1 .. Len(r) : at[i] \in I /\ at[i] \in 1 .. k /\ r[i] = s[at[i]]
    /\ \A i, j \in 1 .. Len(r) : i # j => at[i] # at[j]
    /\ \A p \in 1 .. k : p \in I => \E i \in 1 .. Len(r) : at[i] = p

\* One more place, not picked.
LEMMA ComesFromSkip ==
    ASSUME NEW S, NEW r \in Seq(S), NEW s, NEW I, NEW k \in Nat \ {0}, k \notin I, NEW at,
           ComesFrom(r, s, I, k - 1, at)
    PROVE  ComesFrom(r, s, I, k, at)
<1>1. Len(r) \in Nat
  OBVIOUS
<1>2. \A p : p \in 1 .. k - 1 => p \in 1 .. k
  OBVIOUS
<1>3. \A p \in 1 .. k : p \in I => p \in 1 .. k - 1
  OBVIOUS
<1>4. QED
  BY <1>1, <1>2, <1>3 DEF ComesFrom

\* One more place, picked.
LEMMA ComesFromAppend ==
    ASSUME NEW S, NEW r \in Seq(S), NEW s \in Seq(S), NEW I, NEW k \in 1 .. Len(s), k \in I, NEW at,
           ComesFrom(r, s, I, k - 1, at)
    PROVE  \E to : ComesFrom(Append(r, s[k]), s, I, k, to)
<1> DEFINE n == Len(r)
           q == Append(r, s[k])
           to == [i \in 1 .. n + 1 |-> IF i = n + 1 THEN k ELSE at[i]]
<1>1. n \in Nat /\ k \in Nat /\ s[k] \in S
  OBVIOUS
<1>2. /\ Len(q) = n + 1
      /\ \A i \in 1 .. n : q[i] = r[i]
      /\ q[n + 1] = s[k]
  BY <1>1, AppendProperties
<1>3. /\ at \in [1 .. n -> Nat]
      /\ \A i \in 1 .. n : at[i] \in I /\ at[i] \in 1 .. k - 1 /\ r[i] = s[at[i]]
      /\ \A i, j \in 1 .. n : i # j => at[i] # at[j]
      /\ \A p \in 1 .. k - 1 : p \in I => \E i \in 1 .. n : at[i] = p
  BY DEF ComesFrom
<1> HIDE DEF n, q
<1>4. \A i \in 1 .. n + 1 : i = n + 1 \/ (i \in 1 .. n /\ i # n + 1)
  BY <1>1
<1>5. n + 1 \in 1 .. n + 1 /\ \A i \in 1 .. n : i \in 1 .. n + 1 /\ i # n + 1
  BY <1>1
<1>6. to[n + 1] = k /\ \A i \in 1 .. n : to[i] = at[i]
  BY <1>5
<1>7. to \in [1 .. n + 1 -> Nat]
  BY <1>1, <1>3, <1>4
<1> HIDE DEF to
<1>8. \A i \in 1 .. n + 1 : to[i] \in I /\ to[i] \in 1 .. k /\ q[i] = s[to[i]]
  <2>1. \A p \in 1 .. k - 1 : p \in 1 .. k
    BY <1>1
  <2>2. k \in 1 .. k
    BY <1>1
  <2>3. QED
    BY <2>1, <2>2, <1>2, <1>3, <1>4, <1>6
<1>9. \A i, j \in 1 .. n + 1 : i # j => to[i] # to[j]
  <2>1. k \notin 1 .. k - 1
    BY <1>1
  <2>2. QED
    BY <2>1, <1>3, <1>4, <1>6
<1>10. \A p \in 1 .. k : p \in I => \E i \in 1 .. n + 1 : to[i] = p
  <2>1. \A p \in 1 .. k : p = k \/ p \in 1 .. k - 1
    BY <1>1
  <2>2. QED
    BY <2>1, <1>3, <1>5, <1>6
<1>11. ComesFrom(q, s, I, k, to)
  BY <1>2, <1>7, <1>8, <1>9, <1>10 DEF ComesFrom
<1>12. QED
  BY <1>11 DEF q

\* What is picked are the members at the places, and no place twice.
LEMMA PickedIsSound ==
    ASSUME NEW S, NEW s \in Seq(S), NEW I
    PROVE  /\ Picked(s, I) \in Seq(S)
           /\ \E at : ComesFrom(Picked(s, I), s, I, Len(s), at)
<1> DEFINE n == Len(s)
<1>1. PICK f \in [0 .. n -> Seq(S)] :
         /\ f[0] = <<>>
         /\ \A k \in 1 .. n : f[k] = IF k \in I THEN Append(f[k - 1], s[k]) ELSE f[k - 1]
         /\ Picked(s, I) = f[n]
  <2>1. \E f \in [0 .. Len(s) -> Seq(S)] : Picking(f, s, I)
    BY PickedRuns
  <2>2. QED
    BY <2>1 DEF Picking
<1>2. n \in Nat /\ n \in 0 .. n
  OBVIOUS
<1> DEFINE T == {k \in 0 .. n : \E at : ComesFrom(f[k], s, I, k, at)}
<1>3. 0 \in T
  <2>1. Len(f[0]) = 0
    BY <1>1
  <2>2. ComesFrom(f[0], s, I, 0, [i \in 1 .. 0 |-> 0])
    BY <2>1 DEF ComesFrom
  <2>3. 0 \in 0 .. n
    BY <1>2
  <2>4. QED
    BY <2>2, <2>3
<1>4. ASSUME NEW k \in 1 .. n, k - 1 \in T
      PROVE  k \in T
  <2>1. k \in 0 .. n /\ k - 1 \in 0 .. n /\ k \in Nat \ {0}
    BY <1>2
  <2>2. PICK at : ComesFrom(f[k - 1], s, I, k - 1, at)
    BY <1>4
  <2>3. f[k - 1] \in Seq(S)
    BY <2>1
  <2>4. CASE k \in I
    <3>1. \E to : ComesFrom(Append(f[k - 1], s[k]), s, I, k, to)
      <4> HIDE DEF T
      <4>1. QED
        BY <2>2, <2>3, <2>4, ComesFromAppend
    <3>2. f[k] = Append(f[k - 1], s[k])
      BY <1>1, <2>4
    <3>3. QED
      BY <2>1, <3>1, <3>2
  <2>5. CASE k \notin I
    <3>1. ComesFrom(f[k - 1], s, I, k, at)
      <4> HIDE DEF T
      <4>1. QED
        BY <2>1, <2>2, <2>3, <2>5, ComesFromSkip
    <3>2. f[k] = f[k - 1]
      BY <1>1, <2>5
    <3>3. QED
      BY <2>1, <3>1, <3>2
  <2>6. QED
    BY <2>4, <2>5
<1>5. n \in T
  <2> HIDE DEF T, n
  <2>1. 0 .. n \subseteq T
    BY <1>2, <1>3, <1>4, Induction
  <2>2. QED
    BY <2>1, <1>2
<1>6. f[n] \in Seq(S)
  BY <1>2
<1>7. QED
  BY <1>1, <1>5, <1>6

----------------------------------------------------------------------------
(* Lists of cheats.                                                        *)

Distinct(s) == \A i, j \in DOMAIN s : i # j => ~ SameName(s[i].name, s[j].name)
FoldedNames(s) == {Fold[s[i].name] : i \in DOMAIN s}

\* A typed cheat is laid over at most one group, the first of its name.
LEMMA FirstOfGroup ==
    ASSUME NEW s \in Seq(Shown), NEW n, Group(s, n) # {}
    PROVE  LET i == CHOOSE k \in Group(s, n) : \A j \in Group(s, n) : k <= j
           IN  i \in DOMAIN s /\ SameName(s[i].name, n)
<1>1. Group(s, n) \in SUBSET Nat
  BY DEF Group
<1>2. \E k \in Group(s, n) : \A j \in Group(s, n) : k <= j
  BY <1>1, LeastNumber
<1> DEFINE i == CHOOSE k \in Group(s, n) : \A j \in Group(s, n) : k <= j
<1>3. i \in Group(s, n)
  BY <1>2
<1> HIDE DEF i
<1>4. i \in DOMAIN s /\ SameName(s[i].name, n)
  BY <1>3 DEF Group
<1>5. QED
  BY <1>4 DEF i

\* A typed cheat laid over a list leaves a list.
LEMMA WithTypedType ==
    ASSUME NEW s \in Seq(Shown), NEW n \in Names, NEW c \in DOMAIN Lines
    PROVE  WithTyped(s, n, c) \in Seq(Shown)
<1>1. CASE Group(s, n) = {}
  <2>1. [name |-> n, code |-> c, on |-> FALSE] \in Shown
    BY DEF Shown
  <2>2. WithTyped(s, n, c) = Append(s, [name |-> n, code |-> c, on |-> FALSE])
    BY <1>1 DEF WithTyped
  <2>3. QED
    BY <2>1, <2>2, AppendProperties
<1>2. CASE Group(s, n) # {}
  <2> DEFINE i == CHOOSE k \in Group(s, n) : \A j \in Group(s, n) : k <= j
  <2>1. i \in DOMAIN s
    BY <1>2, FirstOfGroup
  <2>2. WithTyped(s, n, c) = [s EXCEPT ![i].code = c]
    BY <1>2 DEF WithTyped
  <2> HIDE DEF i
  <2>3. s[i] \in Shown
    BY <2>1
  <2>4. [s[i] EXCEPT !.code = c] \in Shown
    BY <2>3 DEF Shown
  <2>5. [s EXCEPT ![i] = [s[i] EXCEPT !.code = c]] \in Seq(Shown)
    BY <2>1, <2>4, ExceptSeq
  <2>6. QED
    BY <2>2, <2>5
<1>3. QED
  BY <1>1, <1>2

\* What WithTyped() makes of a list without doubles: the cheat has the lines
\* typed, the rest is as it was, and nothing is ticked that was not.
Overlaid(r, s, n, c) ==
    /\ Distinct(r)
    /\ FoldedNames(r) = FoldedNames(s) \cup {Fold[n]}
    /\ \A i \in DOMAIN r : IF SameName(r[i].name, n) THEN r[i].code = c ELSE \E j \in DOMAIN s : r[i] = s[j]
    /\ \A i \in DOMAIN r : r[i].on => \E j \in DOMAIN s : s[j].name = r[i].name /\ s[j].on

\* So it does.
LEMMA WithTypedOverlays ==
    ASSUME NEW s \in Seq(Shown), NEW n \in Names, NEW c \in DOMAIN Lines, Distinct(s)
    PROVE  Overlaid(WithTyped(s, n, c), s, n, c)
<1> DEFINE r == WithTyped(s, n, c)
<1>1. CASE Group(s, n) = {}
  <2> DEFINE x == [name |-> n, code |-> c, on |-> FALSE]
  <2>1. x \in Shown /\ x.name = n /\ x.code = c /\ x.on = FALSE
    BY DEF Shown
  <2>2. r = Append(s, x)
    BY <1>1 DEF WithTyped
  <2>3. \A j \in DOMAIN s : ~ SameName(s[j].name, n)
    BY <1>1 DEF Group
  <2> HIDE DEF x, r
  <2> DEFINE l == Len(s)
  <2>4. l \in Nat /\ DOMAIN s = 1 .. l
    OBVIOUS
  <2>5. DOMAIN r = 1 .. l + 1 /\ r[l + 1] = x /\ \A i \in 1 .. l : r[i] = s[i]
    BY <2>1, <2>2, AppendProperties
  <2> HIDE DEF l
  <2>6. \A i \in DOMAIN r : i = l + 1 \/ i \in DOMAIN s
    BY <2>4, <2>5
  <2>7. l + 1 \in DOMAIN r /\ \A i \in DOMAIN s : i \in DOMAIN r /\ i # l + 1
    BY <2>4, <2>5
  <2>8. \A i \in DOMAIN s : r[i] = s[i]
    BY <2>4, <2>5
  <2>9. Distinct(r)
    BY <2>1, <2>3, <2>5, <2>6, <2>8 DEF Distinct, SameName
  <2>10. FoldedNames(r) = FoldedNames(s) \cup {Fold[n]}
    BY <2>1, <2>5, <2>6, <2>7, <2>8 DEF FoldedNames
  <2>11. \A i \in DOMAIN r : IF SameName(r[i].name, n) THEN r[i].code = c ELSE \E j \in DOMAIN s : r[i] = s[j]
    BY <2>1, <2>3, <2>5, <2>6, <2>8 DEF SameName
  <2>12. \A i \in DOMAIN r : r[i].on => \E j \in DOMAIN s : s[j].name = r[i].name /\ s[j].on
    BY <2>1, <2>5, <2>6, <2>8
  <2>13. QED
    BY <2>9, <2>10, <2>11, <2>12 DEF Overlaid, r
<1>2. CASE Group(s, n) # {}
  <2> DEFINE i == CHOOSE k \in Group(s, n) : \A j \in Group(s, n) : k <= j
  <2>1. i \in DOMAIN s /\ SameName(s[i].name, n)
    BY <1>2, FirstOfGroup
  <2>2. r = [s EXCEPT ![i].code = c]
    BY <1>2 DEF WithTyped
  <2> HIDE DEF i, r
  <2>3. DOMAIN r = DOMAIN s /\ r[i] = [s[i] EXCEPT !.code = c] /\ \A j \in DOMAIN s : j # i => r[j] = s[j]
    BY <2>1, <2>2
  <2>4. s[i] \in Shown
    BY <2>1
  <2>5. r[i].name = s[i].name /\ r[i].code = c /\ r[i].on = s[i].on
    BY <2>3, <2>4 DEF Shown
  <2>6. \A j \in DOMAIN s : r[j].name = s[j].name /\ r[j].on = s[j].on
    BY <2>3, <2>5
  <2>7. Distinct(r)
    BY <2>3, <2>6 DEF Distinct
  <2>8. FoldedNames(r) = FoldedNames(s) \cup {Fold[n]}
    <3>1. FoldedNames(r) = FoldedNames(s)
      BY <2>3, <2>6 DEF FoldedNames
    <3>2. Fold[n] = Fold[s[i].name]
      BY <2>1 DEF SameName
    <3>3. QED
      BY <3>1, <3>2, <2>1 DEF FoldedNames
  <2>9. \A j \in DOMAIN r : IF SameName(r[j].name, n) THEN r[j].code = c ELSE \E k \in DOMAIN s : r[j] = s[k]
    <3>1. \A j \in DOMAIN s : j # i => ~ SameName(s[j].name, n)
      BY <2>1 DEF Distinct, SameName
    <3>2. QED
      BY <3>1, <2>1, <2>3, <2>5, <2>6
  <2>10. \A j \in DOMAIN r : r[j].on => \E k \in DOMAIN s : s[k].name = r[j].name /\ s[k].on
    BY <2>3, <2>6
  <2>11. QED
    BY <2>7, <2>8, <2>9, <2>10 DEF Overlaid, r
<1>3. QED
  BY <1>1, <1>2

\* One record of the table laid over the list.
Laid(acc, g, r) == IF r.game = g THEN WithTyped(acc, r.name, r.code) ELSE acc

\* f is what TypedApplied() has after each record.
Laying(f, s, g) ==
    /\ f[0] = s
    /\ \A k \in 1 .. Len(table) : f[k] = Laid(f[k - 1], g, table[k])
    /\ TypedApplied(s, g) = f[Len(table)]

\* A record laid over a list leaves a list.
LEMMA LaidType ==
    ASSUME NEW acc \in Seq(Shown), NEW g, NEW r \in Kept
    PROVE  Laid(acc, g, r) \in Seq(Shown)
<1>1. r.name \in Names /\ r.code \in DOMAIN Lines
  BY DEF Kept
<1>2. QED
  BY <1>1, WithTypedType DEF Laid

\* TypedApplied() goes through the table record by record.
LEMMA TypedApplies ==
    ASSUME NEW s \in Seq(Shown), NEW g, table \in Seq(Kept)
    PROVE  \E f \in [0 .. Len(table) -> Seq(Shown)] : Laying(f, s, g)
<1> DEFINE n == Len(table)
           V == Seq(Shown)
           Lays(f) == f = [k \in 0 .. n |-> IF k = 0 THEN s
                             ELSE IF table[k].game = g THEN WithTyped(f[k - 1], table[k].name, table[k].code)
                             ELSE f[k - 1]]
           step == [p \in (1 .. n) \X V |-> Laid(p[2], g, table[p[1]])]
           f == CHOOSE h : Lays(h)
<1>1. n \in Nat /\ s \in V /\ (\A k \in 1 .. n : table[k] \in Kept) /\ 0 \in 0 .. n
  OBVIOUS
<1>2. \A v \in V, k \in 1 .. n : Laid(v, g, table[k]) \in V
  BY <1>1, LaidType
<1>3. \A k \in 1 .. n : k \in 0 .. n /\ k - 1 \in 0 .. n /\ k # 0
  BY <1>1
<1>4. TypedApplied(s, g) = f[n]
  BY DEF TypedApplied
<1> HIDE DEF n, V
<1>5. step \in [(1 .. n) \X V -> V]
  BY <1>2
<1>6. PICK h \in [0 .. n -> V] : h[0] = s /\ \A k \in 1 .. n : h[k] = step[<<k, h[k - 1]>>]
  <2>1. \E h \in [0 .. n -> V] : GoesOn(h, n, s, step)
    <3> HIDE DEF step
    <3>1. QED
      BY <1>1, <1>5, StepsExist
  <2>2. QED
    BY <2>1 DEF GoesOn
<1>7. \A k \in 1 .. n : h[k] = Laid(h[k - 1], g, table[k])
  <2>1. ASSUME NEW k \in 1 .. n PROVE <<k, h[k - 1]>> \in (1 .. n) \X V
    BY <1>3
  <2>2. QED
    BY <2>1, <1>6
<1>8. Lays(h)
  <2>1. ASSUME NEW k \in 0 .. n
        PROVE  h[k] = IF k = 0 THEN s
                      ELSE IF table[k].game = g THEN WithTyped(h[k - 1], table[k].name, table[k].code)
                      ELSE h[k - 1]
    <3>1. CASE k = 0
      BY <3>1, <1>6
    <3>2. CASE k # 0
      <4>1. k \in 1 .. n
        BY <3>2, <1>1
      <4>2. QED
        BY <4>1, <3>2, <1>7 DEF Laid
    <3>3. QED
      BY <3>1, <3>2
  <2>2. QED
    BY <2>1
<1>9. Lays(f)
  <2> HIDE DEF Lays
  <2>1. QED
    BY <1>8
<1> HIDE DEF f
<1>10. f[0] = s /\ DOMAIN f = 0 .. n
  BY <1>9, <1>1
<1>11. \A k \in 1 .. n : f[k] = Laid(f[k - 1], g, table[k])
  BY <1>9, <1>3 DEF Laid
<1>12. \A k \in 0 .. n : f[k] \in V
  <2> DEFINE T == {k \in 0 .. n : f[k] \in V}
  <2>1. 0 \in T
    BY <1>1, <1>10
  <2>2. ASSUME NEW k \in 1 .. n, k - 1 \in T
        PROVE  k \in T
    BY <2>2, <1>2, <1>3, <1>11
  <2>3. 0 .. n \subseteq T
    <3> HIDE DEF T
    <3>1. QED
      BY <1>1, <2>1, <2>2, Induction
  <2>4. QED
    BY <2>3
<1>13. f \in [0 .. n -> V]
  <2>1. f = [k \in 0 .. n |-> f[k]]
    BY <1>9
  <2>2. QED
    BY <2>1, <1>12
<1>14. \E h2 \in [0 .. n -> V] : Laying(h2, s, g)
  BY <1>13, <1>10, <1>11, <1>4 DEF Laying, n
<1>15. QED
  BY <1>14 DEF n, V

\* What the game's first k records make of the list s: each cheat either has
\* the lines of a record of its name or is as it was and has none.
OverlaidUpTo(r, s, g, k) ==
    /\ Distinct(r)
    /\ FoldedNames(r) = FoldedNames(s) \cup {Fold[table[j].name] : j \in {i \in 1 .. k : table[i].game = g}}
    /\ \A i \in DOMAIN r :
          \/ \E j \in 1 .. k : table[j].game = g /\ SameName(table[j].name, r[i].name) /\ r[i].code = table[j].code
          \/ /\ \A j \in 1 .. k : table[j].game = g => ~ SameName(table[j].name, r[i].name)
             /\ \E j \in DOMAIN s : r[i] = s[j]
    /\ \A i \in DOMAIN r : r[i].on => \E j \in DOMAIN s : s[j].on

\* One more record of the table keeps to that.
LEMMA OneRecordLaid ==
    ASSUME NEW s \in Seq(Shown), NEW g, table \in Seq(Kept), NEW k \in 1 .. Len(table),
           NEW r \in Seq(Shown), OverlaidUpTo(r, s, g, k - 1)
    PROVE  OverlaidUpTo(Laid(r, g, table[k]), s, g, k)
<1>1. k \in Nat /\ table[k] \in Kept /\ (\A j \in 1 .. k - 1 : j \in 1 .. k) /\ k \in 1 .. k
      /\ \A j \in 1 .. k : j = k \/ j \in 1 .. k - 1
  OBVIOUS
<1>2. CASE table[k].game # g
  <2>1. Laid(r, g, table[k]) = r
    BY <1>2 DEF Laid
  <2>2. {i \in 1 .. k : table[i].game = g} = {i \in 1 .. k - 1 : table[i].game = g}
    BY <1>1, <1>2
  <2>3. QED
    BY <2>1, <2>2, <1>1, <1>2 DEF OverlaidUpTo
<1>3. CASE table[k].game = g
  <2> DEFINE n == table[k].name
             c == table[k].code
             q == WithTyped(r, n, c)
  <2>1. n \in Names /\ c \in DOMAIN Lines
    BY <1>1 DEF Kept
  <2>2. Overlaid(q, r, n, c)
    BY <2>1, WithTypedOverlays DEF OverlaidUpTo
  <2>3. Laid(r, g, table[k]) = q
    BY <1>3 DEF Laid
  <2> HIDE DEF q
  <2>4. FoldedNames(q) = FoldedNames(s) \cup {Fold[table[j].name] : j \in {i \in 1 .. k : table[i].game = g}}
    <3>1. {Fold[table[j].name] : j \in {i \in 1 .. k : table[i].game = g}}
            = {Fold[table[j].name] : j \in {i \in 1 .. k - 1 : table[i].game = g}} \cup {Fold[n]}
      BY <1>1, <1>3
    <3>2. QED
      BY <3>1, <2>2 DEF OverlaidUpTo, Overlaid
  <2>5. ASSUME NEW i \in DOMAIN q
        PROVE  \/ \E j \in 1 .. k : table[j].game = g /\ SameName(table[j].name, q[i].name) /\ q[i].code = table[j].code
               \/ /\ \A j \in 1 .. k : table[j].game = g => ~ SameName(table[j].name, q[i].name)
                  /\ \E j \in DOMAIN s : q[i] = s[j]
    <3>1. CASE SameName(q[i].name, n)
      BY <3>1, <2>2, <1>1, <1>3 DEF Overlaid, SameName
    <3>2. CASE ~ SameName(q[i].name, n)
      <4>1. PICK m \in DOMAIN r : q[i] = r[m]
        BY <3>2, <2>2 DEF Overlaid
      <4>2. CASE \E j \in 1 .. k - 1 : table[j].game = g /\ SameName(table[j].name, r[m].name) /\ r[m].code = table[j].code
        BY <4>1, <4>2, <1>1
      <4>3. CASE /\ \A j \in 1 .. k - 1 : table[j].game = g => ~ SameName(table[j].name, r[m].name)
                 /\ \E j \in DOMAIN s : r[m] = s[j]
        <5>1. ~ SameName(table[k].name, q[i].name)
          BY <3>2 DEF SameName
        <5>2. QED
          BY <4>1, <4>3, <5>1, <1>1
      <4>4. QED
        BY <4>2, <4>3 DEF OverlaidUpTo
    <3>3. QED
      BY <3>1, <3>2
  <2>6. \A i \in DOMAIN q : q[i].on => \E j \in DOMAIN s : s[j].on
    BY <2>2 DEF Overlaid, OverlaidUpTo
  <2>7. QED
    BY <2>2, <2>3, <2>4, <2>5, <2>6 DEF Overlaid, OverlaidUpTo
<1>4. QED
  BY <1>2, <1>3

\* What the whole table makes of it.
LEMMA TypedAppliedIsSound ==
    ASSUME NEW s \in Seq(Shown), NEW g, table \in Seq(Kept), Distinct(s)
    PROVE  /\ TypedApplied(s, g) \in Seq(Shown)
           /\ OverlaidUpTo(TypedApplied(s, g), s, g, Len(table))
<1> DEFINE n == Len(table)
<1>1. PICK f \in [0 .. n -> Seq(Shown)] : Laying(f, s, g)
  BY TypedApplies
<1>2. /\ f[0] = s
      /\ \A k \in 1 .. n : f[k] = Laid(f[k - 1], g, table[k])
      /\ TypedApplied(s, g) = f[n]
  BY <1>1 DEF Laying
<1>3. n \in Nat /\ n \in 0 .. n /\ 0 \in 0 .. n /\ \A k \in 1 .. n : k \in 0 .. n /\ k - 1 \in 0 .. n
  OBVIOUS
<1> DEFINE T == {k \in 0 .. n : OverlaidUpTo(f[k], s, g, k)}
<1>4. 0 \in T
  <2>1. {Fold[table[j].name] : j \in {i \in 1 .. 0 : table[i].game = g}} = {}
    OBVIOUS
  <2>2. OverlaidUpTo(s, s, g, 0)
    BY <2>1 DEF OverlaidUpTo
  <2>3. QED
    BY <2>2, <1>2, <1>3
<1>5. ASSUME NEW k \in 1 .. n, k - 1 \in T
      PROVE  k \in T
  <2>1. f[k - 1] \in Seq(Shown) /\ OverlaidUpTo(f[k - 1], s, g, k - 1)
    BY <1>3, <1>5
  <2>2. OverlaidUpTo(Laid(f[k - 1], g, table[k]), s, g, k)
    <3> HIDE DEF T
    <3>1. QED
      BY <2>1, OneRecordLaid
  <2>3. QED
    BY <2>2, <1>2, <1>3
<1>6. n \in T
  <2> HIDE DEF T, n
  <2>1. 0 .. n \subseteq T
    BY <1>3, <1>4, <1>5, Induction
  <2>2. QED
    BY <2>1, <1>3
<1>7. f[n] \in Seq(Shown)
  BY <1>3
<1>8. QED
  BY <1>2, <1>6, <1>7

----------------------------------------------------------------------------
(* The database's list, and the list that is right.                        *)

\* find_row() finds the narrowest row, and there is one at most.
LEMMA FindRowIsNarrowest ==
    ASSUME NEW h
    PROVE  FindRow(h) = Narrowest(h) /\ \A i, j \in FindRow(h) : i = j
<1> DEFINE own == {i \in DOMAIN Database : h.check # 0 /\ Database[i].check = h.check}
           fit == {i \in DOMAIN Database : RowMatches(Database[i], h)}
           best == {i \in fit : \A j \in fit : RowRank(Database[i], h) >= RowRank(Database[j], h)}
<1>1. \A i, j \in DOMAIN Database : i # j =>
         /\ Database[i].check = Database[j].check => Database[i].check = 0
         /\ Database[i].stem = Database[j].stem =>
               /\ Database[i].region = Database[j].region => Database[i].version # Database[j].version
               /\ Database[i].region = AnyRegion /\ Database[j].region # AnyRegion =>
                     Database[i].version = AnyVersion \/ Database[j].version # AnyVersion
  BY DatabaseAssumption
<1>2. DOMAIN Database \subseteq Nat
  BY DatabaseAssumption
<1>3. CASE own # {}
  <2>1. \A i, j \in own : i = j
    BY <1>1
  <2>2. FindRow(h) = own /\ Narrowest(h) = own
    BY <1>3 DEF FindRow, Narrowest
  <2>3. QED
    BY <2>1, <2>2
<1>4. CASE own = {}
  <2>1. FindRow(h) = {i \in best : \A j \in best : i <= j}
    BY <1>4 DEF FindRow
  <2>2. Narrowest(h) = {i \in fit : \A j \in fit : ~ Narrower(Database[j], Database[i])}
    BY <1>4 DEF Narrowest
  <2>3. \A i \in fit : RowRank(Database[i], h) \in 1 .. 4
    BY DEF RowRank
  <2>4. \A i, j \in fit : i # j =>
           (Narrower(Database[j], Database[i]) <=> RowRank(Database[j], h) > RowRank(Database[i], h))
    BY <1>1 DEF Narrower, RowRank, RowMatches
  <2>5. \A i, j \in fit : i # j => RowRank(Database[j], h) # RowRank(Database[i], h)
    BY <1>1 DEF RowRank, RowMatches
  <2>6. \A i \in fit : ~ Narrower(Database[i], Database[i])
    BY DEF Narrower
  <2>7. \A i \in fit : i \in Nat
    BY <1>2
  <2> DEFINE rank(i) == RowRank(Database[i], h)
             narrower(i, j) == Narrower(Database[i], Database[j])
  <2>8. \A i, j \in best : i = j
    <3>1. \A i, j \in best : rank(i) = rank(j)
      BY <2>3
    <3>2. QED
      BY <3>1, <2>5
  <2>9. Narrowest(h) = best
    <3>1. \A i, j \in fit : ~ narrower(j, i) <=> rank(i) >= rank(j)
      BY <2>3, <2>4, <2>6
    <3>2. QED
      BY <3>1, <2>2
  <2>10. FindRow(h) = best
    BY <2>1, <2>7, <2>8
  <2>11. QED
    BY <2>8, <2>9, <2>10
<1>5. QED
  BY <1>3, <1>4

\* What the database gives for a game, if it is on, and what of it this
\* console can use.
Given(g, db) == IF ~ db THEN {} ELSE UNION {Range(Database[i].groups) : i \in Narrowest(Header[g])}
Usable(g, db) == {x \in Given(g, db) : pak \/ x.code \notin PakCodes}

\* The list s has what the database and the user give for the game, with the
\* user's lines where there are any.
RightList(s, g, db) ==
    /\ FoldedNames(s) = {Fold[x.name] : x \in Usable(g, db)} \cup {t.name : t \in {u \in typed : u.game = g}}
    /\ \A i \in DOMAIN s :
          LET own == {t \in typed : t.game = g /\ t.name = Fold[s[i].name]}
          IN  IF own # {} THEN \A t \in own : s[i].code = t.code
              ELSE \E x \in Given(g, db) : x.name = s[i].name /\ x.code = s[i].code

\* The database's part of a list: unticked, as the database has it.
Fresh(s, g, db) ==
    /\ s \in Seq(Shown) /\ Distinct(s)
    /\ \A i \in DOMAIN s : ~ s[i].on
    /\ \A i \in DOMAIN s : \E x \in Usable(g, db) : x.name = s[i].name /\ x.code = s[i].code
    /\ \A x \in Usable(g, db) : \E i \in DOMAIN s : x.name = s[i].name

\* So are the groups of the row that find_row() finds.
LEMMA DatabaseGroupsAreFresh ==
    ASSUME NEW g, NEW s \in DatabaseGroups(g)
    PROVE  Fresh(s, g, TRUE)
<1>1. PICK row \in FindRow(Header[g]) :
         s = Picked([i \in DOMAIN Database[row].groups |->
                       [name |-> Database[row].groups[i].name, code |-> Database[row].groups[i].code, on |-> FALSE]],
                    {i \in DOMAIN Database[row].groups : pak \/ ~NeedsPak(Database[row].groups[i].code)})
  BY DEF DatabaseGroups
<1> DEFINE groups == Database[row].groups
           n == Len(groups)
           all == [i \in DOMAIN groups |-> [name |-> groups[i].name, code |-> groups[i].code, on |-> FALSE]]
           I == {i \in DOMAIN groups : pak \/ ~NeedsPak(groups[i].code)}
<1>2. row \in DOMAIN Database
  BY DEF FindRow
<1>3. /\ groups \in Seq(Listed)
      /\ \A j, k \in DOMAIN groups : j # k => ~SameName(groups[j].name, groups[k].name)
  BY <1>2, DatabaseAssumption
<1>4. n \in Nat /\ DOMAIN groups = 1 .. n /\ \A i \in 1 .. n : groups[i] \in Listed
  BY <1>3
<1>5. Usable(g, TRUE) = {groups[i] : i \in I}
  <2>1. Narrowest(Header[g]) = {row}
    BY FindRowIsNarrowest
  <2>2. Given(g, TRUE) = Range(groups)
    BY <2>1 DEF Given
  <2>3. QED
    BY <2>2 DEF Usable, Range, NeedsPak
<1>6. s = Picked(all, I)
  BY <1>1
<1> HIDE DEF groups, n
<1>7. all \in Seq(Shown) /\ Len(all) = n
  <2>1. \A i \in 1 .. n : [name |-> groups[i].name, code |-> groups[i].code, on |-> FALSE] \in Shown
    BY <1>4 DEF Listed, Shown
  <2>2. all = [i \in 1 .. n |-> [name |-> groups[i].name, code |-> groups[i].code, on |-> FALSE]]
    BY <1>4
  <2>3. QED
    BY <1>4, <2>1, <2>2, IsASeq, LenProperties
<1>8. \A i \in 1 .. n : all[i].name = groups[i].name /\ all[i].code = groups[i].code /\ all[i].on = FALSE
  BY <1>4
<1>9. I \subseteq 1 .. n
  BY <1>4
<1>10. PICK at : ComesFrom(s, all, I, n, at)
  <2> HIDE DEF all, I
  <2>1. QED
    BY <1>6, <1>7, PickedIsSound
<1>11. s \in Seq(Shown)
  <2> HIDE DEF all, I
  <2>1. QED
    BY <1>6, <1>7, PickedIsSound
<1>12. DOMAIN s = 1 .. Len(s)
  BY <1>11
<1>13. \A i \in DOMAIN s : at[i] \in I /\ at[i] \in 1 .. n /\ s[i] = all[at[i]]
  BY <1>10, <1>12 DEF ComesFrom
<1>14. \A i, j \in DOMAIN s : i # j => at[i] # at[j]
  BY <1>10, <1>12 DEF ComesFrom
<1>15. \A p \in I : \E i \in DOMAIN s : at[i] = p
  BY <1>9, <1>10, <1>12 DEF ComesFrom
<1> HIDE DEF all, I
<1>16. Distinct(s)
  BY <1>3, <1>4, <1>8, <1>13, <1>14 DEF Distinct
<1>17. \A i \in DOMAIN s : ~ s[i].on
  BY <1>8, <1>13
<1>18. \A i \in DOMAIN s : \E x \in Usable(g, TRUE) : x.name = s[i].name /\ x.code = s[i].code
  <2>1. ASSUME NEW i \in DOMAIN s
        PROVE  \E x \in Usable(g, TRUE) : x.name = s[i].name /\ x.code = s[i].code
    <3>1. groups[at[i]] \in Usable(g, TRUE)
      BY <1>5, <1>13
    <3>2. groups[at[i]].name = s[i].name /\ groups[at[i]].code = s[i].code
      BY <1>8, <1>13
    <3>3. QED
      BY <3>1, <3>2
  <2>2. QED
    BY <2>1
<1>19. \A x \in Usable(g, TRUE) : \E i \in DOMAIN s : x.name = s[i].name
  <2>1. ASSUME NEW x \in Usable(g, TRUE) PROVE \E i \in DOMAIN s : x.name = s[i].name
    <3>1. PICK p \in I : x = groups[p]
      BY <1>5
    <3>2. PICK i \in DOMAIN s : at[i] = p
      BY <1>15
    <3>3. QED
      BY <3>1, <3>2, <1>8, <1>13
  <2>2. QED
    BY <2>1
<1>20. QED
  BY <1>11, <1>16, <1>17, <1>18, <1>19 DEF Fresh

\* The database's part of what load_cheats_now() puts together.
Base(g) == IF useDb /\ DatabaseGroups(g) # {} THEN CHOOSE s \in DatabaseGroups(g) : TRUE ELSE <<>>

\* So is what a load starts with, if the database is off or has nothing for
\* the game.
LEMMA BaseIsFresh ==
    ASSUME NEW g, useDb \in BOOLEAN
    PROVE  Fresh(Base(g), g, useDb)
<1>1. CASE useDb /\ DatabaseGroups(g) # {}
  <2>1. Base(g) \in DatabaseGroups(g)
    BY <1>1 DEF Base
  <2>2. Fresh(Base(g), g, TRUE)
    BY <2>1, DatabaseGroupsAreFresh
  <2>3. useDb = TRUE
    BY <1>1
  <2>4. QED
    BY <2>2, <2>3
<1>2. CASE ~ (useDb /\ DatabaseGroups(g) # {})
  <2>1. Usable(g, useDb) = {}
    <3>1. CASE ~ useDb
      BY <3>1 DEF Usable, Given
    <3>2. CASE DatabaseGroups(g) = {}
      <4>1. FindRow(Header[g]) = {}
        BY <3>2 DEF DatabaseGroups
      <4>2. Narrowest(Header[g]) = {}
        BY <4>1, FindRowIsNarrowest
      <4>3. QED
        BY <4>2 DEF Usable, Given
    <3>3. QED
      BY <1>2, <3>1, <3>2
  <2>2. Base(g) = <<>>
    BY <1>2 DEF Base
  <2>3. <<>> \in Seq(Shown) /\ DOMAIN <<>> = {}
    OBVIOUS
  <2>4. QED
    BY <2>1, <2>2, <2>3 DEF Fresh, Distinct
<1>3. QED
  BY <1>1, <1>2

\* No two records of the table are of one cheat.
TableDistinct(t) ==
    \A i, j \in DOMAIN t : i # j => ~ (t[i].game = t[j].game /\ SameName(t[i].name, t[j].name))

\* The typed cheats laid over the database's are the right list.
LEMMA TypedAppliedIsRight ==
    ASSUME NEW g, useDb \in BOOLEAN, table \in Seq(Kept), TableDistinct(table), typed = TypedOf(table)
    PROVE  LET s == TypedApplied(Base(g), g)
           IN  s \in Seq(Shown) /\ Distinct(s) /\ RightList(s, g, useDb) /\ \A i \in DOMAIN s : ~ s[i].on
<1> DEFINE b == Base(g)
           s == TypedApplied(b, g)
           n == Len(table)
<1>1. Fresh(b, g, useDb)
  BY BaseIsFresh
<1> HIDE DEF b
<1>2. s \in Seq(Shown) /\ OverlaidUpTo(s, b, g, n)
  BY <1>1, TypedAppliedIsSound DEF Fresh
<1> HIDE DEF s
<1>3. DOMAIN table = 1 .. n
  OBVIOUS
<1>4. \A i \in DOMAIN s : ~ s[i].on
  BY <1>1, <1>2 DEF OverlaidUpTo, Fresh
<1>5. FoldedNames(s) = {Fold[x.name] : x \in Usable(g, useDb)} \cup {t.name : t \in {u \in typed : u.game = g}}
  <2>1. FoldedNames(b) = {Fold[x.name] : x \in Usable(g, useDb)}
    BY <1>1 DEF FoldedNames, Fresh
  <2>2. {t.name : t \in {u \in typed : u.game = g}} = {Fold[table[j].name] : j \in {i \in 1 .. n : table[i].game = g}}
    <3> DEFINE rec(j) == [game |-> table[j].game, name |-> Fold[table[j].name], code |-> table[j].code]
    <3>1. typed = {rec(j) : j \in 1 .. n}
      BY <1>3 DEF TypedOf
    <3>2. \A j : rec(j).game = table[j].game /\ rec(j).name = Fold[table[j].name]
      OBVIOUS
    <3> HIDE DEF rec
    <3>3. QED
      BY <3>1, <3>2
  <2>3. QED
    BY <2>1, <2>2, <1>2 DEF OverlaidUpTo
<1>6. ASSUME NEW i \in DOMAIN s
      PROVE  LET own == {t \in typed : t.game = g /\ t.name = Fold[s[i].name]}
             IN  IF own # {} THEN \A t \in own : s[i].code = t.code
                 ELSE \E x \in Given(g, useDb) : x.name = s[i].name /\ x.code = s[i].code
  <2> DEFINE own == {t \in typed : t.game = g /\ t.name = Fold[s[i].name]}
  <2>1. CASE \E j \in 1 .. n : table[j].game = g /\ SameName(table[j].name, s[i].name) /\ s[i].code = table[j].code
    <3>1. PICK j \in 1 .. n : table[j].game = g /\ SameName(table[j].name, s[i].name) /\ s[i].code = table[j].code
      BY <2>1
    <3>2. ASSUME NEW t \in own PROVE s[i].code = t.code
      <4>1. PICK k \in 1 .. n : t = [game |-> table[k].game, name |-> Fold[table[k].name], code |-> table[k].code]
        BY <1>3 DEF TypedOf
      <4>2. table[k].game = g /\ Fold[table[k].name] = Fold[s[i].name] /\ t.code = table[k].code
        BY <4>1
      <4>3. k = j
        BY <3>1, <4>2, <1>3 DEF TableDistinct, SameName
      <4>4. QED
        BY <3>1, <4>2, <4>3
    <3>3. [game |-> table[j].game, name |-> Fold[table[j].name], code |-> table[j].code] \in own
      BY <3>1, <1>3 DEF TypedOf, SameName
    <3>4. QED
      BY <3>2, <3>3
  <2>2. CASE /\ \A j \in 1 .. n : table[j].game = g => ~ SameName(table[j].name, s[i].name)
             /\ \E j \in DOMAIN b : s[i] = b[j]
    <3>1. own = {}
      BY <2>2, <1>3 DEF TypedOf, SameName
    <3>2. \E x \in Usable(g, useDb) : x.name = s[i].name /\ x.code = s[i].code
      BY <2>2, <1>1 DEF Fresh
    <3>3. QED
      BY <3>1, <3>2 DEF Usable
  <2>3. QED
    BY <2>1, <2>2, <1>2 DEF OverlaidUpTo
<1>7. Distinct(s)
  BY <1>2 DEF OverlaidUpTo
<1>8. RightList(s, g, useDb)
  BY <1>5, <1>6 DEF RightList
<1>9. QED
  BY <1>2, <1>4, <1>7, <1>8 DEF s, b

\* What load_cheats_now() puts together is the right list, with a tick where
\* the ticks kept have one.
LEMMA LoadedIsRight ==
    ASSUME NEW g, NEW ticks, useDb \in BOOLEAN, table \in Seq(Kept), TableDistinct(table), typed = TypedOf(table)
    PROVE  LET s == Loaded(g, ticks)
           IN  /\ s \in Seq(Shown) /\ Distinct(s) /\ RightList(s, g, useDb)
               /\ \A i \in DOMAIN s : s[i].on => <<g, s[i].name>> \in ticks
<1> DEFINE b == TypedApplied(Base(g), g)
           s == Loaded(g, ticks)
           n == Len(b)
           with(i) == [b[i] EXCEPT !.on = @ \/ <<g, b[i].name>> \in ticks]
<1>1. b \in Seq(Shown) /\ Distinct(b) /\ RightList(b, g, useDb) /\ \A i \in DOMAIN b : ~ b[i].on
  BY TypedAppliedIsRight
<1>2. s = [i \in DOMAIN b |-> with(i)]
  BY DEF Loaded, TicksApplied, Base
<1> HIDE DEF b, s
<1>3. n \in Nat /\ DOMAIN b = 1 .. n /\ \A i \in DOMAIN b : b[i] \in Shown
  BY <1>1
<1>4. \A i \in DOMAIN b : with(i) \in Shown /\ with(i).name = b[i].name /\ with(i).code = b[i].code
                          /\ (with(i).on => <<g, b[i].name>> \in ticks)
  BY <1>1, <1>3 DEF Shown
<1> HIDE DEF with, n
<1>5. s \in Seq(Shown)
  <2>1. s \in [1 .. n -> Shown]
    BY <1>2, <1>3, <1>4
  <2>2. QED
    BY <2>1, <1>3, SeqDef
<1>6. DOMAIN s = DOMAIN b /\ \A i \in DOMAIN b : s[i].name = b[i].name /\ s[i].code = b[i].code
                                                /\ (s[i].on => <<g, s[i].name>> \in ticks)
  BY <1>2, <1>4
<1>7. Distinct(s)
  BY <1>1, <1>6 DEF Distinct
<1>8. FoldedNames(s) = FoldedNames(b)
  BY <1>6 DEF FoldedNames
<1>9. RightList(s, g, useDb)
  <2>1. ASSUME NEW i \in DOMAIN s
        PROVE  LET own == {t \in typed : t.game = g /\ t.name = Fold[s[i].name]}
               IN  IF own # {} THEN \A t \in own : s[i].code = t.code
                   ELSE \E x \in Given(g, useDb) : x.name = s[i].name /\ x.code = s[i].code
    <3>1. i \in DOMAIN b /\ s[i].name = b[i].name /\ s[i].code = b[i].code
      BY <1>6
    <3>2. LET own == {t \in typed : t.game = g /\ t.name = Fold[b[i].name]}
          IN  IF own # {} THEN \A t \in own : b[i].code = t.code
              ELSE \E x \in Given(g, useDb) : x.name = b[i].name /\ x.code = b[i].code
      BY <1>1, <3>1 DEF RightList
    <3>3. QED
      BY <3>1, <3>2
  <2>2. QED
    BY <2>1, <1>1, <1>8 DEF RightList
<1>10. QED
  BY <1>5, <1>6, <1>7, <1>9 DEF s

----------------------------------------------------------------------------
(* The inductive invariant.                                                *)

OnSheet == screen \in {"sheet", "list", "editor", "keyboard"}

\* The set in memory is the sheet's.
Live == OnSheet /\ ~ pending

Types == TypeOK /\ set \in Seq(Shown) /\ table \in Seq(Kept) /\ file \in Seq(Kept)

Session ==
    /\ screen \in {"list", "editor", "keyboard"} => ~ pending
    /\ OnSheet => rom # NoGame /\ ran = NothingRun
    /\ Live => loadedFor = rom /\ fromDb = useDb

\* What was typed is what the table has, and the card unless it is dirty.
TablesAgree ==
    /\ TableDistinct(table) /\ TableDistinct(file)
    /\ screen # "off" => typed = TypedOf(table) /\ (~ tableDirty => file = table)
    /\ (screen = "off" /\ ran # NothingRun) => typed = TypedOf(file)

\* The set in memory is right for the game it was loaded for, on whatever
\* screen, under whatever name the library has it now.
SetIsRight ==
    /\ Distinct(set)
    /\ (loadedFor # NoGame /\ screen # "off") => RightList(set, order[loadedFor], fromDb)

\* Every tick, in memory or kept, was asked for, but for those kept of the
\* game on the sheet, which leaving it replaces.  Where the sheet can be left
\* before its set is loaded, what is in memory then has no ticks.
TicksAsked ==
    /\ loadedFor # NoGame =>
          \A i \in DOMAIN set : set[i].on => <<order[loadedFor], set[i].name>> \in asked
    /\ screen # "off" => \A t \in rows : t \in asked \/ (Live /\ t[1] = order[rom])
    /\ (screen # "off" /\ ~ Live /\ setup.hasty) => \A i \in DOMAIN set : ~ set[i].on

IInv == Types /\ Session /\ TablesAgree /\ SetIsRight /\ TicksAsked /\ EmittedIsAsked

Quiet == \/ \E r \in DOMAIN order : OpenSheet(r)
         \/ OpenList \/ CloseList \/ ToggleDatabase \/ PowerOff
         \/ \E i \in DOMAIN set : EditGroup(i)
         \/ AddCheat \/ (\E c \in Codes : EnterCode(c)) \/ AskName
         \/ (\E n \in Typed : EnterName(n)) \/ CancelEdit

\* The actions that touch neither the set, nor what is kept, nor the ticks.
LEMMA Unmoved ==
    ASSUME Quiet
    PROVE  /\ UNCHANGED <<setup, boots, pak, order, set, loadedFor, fromDb, rows, table, tableDirty, file, asked, typed>>
           /\ screen # "off"
           /\ ran' \in {ran, NothingRun}
BY DEF Quiet, OpenSheet, OpenList, CloseList, ToggleDatabase, PowerOff, EditGroup, AddCheat, Edit, EnterCode, AskName,
       EnterName, CancelEdit, sheet, kept, editing, ghosts

\* The next-state relation by what its actions move.
LEMMA NextCases ==
    ASSUME Next
    PROVE  \/ Quiet \/ Boot \/ Background \/ CloseSheet \/ CloseSheetAtOnce \/ Rename \/ Launch \/ SaveCheat
           \/ \E i \in DOMAIN set : Toggle(i)
BY DEF Next, Quiet

\* A library's order has every game.
LEMMA OrderHasAll ==
    ASSUME NEW o \in Orders, NEW g \in Games
    PROVE  \E i \in DOMAIN o : o[i] = g
<1> DEFINE n == Cardinality(Games)
<1>1. n \in Nat /\ IsFiniteSet(Games)
  BY CheatsAssumption, FS_CardinalityType
<1>2. o \in [1 .. n -> Games] /\ \A i, j \in 1 .. n : o[i] = o[j] => i = j
  BY DEF Orders, IsInjective
<1>3. IsFiniteSet(1 .. n) /\ Cardinality(1 .. n) = n
  BY <1>1, FS_Interval
<1>4. o \in Injection(1 .. n, Games)
  BY <1>2 DEF Injection, IsInjective
<1>5. o \in Surjection(1 .. n, Games)
  BY <1>1, <1>3, <1>4, FS_Injection
<1>6. QED
  BY <1>5, <1>2 DEF Surjection

\* The order's games are games.
LEMMA OrderType ==
    ASSUME NEW o \in Orders
    PROVE  DOMAIN o = 1 .. Cardinality(Games) /\ Cardinality(Games) \in Nat /\ \A i \in DOMAIN o : o[i] \in Games
BY CheatsAssumption, FS_CardinalityType DEF Orders

\* The members of a sequence are of its set.
LEMMA SequencesRange ==
    ASSUME NEW S, NEW s \in Seq(S)
    PROVE  Range(s) \subseteq S
BY DEF Range

\* The ticks captured are of games and names.
LEMMA CapturedType ==
    ASSUME Types, NEW g \in Games
    PROVE  Captured(g) \subseteq Games \X Names
<1>1. \A i \in DOMAIN set : set[i].name \in Names
  <2>1. \A i \in DOMAIN set : set[i] \in Shown
    BY DEF Types
  <2>2. QED
    BY <2>1 DEF Shown
<1>2. rows \subseteq Games \X Names
  BY DEF Types, TypeOK
<1>3. QED
  BY <1>1, <1>2 DEF Captured, Ticked

\* What a table says was typed is kept.
LEMMA TypedOfType ==
    ASSUME NEW t \in Seq(Kept)
    PROVE  TypedOf(t) \subseteq Kept
<1>1. \A i \in DOMAIN t : t[i] \in Kept
  OBVIOUS
<1>2. \A i \in DOMAIN t : t[i].game \in Games /\ t[i].name \in Names /\ t[i].code \in DOMAIN Lines
  BY <1>1 DEF Kept
<1>3. \A n \in Names : Fold[n] \in Names
  BY CheatsAssumption
<1>4. QED
  BY <1>2, <1>3 DEF TypedOf, Kept

----------------------------------------------------------------------------
(* Every step keeps the invariant.                                         *)

\* What a boot that did not happen was asked for.
LEMMA NothingIsAsked ==
    ASSUME ran' = NothingRun
    PROVE  EmittedIsAsked'
BY DEF NothingRun, EmittedIsAsked

\* A set stays right while it has the same cheats with the same lines, what
\* was typed is the same, and the game it is for has at most moved.
LEMMA SetStaysRight ==
    ASSUME SetIsRight, UNCHANGED <<pak, fromDb, typed>>,
           DOMAIN set' = DOMAIN set,
           \A i \in DOMAIN set : set'[i].name = set[i].name /\ set'[i].code = set[i].code,
           loadedFor' # NoGame /\ screen' # "off" =>
               loadedFor # NoGame /\ screen # "off" /\ order'[loadedFor'] = order[loadedFor]
    PROVE  SetIsRight'
<1>1. Distinct(set)' = Distinct(set) /\ FoldedNames(set)' = FoldedNames(set)
  BY DEF Distinct, FoldedNames
<1>2. ASSUME loadedFor' # NoGame, screen' # "off"
      PROVE  RightList(set, order[loadedFor], fromDb)'
  <2> DEFINE g == order[loadedFor]
  <2>1. g' = g /\ RightList(set, g, fromDb)
    BY <1>2 DEF SetIsRight
  <2> HIDE DEF g
  <2>2. Given(g, fromDb)' = Given(g, fromDb) /\ Usable(g, fromDb)' = Usable(g, fromDb)
    BY <2>1 DEF Given, Usable
  <2>3. ASSUME NEW i \in DOMAIN set
        PROVE  LET own == {t \in typed : t.game = g /\ t.name = Fold[set'[i].name]}
               IN  IF own # {} THEN \A t \in own : set'[i].code = t.code
                   ELSE \E x \in Given(g, fromDb) : x.name = set'[i].name /\ x.code = set'[i].code
    <3>1. LET own == {t \in typed : t.game = g /\ t.name = Fold[set[i].name]}
          IN  IF own # {} THEN \A t \in own : set[i].code = t.code
              ELSE \E x \in Given(g, fromDb) : x.name = set[i].name /\ x.code = set[i].code
      BY <2>1 DEF RightList
    <3>2. QED
      BY <3>1
  <2>4. RightList(set, g, fromDb)'
    BY <2>1, <2>2, <2>3, <1>1 DEF RightList
  <2>5. QED
    BY <2>4 DEF g
<1>3. QED
  BY <1>1, <1>2 DEF SetIsRight

\* A screen of the sheet stays one over the set that is in memory, and a sheet
\* is opened over it only when it is the game's.
LEMMA QuietSession ==
    ASSUME Types, Session, Quiet
    PROVE  /\ Session'
           /\ Live /\ screen' # "off" => Live' /\ rom' = rom
<1> USE DEF Session, Live, OnSheet, NoGame
<1>1. rom \in {NoGame} \cup DOMAIN order /\ DOMAIN order = 1 .. Cardinality(Games) /\ Cardinality(Games) \in Nat
  BY OrderType DEF Types, TypeOK
<1>2. ASSUME NEW r \in DOMAIN order, OpenSheet(r) PROVE Session' /\ (Live /\ screen' # "off" => Live' /\ rom' = rom)
  <2>1. screen = "grid" /\ screen' = "sheet" /\ rom' = r /\ ran' = NothingRun /\ UNCHANGED <<useDb, loadedFor, fromDb>>
    BY <1>2 DEF OpenSheet
  <2>2. ~ pending' => loadedFor' = r /\ fromDb' = useDb'
    BY <1>2 DEF OpenSheet, Owed
  <2>3. r # NoGame
    BY <1>1
  <2>4. QED
    BY <2>1, <2>2, <2>3
<1>3. CASE OpenList
  BY <1>3 DEF OpenList, sheet, ghosts
<1>4. CASE CloseList
  <2>1. screen = "list" /\ screen' = "sheet" /\ UNCHANGED <<rom, ran, useDb, loadedFor, fromDb>>
    BY <1>4 DEF CloseList, ghosts
  <2>2. pending' <=> (loadedFor # rom \/ fromDb # useDb)
    BY <1>4 DEF CloseList, Owed
  <2>3. QED
    BY <2>1, <2>2
<1>5. CASE ToggleDatabase \/ PowerOff
  BY <1>5 DEF ToggleDatabase, PowerOff, sheet, ghosts
<1>6. ASSUME NEW i \in DOMAIN set, EditGroup(i) PROVE Session' /\ (Live /\ screen' # "off" => Live' /\ rom' = rom)
  BY <1>6 DEF EditGroup, Edit, sheet, ghosts
<1>7. CASE AddCheat \/ AskName \/ CancelEdit \/ \E c \in Codes : EnterCode(c)
  BY <1>7 DEF AddCheat, Edit, AskName, CancelEdit, EnterCode, sheet, ghosts
<1>8. CASE \E n \in Typed : EnterName(n)
  BY <1>8 DEF EnterName, sheet, ghosts
<1>9. QED
  BY <1>2, <1>3, <1>4, <1>5, <1>6, <1>7, <1>8 DEF Quiet

\* The quiet actions keep the types.
LEMMA QuietTypes ==
    ASSUME Types, Quiet
    PROVE  Types'
<1> DEFINE Rest == /\ boots \in Boots /\ pak \in Paks /\ setup \in Setups /\ order \in Orders
                   /\ loadedFor \in {NoGame} \cup DOMAIN order /\ Range(set) \subseteq Shown
                   /\ rows \subseteq Games \X Names /\ Range(table) \cup Range(file) \subseteq Kept
                   /\ tableDirty \in BOOLEAN /\ asked \subseteq Games \X Names /\ typed \subseteq Kept
                   /\ set \in Seq(Shown) /\ table \in Seq(Kept) /\ file \in Seq(Kept)
           Mine == /\ useDb \in BOOLEAN /\ fromDb \in BOOLEAN /\ pending \in BOOLEAN
                   /\ screen \in {"off", "grid", "sheet", "list", "editor", "keyboard"}
                   /\ rom \in {NoGame} \cup DOMAIN order
                   /\ editor \in [name : Names, code : DOMAIN Lines] /\ naming \in BOOLEAN
<1>1. Rest /\ Mine
  BY DEF Types, TypeOK
<1>2. Rest'
  BY <1>1, Unmoved
<1>3. {Empty, NewName} \cup Typed \subseteq Names /\ Codes \cup {Blank} \subseteq DOMAIN Lines
  BY CheatsAssumption
<1>4. NoEditor \in [name : Names, code : DOMAIN Lines] /\ [name |-> NewName, code |-> Blank] \in [name : Names, code : DOMAIN Lines]
  BY <1>3 DEF NoEditor
<1>5. \A i \in DOMAIN set : [name |-> set[i].name, code |-> set[i].code] \in [name : Names, code : DOMAIN Lines]
  <2>1. \A i \in DOMAIN set : set[i] \in Shown
    BY <1>1
  <2>2. QED
    BY <2>1 DEF Shown
<1>6. Mine'
  <2> HIDE DEF Rest
  <2>1. ASSUME NEW r \in DOMAIN order, OpenSheet(r) PROVE Mine'
    BY <1>1, <2>1 DEF OpenSheet, Owed, editing
  <2>2. CASE OpenList
    BY <1>1, <1>4, <2>2 DEF OpenList, sheet
  <2>3. CASE CloseList
    BY <1>1, <2>3 DEF CloseList, Owed, editing
  <2>4. CASE ToggleDatabase \/ PowerOff
    BY <1>1, <2>4 DEF ToggleDatabase, PowerOff, sheet, editing
  <2>5. ASSUME NEW i \in DOMAIN set, EditGroup(i) PROVE Mine'
    BY <1>1, <1>5, <2>5 DEF EditGroup, Edit, sheet
  <2>6. CASE AddCheat
    BY <1>1, <1>4, <2>6 DEF AddCheat, Edit, sheet
  <2>7. ASSUME NEW c \in Codes, EnterCode(c) PROVE Mine'
    BY <1>1, <1>3, <2>7 DEF EnterCode, sheet
  <2>8. CASE AskName
    BY <1>1, <2>8 DEF AskName, sheet
  <2>9. ASSUME NEW n \in Typed, EnterName(n) PROVE Mine'
    BY <1>1, <1>3, <2>9 DEF EnterName, sheet
  <2>10. CASE CancelEdit
    BY <1>1, <1>4, <2>10 DEF CancelEdit, sheet
  <2> HIDE DEF Mine
  <2>11. QED
    BY <2>1, <2>2, <2>3, <2>4, <2>5, <2>6, <2>7, <2>8, <2>9, <2>10 DEF Quiet
<1>7. QED
  BY <1>2, <1>6 DEF Types, TypeOK

\* The quiet actions keep the invariant.
LEMMA QuietStep ==
    ASSUME IInv, Quiet
    PROVE  IInv'
<1> USE DEF IInv
<1>1. Types' /\ Session'
  BY QuietTypes, QuietSession
<1>2. /\ UNCHANGED <<setup, boots, pak, order, set, loadedFor, fromDb, rows, table, tableDirty, file, asked, typed>>
      /\ screen # "off"
      /\ ran' \in {ran, NothingRun}
  BY Unmoved
<1>3. TablesAgree'
  <2>1. screen' = "off" => ran' = NothingRun
    BY <1>2 DEF Quiet, OpenSheet, OpenList, CloseList, ToggleDatabase, PowerOff, EditGroup, AddCheat, Edit, EnterCode,
                AskName, EnterName, CancelEdit
  <2>2. QED
    BY <1>2, <2>1 DEF TablesAgree, TableDistinct, TypedOf
<1>4. SetIsRight'
  BY <1>2, SetStaysRight
<1>5. TicksAsked'
  BY <1>2, QuietSession DEF TicksAsked
<1>6. EmittedIsAsked'
  BY <1>2, NothingIsAsked DEF EmittedIsAsked
<1>7. QED
  BY <1>1, <1>3, <1>4, <1>5, <1>6

\* The files are read: the ticks kept are those asked for, the table is what
\* was typed.
LEMMA BootStep ==
    ASSUME IInv, Boot
    PROVE  IInv'
<1> USE DEF IInv
<1>1. /\ screen' = "grid" /\ boots' = boots + 1 /\ boots < MaxBoots /\ pak' \in Paks
      /\ rom' = NoGame /\ set' = <<>> /\ loadedFor' = NoGame /\ fromDb' = FALSE /\ pending' = FALSE
      /\ table' = file /\ tableDirty' = FALSE /\ editor' = NoEditor /\ naming' = FALSE
      /\ ran' = NothingRun /\ asked' = rows /\ typed' = TypedOf(file)
      /\ UNCHANGED <<setup, useDb, order, rows, file>>
  BY DEF Boot
<1>2. TypeOK /\ file \in Seq(Kept)
  BY DEF Types
<1>3. Types'
  <2>1. TypedOf(file) \subseteq Kept
    BY <1>2, TypedOfType
  <2>2. NoEditor \in [name : Names, code : DOMAIN Lines]
    BY CheatsAssumption DEF NoEditor
  <2>3. boots' \in Boots
    BY <1>1, <1>2, CheatsAssumption DEF TypeOK, Boots
  <2>4. Range(<<>>) \subseteq Shown /\ <<>> \in Seq(Shown)
    BY DEF Range
  <2>5. QED
    BY <1>1, <1>2, <2>1, <2>2, <2>3, <2>4 DEF Types, TypeOK
<1>4. Session'
  BY <1>1 DEF Session, OnSheet, Live
<1>5. TablesAgree'
  BY <1>1 DEF TablesAgree, TableDistinct, TypedOf
<1>6. SetIsRight'
  BY <1>1 DEF SetIsRight, Distinct
<1>7. TicksAsked'
  BY <1>1 DEF TicksAsked
<1>8. EmittedIsAsked'
  BY <1>1, NothingIsAsked
<1>9. QED
  BY <1>3, <1>4, <1>5, <1>6, <1>7, <1>8

\* The sheet's game is one of the library's.
LEMMA SheetsGame ==
    ASSUME Types, Session, OnSheet
    PROVE  rom \in DOMAIN order /\ order[rom] \in Games /\ rom # NoGame
<1>1. rom # NoGame /\ rom \in {NoGame} \cup DOMAIN order /\ order \in Orders
  BY DEF Types, TypeOK, Session
<1>2. QED
  BY <1>1, OrderType

\* A load makes the set right, with ticks that are kept.
LEMMA LoadStep ==
    ASSUME Types, Session, TablesAgree, OnSheet, NEW ticks, LoadCheats(ticks),
           UNCHANGED <<pak, useDb, order, rom, typed>>
    PROVE  /\ set' \in Seq(Shown) /\ Range(set') \subseteq Shown
           /\ loadedFor' = rom /\ fromDb' = useDb /\ pending' = FALSE
           /\ SetIsRight'
           /\ \A i \in DOMAIN set' : set'[i].on => <<order[rom], set'[i].name>> \in ticks
<1> DEFINE g == order[rom]
           s == Loaded(g, ticks)
<1>1. set' = s /\ loadedFor' = rom /\ fromDb' = useDb /\ pending' = FALSE
  BY DEF LoadCheats
<1>2. useDb \in BOOLEAN /\ table \in Seq(Kept) /\ TableDistinct(table) /\ typed = TypedOf(table)
  BY DEF Types, TypeOK, TablesAgree, OnSheet
<1>3. g' = g
  OBVIOUS
<1> HIDE DEF g
<1>4. /\ s \in Seq(Shown) /\ Distinct(s) /\ RightList(s, g, useDb)
      /\ \A i \in DOMAIN s : s[i].on => <<g, s[i].name>> \in ticks
  BY <1>2, LoadedIsRight
<1> HIDE DEF s
<1>5. SetIsRight'
  <2>1. Distinct(set)'
    BY <1>1, <1>4 DEF Distinct
  <2>2. Given(g, fromDb)' = Given(g, useDb) /\ Usable(g, fromDb)' = Usable(g, useDb)
    BY <1>1, <1>3 DEF Given, Usable
  <2>3. FoldedNames(set)' = FoldedNames(s)
    BY <1>1 DEF FoldedNames
  <2>4. ASSUME NEW i \in DOMAIN set'
        PROVE  LET own == {t \in typed : t.game = g /\ t.name = Fold[set'[i].name]}
               IN  IF own # {} THEN \A t \in own : set'[i].code = t.code
                   ELSE \E x \in Given(g, useDb) : x.name = set'[i].name /\ x.code = set'[i].code
    BY <1>1, <1>4 DEF RightList
  <2>5. RightList(set, g, fromDb)'
    BY <1>3, <1>4, <2>2, <2>3, <2>4 DEF RightList
  <2>6. QED
    BY <1>1, <2>1, <2>5 DEF SetIsRight, g
<1>6. Range(set') \subseteq Shown
  BY <1>1, <1>4, SequencesRange
<1>7. QED
  BY <1>1, <1>4, <1>5, <1>6 DEF g

\* The sheet's first load finds the ticks that are kept asked for.
LEMMA BackgroundStep ==
    ASSUME IInv, Background
    PROVE  IInv'
<1> USE DEF IInv
<1>1. /\ screen = "sheet" /\ pending = TRUE /\ LoadCheats(rows)
      /\ UNCHANGED <<setup, boots, screen, pak, useDb, order, rom, kept, editing, ghosts>>
  BY DEF Background, Types, TypeOK
<1>2. /\ UNCHANGED <<setup, boots, screen, pak, useDb, order, rom, rows, table, tableDirty, file, editor, naming>>
      /\ UNCHANGED <<ran, asked, typed>>
  BY <1>1 DEF kept, editing, ghosts
<1>3. rom \in DOMAIN order /\ rom # NoGame /\ OnSheet
  BY <1>1, SheetsGame DEF OnSheet
<1>4. /\ set' \in Seq(Shown) /\ Range(set') \subseteq Shown
      /\ loadedFor' = rom /\ fromDb' = useDb /\ pending' = FALSE
      /\ SetIsRight'
      /\ \A i \in DOMAIN set' : set'[i].on => <<order[rom], set'[i].name>> \in rows
  BY <1>1, <1>2, <1>3, LoadStep
<1>5. Types'
  BY <1>2, <1>3, <1>4 DEF Types, TypeOK
<1>6. Session'
  BY <1>1, <1>2, <1>4 DEF Session, OnSheet, Live
<1>7. TablesAgree'
  BY <1>2 DEF TablesAgree, TableDistinct, TypedOf
<1>8. TicksAsked'
  <2>1. rows \subseteq asked
    BY <1>1 DEF TicksAsked, Live
  <2>2. Live'
    BY <1>1, <1>2, <1>4 DEF Live, OnSheet
  <2>3. QED
    BY <1>2, <1>4, <2>1, <2>2 DEF TicksAsked
<1>9. EmittedIsAsked'
  BY <1>2 DEF EmittedIsAsked
<1>10. QED
  BY <1>4, <1>5, <1>6, <1>7, <1>8, <1>9

\* Leaving the sheet keeps what is ticked on its list, which was asked for.
LEMMA CapturedIsAsked ==
    ASSUME TicksAsked, Session, Live
    PROVE  Captured(order[rom]) \subseteq asked
<1>1. loadedFor = rom /\ rom # NoGame /\ screen # "off"
  BY DEF Session, Live, OnSheet
<1>2. \A i \in DOMAIN set : set[i].on => <<order[rom], set[i].name>> \in asked
  BY <1>1 DEF TicksAsked
<1>3. \A t \in rows : t \in asked \/ t[1] = order[rom]
  BY <1>1 DEF TicksAsked
<1>4. QED
  BY <1>2, <1>3 DEF Captured, Ticked

\* Leaving the sheet keeps its ticks and forgets its set.
LEMMA CloseSheetStep ==
    ASSUME IInv, CloseSheet
    PROVE  IInv'
<1> USE DEF IInv
<1>1. /\ screen = "sheet" /\ ~ pending /\ screen' = "grid" /\ rows' = Captured(order[rom])
      /\ set' = <<>> /\ loadedFor' = NoGame
      /\ UNCHANGED <<setup, boots, pak, useDb, order, rom, fromDb, pending, table, tableDirty, file, editor, naming>>
      /\ UNCHANGED <<ran, asked, typed>>
  BY DEF CloseSheet, CaptureAndSave, editing, ghosts
<1>2. OnSheet /\ Live
  BY <1>1 DEF OnSheet, Live
<1>3. order[rom] \in Games
  BY <1>2, SheetsGame
<1>4. Types'
  <2>1. rows' \subseteq Games \X Names
    BY <1>1, <1>3, CapturedType
  <2>2. Range(<<>>) \subseteq Shown /\ <<>> \in Seq(Shown)
    BY DEF Range
  <2>3. QED
    BY <1>1, <2>1, <2>2 DEF Types, TypeOK
<1>5. Session'
  BY <1>1 DEF Session, OnSheet, Live
<1>6. TablesAgree'
  BY <1>1 DEF TablesAgree, TableDistinct, TypedOf
<1>7. SetIsRight'
  BY <1>1 DEF SetIsRight, Distinct
<1>8. TicksAsked'
  <2>1. rows' \subseteq asked
    BY <1>1, <1>2, CapturedIsAsked
  <2>2. QED
    BY <1>1, <2>1 DEF TicksAsked
<1>9. EmittedIsAsked'
  BY <1>1 DEF EmittedIsAsked
<1>10. QED
  BY <1>4, <1>5, <1>6, <1>7, <1>8, <1>9

\* Left in its first frame, the sheet keeps no tick for its game, and loads
\* none.
LEMMA CloseSheetAtOnceStep ==
    ASSUME IInv, CloseSheetAtOnce
    PROVE  IInv'
<1> USE DEF IInv
<1>1. /\ setup.hasty /\ screen = "sheet" /\ pending = TRUE /\ screen' = "grid" /\ rows' = Captured(order[rom])
      /\ LoadCheats(rows')
      /\ UNCHANGED <<setup, boots, pak, useDb, order, rom, table, tableDirty, file, editor, naming>>
      /\ UNCHANGED <<ran, asked, typed>>
  BY DEF CloseSheetAtOnce, CaptureAndSave, editing, ghosts, Types, TypeOK
<1>2. OnSheet /\ ~ Live
  BY <1>1 DEF OnSheet, Live
<1>3. rom \in DOMAIN order /\ order[rom] \in Games
  BY <1>2, SheetsGame
<1>4. rows' \subseteq asked /\ \A t \in rows' : t[1] # order[rom]
  <2>1. rows \subseteq asked /\ Ticked(set) = {}
    BY <1>1, <1>2 DEF TicksAsked, Ticked
  <2>2. QED
    BY <1>1, <2>1 DEF Captured
<1>5. /\ set' \in Seq(Shown) /\ Range(set') \subseteq Shown
      /\ loadedFor' = rom /\ fromDb' = useDb /\ pending' = FALSE
      /\ SetIsRight'
      /\ \A i \in DOMAIN set' : set'[i].on => <<order[rom], set'[i].name>> \in rows'
  <2> DEFINE ticks == rows'
  <2>1. LoadCheats(ticks)
    BY <1>1
  <2> HIDE DEF ticks
  <2>2. /\ set' \in Seq(Shown) /\ Range(set') \subseteq Shown
        /\ loadedFor' = rom /\ fromDb' = useDb /\ pending' = FALSE
        /\ SetIsRight'
        /\ \A i \in DOMAIN set' : set'[i].on => <<order[rom], set'[i].name>> \in ticks
    BY <1>1, <1>2, <2>1, LoadStep
  <2>3. QED
    BY <2>2 DEF ticks
<1>6. Types'
  <2>1. rows' \subseteq Games \X Names
    BY <1>1, <1>3, CapturedType
  <2>2. QED
    BY <1>1, <1>3, <1>5, <2>1 DEF Types, TypeOK
<1>7. Session'
  BY <1>1 DEF Session, OnSheet, Live
<1>8. TablesAgree'
  BY <1>1 DEF TablesAgree, TableDistinct, TypedOf
<1>9. TicksAsked'
  <2>1. \A i \in DOMAIN set' : ~ set'[i].on
    BY <1>4, <1>5
  <2>2. QED
    BY <1>1, <1>4, <2>1 DEF TicksAsked
<1>10. EmittedIsAsked'
  BY <1>1 DEF EmittedIsAsked
<1>11. QED
  BY <1>5, <1>6, <1>7, <1>8, <1>9, <1>10

\* What is handed on are ticked cheats of the set.
LEMMA EmittedIsTicked ==
    ASSUME set \in Seq(Shown)
    PROVE  \A i \in DOMAIN Emitted : \E j \in DOMAIN set : Emitted[i] = set[j] /\ set[j].on
<1> DEFINE I == {i \in DOMAIN set : set[i].on}
           ticked == Picked(set, I)
           n == Len(ticked)
           lines == CHOOSE f : f = [k \in 0 .. n |-> IF k = 0 THEN 0 ELSE f[k - 1] + Lines[ticked[k].code]]
           room == {k \in 1 .. n : lines[k] <= EmitLines}
<1>1. Emitted = IF pak THEN SubSeq(ticked, 1, Cardinality(room)) ELSE <<>>
  BY DEF Emitted
<1>2. room \subseteq 1 .. n
  OBVIOUS
<1> HIDE DEF room, lines
<1>3. ticked \in Seq(Shown) /\ \E at : ComesFrom(ticked, set, I, Len(set), at)
  <2> HIDE DEF I
  <2>1. QED
    BY PickedIsSound
<1>4. n \in Nat /\ DOMAIN ticked = 1 .. n
  BY <1>3
<1>5. \A i \in 1 .. n : \E j \in DOMAIN set : ticked[i] = set[j] /\ set[j].on
  <2>1. PICK at : ComesFrom(ticked, set, I, Len(set), at)
    BY <1>3
  <2>2. \A i \in 1 .. n : at[i] \in I /\ ticked[i] = set[at[i]]
    BY <2>1 DEF ComesFrom
  <2> HIDE DEF ticked, n
  <2>3. QED
    BY <2>2
<1> HIDE DEF I, ticked, n
<1>6. Cardinality(room) \in 0 .. n
  <2>1. IsFiniteSet(1 .. n) /\ Cardinality(1 .. n) = n
    BY <1>4, FS_Interval
  <2>2. IsFiniteSet(room) /\ Cardinality(room) <= n
    BY <1>2, <2>1, FS_Subset
  <2>3. QED
    BY <1>4, <2>2, FS_CardinalityType
<1>7. CASE pak
  <2> DEFINE m == Cardinality(room)
  <2>1. m \in 0 .. n
    BY <1>6
  <2> HIDE DEF m
  <2>2. Emitted = SubSeq(ticked, 1, m)
    BY <1>1, <1>7 DEF m
  <2>3. n = Len(ticked)
    BY DEF n
  <2>4. DOMAIN SubSeq(ticked, 1, m) = 1 .. m /\ \A i \in 1 .. m : SubSeq(ticked, 1, m)[i] = ticked[i]
    BY <1>3, <1>4, <2>1, <2>3
  <2>5. DOMAIN Emitted = 1 .. m /\ \A i \in 1 .. m : Emitted[i] = ticked[i]
    BY <2>2, <2>4
  <2>6. 1 .. m \subseteq 1 .. n
    BY <1>4, <2>1
  <2>7. QED
    BY <1>5, <2>5, <2>6
<1>8. CASE ~ pak
  BY <1>1, <1>8
<1>9. QED
  BY <1>7, <1>8

\* What is on the sheet when its game is started was asked for, with the lines
\* last given.
LEMMA SetIsAsked ==
    ASSUME IInv, Live, NEW j \in DOMAIN set, set[j].on
    PROVE  /\ <<order[rom], set[j].name>> \in asked
           /\ \A t \in typed : (t.game = order[rom] /\ t.name = Fold[set[j].name]) => set[j].code = t.code
<1>1. loadedFor = rom /\ rom # NoGame /\ screen # "off"
  BY DEF IInv, Session, Live, OnSheet
<1>2. <<order[rom], set[j].name>> \in asked
  BY <1>1 DEF IInv, TicksAsked
<1>3. RightList(set, order[rom], fromDb)
  BY <1>1 DEF IInv, SetIsRight
<1>4. \A t \in typed : (t.game = order[rom] /\ t.name = Fold[set[j].name]) => set[j].code = t.code
  BY <1>3 DEF RightList
<1>5. QED
  BY <1>2, <1>4

\* A launch hands on what is ticked, keeps the ticks and what was typed.
LEMMA LaunchStep ==
    ASSUME IInv, Launch
    PROVE  IInv'
<1>1. /\ screen = "sheet" /\ ~ pending /\ rows' = Captured(order[rom])
      /\ ran' = [game |-> order[rom], cheats |-> Emitted]
      /\ UNCHANGED <<setup, boots, pak, useDb, order, rom, set, loadedFor, fromDb, pending, table, editor, naming>>
      /\ UNCHANGED <<asked, typed>>
  BY DEF Launch, CaptureAndSave, sheet, editing
<1>2. \/ setup.dummy /\ screen' = "grid" /\ UNCHANGED <<file, tableDirty>>
      \/ screen' = "off" /\ tableDirty /\ file' = table /\ tableDirty' = FALSE
      \/ screen' = "off" /\ ~ tableDirty /\ UNCHANGED <<file, tableDirty>>
  BY DEF Launch, SaveTyped
<1>3. OnSheet /\ Live
  BY <1>1 DEF OnSheet, Live
<1>4. order[rom] \in Games
  BY <1>3, SheetsGame DEF IInv
<1>5. setup.dummy => ~ setup.hasty
  BY CheatsAssumption DEF IInv, Types, TypeOK
<1>6. Types'
  <2>1. rows' \subseteq Games \X Names
    BY <1>1, <1>4, CapturedType DEF IInv
  <2>2. Range(file') \subseteq Kept /\ file' \in Seq(Kept) /\ tableDirty' \in BOOLEAN /\ screen' \in {"off", "grid"}
    BY <1>2, SequencesRange DEF IInv, Types, TypeOK
  <2>3. QED
    BY <1>1, <2>1, <2>2 DEF IInv, Types, TypeOK
<1>7. Session'
  BY <1>2 DEF Session, OnSheet, Live
<1>8. TablesAgree'
  <2>1. TableDistinct(table) /\ TableDistinct(file) /\ typed = TypedOf(table) /\ (~ tableDirty => file = table)
    BY <1>1 DEF IInv, TablesAgree
  <2>2. TableDistinct(table)' /\ TypedOf(table)' = TypedOf(table)
    BY <1>1, <2>1 DEF TableDistinct, TypedOf
  <2>3. CASE UNCHANGED <<file, tableDirty>>
    <3>1. TableDistinct(file)' /\ TypedOf(file)' = TypedOf(file)
      BY <2>1, <2>3 DEF TableDistinct, TypedOf
    <3>2. QED
      BY <1>1, <1>2, <2>1, <2>2, <2>3, <3>1 DEF TablesAgree
  <2>4. CASE file' = table
    <3>1. TableDistinct(file)' /\ TypedOf(file)' = TypedOf(table)
      BY <2>1, <2>4 DEF TableDistinct, TypedOf
    <3>2. QED
      BY <1>1, <1>2, <2>1, <2>2, <2>4, <3>1 DEF TablesAgree
  <2>5. QED
    BY <1>2, <2>3, <2>4
<1>9. SetIsRight'
  BY <1>1, <1>2, SetStaysRight DEF IInv
<1>10. TicksAsked'
  <2>1. rows' \subseteq asked
    BY <1>1, <1>3, CapturedIsAsked DEF IInv
  <2>2. loadedFor # NoGame => \A i \in DOMAIN set : set[i].on => <<order[loadedFor], set[i].name>> \in asked
    BY DEF IInv, TicksAsked
  <2>3. screen' = "off" \/ ~ setup'.hasty
    BY <1>1, <1>2, <1>5
  <2>4. QED
    BY <1>1, <2>1, <2>2, <2>3 DEF TicksAsked
<1>11. EmittedIsAsked'
  <2>1. ran'.game = order[rom] /\ ran'.cheats = Emitted
    BY <1>1
  <2>2. ASSUME NEW i \in DOMAIN Emitted
        PROVE  /\ <<order[rom], Emitted[i].name>> \in asked
               /\ \A t \in typed : (t.game = order[rom] /\ t.name = Fold[Emitted[i].name]) => Emitted[i].code = t.code
    <3>1. PICK j \in DOMAIN set : Emitted[i] = set[j] /\ set[j].on
      BY EmittedIsTicked DEF IInv, Types
    <3>2. QED
      BY <1>3, <3>1, SetIsAsked
  <2> DEFINE cheats == Emitted
             g == order[rom]
  <2> HIDE DEF cheats, g
  <2>3. \A i \in DOMAIN ran'.cheats :
          /\ <<ran'.game, ran'.cheats[i].name>> \in asked'
          /\ \A t \in typed' : (t.game = ran'.game /\ t.name = Fold[ran'.cheats[i].name]) => ran'.cheats[i].code = t.code
    BY <1>1, <2>1, <2>2 DEF cheats, g
  <2>4. QED
    BY <2>3 DEF EmittedIsAsked
<1>12. QED
  BY <1>6, <1>7, <1>8, <1>9, <1>10, <1>11 DEF IInv

\* The sheet follows its game to where the new title sorts it.
LEMMA RenameStep ==
    ASSUME IInv, Rename
    PROVE  IInv'
<1> DEFINE g == order[rom]
<1>1. PICK o \in Orders :
         /\ order' = o /\ rom' = Place(order[rom], o) /\ loadedFor' = rom' /\ pending' = Owed(rom', rom')
  BY DEF Rename
<1>2. /\ screen = "sheet" /\ ~ pending
      /\ UNCHANGED <<setup, boots, screen, pak, useDb, set, fromDb, rows, table, tableDirty, file, editor, naming>>
      /\ UNCHANGED <<ran, asked, typed>>
  BY DEF Rename, kept, editing, ghosts
<1>3. OnSheet /\ Live
  BY <1>2 DEF OnSheet, Live
<1>4. g \in Games /\ rom # NoGame /\ loadedFor = rom /\ fromDb = useDb
  BY <1>3, SheetsGame DEF IInv, Session
<1>5. rom' \in DOMAIN o /\ o[rom'] = g
  <2>1. \E i \in DOMAIN o : o[i] = g
    BY <1>4, OrderHasAll
  <2>2. Place(g, o) \in DOMAIN o /\ o[Place(g, o)] = g
    BY <2>1 DEF Place
  <2>3. QED
    BY <1>1, <2>2
<1>6. rom' # NoGame
  BY <1>5, OrderType DEF NoGame
<1>7. pending' = FALSE
  BY <1>1, <1>4 DEF Owed
<1>8. Types'
  BY <1>1, <1>2, <1>5, <1>7 DEF IInv, Types, TypeOK
<1>9. Session'
  BY <1>1, <1>2, <1>4, <1>6 DEF IInv, Session, OnSheet, Live
<1>10. TablesAgree'
  BY <1>2 DEF IInv, TablesAgree, TableDistinct, TypedOf
<1>11. SetIsRight'
  <2>1. order'[loadedFor'] = order[loadedFor] /\ loadedFor # NoGame /\ screen # "off"
    BY <1>1, <1>2, <1>4, <1>5
  <2>2. QED
    BY <1>2, <2>1, SetStaysRight DEF IInv
<1>12. TicksAsked'
  <2>1. Live' /\ order'[rom'] = g /\ order'[loadedFor'] = g
    BY <1>1, <1>2, <1>5, <1>7 DEF Live, OnSheet
  <2>2. /\ \A i \in DOMAIN set : set[i].on => <<g, set[i].name>> \in asked
        /\ \A t \in rows : t \in asked \/ t[1] = g
    BY <1>2, <1>4 DEF IInv, TicksAsked
  <2> HIDE DEF g
  <2>3. QED
    BY <1>2, <2>1, <2>2 DEF TicksAsked
<1>13. EmittedIsAsked'
  BY <1>2 DEF IInv, EmittedIsAsked
<1>14. QED
  BY <1>8, <1>9, <1>10, <1>11, <1>12, <1>13 DEF IInv

\* A tick is asked for as it is set, under one name.
LEMMA ToggleStep ==
    ASSUME IInv, NEW i \in DOMAIN set, Toggle(i)
    PROVE  IInv'
<1> DEFINE g == order[rom]
<1>1. /\ screen = "list" /\ set' = [set EXCEPT ![i].on = ~@]
      /\ asked' = IF set[i].on THEN asked \ {<<order[rom], set[i].name>>} ELSE asked \cup {<<order[rom], set[i].name>>}
      /\ UNCHANGED <<setup, boots, screen, pak, useDb, order, rom, loadedFor, fromDb, pending>>
      /\ UNCHANGED <<rows, table, tableDirty, file, editor, naming, ran, typed>>
  BY DEF Toggle, kept, editing
<1>2. OnSheet /\ Live
  BY <1>1 DEF IInv, Session, OnSheet, Live
<1>3. g \in Games /\ rom # NoGame /\ loadedFor = rom /\ ran = NothingRun
  BY <1>2, SheetsGame DEF IInv, Session
<1>4. set \in Seq(Shown) /\ \A j \in DOMAIN set : set[j] \in Shown
  BY DEF IInv, Types
<1>5. \A j \in DOMAIN set : set[j].name \in Names /\ set[j].on \in BOOLEAN
  BY <1>4 DEF Shown
<1>6. /\ DOMAIN set' = DOMAIN set
      /\ \A j \in DOMAIN set : set'[j].name = set[j].name /\ set'[j].code = set[j].code
      /\ \A j \in DOMAIN set : j # i => set'[j] = set[j]
      /\ set'[i].on = ~ set[i].on
  <2>1. set'[i] = [set[i] EXCEPT !.on = ~@] /\ DOMAIN set' = DOMAIN set /\ \A j \in DOMAIN set : j # i => set'[j] = set[j]
    BY <1>1
  <2>2. set'[i].name = set[i].name /\ set'[i].code = set[i].code /\ set'[i].on = ~ set[i].on
    BY <1>4, <2>1 DEF Shown
  <2>3. QED
    BY <2>1, <2>2
<1>7. Types'
  <2>1. set' \in Seq(Shown)
    <3>1. [set[i] EXCEPT !.on = ~@] \in Shown
      BY <1>4 DEF Shown
    <3>2. [set EXCEPT ![i] = [set[i] EXCEPT !.on = ~@]] \in Seq(Shown)
      BY <1>4, <3>1, ExceptSeq
    <3>3. QED
      BY <1>1, <3>2
  <2>2. Range(set') \subseteq Shown
    BY <2>1, SequencesRange
  <2>3. asked' \subseteq Games \X Names
    BY <1>1, <1>3, <1>5 DEF IInv, Types, TypeOK
  <2>4. QED
    BY <1>1, <2>1, <2>2, <2>3 DEF IInv, Types, TypeOK
<1>8. Session'
  BY <1>1 DEF IInv, Session, OnSheet, Live
<1>9. TablesAgree'
  BY <1>1 DEF IInv, TablesAgree, TableDistinct, TypedOf
<1>10. SetIsRight'
  BY <1>1, <1>6, SetStaysRight DEF IInv
<1>11. TicksAsked'
  <2>1. /\ \A j \in DOMAIN set : set[j].on => <<g, set[j].name>> \in asked
        /\ \A t \in rows : t \in asked \/ t[1] = g
    BY <1>1, <1>3 DEF IInv, TicksAsked
  <2>2. \A j \in DOMAIN set : j # i => set[j].name # set[i].name
    BY DEF IInv, SetIsRight, Distinct, SameName
  <2>3. \A j \in DOMAIN set : set'[j].on => <<g, set'[j].name>> \in asked'
    <3>1. ASSUME NEW j \in DOMAIN set, j # i, set'[j].on PROVE <<g, set'[j].name>> \in asked'
      BY <3>1, <1>1, <1>6, <2>1, <2>2
    <3>2. ASSUME set'[i].on PROVE <<g, set'[i].name>> \in asked'
      <4>1. ~ set[i].on /\ set'[i].name = set[i].name
        BY <3>2, <1>5, <1>6
      <4>2. asked' = asked \cup {<<g, set[i].name>>}
        BY <1>1, <4>1
      <4>3. QED
        BY <4>1, <4>2
    <3>3. QED
      BY <3>1, <3>2
  <2>4. Live' /\ order'[rom'] = g /\ order'[loadedFor'] = g
    BY <1>1, <1>2, <1>3 DEF Live, OnSheet
  <2>5. \A t \in rows' : t \in asked' \/ t[1] = g
    BY <1>1, <2>1
  <2> HIDE DEF g
  <2>6. QED
    BY <1>6, <2>3, <2>4, <2>5 DEF TicksAsked
<1>12. EmittedIsAsked'
  BY <1>1, <1>3, NothingIsAsked
<1>13. QED
  BY <1>7, <1>8, <1>9, <1>10, <1>11, <1>12 DEF IInv

\* What was typed of g and n before c was, and c.
Retyped(g, n, c) == {t \in typed : ~ (t.game = g /\ t.name = Fold[n])} \cup {[game |-> g, name |-> Fold[n], code |-> c]}

\* The table has one record for the cheat that was typed, in the place of the
\* one it had or in a new one, and all others.
LEMMA PutIsRight ==
    ASSUME table \in Seq(Kept), TableDistinct(table), typed = TypedOf(table),
           NEW g \in Games, NEW n \in Names, NEW c \in DOMAIN Lines, Put(g, n, c)
    PROVE  /\ table' \in Seq(Kept)
           /\ TableDistinct(table')
           /\ TypedOf(table') = Retyped(g, n, c)
<1> DEFINE r == [game |-> g, name |-> n, code |-> c]
           l == Len(table)
           rec(t, j) == [game |-> t[j].game, name |-> Fold[t[j].name], code |-> t[j].code]
           new == [game |-> g, name |-> Fold[n], code |-> c]
<1>1. r \in Kept /\ r.game = g /\ r.name = n /\ r.code = c
  BY DEF Kept
<1>2. l \in Nat /\ DOMAIN table = 1 .. l
  OBVIOUS
<1>3. CASE Slot(g, n) = {}
  <2>1. table' = Append(table, r)
    BY <1>3 DEF Put
  <2>2. table' \in Seq(Kept) /\ DOMAIN table' = 1 .. l + 1 /\ table'[l + 1] = r /\ \A i \in 1 .. l : table'[i] = table[i]
    BY <1>1, <2>1, AppendProperties
  <2>3. \A i \in 1 .. l : ~ (table[i].game = g /\ SameName(table[i].name, n))
    BY <1>2, <1>3 DEF Slot
  <2> HIDE DEF r, l
  <2>4. /\ \A i \in 1 .. l + 1 : i = l + 1 \/ i \in 1 .. l
        /\ l + 1 \in 1 .. l + 1 /\ \A i \in 1 .. l : i \in 1 .. l + 1 /\ i # l + 1
    BY <1>2
  <2>5. TableDistinct(table')
    BY <1>1, <1>2, <2>2, <2>3, <2>4 DEF TableDistinct, SameName
  <2>6. TypedOf(table') = {rec(table', j) : j \in 1 .. l + 1} /\ typed = {rec(table, j) : j \in 1 .. l}
    BY <1>2, <2>2 DEF TypedOf
  <2>7. rec(table', l + 1) = new /\ \A j \in 1 .. l : rec(table', j) = rec(table, j)
    BY <1>1, <2>2
  <2>8. \A j \in 1 .. l : ~ (rec(table, j).game = g /\ rec(table, j).name = Fold[n])
    BY <2>3 DEF SameName
  <2> HIDE DEF rec, new
  <2>9. {t \in typed : ~ (t.game = g /\ t.name = Fold[n])} = typed
    BY <2>6, <2>8
  <2>10. TypedOf(table') = typed \cup {new}
    BY <2>4, <2>6, <2>7
  <2>11. QED
    BY <2>2, <2>5, <2>9, <2>10 DEF Retyped, new
<1>4. CASE Slot(g, n) # {}
  <2> DEFINE k == CHOOSE i \in Slot(g, n) : \A j \in Slot(g, n) : i <= j
  <2>1. table' = [table EXCEPT ![k] = r]
    BY <1>4 DEF Put
  <2>2. k \in Slot(g, n)
    <3>1. Slot(g, n) \in SUBSET Nat
      BY <1>2 DEF Slot
    <3>2. \E i \in Slot(g, n) : \A j \in Slot(g, n) : i <= j
      BY <1>4, <3>1, LeastNumber
    <3>3. QED
      BY <3>2
  <2> HIDE DEF k
  <2>3. k \in 1 .. l /\ table[k].game = g /\ SameName(table[k].name, n)
    BY <1>2, <2>2 DEF Slot
  <2>4. table' \in Seq(Kept) /\ DOMAIN table' = 1 .. l /\ table'[k] = r /\ \A i \in 1 .. l : i # k => table'[i] = table[i]
    BY <1>1, <1>2, <2>1, <2>3, ExceptSeq
  <2>5. \A i \in 1 .. l : i # k => ~ (table[i].game = g /\ SameName(table[i].name, n))
    BY <1>2, <2>3 DEF TableDistinct, SameName
  <2> HIDE DEF r, l
  <2>6. TableDistinct(table')
    BY <1>1, <1>2, <2>3, <2>4, <2>5 DEF TableDistinct, SameName
  <2>7. TypedOf(table') = {rec(table', j) : j \in 1 .. l} /\ typed = {rec(table, j) : j \in 1 .. l}
    BY <1>2, <2>4 DEF TypedOf
  <2>8. rec(table', k) = new /\ \A j \in 1 .. l : j # k => rec(table', j) = rec(table, j)
    BY <1>1, <2>4
  <2>9. \A j \in 1 .. l : j # k <=> ~ (rec(table, j).game = g /\ rec(table, j).name = Fold[n])
    BY <2>3, <2>5 DEF SameName
  <2> HIDE DEF rec, new
  <2>10. TypedOf(table') = {t \in typed : ~ (t.game = g /\ t.name = Fold[n])} \cup {new}
    BY <2>3, <2>7, <2>8, <2>9
  <2>11. QED
    BY <2>4, <2>6, <2>10 DEF Retyped, new
<1>5. QED
  BY <1>3, <1>4

\* The editor's cheat goes to the table and to the list alike.
LEMMA SaveStep ==
    ASSUME IInv, SaveCheat
    PROVE  IInv'
<1> DEFINE g == order[rom]
           n == Trim[editor.name]
           c == editor.code
<1>1. /\ screen = "editor" /\ screen' = "list" /\ Put(g, n, c) /\ set' = WithTyped(set, n, c)
      /\ tableDirty' = TRUE /\ editor' = NoEditor /\ typed' = Retyped(g, n, c)
      /\ UNCHANGED <<setup, boots, pak, useDb, order, rom, loadedFor, fromDb, pending, rows, file, naming, ran, asked>>
  BY DEF SaveCheat, Dirtied, Retyped
<1>2. OnSheet /\ Live
  BY <1>1 DEF IInv, Session, OnSheet, Live
<1>3. g \in Games /\ rom # NoGame /\ loadedFor = rom /\ ran = NothingRun
  BY <1>2, SheetsGame DEF IInv, Session
<1>4. n \in Names /\ c \in DOMAIN Lines
  BY CheatsAssumption DEF IInv, Types, TypeOK
<1>5. set \in Seq(Shown) /\ Distinct(set) /\ RightList(set, g, fromDb)
  BY <1>1, <1>3 DEF IInv, Types, SetIsRight
<1>6. table \in Seq(Kept) /\ TableDistinct(table) /\ TableDistinct(file) /\ typed = TypedOf(table)
  BY <1>1 DEF IInv, Types, TablesAgree
<1> HIDE DEF n, c
<1>7. g' = g
  BY <1>1
<1> HIDE DEF g
<1>8. set' \in Seq(Shown) /\ Overlaid(set', set, n, c)
  BY <1>1, <1>4, <1>5, WithTypedType, WithTypedOverlays
<1>9. table' \in Seq(Kept) /\ TableDistinct(table') /\ TypedOf(table') = Retyped(g, n, c)
  BY <1>1, <1>3, <1>4, <1>6, PutIsRight
<1>10. Types'
  <2>1. Range(set') \subseteq Shown /\ Range(table') \subseteq Kept
    BY <1>8, <1>9, SequencesRange
  <2>2. typed' \subseteq Kept
    BY <1>1, <1>9, TypedOfType
  <2>3. NoEditor \in [name : Names, code : DOMAIN Lines]
    BY CheatsAssumption DEF NoEditor
  <2>4. QED
    BY <1>1, <1>8, <1>9, <2>1, <2>2, <2>3 DEF IInv, Types, TypeOK
<1>11. Session'
  BY <1>1, <1>3 DEF IInv, Session, OnSheet, Live
<1>12. TablesAgree'
  BY <1>1, <1>6, <1>9 DEF TablesAgree, TableDistinct, TypedOf
<1>13. SetIsRight'
  <2>1. Distinct(set)'
    BY <1>8 DEF Overlaid, Distinct
  <2>2. Given(g, fromDb)' = Given(g, fromDb) /\ Usable(g, fromDb)' = Usable(g, fromDb)
    BY <1>1, <1>7 DEF Given, Usable
  <2>3. {t.name : t \in {u \in typed' : u.game = g}} = {t.name : t \in {u \in typed : u.game = g}} \cup {Fold[n]}
    <3> DEFINE new == [game |-> g, name |-> Fold[n], code |-> c]
               old == {t \in typed : ~ (t.game = g /\ t.name = Fold[n])}
    <3>1. new.game = g /\ new.name = Fold[n]
      OBVIOUS
    <3>2. typed' = old \cup {new}
      BY <1>1 DEF Retyped
    <3> HIDE DEF new
    <3>3. \A u \in typed : u.game = g => u.name = Fold[n] \/ u \in old
      OBVIOUS
    <3>4. \A u \in typed' : u.game = g => u.name = Fold[n] \/ u \in typed
      BY <3>1, <3>2
    <3>5. QED
      BY <3>1, <3>2, <3>3, <3>4
  <2>4. FoldedNames(set)' = FoldedNames(set) \cup {Fold[n]}
    BY <1>8 DEF Overlaid, FoldedNames
  <2>5. FoldedNames(set)' = {Fold[x.name] : x \in Usable(g, fromDb)} \cup {t.name : t \in {u \in typed' : u.game = g}}
    BY <1>5, <2>3, <2>4 DEF RightList
  <2>6. ASSUME NEW i \in DOMAIN set'
        PROVE  LET own == {t \in typed' : t.game = g /\ t.name = Fold[set'[i].name]}
               IN  IF own # {} THEN \A t \in own : set'[i].code = t.code
                   ELSE \E x \in Given(g, fromDb) : x.name = set'[i].name /\ x.code = set'[i].code
    <3>1. CASE SameName(set'[i].name, n)
      <4>1. set'[i].code = c
        BY <1>8, <3>1 DEF Overlaid
      <4>2. {t \in typed' : t.game = g /\ t.name = Fold[set'[i].name]} = {[game |-> g, name |-> Fold[n], code |-> c]}
        BY <1>1, <3>1 DEF Retyped, SameName
      <4>3. [game |-> g, name |-> Fold[n], code |-> c].code = c
        OBVIOUS
      <4>4. QED
        BY <4>1, <4>2, <4>3
    <3>2. CASE ~ SameName(set'[i].name, n)
      <4>1. PICK j \in DOMAIN set : set'[i] = set[j]
        BY <1>8, <3>2 DEF Overlaid
      <4>2. {t \in typed' : t.game = g /\ t.name = Fold[set'[i].name]} = {t \in typed : t.game = g /\ t.name = Fold[set[j].name]}
        BY <1>1, <3>2, <4>1 DEF Retyped, SameName
      <4>3. LET own == {t \in typed : t.game = g /\ t.name = Fold[set[j].name]}
            IN  IF own # {} THEN \A t \in own : set[j].code = t.code
                ELSE \E x \in Given(g, fromDb) : x.name = set[j].name /\ x.code = set[j].code
        BY <1>5 DEF RightList
      <4>4. QED
        BY <4>1, <4>2, <4>3
    <3>3. QED
      BY <3>1, <3>2
  <2>7. RightList(set, g, fromDb)'
    BY <1>7, <2>2, <2>5, <2>6 DEF RightList
  <2>8. QED
    BY <1>1, <1>3, <2>1, <2>7 DEF SetIsRight, g
<1>14. TicksAsked'
  <2>1. /\ \A j \in DOMAIN set : set[j].on => <<g, set[j].name>> \in asked
        /\ \A t \in rows : t \in asked \/ t[1] = g
    BY <1>1, <1>3 DEF IInv, TicksAsked, g
  <2>2. \A i \in DOMAIN set' : set'[i].on => \E j \in DOMAIN set : set[j].name = set'[i].name /\ set[j].on
    BY <1>8 DEF Overlaid
  <2>3. Live' /\ order'[rom'] = g /\ order'[loadedFor'] = g
    BY <1>1, <1>2, <1>3 DEF Live, OnSheet, g
  <2>4. QED
    BY <1>1, <2>1, <2>2, <2>3 DEF TicksAsked
<1>15. EmittedIsAsked'
  BY <1>1, <1>3, NothingIsAsked
<1>16. QED
  BY <1>10, <1>11, <1>12, <1>13, <1>14, <1>15 DEF IInv

----------------------------------------------------------------------------
(* The theorems.                                                           *)

\* It holds as the console is switched on for the first time.
LEMMA IInvInit ==
    ASSUME Init
    PROVE  IInv
<1>1. /\ setup \in Setups /\ boots = 0 /\ screen = "off" /\ pak \in Paks /\ useDb = TRUE
      /\ order \in Orders
      /\ rom = NoGame /\ set = <<>> /\ loadedFor = NoGame /\ fromDb = FALSE /\ pending = FALSE
      /\ rows = {} /\ table = <<>> /\ tableDirty = FALSE /\ file = <<>>
      /\ editor = NoEditor /\ naming = FALSE
      /\ ran = NothingRun /\ asked = {} /\ typed = {}
  BY DEF Init
<1>2. Types
  <2>1. NoEditor \in [name : Names, code : DOMAIN Lines] /\ boots \in Boots
    BY <1>1, CheatsAssumption DEF NoEditor, Boots
  <2>2. Range(<<>>) = {}
    BY DEF Range
  <2>3. <<>> \in Seq(Shown) /\ <<>> \in Seq(Kept)
    OBVIOUS
  <2>4. QED
    BY <1>1, <2>1, <2>2, <2>3 DEF Types, TypeOK
<1>3. Session /\ SetIsRight /\ TicksAsked
  BY <1>1 DEF Session, OnSheet, Live, SetIsRight, Distinct, TicksAsked
<1>4. TablesAgree
  BY <1>1 DEF TablesAgree, TableDistinct
<1>5. EmittedIsAsked
  BY <1>1 DEF EmittedIsAsked, NothingRun
<1>6. QED
  BY <1>2, <1>3, <1>4, <1>5 DEF IInv

\* It holds after every step.
LEMMA IInvNext ==
    ASSUME IInv, [Next]_vars
    PROVE  IInv'
<1>1. CASE UNCHANGED vars
  <2>1. UNCHANGED <<setup, boots, screen, pak, useDb, order, rom, set, loadedFor, fromDb, pending, rows, table, tableDirty,
                    file, editor, naming, ran, asked, typed>>
    BY <1>1 DEF vars, sheet, kept, editing, ghosts
  <2>2. Types' /\ Session'
    BY <2>1 DEF IInv, Types, TypeOK, Session, OnSheet, Live
  <2>3. TablesAgree'
    BY <2>1 DEF IInv, TablesAgree, TableDistinct, TypedOf
  <2>4. SetIsRight'
    BY <2>1, SetStaysRight DEF IInv
  <2>5. TicksAsked' /\ EmittedIsAsked'
    BY <2>1 DEF IInv, TicksAsked, Live, OnSheet, EmittedIsAsked
  <2>6. QED
    BY <2>2, <2>3, <2>4, <2>5 DEF IInv
<1>2. CASE Next
  BY <1>2, NextCases, QuietStep, BootStep, BackgroundStep, CloseSheetStep, CloseSheetAtOnceStep, RenameStep, LaunchStep,
     SaveStep, ToggleStep
<1>3. QED
  BY <1>1, <1>2

\* In every state the screens, the files and what the user did agree: the set
\* in memory is the list of its game, its ticks and those kept were asked for,
\* the table is what was typed.
THEOREM InvariantHolds == Spec => []IInv
<1>1. Init => IInv
  BY IInvInit
<1>2. IInv /\ [Next]_vars => IInv'
  BY IInvNext
<1>3. QED
  BY <1>1, <1>2, PTL DEF Spec

\* A game is booted with cheats that the user ticked for it, under that name,
\* and with the lines last given (cheat_state_capture(), usercheats_apply(),
\* load_cheats_now() and do_load(), whatever the order of loads, edits,
\* renames and boots).
THEOREM BootedAsAsked == Spec => []EmittedIsAsked
<1>1. IInv => EmittedIsAsked
  BY DEF IInv
<1>2. QED
  BY <1>1, InvariantHolds, PTL

\* The list shows what the narrowest row of the database and the user have for
\* this very cartridge, each cheat once (find_row(), usercheats_apply() and
\* cheats_for_rom), whatever the database holds.
THEOREM ListIsRight == Spec => []ListIsThisCartridges
<1>1. ASSUME IInv PROVE ListIsThisCartridges
  <2>1. TypeOK
    BY <1>1 DEF IInv, Types
  <2>2. OneCheatPerName
    BY <1>1 DEF IInv, TablesAgree, SetIsRight, TableDistinct, Distinct, SameName, OneCheatPerName
  <2>3. ASSUME screen = "list" PROVE RightList(set, order[rom], useDb)
    BY <1>1, <2>3 DEF IInv, Session, SetIsRight, OnSheet, Live
  <2>4. QED
    BY <2>1, <2>2, <2>3 DEF ListIsThisCartridges, RightList, FoldedNames, Given, Usable
<1>2. QED
  BY <1>1, InvariantHolds, PTL

\* When a game is booted the card has every cheat that was typed
\* (usercheats_dirty() and app_deinit()).
THEOREM TypedReachesTheCard == Spec => []NothingTypedIsLost
<1>1. IInv => TablesAgree
  BY DEF IInv
<1>2. TablesAgree => NothingTypedIsLost
  BY DEF TablesAgree, NothingTypedIsLost
<1>3. QED
  BY <1>1, <1>2, InvariantHolds, PTL
=============================================================================
