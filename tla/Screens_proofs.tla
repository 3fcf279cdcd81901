--------------------------- MODULE Screens_proofs ---------------------------
(***************************************************************************)
(* Screens for any titles, names, players, songs, sizes and tours: that    *)
(* nothing of anyone's is shown before a player is chosen and the cursor   *)
(* is on a title, that what was set is what holds, and that a name goes to *)
(* the title or the player it was asked for.                               *)
(***************************************************************************)
EXTENDS Screens, FiniteSetTheorems, SequenceTheorems, WellFoundedInduction, TLAPS

-----------------------------------------------------------------------------
(***************************************************************************)
(* Orders.                                                                 *)
(***************************************************************************)
Strict(S, order) ==
    /\ \A x \in S : <<x, x>> \notin order
    /\ \A x, y, z \in S : <<x, y>> \in order /\ <<y, z>> \in order => <<x, z>> \in order
    /\ \A x, y \in S : x = y \/ <<x, y>> \in order \/ <<y, x>> \in order

\* As many come before a member as the place it is put in.
LEMMA RanksFollowTheOrder ==
  ASSUME NEW S, IsFiniteSet(S), NEW order, Strict(S, order),
         NEW x \in S, NEW y \in S, <<x, y>> \in order
  PROVE  Cardinality({z \in S : <<z, x>> \in order}) < Cardinality({z \in S : <<z, y>> \in order})
<1> DEFINE A == {z \in S : <<z, x>> \in order}
           B == {z \in S : <<z, y>> \in order}
<1>1. A \subseteq B /\ x \in B /\ x \notin A
  BY DEF Strict
<1>2. IsFiniteSet(B) /\ Cardinality(B) \in Nat
  BY FS_Subset, FS_CardinalityType
<1>3. IsFiniteSet(A) /\ Cardinality(A) \in Nat /\ Cardinality(A) <= Cardinality(B)
  BY <1>1, <1>2, FS_Subset, FS_CardinalityType
<1>4. Cardinality(A) # Cardinality(B)
  BY <1>1, <1>2, FS_Subset
<1>5. QED
  BY <1>2, <1>3, <1>4

\* A finite set has its members in order, each once.
LEMMA OrderedSequence ==
  ASSUME NEW S, IsFiniteSet(S), NEW order, Strict(S, order)
  PROVE  /\ Cardinality(S) \in Nat
         /\ InOrder(S, order) \in [1 .. Cardinality(S) -> S]
         /\ \A i, j \in 1 .. Cardinality(S) : i < j => <<InOrder(S, order)[i], InOrder(S, order)[j]>> \in order
<1> DEFINE n == Cardinality(S)
           rank == [x \in S |-> Cardinality({z \in S : <<z, x>> \in order}) + 1]
<1>1. n \in Nat
  BY FS_CardinalityType
<1>2. \A x \in S : rank[x] \in 1 .. n
  <2> TAKE x \in S
  <2> DEFINE A == {z \in S : <<z, x>> \in order}
  <2>1. A \subseteq S /\ A # S
    BY DEF Strict
  <2>2. Cardinality(A) \in Nat /\ Cardinality(A) <= n /\ Cardinality(A) # n
    BY <2>1, FS_Subset, FS_CardinalityType
  <2>3. QED
    BY <1>1, <2>2
<1>3. \A x, y \in S : <<x, y>> \in order => rank[x] < rank[y]
  <2> TAKE x, y \in S
  <2>1. HAVE <<x, y>> \in order
  <2>2. Cardinality({z \in S : <<z, x>> \in order}) < Cardinality({z \in S : <<z, y>> \in order})
    BY <2>1, RanksFollowTheOrder
  <2>3. rank[x] \in Nat /\ rank[y] \in Nat
    BY <1>1, <1>2
  <2>4. /\ rank[x] = Cardinality({z \in S : <<z, x>> \in order}) + 1
        /\ rank[y] = Cardinality({z \in S : <<z, y>> \in order}) + 1
    OBVIOUS
  <2>5. Cardinality({z \in S : <<z, x>> \in order}) \in Nat /\ Cardinality({z \in S : <<z, y>> \in order}) \in Nat
    BY FS_Subset, FS_CardinalityType
  <2> HIDE DEF rank
  <2>6. QED
    BY <2>2, <2>4, <2>5
<1> HIDE DEF rank
<1>4. rank \in Injection(S, 1 .. n)
  <2>1. rank \in [S -> 1 .. n]
    BY <1>2 DEF rank
  <2>2. \A x, y \in S : rank[x] = rank[y] => x = y
    <3> TAKE x, y \in S
    <3>1. rank[x] \in Nat /\ rank[y] \in Nat
      BY <1>1, <1>2
    <3>2. x = y \/ <<x, y>> \in order \/ <<y, x>> \in order
      BY DEF Strict
    <3>3. QED
      BY <1>3, <3>1, <3>2
  <2>3. QED
    BY <2>1, <2>2 DEF Injection, IsInjective
<1>5. IsFiniteSet(1 .. n) /\ Cardinality(1 .. n) = n
  BY <1>1, FS_Interval
<1>6. rank \in Surjection(S, 1 .. n)
  BY <1>4, <1>5, FS_Injection
<1>7. \A k \in 1 .. n : \E x \in S : rank[x] = k
  BY <1>6 DEF Surjection
<1> DEFINE s == [k \in 1 .. n |-> CHOOSE x \in S : rank[x] = k]
<1>8. s \in [1 .. n -> S] /\ \A k \in 1 .. n : rank[s[k]] = k
  BY <1>7
<1> HIDE DEF s
<1>9. \A i, j \in DOMAIN s : i < j => <<s[i], s[j]>> \in order
  <2> SUFFICES ASSUME NEW i \in 1 .. n, NEW j \in 1 .. n, i < j PROVE <<s[i], s[j]>> \in order
    BY <1>8
  <2>1. s[i] \in S /\ s[j] \in S /\ rank[s[i]] = i /\ rank[s[j]] = j
    BY <1>8
  <2>2. s[i] # s[j] /\ ~ (<<s[j], s[i]>> \in order)
    BY <1>1, <1>3, <2>1
  <2>3. QED
    BY <2>1, <2>2 DEF Strict
<1>10. \E t \in [1 .. n -> S] : \A i, j \in DOMAIN t : i < j => <<t[i], t[j]>> \in order
  BY <1>8, <1>9
<1>11. /\ InOrder(S, order) \in [1 .. n -> S]
       /\ \A i, j \in DOMAIN InOrder(S, order) : i < j => <<InOrder(S, order)[i], InOrder(S, order)[j]>> \in order
  BY <1>10 DEF InOrder
<1>12. QED
  BY <1>1, <1>11

\* And none is left out.
LEMMA OrderedIsAll ==
  ASSUME NEW S, IsFiniteSet(S), NEW order, Strict(S, order)
  PROVE  /\ \A i, j \in 1 .. Cardinality(S) : InOrder(S, order)[i] = InOrder(S, order)[j] => i = j
         /\ \A x \in S : \E i \in 1 .. Cardinality(S) : InOrder(S, order)[i] = x
<1> DEFINE n == Cardinality(S)
           s == InOrder(S, order)
<1>1. n \in Nat /\ s \in [1 .. n -> S] /\ \A i, j \in 1 .. n : i < j => <<s[i], s[j]>> \in order
  BY OrderedSequence
<1> HIDE DEF s
<1>2. \A i, j \in 1 .. n : s[i] = s[j] => i = j
  <2> SUFFICES ASSUME NEW i \in 1 .. n, NEW j \in 1 .. n, s[i] = s[j], i # j PROVE FALSE
    OBVIOUS
  <2>1. s[i] \in S /\ (i < j \/ j < i)
    BY <1>1
  <2>2. <<s[i], s[j]>> \in order \/ <<s[j], s[i]>> \in order
    BY <1>1, <2>1
  <2>3. QED
    BY <2>1, <2>2 DEF Strict
<1>3. s \in Injection(1 .. n, S)
  BY <1>1, <1>2 DEF Injection, IsInjective
<1>4. IsFiniteSet(1 .. n) /\ Cardinality(1 .. n) = n
  BY <1>1, FS_Interval
<1>5. s \in Surjection(1 .. n, S)
  BY <1>3, <1>4, FS_Injection
<1>6. QED
  BY <1>2, <1>5 DEF Surjection, s

\* A set of naturals has a least member.
LEMMA LeastExists ==
  ASSUME NEW T \in SUBSET Nat, T # {}
  PROVE  \E x \in T : \A y \in T : x <= y
<1> DEFINE R == OpToRel(<, Nat)
<1>1. IsWellFoundedOn(R, Nat)
  BY NatLessThanWellFounded
<1>2. \A x, y \in Nat : y < x => <<y, x>> \in R
  BY DEF OpToRel
<1> HIDE DEF R
<1>3. PICK x \in T : \A y \in T : ~ (<<y, x>> \in R)
  BY <1>1, WFMin
<1>4. \A y \in T : x <= y
  <2> TAKE y \in T
  <2>1. x \in Nat /\ y \in Nat /\ ~ (y < x)
    BY <1>2, <1>3
  <2>2. QED
    BY <2>1
<1>5. QED
  BY <1>4

\* A bounded one has a greatest.
LEMMA GreatestExists ==
  ASSUME NEW T \in SUBSET Nat, T # {}, NEW bound \in Nat, \A x \in T : x <= bound
  PROVE  \E x \in T : \A y \in T : y <= x
<1> DEFINE U == {bound - x : x \in T}
<1>1. U \in SUBSET Nat /\ U # {}
  <2>1. \A x \in T : x \in Nat /\ bound - x \in Nat
    OBVIOUS
  <2>2. QED
    BY <2>1
<1>2. PICK u \in U : \A v \in U : u <= v
  BY <1>1, LeastExists
<1>3. PICK x \in T : u = bound - x
  BY <1>2
<1>4. \A y \in T : y <= x
  <2> TAKE y \in T
  <2>1. bound - y \in U /\ x \in Nat /\ y \in Nat
    OBVIOUS
  <2>2. bound - x <= bound - y
    BY <1>2, <1>3, <2>1
  <2>3. QED
    BY <2>1, <2>2
<1>5. QED
  BY <1>4

\* Naturals are in order by their size.
LEMMA LessIsStrict ==
  ASSUME NEW S \in SUBSET Nat
  PROVE  Strict(S, Less)
<1>1. \A x, y \in Nat : <<x, y>> \in Less <=> x < y
  BY DEF Less
<1>2. QED
  BY <1>1 DEF Strict

\* Names are in order by the first letter that differs, or by their length.
LEMMA BeforeIsTransitive ==
  ASSUME NEW a \in Seq(Nat), NEW b \in Seq(Nat), NEW c \in Seq(Nat), Before(a, b), Before(b, c)
  PROVE  Before(a, c)
<1>1. PICK m \in 1 .. Len(b) : /\ \A k \in 1 .. m - 1 : k <= Len(a) /\ a[k] = b[k]
                               /\ m > Len(a) \/ a[m] < b[m]
  BY DEF Before
<1>2. PICK n \in 1 .. Len(c) : /\ \A k \in 1 .. n - 1 : k <= Len(b) /\ b[k] = c[k]
                               /\ n > Len(b) \/ b[n] < c[n]
  BY DEF Before
<1>3. Len(a) \in Nat /\ Len(b) \in Nat /\ Len(c) \in Nat
  OBVIOUS
<1>4. /\ \A k \in 1 .. Len(a) : a[k] \in Nat
      /\ \A k \in 1 .. Len(b) : b[k] \in Nat
      /\ \A k \in 1 .. Len(c) : c[k] \in Nat
  OBVIOUS
<1>5. CASE m < n
  <2>1. m \in 1 .. n - 1 /\ m \in 1 .. Len(c)
    BY <1>3, <1>5
  <2>2. b[m] = c[m]
    BY <1>2, <2>1, Zenon
  <2>3. \A k \in 1 .. m - 1 : k <= Len(a) /\ a[k] = c[k]
    <3> TAKE k \in 1 .. m - 1
    <3>1. k \in 1 .. n - 1
      BY <1>3, <1>5
    <3>2. QED
      BY <1>1, <1>2, <3>1, Zenon
  <2>4. QED
    BY <1>1, <2>1, <2>2, <2>3 DEF Before
<1>6. CASE n < m
  <2>1. n \in 1 .. m - 1 /\ n <= Len(b)
    BY <1>3, <1>6
  <2>2. n <= Len(a) /\ a[n] = b[n] /\ b[n] < c[n]
    <3>1. n <= Len(a) /\ a[n] = b[n]
      BY <1>1, <2>1, Zenon
    <3>2. ~ (n > Len(b))
      BY <1>3, <2>1
    <3>3. QED
      BY <1>2, <3>1, <3>2, Zenon
  <2>3. \A k \in 1 .. n - 1 : k <= Len(a) /\ a[k] = c[k]
    <3> TAKE k \in 1 .. n - 1
    <3>1. k \in 1 .. m - 1
      BY <1>3, <1>6
    <3>2. QED
      BY <1>1, <1>2, <3>1, Zenon
  <2>4. QED
    BY <2>2, <2>3 DEF Before
<1>7. CASE m = n
  <2>1. b[m] < c[m]
    BY <1>2, <1>3, <1>7
  <2>2. m > Len(a) \/ a[m] < c[m]
    <3>1. CASE m > Len(a)
      BY <3>1
    <3>2. CASE a[m] < b[m] /\ ~ m > Len(a)
      <4>1. m \in 1 .. Len(a) /\ m \in 1 .. Len(c)
        BY <1>3, <1>7, <3>2
      <4>2. a[m] \in Nat /\ b[m] \in Nat /\ c[m] \in Nat
        BY <1>4, <4>1
      <4>3. QED
        BY <2>1, <3>2, <4>2
    <3>3. m > Len(a) \/ a[m] < b[m]
      BY ONLY <1>1, Zenon
    <3>4. QED
      BY ONLY <3>1, <3>2, <3>3, Zenon
  <2>3. \A k \in 1 .. m - 1 : k <= Len(a) /\ a[k] = c[k]
    BY <1>1, <1>2, <1>7, Zenon
  <2>4. QED
    BY <1>7, <2>2, <2>3 DEF Before
<1>8. QED
  BY <1>3, <1>5, <1>6, <1>7

\* No name is before itself, and of two names one is before the other.
LEMMA BeforeIsTotal ==
  ASSUME NEW a \in Seq(Nat), NEW b \in Seq(Nat)
  PROVE  ~ Before(a, a) /\ (a = b \/ Before(a, b) \/ Before(b, a))
<1>1. Len(a) \in Nat /\ Len(b) \in Nat
  OBVIOUS
<1>2. /\ \A k \in 1 .. Len(a) : a[k] \in Nat
      /\ \A k \in 1 .. Len(b) : b[k] \in Nat
  OBVIOUS
<1>3. ~ Before(a, a)
  BY <1>1, <1>2 DEF Before
<1> DEFINE D == {k \in Nat \ {0} : k > Len(a) \/ k > Len(b) \/ a[k] # b[k]}
<1>4. D \in SUBSET Nat /\ Len(a) + 1 \in D
  BY <1>1
<1>5. PICK m \in D : \A k \in D : m <= k
  BY <1>4, LeastExists
<1>6. \A k \in 1 .. m - 1 : k <= Len(a) /\ k <= Len(b) /\ a[k] = b[k]
  <2> TAKE k \in 1 .. m - 1
  <2>1. k \in Nat \ {0} /\ k < m /\ m \in Nat
    BY <1>5
  <2>2. k \notin D
    BY <1>5, <2>1
  <2>3. ~ (k > Len(a)) /\ ~ (k > Len(b)) /\ a[k] = b[k]
    BY ONLY <2>1, <2>2, Zenon
  <2>4. QED
    BY ONLY <1>1, <2>1, <2>3, SMT
<1>7. m \in Nat \ {0} /\ (m > Len(a) \/ m > Len(b) \/ a[m] # b[m])
  BY <1>5
<1> HIDE DEF D
<1>8. CASE m > Len(a) /\ m > Len(b)
  <2>1. Len(a) = m - 1 /\ Len(b) = m - 1
    <3>1. ~ (Len(a) < m - 1)
      <4> SUFFICES ASSUME Len(a) < m - 1 PROVE FALSE
        OBVIOUS
      <4>1. m - 1 \in 1 .. m - 1
        BY <1>1, <1>7
      <4>2. QED
        BY <1>1, <1>6, <1>7, <4>1
    <3>2. ~ (Len(b) < m - 1)
      <4> SUFFICES ASSUME Len(b) < m - 1 PROVE FALSE
        OBVIOUS
      <4>1. m - 1 \in 1 .. m - 1
        BY <1>1, <1>7
      <4>2. QED
        BY <1>1, <1>6, <1>7, <4>1
    <3>3. QED
      BY <1>1, <1>7, <1>8, <3>1, <3>2
  <2>2. a = b
    BY <1>6, <2>1, SeqEqual
  <2>3. QED
    BY <1>3, <2>2
<1>9. CASE m > Len(a) /\ ~ (m > Len(b))
  <2>1. m \in 1 .. Len(b)
    BY <1>1, <1>7, <1>9
  <2>2. QED
    BY <1>3, <1>6, <1>9, <2>1 DEF Before
<1>10. CASE ~ (m > Len(a)) /\ m > Len(b)
  <2>1. m \in 1 .. Len(a)
    BY <1>1, <1>7, <1>10
  <2>2. QED
    BY <1>3, <1>6, <1>10, <2>1 DEF Before
<1>11. CASE ~ (m > Len(a)) /\ ~ (m > Len(b))
  <2>1. m \in 1 .. Len(a) /\ m \in 1 .. Len(b)
    BY <1>1, <1>7, <1>11
  <2>2. a[m] \in Nat /\ b[m] \in Nat /\ a[m] # b[m]
    BY <1>2, <1>7, <1>11, <2>1
  <2>3. a[m] < b[m] \/ b[m] < a[m]
    BY <2>2
  <2>4. QED
    BY <1>3, <1>6, <2>1, <2>3 DEF Before
<1>12. QED
  BY <1>8, <1>9, <1>10, <1>11

-----------------------------------------------------------------------------
(***************************************************************************)
(* The music.  What plays has its tables and a volume, and is the song     *)
(* selected or one of Shuffle's; without tables there is no volume.        *)
(***************************************************************************)
Chosen == Tracks \cup {Shuffle}
Sounds(m) ==
    /\ DOMAIN m = {"tables", "playing", "selected", "sounding", "volume", "loops"}
    /\ m.volume \in 0 .. Loudest
    /\ m.playing => m.tables
MusicOK(m) ==
    /\ Sounds(m)
    /\ ~ m.tables => m.volume = 0
    /\ m.selected \in Chosen
    /\ m.playing => /\ m.loops = (m.selected # Shuffle)
                    /\ m.loops => m.sounding = m.selected
                    /\ m.volume # 0

\* A track and a volume are cut to what there is, once and for all.
LEMMA TracksAndVolumes ==
  /\ \A t : Track(t) \in Chosen
  /\ \A t \in Chosen : Track(t) = t
  /\ \A v \in Int : Volume(v) \in 0 .. Loudest
  /\ \A v \in 0 .. Loudest : Volume(v) = v
  /\ Shuffle \notin Tracks
<1>1. Loudest \in Nat /\ Tracks \subseteq Nat
  <2>1. Cardinality(Tracks) \in Nat
    BY MusicAssumption, FS_CardinalityType
  <2>2. QED
    BY <2>1, MusicAssumption
<1>2. Shuffle \notin Tracks
  BY <1>1 DEF Shuffle
<1>3. QED
  BY <1>1, <1>2 DEF Track, Volume, Chosen

\* begin(): the song is the one selected, unless that is Shuffle.
LEMMA BeginOK ==
  ASSUME NEW m, Sounds(m), m.tables, m.volume # 0, m.selected \in Chosen,
         NEW t \in Tracks, m.selected # Shuffle => t = m.selected,
         NEW n \in Begin(m, t)
  PROVE  MusicOK(n) /\ n.selected = m.selected /\ n.volume = m.volume /\ (n.tables <=> m.tables)
<1>1. CASE n = Release(m)
  BY <1>1 DEF Release, Sounds, MusicOK
<1>2. CASE n = [m EXCEPT !.playing = TRUE, !.sounding = t, !.loops = m.selected # Shuffle]
  <2>1. /\ DOMAIN n = DOMAIN m /\ n.volume = m.volume /\ n.selected = m.selected /\ n.sounding = t
        /\ n.tables = m.tables
    BY <1>2 DEF Sounds
  <2>2. n.loops = (m.selected # Shuffle)
    BY <1>2 DEF Sounds
  <2>3. QED
    BY <2>1, <2>2 DEF Sounds, MusicOK
<1>3. QED
  BY <1>1, <1>2 DEF Begin

\* music_prepare(): without the memory for the tables there is no volume.
LEMMA PrepareOK ==
  ASSUME NEW m, Sounds(m), NEW t, NEW v \in Int, NEW n \in Prepare(m, t, v)
  PROVE  /\ Sounds(n) /\ n.selected = Track(t)
         /\ n.tables => n.volume = Volume(v)
         /\ ~ n.tables => n.volume = 0
         /\ n.playing = m.playing
         /\ Volume(v) # 0 /\ m.tables => n.tables
<1> DEFINE w == [m EXCEPT !.selected = Track(t), !.volume = Volume(v)]
<1>1. /\ DOMAIN w = DOMAIN m /\ w.selected = Track(t) /\ w.volume = Volume(v)
      /\ w.tables = m.tables /\ w.playing = m.playing
  BY DEF Sounds
<1>2. Volume(v) \in 0 .. Loudest
  BY TracksAndVolumes
<1>3. n \in IF w.volume = 0 THEN {w} ELSE WithTables(w)
  BY DEF Prepare
<1> HIDE DEF w
<1>4. CASE n = w /\ (w.volume = 0 \/ w.tables)
  BY <1>1, <1>2, <1>4 DEF Sounds
<1>5. CASE n = [w EXCEPT !.tables = TRUE]
  BY <1>1, <1>2, <1>5 DEF Sounds
<1>6. CASE n = [w EXCEPT !.volume = 0] /\ ~ w.tables
  BY <1>1, <1>2, <1>6, MusicAssumption DEF Sounds
<1>7. QED
  BY <1>3, <1>4, <1>5, <1>6 DEF WithTables

\* music_start(): the song asked for, at the volume asked for, or none.
LEMMA StartOK ==
  ASSUME NEW m, Sounds(m), NEW t, NEW v \in Int, Volume(v) # 0, NEW n \in Start(m, t, v)
  PROVE  MusicOK(n) /\ n.selected = Track(t) /\ (n.tables => n.volume = Volume(v))
<1>1. PICK r \in Prepare(m, t, v) :
        n \in IF r.volume = 0 THEN {r}
              ELSE IF r.selected = Shuffle THEN UNION {Begin(r, p) : p \in Picks(r)}
              ELSE Begin(r, r.selected)
  BY DEF Start
<1>2. /\ Sounds(r) /\ r.selected = Track(t) /\ (r.tables => r.volume = Volume(v))
      /\ (~ r.tables => r.volume = 0) /\ r.playing = m.playing /\ (m.tables => r.tables)
  BY PrepareOK
<1>3. r.selected \in Chosen
  BY <1>2, TracksAndVolumes
<1>4. CASE r.volume = 0
  <2>1. n = r /\ ~ r.tables
    BY <1>1, <1>2, <1>4
  <2>2. QED
    BY <1>2, <1>3, <2>1 DEF Sounds, MusicOK
<1>5. CASE r.volume # 0 /\ r.selected = Shuffle
  <2>1. PICK p \in Picks(r) : n \in Begin(r, p)
    BY <1>1, <1>5
  <2>2. p \in Tracks
    BY DEF Picks
  <2>3. QED
    BY <1>2, <1>3, <1>5, <2>1, <2>2, BeginOK DEF Sounds
<1>6. CASE r.volume # 0 /\ r.selected # Shuffle
  <2>1. r.selected \in Tracks /\ n \in Begin(r, r.selected)
    BY <1>1, <1>3, <1>6 DEF Chosen
  <2>2. QED
    BY <1>2, <1>3, <1>6, <2>1, BeginOK DEF Sounds
<1>7. QED
  BY <1>4, <1>5, <1>6

\* What the operations do to the song selected and to the volume.
LEMMA MusicSteps ==
  ASSUME NEW m, MusicOK(m)
  PROVE  /\ MusicOK(Release(m)) /\ Release(m).selected = m.selected
         /\ Release(m).volume = m.volume /\ (Release(m).tables <=> m.tables)
         /\ \A n \in Resume(m) : MusicOK(n) /\ n.selected = m.selected /\ (n.tables => m.tables /\ n.volume = m.volume)
         /\ \A n \in Ended(m) : MusicOK(n) /\ n.selected = m.selected /\ (n.tables => m.tables /\ n.volume = m.volume)
         /\ \A t : \A n \in SetTrack(m, t) :
               MusicOK(n) /\ n.selected = Track(t) /\ (n.tables => m.tables /\ n.volume = m.volume)
         /\ \A v \in Int : \A n \in SetVolume(m, v) :
               MusicOK(n) /\ n.selected = m.selected /\ (n.tables => n.volume = Volume(v))
<1>1. /\ Sounds(m) /\ m.selected \in Chosen /\ m.volume \in Int /\ Volume(m.volume) = m.volume
      /\ Track(m.selected) = m.selected /\ (m.volume # 0 => m.tables)
  <2>1. Sounds(m) /\ m.selected \in Chosen
    BY DEF MusicOK
  <2>2. m.volume \in 0 .. Loudest /\ (~ m.tables => m.volume = 0)
    BY DEF Sounds, MusicOK
  <2>3. QED
    BY <2>1, <2>2, TracksAndVolumes
<1>2. /\ MusicOK(Release(m)) /\ Release(m).selected = m.selected
      /\ Release(m).volume = m.volume /\ (Release(m).tables <=> m.tables)
  BY DEF Release, Sounds, MusicOK
<1>3. ASSUME NEW n \in Resume(m)
      PROVE  MusicOK(n) /\ n.selected = m.selected /\ (n.tables => m.tables /\ n.volume = m.volume)
  <2>1. CASE n = m
    BY <2>1
  <2>2. CASE m.volume # 0 /\ n \in Start(m, m.selected, m.volume)
    BY <1>1, <2>2, StartOK
  <2>3. QED
    BY <2>1, <2>2 DEF Resume
<1>4. ASSUME NEW n \in Ended(m)
      PROVE  MusicOK(n) /\ n.selected = m.selected /\ (n.tables => m.tables /\ n.volume = m.volume)
  <2>1. CASE n = m
    BY <2>1
  <2>2. CASE m.playing /\ m.selected = Shuffle /\ n \in UNION {Begin(m, p) : p \in Picks(m)}
    <3>1. PICK p \in Picks(m) : n \in Begin(m, p)
      BY <2>2
    <3>2. p \in Tracks
      BY DEF Picks
    <3>3. m.tables /\ m.volume # 0
      BY <2>2 DEF MusicOK, Sounds
    <3>4. QED
      BY <1>1, <2>2, <3>1, <3>2, <3>3, BeginOK
  <2>3. QED
    BY <2>1, <2>2 DEF Ended
<1>5. ASSUME NEW t, NEW n \in SetTrack(m, t)
      PROVE  MusicOK(n) /\ n.selected = Track(t) /\ (n.tables => m.tables /\ n.volume = m.volume)
  <2> DEFINE w == [m EXCEPT !.selected = Track(t)]
  <2>1. /\ DOMAIN w = DOMAIN m /\ w.selected = Track(t) /\ w.volume = m.volume
        /\ w.tables = m.tables /\ w.playing = m.playing
    BY <1>1 DEF Sounds
  <2>2. n \in IF w.volume = 0 THEN {w} ELSE Start(w, w.selected, w.volume)
    BY DEF SetTrack
  <2> HIDE DEF w
  <2>3. Sounds(w) /\ Track(w.selected) = w.selected /\ w.selected \in Chosen
    BY <1>1, <2>1, TracksAndVolumes DEF Sounds
  <2>4. CASE w.volume = 0 /\ n = w
    <3>1. ~ m.playing
      BY <2>1, <2>4 DEF MusicOK
    <3>2. ~ w.playing
      BY <2>1, <3>1
    <3>3. QED
      BY <2>1, <2>3, <2>4, <3>2 DEF MusicOK
  <2>5. CASE w.volume # 0 /\ n \in Start(w, w.selected, w.volume)
    BY <1>1, <2>1, <2>3, <2>5, StartOK
  <2>6. QED
    BY <2>2, <2>4, <2>5
<1>6. ASSUME NEW v \in Int, NEW n \in SetVolume(m, v)
      PROVE  MusicOK(n) /\ n.selected = m.selected /\ (n.tables => n.volume = Volume(v))
  <2>1. Volume(v) \in 0 .. Loudest /\ Volume(Volume(v)) = Volume(v) /\ Volume(v) \in Int
    BY TracksAndVolumes, MusicAssumption
  <2>2. CASE Volume(v) = m.volume /\ n = m
    BY <2>2
  <2>3. CASE Volume(v) = 0 /\ n = Release([m EXCEPT !.volume = 0])
    BY <1>1, <2>1, <2>3 DEF Release, Sounds, MusicOK
  <2>4. CASE Volume(v) # 0 /\ n \in Start([m EXCEPT !.volume = Volume(v)], m.selected, Volume(v))
            /\ (m.volume = 0 \/ ~ m.playing)
    <3> DEFINE w == [m EXCEPT !.volume = Volume(v)]
    <3>1. /\ DOMAIN w = DOMAIN m /\ w.volume = Volume(v) /\ w.tables = m.tables /\ w.playing = m.playing
          /\ w.selected = m.selected
      BY <1>1 DEF Sounds
    <3> HIDE DEF w
    <3>2. n \in Start(w, m.selected, Volume(v)) /\ Sounds(w)
      BY <1>1, <2>1, <2>4, <3>1 DEF w, Sounds
    <3>3. QED
      BY <1>1, <2>1, <2>4, <3>2, StartOK
  <2>5. CASE n = [m EXCEPT !.volume = Volume(v)] /\ Volume(v) # 0 /\ m.volume # 0
    BY <1>1, <2>1, <2>5 DEF Sounds, MusicOK
  <2>6. QED
    BY <2>2, <2>3, <2>4, <2>5 DEF SetVolume
<1>7. QED
  BY <1>2, <1>3, <1>4, <1>5, <1>6
-----------------------------------------------------------------------------
(***************************************************************************)
(* The library and its views.  The table holds every title once, and a     *)
(* view is a sequence of places in it.                                     *)
(***************************************************************************)
Places == 1 .. Cardinality(Titles)
LibOK(l) ==
    /\ DOMAIN l = {"custom", "fav", "stamp", "table"}
    /\ l.custom \in [Titles -> Seq(Nat)] /\ l.stamp \in [Slots -> [Titles -> Nat]]
    /\ l.table \in [Places -> Titles]
    /\ \A t \in Titles : \E i \in Places : l.table[i] = t

\* A function on 1 .. n is a sequence of length n.
LEMMA FunctionIsSequence ==
  ASSUME NEW S, NEW n \in Nat, NEW s \in [1 .. n -> S]
  PROVE  s \in Seq(S) /\ Len(s) = n /\ DOMAIN s = 1 .. n
<1>1. s \in Seq(S)
  BY SeqDef
<1>2. Len(s) \in Nat /\ DOMAIN s = 1 .. Len(s)
  BY <1>1, LenProperties
<1>3. Len(s) = n
  BY <1>2
<1>4. QED
  BY <1>1, <1>3

\* A title has a name.
LEMMA NamesAreWords ==
  ASSUME NEW l, l.custom \in [Titles -> Seq(Nat)], NEW t \in Titles
  PROVE  NameOf(l, t) \in Seq(Nat)
BY ScreensAssumption DEF NameOf

\* The titles are in order by name and path.
LEMMA PrecedesIsStrict ==
  ASSUME NEW l, l.custom \in [Titles -> Seq(Nat)]
  PROVE  Strict(Titles, {p \in Titles \X Titles : Precedes(l, p[1], p[2])})
<1> DEFINE order == {p \in Titles \X Titles : Precedes(l, p[1], p[2])}
<1>1. \A t, u \in Titles : <<t, u>> \in order <=> Precedes(l, t, u)
  OBVIOUS
<1> HIDE DEF order
<1>2. Titles \subseteq Nat
  <2>1. Cardinality(Titles) \in Nat
    BY ScreensAssumption, FS_CardinalityType
  <2>2. QED
    BY <2>1, ScreensAssumption
<1>3. \A t \in Titles : NameOf(l, t) \in Seq(Nat)
  BY NamesAreWords
<1>4. \A t \in Titles : ~ Precedes(l, t, t)
  <2> TAKE t \in Titles
  <2>1. ~ Before(NameOf(l, t), NameOf(l, t)) /\ ~ (t < t)
    BY <1>2, <1>3, BeforeIsTotal
  <2>2. QED
    BY <2>1 DEF Precedes
<1>5. \A t, u, v \in Titles : Precedes(l, t, u) /\ Precedes(l, u, v) => Precedes(l, t, v)
  <2> TAKE t, u, v \in Titles
  <2>1. HAVE Precedes(l, t, u) /\ Precedes(l, u, v)
  <2> DEFINE a == NameOf(l, t)
             b == NameOf(l, u)
             c == NameOf(l, v)
  <2>2. (Before(a, b) \/ (a = b /\ t < u)) /\ (Before(b, c) \/ (b = c /\ u < v))
    BY <2>1 DEF Precedes
  <2>3. Before(a, b) /\ Before(b, c) => Before(a, c)
    BY <1>3, BeforeIsTransitive
  <2>4. t < u /\ u < v => t < v
    BY <1>2
  <2>5. Before(a, c) \/ (a = c /\ t < v)
    <3> HIDE DEF a, b, c
    <3>1. QED
      BY <2>2, <2>3, <2>4
  <2>6. QED
    BY <2>5 DEF Precedes
<1>6. \A t, u \in Titles : t = u \/ Precedes(l, t, u) \/ Precedes(l, u, t)
  <2> TAKE t, u \in Titles
  <2>1. NameOf(l, t) = NameOf(l, u) \/ Before(NameOf(l, t), NameOf(l, u)) \/ Before(NameOf(l, u), NameOf(l, t))
    BY <1>3, BeforeIsTotal
  <2>2. t = u \/ t < u \/ u < t
    BY <1>2
  <2>3. QED
    BY <2>1, <2>2 DEF Precedes
<1>7. QED
  BY <1>1, <1>4, <1>5, <1>6 DEF Strict, order

\* library_finish() leaves every title in the table, once.
LEMMA FinishedOK ==
  ASSUME NEW l, l.custom \in [Titles -> Seq(Nat)], l.stamp \in [Slots -> [Titles -> Nat]]
  PROVE  LibOK(Finished(l))
<1> DEFINE order == {p \in Titles \X Titles : Precedes(l, p[1], p[2])}
<1>1. Strict(Titles, order)
  BY PrecedesIsStrict
<1> HIDE DEF order
<1>2. IsFiniteSet(Titles)
  BY ScreensAssumption
<1>3. InOrder(Titles, order) \in [Places -> Titles] /\ \A t \in Titles : \E i \in Places : InOrder(Titles, order)[i] = t
  BY <1>1, <1>2, OrderedSequence, OrderedIsAll DEF Places
<1>4. Finished(l).table = InOrder(Titles, order)
  BY DEF Finished, Sorted, order
<1>5. /\ DOMAIN Finished(l) = {"custom", "fav", "stamp", "table"}
      /\ Finished(l).custom = l.custom /\ Finished(l).stamp = l.stamp
  BY DEF Finished
<1>6. QED
  BY <1>3, <1>4, <1>5 DEF LibOK

\* Newer titles come first, those as new as each other as they are in the table.
LEMMA NewerIsStrict ==
  ASSUME NEW n \in Nat, NEW stamps \in [1 .. n -> Nat], NEW S \in SUBSET (1 .. n)
  PROVE  Strict(S, Newer(stamps))
<1>1. \A x, y \in S : <<x, y>> \in Newer(stamps) <=> stamps[x] > stamps[y] \/ (stamps[x] = stamps[y] /\ x < y)
  BY DEF Newer
<1>2. \A x \in S : x \in Nat /\ stamps[x] \in Nat
  OBVIOUS
<1>3. QED
  BY <1>1, <1>2 DEF Strict

\* A tab shows places in the table.
LEMMA TabViewOK ==
  ASSUME NEW n \in Nat, NEW recs, DOMAIN recs = 1 .. n, \A i \in 1 .. n : recs[i].stamp \in Nat, NEW tab
  PROVE  TabView(recs, tab) \in Seq(1 .. n)
<1> DEFINE T == {i \in DOMAIN recs : Belongs(recs[i], tab)}
           all == InOrder(T, Less)
           m == Cardinality(T)
<1>1. T \subseteq 1 .. n /\ T \subseteq Nat /\ IsFiniteSet(T)
  <2>1. T \subseteq 1 .. n /\ IsFiniteSet(1 .. n)
    BY FS_Interval
  <2>2. QED
    BY <2>1, FS_Subset
<1>2. Strict(T, Less)
  BY <1>1, LessIsStrict
<1>3. m \in Nat /\ all \in [1 .. m -> T]
  BY <1>1, <1>2, OrderedSequence
<1> HIDE DEF all, m
<1>4. all \in Seq(1 .. n) /\ Len(all) = m
  <2>1. all \in [1 .. m -> 1 .. n]
    BY <1>1, <1>3
  <2>2. QED
    BY <1>3, <2>1, FunctionIsSequence
<1> DEFINE k == IF Len(all) > MaxView THEN MaxView ELSE Len(all)
<1>5. k \in Int /\ \A i \in 1 .. k : all[i] \in 1 .. n
  BY <1>3, <1>4, GridAssumption
<1>6. Kept(recs, tab) = SubSeq(all, 1, k)
  BY DEF Kept, all
<1> HIDE DEF k
<1>7. Kept(recs, tab) \in Seq(1 .. n)
  BY <1>5, <1>6, SubSeqProperties
<1> DEFINE stamps == [i \in DOMAIN recs |-> recs[i].stamp]
           S == Range(Kept(recs, tab))
<1>8. NewestFirst(stamps, Kept(recs, tab)) \in Seq(1 .. n)
  <2>1. S \subseteq 1 .. n
    BY <1>7 DEF Range
  <2>2. IsFiniteSet(S)
    <3>1. IsFiniteSet(1 .. n)
      BY FS_Interval
    <3>2. QED
      BY <2>1, <3>1, FS_Subset
  <2>3. stamps \in [1 .. n -> Nat]
    OBVIOUS
  <2> HIDE DEF S, stamps
  <2>4. Strict(S, Newer(stamps))
    BY <2>1, <2>3, NewerIsStrict
  <2>5. Cardinality(S) \in Nat /\ InOrder(S, Newer(stamps)) \in [1 .. Cardinality(S) -> S]
    BY <2>2, <2>4, OrderedSequence
  <2>6. InOrder(S, Newer(stamps)) \in Seq(1 .. n)
    <3>1. InOrder(S, Newer(stamps)) \in [1 .. Cardinality(S) -> 1 .. n]
      BY <2>1, <2>5
    <3>2. QED
      BY <2>5, <3>1, FunctionIsSequence
  <2>7. QED
    BY <2>6 DEF NewestFirst, S
<1>9. QED
  BY <1>7, <1>8 DEF TabView

\* Only the tab of the favourites tells a favourite.
LEMMA FavouritesDoNotShow ==
  ASSUME NEW n \in Nat, NEW a, NEW b, DOMAIN a = 1 .. n, DOMAIN b = 1 .. n, NEW tab, tab # "favorites",
         \A i \in 1 .. n : a[i].stamp = b[i].stamp /\ a[i].system = b[i].system
  PROVE  TabView(a, tab) = TabView(b, tab)
<1>1. \A i \in 1 .. n : Belongs(a[i], tab) = Belongs(b[i], tab)
  BY DEF Belongs
<1>2. {i \in DOMAIN a : Belongs(a[i], tab)} = {i \in DOMAIN b : Belongs(b[i], tab)}
  BY <1>1
<1>3. Kept(a, tab) = Kept(b, tab)
  BY <1>2 DEF Kept
<1>4. [i \in DOMAIN a |-> a[i].stamp] = [i \in DOMAIN b |-> b[i].stamp]
  OBVIOUS
<1>5. QED
  BY <1>3, <1>4 DEF TabView

\* What the grid shows are places in the table.
LEMMA ViewOK ==
  ASSUME NEW l, LibOK(l), NEW r, r.active \in Slots, NEW g
  PROVE  View(g, l, r) \in Seq(Places)
<1> DEFINE n == Cardinality(Titles)
           recs == Records(l, r)
<1>1. n \in Nat
  BY ScreensAssumption, FS_CardinalityType
<1>2. DOMAIN recs = 1 .. n
  BY DEF Records, LibOK, Places
<1>3. \A i \in 1 .. n : recs[i].stamp \in Nat
  <2> TAKE i \in 1 .. n
  <2>1. l.table[i] \in Titles /\ i \in DOMAIN l.table
    BY DEF LibOK, Places
  <2>2. recs[i].stamp = l.stamp[r.active][l.table[i]]
    BY <2>1 DEF Records
  <2>3. QED
    BY <2>1, <2>2 DEF LibOK
<1> HIDE DEF recs, n
<1>4. TabView(recs, Tabs[g.tab]) \in Seq(1 .. n)
  BY <1>1, <1>2, <1>3, TabViewOK
<1>5. QED
  BY <1>4 DEF View, recs, n, Places

\* The view as a sequence: its length, and what is in it.
LEMMA ViewPlaces ==
  ASSUME NEW l, LibOK(l), NEW r, r.active \in Slots, NEW g
  PROVE  /\ Len(View(g, l, r)) \in Nat /\ DOMAIN View(g, l, r) = 1 .. Len(View(g, l, r))
         /\ View(g, l, r) # <<>> <=> Len(View(g, l, r)) > 0
         /\ \A i \in 1 .. Len(View(g, l, r)) : View(g, l, r)[i] \in Places
<1> DEFINE v == View(g, l, r)
<1>1. v \in Seq(Places)
  BY ViewOK
<1> HIDE DEF v
<1>2. Len(v) \in Nat /\ DOMAIN v = 1 .. Len(v) /\ (v # <<>> <=> Len(v) > 0) /\ \A i \in 1 .. Len(v) : v[i] \in Places
  BY <1>1
<1>3. QED
  BY <1>2 DEF v

\* A favourite set or taken leaves the other tabs as they are.
LEMMA ToggleKeepsView ==
  ASSUME NEW l, LibOK(l), NEW r, NEW t, NEW g, Tabs[g.tab] # "favorites",
         NEW m, LibOK(m), m.table = l.table, m.stamp = l.stamp
  PROVE  View(g, m, r) = View(g, l, r)
<1> DEFINE n == Cardinality(Titles)
           a == Records(m, r)
           b == Records(l, r)
<1>1. DOMAIN a = 1 .. n /\ DOMAIN b = 1 .. n
  BY DEF Records, LibOK, Places
<1>2. \A i \in 1 .. n : a[i].stamp = b[i].stamp /\ a[i].system = b[i].system
  <2> TAKE i \in 1 .. n
  <2>1. i \in DOMAIN l.table /\ i \in DOMAIN m.table
    BY DEF LibOK, Places
  <2>2. QED
    BY <2>1 DEF Records
<1> DEFINE tab == Tabs[g.tab]
<1>3. tab # "favorites" /\ n \in Nat
  BY ScreensAssumption, FS_CardinalityType
<1> HIDE DEF a, b, n, tab
<1>4. TabView(a, tab) = TabView(b, tab)
  BY <1>1, <1>2, <1>3, FavouritesDoNotShow
<1>5. QED
  BY <1>4 DEF View, a, b, tab

\* The cursor stays on a title of the view, and where it is in an empty one.
LEMMA CursorStays ==
  ASSUME NEW n \in Nat, NEW c \in Nat
  PROVE  /\ Clamped(c, n) \in Nat /\ (n > 0 => Clamped(c, n) < n)
         /\ \A key : Moved(key, c, n, Cols) \in Nat /\ (n > 0 /\ c < n => Moved(key, c, n, Cols) < n)
<1>1. Cols \in Nat \ {0}
  BY ScreensAssumption
<1>2. n > 0 => Down(c, n, Cols) \in Nat /\ (c < n => Down(c, n, Cols) < n)
  BY <1>1 DEF Down
<1> HIDE DEF Down
<1>3. ASSUME NEW key
      PROVE  Moved(key, c, n, Cols) \in Nat /\ (n > 0 /\ c < n => Moved(key, c, n, Cols) < n)
  BY <1>1, <1>2 DEF Moved
<1>4. QED
  BY <1>3 DEF Clamped

\* The menu opens on a tab there is.
LEMMA OpeningTabIsATab ==
  ASSUME NEW recs
  PROVE  OpeningTab(recs) \in DOMAIN Tabs
<1>1. DOMAIN Tabs = 1 .. Len(Systems) + 2 /\ Len(Systems) \in Nat /\ Len(Systems) > 0
  <2>1. Systems \in Seq(STRING) /\ Systems # <<>>
    BY GridAssumption
  <2>2. QED
    BY <2>1 DEF Tabs
<1> DEFINE full == {t \in DOMAIN Tabs : TabView(recs, Tabs[t]) # <<>>}
<1>2. full \in SUBSET Nat /\ full \subseteq DOMAIN Tabs
  BY <1>1
<1>3. CASE full = {}
  BY <1>1, <1>3 DEF OpeningTab, FirstSystem
<1>4. CASE full # {}
  <2> HIDE DEF full
  <2>1. \E t \in full : \A u \in full : t <= u
    BY <1>2, <1>4, LeastExists
  <2>2. (CHOOSE t \in full : \A u \in full : t <= u) \in full
    BY <2>1
  <2>3. QED
    BY <1>2, <1>4, <2>2 DEF OpeningTab, full
<1>5. QED
  BY <1>3, <1>4

-----------------------------------------------------------------------------
(***************************************************************************)
(* Words.                                                                  *)
(***************************************************************************)
\* profile_set_name()'s cut leaves a word.
LEMMA TrimmedOK ==
  ASSUME NEW s \in Seq(Nat)
  PROVE  Trimmed(s) \in Seq(Nat)
<1> DEFINE I == {i \in 1 .. Len(s) : s[i] # 0}
           m == IF I # {} THEN Max(I) ELSE 0
<1>1. Len(s) \in Nat
  OBVIOUS
<1>2. m \in 0 .. Len(s)
  <2>1. CASE I # {}
    <3>1. I \in SUBSET Nat /\ \A x \in I : x <= Len(s)
      BY <1>1
    <3> HIDE DEF I
    <3>2. \E x \in I : \A y \in I : y <= x
      BY <1>1, <2>1, <3>1, GreatestExists
    <3>3. Max(I) \in I
      BY <3>2 DEF Max
    <3>4. QED
      BY <1>1, <2>1, <3>3 DEF I
  <2>2. QED
    BY <1>1, <2>1
<1>3. SelectLastInSeq(s, LAMBDA c : c # 0) = m
  BY DEF SelectLastInSeq
<1> HIDE DEF m
<1>4. m \in Int /\ \A i \in 1 .. m : s[i] \in Nat
  BY <1>1, <1>2
<1>5. SubSeq(s, 1, m) \in Seq(Nat)
  BY <1>4, SubSeqProperties
<1>6. QED
  BY <1>3, <1>5 DEF Trimmed

\* The beginning of a word.
LEMMA CutOK ==
  ASSUME NEW s \in Seq(Nat), NEW n \in Nat
  PROVE  SubSeq(s, 1, IF Len(s) > n THEN n ELSE Len(s)) \in Seq(Nat)
<1> DEFINE k == IF Len(s) > n THEN n ELSE Len(s)
<1>1. k \in Int /\ \A i \in 1 .. k : s[i] \in Nat
  OBVIOUS
<1> HIDE DEF k
<1>2. SubSeq(s, 1, k) \in Seq(Nat)
  BY <1>1, SubSeqProperties
<1>3. QED
  BY <1>2 DEF k

\* A letter typed or deleted at the caret.
LEMMA TypedOK ==
  ASSUME NEW s \in Seq(Nat), NEW at \in 0 .. Len(s)
  PROVE  /\ \A c \in Nat : InsertAt(s, at + 1, c) \in Seq(Nat) /\ Len(InsertAt(s, at + 1, c)) = Len(s) + 1
         /\ at > 0 => RemoveAt(s, at) \in Seq(Nat) /\ Len(RemoveAt(s, at)) = Len(s) - 1
<1> DEFINE right == SubSeq(s, at + 1, Len(s))
<1>1. Len(s) \in Nat /\ at \in Nat
  OBVIOUS
<1>2. right \in Seq(Nat) /\ Len(right) = Len(s) - at
  BY <1>1, SubSeqProperties
<1> HIDE DEF right
<1>3. ASSUME NEW c \in Nat
      PROVE  InsertAt(s, at + 1, c) \in Seq(Nat) /\ Len(InsertAt(s, at + 1, c)) = Len(s) + 1
  <2> DEFINE left == SubSeq(s, 1, at)
             word == left \o <<c>>
  <2>1. left \in Seq(Nat) /\ Len(left) = at
    BY <1>1, SubSeqProperties
  <2>2. InsertAt(s, at + 1, c) = word \o right
    <3>1. (at + 1) - 1 = at
      BY <1>1
    <3>2. QED
      BY <3>1, Zenon DEF InsertAt, right
  <2> HIDE DEF left
  <2>3. word \in Seq(Nat) /\ Len(word) = at + 1
    <3>1. <<c>> \in Seq(Nat) /\ Len(<<c>>) = 1
      OBVIOUS
    <3>2. QED
      BY <2>1, <3>1, ConcatProperties
  <2> HIDE DEF word
  <2>4. word \o right \in Seq(Nat) /\ Len(word \o right) = Len(word) + Len(right)
    BY <1>2, <2>3, ConcatProperties
  <2>5. Len(word) + Len(right) = Len(s) + 1
    BY <1>1, <1>2, <2>3
  <2>6. QED
    BY <2>2, <2>4, <2>5, Zenon
<1>4. ASSUME at > 0
      PROVE  RemoveAt(s, at) \in Seq(Nat) /\ Len(RemoveAt(s, at)) = Len(s) - 1
  <2> DEFINE left == SubSeq(s, 1, at - 1)
  <2>1. left \in Seq(Nat) /\ Len(left) = at - 1
    BY <1>1, <1>4, SubSeqProperties
  <2>2. RemoveAt(s, at) = left \o right
    BY DEF RemoveAt, right
  <2> HIDE DEF left
  <2>3. left \o right \in Seq(Nat) /\ Len(left \o right) = Len(left) + Len(right)
    BY <1>2, <2>1, ConcatProperties
  <2>4. QED
    BY <1>1, <1>2, <2>1, <2>2, <2>3
<1>5. QED
  BY <1>3, <1>4

-----------------------------------------------------------------------------
(***************************************************************************)
(* The inductive invariant.  RecordsOK says what each record is; Related,  *)
(* what the records have to do with one another:                           *)
(*  - while the picker waits for a choice, the screen and the one to come  *)
(*    are the picker's, and the keyboard goes back to it;                  *)
(*  - on the grid the cursor is on a title, or there is none;              *)
(*  - what is set and not saved is only so within the settings, and on the *)
(*    screens they open;                                                   *)
(*  - a song chosen and not selected yet settles, on the settings screen;  *)
(*  - the theme on the screen is the active player's.                      *)
(***************************************************************************)
Codes ==
    {<<"GRID", "GRID">>, <<"DETAIL", "DETAIL">>, <<"LAUNCH", "DETAIL">>,
     <<"CLOCK", "SETTINGS">>, <<"PARENTAL", "SETTINGS">>}
Showing ==
    Home \cup Away \cup
    {"none", "off", "KEYBOARD", "APPEARANCE", "DETAIL", "SETTINGS", "LAUNCH", "FAULT"}
AppOK(a) ==
    /\ DOMAIN a = {"screen", "next", "theme", "started", "code"}
    /\ a.screen \in Showing /\ a.code \in Codes
RosterOK(r) ==
    /\ DOMAIN r = {"used", "active", "name", "theme", "look"}
    /\ 0 \in r.used /\ r.used \subseteq Slots /\ r.active \in r.used
    /\ r.name \in [Slots -> Seq(Nat)] /\ DOMAIN r.theme = Slots
GridOK(g) ==
    /\ DOMAIN g = {"opened", "tab", "cursor", "focus"}
    /\ g.tab \in DOMAIN Tabs /\ g.cursor \in Nat
SheetOK(s) ==
    /\ DOMAIN s = {"rom", "path", "closing", "pending", "name", "at"}
    /\ s.rom \in Places /\ s.at \in Titles /\ s.name \in Seq(Nat)
ProfOK(p) ==
    /\ DOMAIN p = {"picking", "mode", "cursor", "keep", "row", "slot", "name"}
    /\ p.cursor \in Slots /\ p.slot \in Slots \cup {-1} /\ p.name \in Seq(Nat)
    /\ p.mode = "confirm" => p.cursor # 0
KbOK(k) ==
    /\ DOMAIN k = {"text", "caret", "accepted", "back", "empty", "limit"}
    /\ k.text \in Seq(Nat) /\ k.caret \in 0 .. Len(k.text)
ListOK(l) ==
    /\ DOMAIN l = {"cursor", "returning", "settle"}
    /\ l.settle \in 0 .. Settle
SetOK(s) ==
    /\ DOMAIN s = {"track", "music", "boxart", "others"}
    /\ s.track \in Int /\ s.music \in Int
RecordsOK ==
    /\ AppOK(app) /\ RosterOK(roster) /\ LibOK(lib) /\ GridOK(grid) /\ SheetOK(sheet)
    /\ ProfOK(prof) /\ KbOK(kb) /\ ListOK(list) /\ SetOK(set) /\ MusicOK(music)

PickOK(a, p, k) ==
    p.picking => /\ a.screen \in {"none", "PROFILES", "KEYBOARD", "APPEARANCE"}
                 /\ a.next \in {"PROFILES", "KEYBOARD", "APPEARANCE"}
                 /\ a.screen = "KEYBOARD" \/ a.next = "KEYBOARD" => k.back = "PROFILES"
CursorOK(a, g, l, r) ==
    a.screen = "GRID" /\ View(g, l, r) # <<>> => g.cursor < Len(View(g, l, r))
Unsaved(a, s) ==
    \/ s \in {"SETTINGS", "CLOCK", "PARENTAL", "SYSINFO", "CREDITS"}
    \/ s = "CODE" /\ a.code[2] = "SETTINGS"
SavedOK(a, s, file) == s = file \/ (Unsaved(a, a.screen) /\ Unsaved(a, a.next))
SongOK(a, m, s, l) ==
    /\ l.settle = 0 => m.selected = Track(s.track)
    /\ l.settle > 0 => a.screen = "SETTINGS"
    /\ m.tables => m.volume = Volume(s.music)
ThemeOK(a, r) == a.theme = ThemeByName(r.theme[r.active])
Related ==
    /\ PickOK(app, prof, kb) /\ CursorOK(app, grid, lib, roster)
    /\ SavedOK(app, set, saved) /\ SongOK(app, music, set, list) /\ ThemeOK(app, roster)
IInv == RecordsOK /\ Related

-----------------------------------------------------------------------------
(***************************************************************************)
(* A boot.                                                                 *)
(***************************************************************************)
\* A name nobody knows is the first theme's.
LEMMA ThemesAreKnown ==
  ASSUME NEW name
  PROVE  \E i \in DOMAIN Themes : Themes[i] = ThemeByName(name)
<1>1. Themes \in Seq(STRING) /\ Themes # <<>>
  BY ScreensAssumption
<1>2. 1 \in DOMAIN Themes
  BY <1>1
<1>3. QED
  BY <1>2 DEF ThemeByName

LEMMA InitOK == Init => IInv
<1> SUFFICES ASSUME Init PROVE IInv
  OBVIOUS
<1>1. PICK b \in Boots :
        /\ tour = b.tour /\ roster = b.roster /\ lib = Finished(b.lib) /\ set = b.set /\ saved = b.set
        /\ music \in Prepare(Silent, b.set.track, b.set.music)
  BY DEF Init
<1>2. RosterOK(roster)
  BY <1>1, ScreensAssumption DEF RosterOK
<1>3. LibOK(lib)
  BY <1>1, ScreensAssumption, FinishedOK
<1>4. SetOK(set)
  BY <1>1, ScreensAssumption DEF SetOK
<1>5. MusicOK(music) /\ music.selected = Track(set.track) /\ (music.tables => music.volume = Volume(set.music))
  <2>1. Sounds(Silent) /\ Silent.playing = FALSE
    BY MusicAssumption DEF Silent, Sounds
  <2>2. /\ Sounds(music) /\ music.selected = Track(set.track) /\ music.playing = FALSE
        /\ music.tables => music.volume = Volume(set.music)
        /\ ~ music.tables => music.volume = 0
    BY <1>1, <1>4, <2>1, PrepareOK DEF SetOK
  <2>3. QED
    BY <2>2, TracksAndVolumes DEF MusicOK
<1>6. PICK broken \in BOOLEAN :
        LET many == Count(roster) > 1 /\ ~broken
        IN  /\ app = [screen |-> "none", started |-> FALSE, code |-> <<"GRID", "GRID">>,
                      next |-> IF broken THEN "FAULT" ELSE IF many THEN "PROFILES" ELSE "GRID",
                      theme |-> ThemeByName(roster.theme[roster.active])]
            /\ prof = [picking |-> many, mode |-> "grid", cursor |-> 0, keep |-> TRUE,
                       row |-> "name", slot |-> -1, name |-> <<>>]
  BY DEF Init
<1>7. /\ AppOK(app) /\ app.screen = "none" /\ app.theme = ThemeByName(roster.theme[roster.active])
      /\ prof.picking => app.next = "PROFILES"
  BY <1>6 DEF AppOK, Showing, Codes
<1>8. ProfOK(prof)
  <2>1. 0 \in Slots
    BY <1>2 DEF RosterOK
  <2>2. QED
    BY <1>6, <2>1 DEF ProfOK
<1>9. /\ grid = [opened |-> FALSE, tab |-> 1, cursor |-> 0, focus |-> -1]
      /\ sheet = [rom |-> 1, path |-> lib.table[1], closing |-> FALSE, pending |-> FALSE,
                  name |-> <<>>, at |-> 1]
      /\ kb = [text |-> <<>>, caret |-> 0, accepted |-> FALSE, back |-> "GRID", empty |-> FALSE, limit |-> 0]
      /\ list = [cursor |-> 1, returning |-> FALSE, settle |-> 0]
  BY DEF Init
<1>10. GridOK(grid)
  <2>1. 1 \in DOMAIN Tabs
    <3>1. Systems \in Seq(STRING)
      BY GridAssumption
    <3>2. QED
      BY <3>1 DEF Tabs
  <2>2. QED
    BY <1>9, <2>1 DEF GridOK
<1>11. SheetOK(sheet)
  <2>1. Titles = 1 .. Cardinality(Titles) /\ Titles # {} /\ Cardinality(Titles) \in Nat
    BY ScreensAssumption, FS_CardinalityType
  <2>2. 1 \in Titles /\ 1 \in Places
    BY <2>1 DEF Places
  <2>3. QED
    BY <1>9, <2>2 DEF SheetOK
<1>12. KbOK(kb) /\ ListOK(list)
  BY <1>9, ScreensAssumption DEF KbOK, ListOK
<1>13. RecordsOK
  BY <1>2, <1>3, <1>4, <1>5, <1>7, <1>8, <1>10, <1>11, <1>12 DEF RecordsOK
<1>14. PickOK(app, prof, kb) /\ CursorOK(app, grid, lib, roster)
  BY <1>7 DEF PickOK, CursorOK
<1>15. SavedOK(app, set, saved) /\ SongOK(app, music, set, list) /\ ThemeOK(app, roster)
  BY <1>1, <1>5, <1>7, <1>9 DEF SavedOK, SongOK, ThemeOK
<1>16. QED
  BY <1>13, <1>14, <1>15 DEF IInv, Related

-----------------------------------------------------------------------------
(***************************************************************************)
(* The steps of the frame.                                                 *)
(***************************************************************************)
\* What a screen asks for next leaves the rest of the application as it is.
LEMMA NextIsAsked ==
  ASSUME NEW a, AppOK(a), NEW s, NEW b, b = [a EXCEPT !.next = s]
  PROVE  /\ AppOK(b) /\ b.screen = a.screen /\ b.next = s
         /\ b.theme = a.theme /\ b.code = a.code
BY DEF AppOK

LEMMA StutterOK ==
  ASSUME IInv, UNCHANGED vars
  PROVE  IInv'
BY DEF IInv, RecordsOK, Related, vars, shelf, people, typing, config

LEMMA PlateStepOK ==
  ASSUME IInv, PlateStep
  PROVE  IInv'
BY DEF PlateStep, IInv, RecordsOK, Related, vars, shelf, people, typing, config

LEMMA MusicStartsOK ==
  ASSUME IInv, MusicStarts
  PROVE  IInv'
<1>1. /\ music' \in Resume(music) /\ app' = [app EXCEPT !.started = TRUE]
      /\ UNCHANGED <<tour, plate, lib, grid, sheet, roster, prof, look, kb, asked, set, saved, list>>
  BY DEF MusicStarts, shelf, people, typing, config
<1>2. AppOK(app)' /\ app'.screen = app.screen /\ app'.next = app.next /\ app'.theme = app.theme /\ app'.code = app.code
  BY <1>1 DEF IInv, RecordsOK, AppOK
<1>3. MusicOK(music)' /\ music'.selected = music.selected /\ (music'.tables => music.tables /\ music'.volume = music.volume)
  BY <1>1, MusicSteps DEF IInv, RecordsOK
<1>4. RecordsOK'
  BY <1>1, <1>2, <1>3 DEF IInv, RecordsOK
<1>5. PickOK(app, prof, kb)' /\ CursorOK(app, grid, lib, roster)' /\ SavedOK(app, set, saved)' /\ ThemeOK(app, roster)'
  BY <1>1, <1>2 DEF IInv, Related, PickOK, CursorOK, SavedOK, Unsaved, ThemeOK
<1>6. SongOK(app, music, set, list)'
  BY <1>1, <1>2, <1>3 DEF IInv, Related, SongOK
<1>7. QED
  BY <1>4, <1>5, <1>6 DEF IInv, Related

LEMMA SongEndsOK ==
  ASSUME IInv, SongEnds
  PROVE  IInv'
<1>1. /\ music' \in Ended(music)
      /\ UNCHANGED <<tour, app, plate, lib, grid, sheet, roster, prof, look, kb, asked, set, saved, list>>
  BY DEF SongEnds, shelf, people, typing, config
<1>2. MusicOK(music)' /\ music'.selected = music.selected /\ (music'.tables => music.tables /\ music'.volume = music.volume)
  BY <1>1, MusicSteps DEF IInv, RecordsOK
<1>3. RecordsOK'
  BY <1>1, <1>2 DEF IInv, RecordsOK
<1>4. SongOK(app, music, set, list)'
  BY <1>1, <1>2 DEF IInv, Related, SongOK
<1>5. QED
  BY <1>1, <1>3, <1>4 DEF IInv, Related

-----------------------------------------------------------------------------
(***************************************************************************)
(* Entering a screen.                                                      *)
(***************************************************************************)
\* The screen asked for is the one to come: what held of either holds of it.
LEMMA ArriveOK ==
  ASSUME IInv, NEW s \in Showing, app.next = s, Arrive(s)
  PROVE  /\ AppOK(app)' /\ app'.screen = s /\ app'.next = s /\ app'.theme = app.theme
         /\ PickOK(app', prof, kb) /\ SavedOK(app', set, saved) /\ ThemeOK(app', roster)
<1>1. /\ AppOK(app)' /\ app'.screen = s /\ app'.next = s /\ app'.theme = app.theme /\ app'.code = app.code
  BY DEF Arrive, IInv, RecordsOK, AppOK
<1>2. PickOK(app', prof, kb)
  BY <1>1 DEF IInv, Related, PickOK
<1>3. SavedOK(app', set, saved)
  BY <1>1 DEF IInv, Related, SavedOK, Unsaved
<1>4. ThemeOK(app', roster)
  BY <1>1 DEF IInv, Related, ThemeOK
<1>5. QED
  BY <1>1, <1>2, <1>3, <1>4

\* settings_leave(): however the settings are left, the song chosen is selected.
LEMMA LeaveOK ==
  ASSUME IInv, Leave, UNCHANGED set
  PROVE  MusicOK(music)' /\ ListOK(list)' /\ SongOK(app, music, set, list)' /\ list'.settle = 0
<1>1. /\ ListOK(list) /\ MusicOK(music) /\ list.settle \in Nat
      /\ list.settle = 0 => music.selected = Track(set.track)
      /\ list.settle > 0 => app.screen = "SETTINGS"
      /\ music.tables => music.volume = Volume(set.music)
  <2>1. ListOK(list) /\ MusicOK(music) /\ SongOK(app, music, set, list)
    BY DEF IInv, RecordsOK, Related
  <2>2. list.settle \in Nat
    BY <2>1, ScreensAssumption DEF ListOK
  <2>3. QED
    BY <2>1, <2>2 DEF SongOK
<1>2. CASE app.screen = "SETTINGS" /\ list.settle > 0
  <2>1. music' \in SetTrack(music, set.track) /\ list' = [list EXCEPT !.settle = 0]
    BY <1>2 DEF Leave
  <2>2. MusicOK(music)' /\ music'.selected = Track(set.track) /\ (music'.tables => music.tables /\ music'.volume = music.volume)
    BY <1>1, <2>1, MusicSteps
  <2>3. ListOK(list)' /\ list'.settle = 0
    BY <1>1, <2>1, ScreensAssumption DEF ListOK
  <2>4. QED
    BY <1>1, <2>2, <2>3 DEF SongOK
<1>3. CASE ~ (app.screen = "SETTINGS" /\ list.settle > 0)
  <2>1. UNCHANGED <<music, list>> /\ list.settle = 0
    BY <1>1, <1>3 DEF Leave
  <2>2. QED
    BY <1>1, <2>1 DEF SongOK
<1>4. QED
  BY <1>2, <1>3

\* rebuild_view() puts the cursor on a title of the tab.
LEMMA RebuiltOK ==
  ASSUME NEW l, LibOK(l), NEW r, r.active \in Slots, NEW g, GridOK(g)
  PROVE  /\ GridOK(Rebuilt(g, l, r)) /\ Rebuilt(g, l, r).tab = g.tab
         /\ View(Rebuilt(g, l, r), l, r) # <<>> =>
               Rebuilt(g, l, r).cursor < Len(View(Rebuilt(g, l, r), l, r))
<1> DEFINE n == Len(View(g, l, r))
           h == Rebuilt(g, l, r)
<1>1. n \in Nat /\ (View(g, l, r) # <<>> <=> n > 0)
  BY ViewPlaces
<1>2. Clamped(g.cursor, n) \in Nat /\ (n > 0 => Clamped(g.cursor, n) < n)
  BY <1>1, CursorStays DEF GridOK
<1>3. DOMAIN h = DOMAIN g /\ h.tab = g.tab /\ h.cursor = Clamped(g.cursor, n)
  BY DEF GridOK, Rebuilt
<1> HIDE DEF h
<1>4. View(h, l, r) = View(g, l, r)
  BY <1>3 DEF View
<1>5. QED
  BY <1>1, <1>2, <1>3, <1>4 DEF GridOK, h

\* grid_focus() does, too.
LEMMA FocusOnOK ==
  ASSUME NEW l, LibOK(l), NEW r, r.active \in Slots, NEW g, GridOK(g),
         View(g, l, r) # <<>> => g.cursor < Len(View(g, l, r))
  PROVE  /\ GridOK(FocusOn(g, l, r))
         /\ View(FocusOn(g, l, r), l, r) # <<>> =>
               FocusOn(g, l, r).cursor < Len(View(FocusOn(g, l, r), l, r))
<1> DEFINE v == View(g, l, r)
           at == {i \in DOMAIN v : v[i] = g.focus}
           h == FocusOn(g, l, r)
           c == IF at = {} THEN g.cursor ELSE (CHOOSE i \in at : TRUE) - 1
<1>1. Len(v) \in Nat /\ DOMAIN v = 1 .. Len(v)
  BY ViewPlaces
<1>2. c \in Nat /\ (v # <<>> => c < Len(v))
  <2>1. CASE at = {}
    BY <2>1 DEF GridOK
  <2>2. CASE at # {}
    <3>1. (CHOOSE i \in at : TRUE) \in 1 .. Len(v)
      BY <1>1, <2>2
    <3>2. QED
      BY <1>1, <2>2, <3>1
  <2>3. QED
    BY <2>1, <2>2
<1>3. DOMAIN h = DOMAIN g /\ h.tab = g.tab /\ h.cursor = c
  BY DEF GridOK, FocusOn
<1> HIDE DEF h, c
<1>4. View(h, l, r) = v
  BY <1>3 DEF View
<1>5. QED
  BY <1>2, <1>3, <1>4 DEF GridOK, h

LEMMA EnterGridOK ==
  ASSUME IInv, EnterGrid
  PROVE  IInv'
<1>1. /\ app.next = "GRID" /\ Arrive("GRID") /\ Leave
      /\ UNCHANGED <<lib, sheet, roster, prof, kb, set, saved>>
  BY DEF EnterGrid, Turning, people, typing
<1>2. /\ AppOK(app)' /\ app'.screen = "GRID"
      /\ PickOK(app', prof, kb) /\ SavedOK(app', set, saved) /\ ThemeOK(app', roster)
  BY <1>1, ArriveOK DEF Showing, Home
<1>3. MusicOK(music)' /\ ListOK(list)' /\ SongOK(app, music, set, list)'
  BY <1>1, LeaveOK
<1>4. LibOK(lib) /\ RosterOK(roster) /\ GridOK(grid) /\ roster.active \in Slots
  BY DEF IInv, RecordsOK, RosterOK
<1>5. PICK open \in {IF grid.opened THEN grid
                     ELSE [grid EXCEPT !.opened = TRUE, !.tab = OpeningTab(Records(lib, roster))]} :
        \E g \in {Rebuilt(open, lib, roster)} : grid' = FocusOn(g, lib, roster)
  BY DEF EnterGrid
<1>6. GridOK(open)
  <2>1. OpeningTab(Records(lib, roster)) \in DOMAIN Tabs
    BY OpeningTabIsATab
  <2>2. QED
    BY <1>4, <1>5, <2>1 DEF GridOK
<1>7. grid' = FocusOn(Rebuilt(open, lib, roster), lib, roster)
  BY <1>5
<1>8. GridOK(grid') /\ (View(grid', lib, roster) # <<>> => grid'.cursor < Len(View(grid', lib, roster)))
  <2> DEFINE g == Rebuilt(open, lib, roster)
  <2>1. GridOK(g) /\ (View(g, lib, roster) # <<>> => g.cursor < Len(View(g, lib, roster)))
    BY <1>4, <1>6, RebuiltOK
  <2> HIDE DEF g
  <2>2. GridOK(FocusOn(g, lib, roster)) /\ (View(FocusOn(g, lib, roster), lib, roster) # <<>> =>
               FocusOn(g, lib, roster).cursor < Len(View(FocusOn(g, lib, roster), lib, roster)))
    BY <1>4, <2>1, FocusOnOK
  <2>3. QED
    BY <1>7, <2>2 DEF g
<1>9. RecordsOK'
  BY <1>1, <1>2, <1>3, <1>8 DEF IInv, RecordsOK
<1>10. CursorOK(app, grid, lib, roster)'
  BY <1>1, <1>8 DEF CursorOK
<1>11. QED
  BY <1>1, <1>2, <1>3, <1>9, <1>10 DEF IInv, Related

LEMMA EnterProfilesOK ==
  ASSUME IInv, EnterProfiles
  PROVE  IInv'
<1>1. /\ app.next = "PROFILES" /\ Arrive("PROFILES") /\ Leave
      /\ UNCHANGED <<lib, grid, sheet, kb, set, saved>>
  BY DEF EnterProfiles, Turning, shelf, typing
<1>2. /\ AppOK(app)' /\ app'.screen = "PROFILES"
      /\ PickOK(app', prof, kb) /\ SavedOK(app', set, saved) /\ ThemeOK(app', roster)
  BY <1>1, ArriveOK DEF Showing, Home
<1>3. MusicOK(music)' /\ ListOK(list)' /\ SongOK(app, music, set, list)'
  BY <1>1, LeaveOK
<1>4. RosterOK(roster) /\ ProfOK(prof)
  BY DEF IInv, RecordsOK
<1>5. RosterOK(roster)' /\ roster'.theme = roster.theme /\ roster'.active = roster.active
  <2>1. CASE prof.slot >= 0 /\ prof.name # <<>>
    <3>1. roster' = [roster EXCEPT !.name[prof.slot] = Trimmed(prof.name)]
      BY <2>1 DEF EnterProfiles
    <3>2. Trimmed(prof.name) \in Seq(Nat)
      BY <1>4, TrimmedOK DEF ProfOK
    <3>3. QED
      BY <1>4, <3>1, <3>2 DEF RosterOK
  <2>2. CASE ~ (prof.slot >= 0 /\ prof.name # <<>>)
    <3>1. roster' = roster
      BY <2>2 DEF EnterProfiles
    <3>2. QED
      BY <1>4, <3>1
  <2>3. QED
    BY <2>1, <2>2
<1>6. ProfOK(prof)' /\ prof'.picking = prof.picking
  <2>1. roster.active \in Slots
    BY <1>4 DEF RosterOK
  <2>2. \/ prof' = [prof EXCEPT !.mode = "grid", !.slot = -1]
        \/ prof' = [prof EXCEPT !.mode = "grid", !.cursor = roster.active]
    BY DEF EnterProfiles
  <2>3. QED
    BY <1>4, <2>1, <2>2 DEF ProfOK
<1>7. RecordsOK'
  BY <1>1, <1>2, <1>3, <1>5, <1>6 DEF IInv, RecordsOK
<1>8. PickOK(app, prof, kb)' /\ CursorOK(app, grid, lib, roster)' /\ ThemeOK(app, roster)'
  BY <1>1, <1>2, <1>5, <1>6 DEF PickOK, CursorOK, ThemeOK
<1>9. QED
  BY <1>1, <1>2, <1>3, <1>7, <1>8 DEF IInv, Related

LEMMA EnterKeyboardOK ==
  ASSUME IInv, EnterKeyboard
  PROVE  IInv'
<1>1. /\ app.next = "KEYBOARD" /\ Arrive("KEYBOARD") /\ Leave
      /\ kb' = [kb EXCEPT !.caret = Len(kb.text)]
      /\ UNCHANGED <<lib, grid, sheet, roster, prof, set, saved>>
  BY DEF EnterKeyboard, Turning, shelf, people
<1>2. /\ AppOK(app)' /\ app'.screen = "KEYBOARD"
      /\ PickOK(app', prof, kb) /\ SavedOK(app', set, saved) /\ ThemeOK(app', roster)
  BY <1>1, ArriveOK DEF Showing
<1>3. MusicOK(music)' /\ ListOK(list)' /\ SongOK(app, music, set, list)'
  BY <1>1, LeaveOK
<1>4. KbOK(kb)' /\ kb'.back = kb.back
  <2>1. KbOK(kb)
    BY DEF IInv, RecordsOK
  <2>2. QED
    BY <1>1, <2>1 DEF KbOK
<1>5. RecordsOK'
  BY <1>1, <1>2, <1>3, <1>4 DEF IInv, RecordsOK
<1>6. PickOK(app, prof, kb)' /\ CursorOK(app, grid, lib, roster)'
  BY <1>1, <1>2, <1>4 DEF PickOK, CursorOK
<1>7. QED
  BY <1>1, <1>2, <1>3, <1>5, <1>6 DEF IInv, Related

LEMMA EnterAppearanceOK ==
  ASSUME IInv, EnterAppearance
  PROVE  IInv'
<1>1. /\ app.next = "APPEARANCE" /\ Arrive("APPEARANCE") /\ Leave
      /\ UNCHANGED <<lib, grid, sheet, roster, prof, kb, set, saved>>
  BY DEF EnterAppearance, Turning, shelf, typing
<1>2. /\ AppOK(app)' /\ app'.screen = "APPEARANCE"
      /\ PickOK(app', prof, kb) /\ SavedOK(app', set, saved) /\ ThemeOK(app', roster)
  BY <1>1, ArriveOK DEF Showing
<1>3. MusicOK(music)' /\ ListOK(list)' /\ SongOK(app, music, set, list)'
  BY <1>1, LeaveOK
<1>4. RecordsOK'
  BY <1>1, <1>2, <1>3 DEF IInv, RecordsOK
<1>5. CursorOK(app, grid, lib, roster)'
  BY <1>2 DEF CursorOK
<1>6. QED
  BY <1>1, <1>2, <1>3, <1>4, <1>5 DEF IInv, Related

LEMMA EnterDetailOK ==
  ASSUME IInv, EnterDetail
  PROVE  IInv'
<1>1. /\ app.next = "DETAIL" /\ Arrive("DETAIL") /\ Leave
      /\ UNCHANGED <<roster, prof, kb, set, saved>>
  BY DEF EnterDetail, Turning, people, typing
<1>2. /\ AppOK(app)' /\ app'.screen = "DETAIL"
      /\ PickOK(app', prof, kb) /\ SavedOK(app', set, saved) /\ ThemeOK(app', roster)
  BY <1>1, ArriveOK DEF Showing
<1>3. MusicOK(music)' /\ ListOK(list)' /\ SongOK(app, music, set, list)'
  BY <1>1, LeaveOK
<1>4. LibOK(lib) /\ SheetOK(sheet) /\ GridOK(grid)
  BY DEF IInv, RecordsOK
<1>5. LibOK(lib)' /\ SheetOK(sheet)' /\ GridOK(grid)'
  <2>1. CASE /\ lib' = Finished([lib EXCEPT !.custom[sheet.at] = sheet.name])
             /\ sheet' = [sheet EXCEPT !.pending = FALSE, !.closing = FALSE,
                                       !.rom = FindPath(lib', sheet.at)]
             /\ grid' = [grid EXCEPT !.focus = FindPath(lib', sheet.at)]
    <3> DEFINE l == [lib EXCEPT !.custom[sheet.at] = sheet.name]
    <3>1. l.custom \in [Titles -> Seq(Nat)] /\ l.stamp \in [Slots -> [Titles -> Nat]]
      BY <1>4 DEF LibOK, SheetOK
    <3> HIDE DEF l
    <3>2. LibOK(lib')
      BY <2>1, <3>1, FinishedOK DEF l
    <3>3. FindPath(lib', sheet.at) \in Places
      BY <1>4, <3>2 DEF FindPath, LibOK, SheetOK
    <3>4. SheetOK(sheet')
      BY <1>4, <2>1, <3>3 DEF SheetOK
    <3>5. GridOK(grid')
      BY <1>4, <2>1 DEF GridOK
    <3>6. QED
      BY <3>2, <3>4, <3>5
  <2>2. CASE sheet' = [sheet EXCEPT !.pending = FALSE, !.closing = FALSE] /\ UNCHANGED <<lib, grid>>
    BY <1>4, <2>2 DEF SheetOK
  <2>3. QED
    BY <2>1, <2>2 DEF EnterDetail
<1>6. RecordsOK'
  BY <1>1, <1>2, <1>3, <1>5 DEF IInv, RecordsOK
<1>7. CursorOK(app, grid, lib, roster)'
  BY <1>2 DEF CursorOK
<1>8. QED
  BY <1>1, <1>2, <1>3, <1>6, <1>7 DEF IInv, Related

LEMMA EnterSettingsOK ==
  ASSUME IInv, EnterSettings
  PROVE  IInv'
<1>1. /\ app.next = "SETTINGS" /\ app.screen # "SETTINGS" /\ Arrive("SETTINGS")
      /\ list' = [cursor |-> IF list.returning THEN list.cursor ELSE 1, returning |-> FALSE, settle |-> 0]
      /\ UNCHANGED <<music, lib, grid, sheet, roster, prof, kb, set, saved>>
  BY DEF EnterSettings, Turning, shelf, people, typing
<1>2. /\ AppOK(app)' /\ app'.screen = "SETTINGS"
      /\ PickOK(app', prof, kb) /\ SavedOK(app', set, saved) /\ ThemeOK(app', roster)
  BY <1>1, ArriveOK DEF Showing
<1>3. ListOK(list)' /\ SongOK(app, music, set, list)'
  <2>1. ListOK(list) /\ SongOK(app, music, set, list) /\ list.settle \in Nat
    BY ScreensAssumption DEF IInv, RecordsOK, Related, ListOK
  <2>2. list.settle = 0
    BY <1>1, <2>1 DEF SongOK
  <2>3. ListOK(list') /\ list'.settle = 0
    BY <1>1, ScreensAssumption DEF ListOK
  <2>4. QED
    BY <1>1, <2>1, <2>2, <2>3 DEF SongOK
<1>4. RecordsOK'
  BY <1>1, <1>2, <1>3 DEF IInv, RecordsOK
<1>5. CursorOK(app, grid, lib, roster)'
  BY <1>2 DEF CursorOK
<1>6. QED
  BY <1>1, <1>2, <1>3, <1>4, <1>5 DEF IInv, Related

LEMMA EnterAwayOK ==
  ASSUME IInv, EnterAway
  PROVE  IInv'
<1>1. PICK s \in Away \cup {"LAUNCH", "FAULT"} : Turning(s) /\ Arrive(s)
  BY DEF EnterAway
<1>2. Leave /\ UNCHANGED <<lib, grid, sheet, roster, prof, kb, set, saved>>
  BY DEF EnterAway, shelf, people, typing
<1>3. s \in Showing /\ s # "GRID" /\ app.next = s
  BY <1>1 DEF Showing, Away, Turning
<1>4. /\ AppOK(app)' /\ app'.screen = s
      /\ PickOK(app', prof, kb) /\ SavedOK(app', set, saved) /\ ThemeOK(app', roster)
  BY <1>1, <1>3, ArriveOK
<1>5. MusicOK(music)' /\ ListOK(list)' /\ SongOK(app, music, set, list)'
  BY <1>2, LeaveOK
<1>6. RecordsOK'
  BY <1>2, <1>4, <1>5 DEF IInv, RecordsOK
<1>7. CursorOK(app, grid, lib, roster)'
  BY <1>3, <1>4 DEF CursorOK
<1>8. QED
  BY <1>2, <1>4, <1>5, <1>6, <1>7 DEF IInv, Related

LEMMA TurnOK ==
  ASSUME IInv, Turn
  PROVE  IInv'
BY EnterGridOK, EnterProfilesOK, EnterKeyboardOK, EnterAppearanceOK, EnterDetailOK,
   EnterSettingsOK, EnterAwayOK DEF Turn

-----------------------------------------------------------------------------
(***************************************************************************)
(* The keys.                                                               *)
(***************************************************************************)
\* Away from the settings what is set is saved and no song waits.
LEMMA NothingWaits ==
  ASSUME IInv, ~ Unsaved(app, app.screen)
  PROVE  saved = set /\ list.settle = 0 /\ music.selected = Track(set.track)
<1>1. SavedOK(app, set, saved) /\ SongOK(app, music, set, list) /\ ListOK(list)
  BY DEF IInv, RecordsOK, Related
<1>2. list.settle \in Nat
  BY <1>1, ScreensAssumption DEF ListOK
<1>3. saved = set
  BY <1>1 DEF SavedOK
<1>4. ~ (app.screen = "SETTINGS")
  BY DEF Unsaved
<1>5. list.settle = 0
  BY <1>1, <1>2, <1>4 DEF SongOK
<1>6. QED
  BY <1>1, <1>3, <1>5 DEF SongOK

\* Once a player is chosen and what is set is saved, any screen may come next.
LEMMA AskedNext ==
  ASSUME IInv, ~ prof.picking, saved = set, UNCHANGED app \/ \E s : app' = [app EXCEPT !.next = s]
  PROVE  /\ AppOK(app)' /\ app'.screen = app.screen /\ PickOK(app', prof, kb)
         /\ SavedOK(app', set, saved) /\ ThemeOK(app', roster) /\ SongOK(app', music, set, list)
<1>1. AppOK(app)' /\ app'.screen = app.screen /\ app'.theme = app.theme
  <2>1. AppOK(app)
    BY DEF IInv, RecordsOK
  <2>2. CASE UNCHANGED app
    BY <2>1, <2>2
  <2>3. CASE \E s : app' = [app EXCEPT !.next = s]
    BY <2>1, <2>3, NextIsAsked
  <2>4. QED
    BY <2>2, <2>3
<1>2. PickOK(app', prof, kb) /\ SavedOK(app', set, saved)
  BY DEF PickOK, SavedOK
<1>3. ThemeOK(app', roster) /\ SongOK(app', music, set, list)
  BY <1>1 DEF IInv, Related, ThemeOK, SongOK
<1>4. QED
  BY <1>1, <1>2, <1>3

LEMMA ToggledOK ==
  ASSUME LibOK(lib), NEW t
  PROVE  LibOK(Toggled(lib, t)) /\ Toggled(lib, t).table = lib.table /\ Toggled(lib, t).stamp = lib.stamp
<1> DEFINE m == Toggled(lib, t)
<1>1. DOMAIN m = DOMAIN lib /\ m.table = lib.table /\ m.stamp = lib.stamp /\ m.custom = lib.custom
  BY DEF LibOK, Toggled
<1> HIDE DEF m
<1>2. LibOK(m)
  BY <1>1 DEF LibOK
<1>3. QED
  BY <1>1, <1>2 DEF m

LEMMA GridKeyOK ==
  ASSUME IInv, NEW key, GridKey(key)
  PROVE  IInv'
<1>1. /\ app.screen = "GRID" /\ app.next = "GRID"
      /\ UNCHANGED <<music, roster, prof, kb, set, saved, list>>
  BY DEF GridKey, On, Idle, people, typing, config
<1>2. saved = set /\ ~ prof.picking
  <2>1. ~ Unsaved(app, app.screen)
    BY <1>1 DEF Unsaved
  <2>2. PickOK(app, prof, kb)
    BY DEF IInv, Related
  <2>3. QED
    BY <1>1, <2>1, <2>2, NothingWaits DEF PickOK
<1>3. UNCHANGED app \/ \E s : app' = [app EXCEPT !.next = s]
  BY DEF GridKey, Goto, Stay, OpenSheet, ToggleFavourite
<1>4. /\ AppOK(app)' /\ app'.screen = "GRID" /\ PickOK(app', prof, kb)
      /\ SavedOK(app', set, saved) /\ ThemeOK(app', roster) /\ SongOK(app', music, set, list)
  BY <1>1, <1>2, <1>3, AskedNext
<1>5. LibOK(lib) /\ GridOK(grid) /\ SheetOK(sheet) /\ RosterOK(roster) /\ roster.active \in Slots
  BY DEF IInv, RecordsOK, RosterOK
<1> DEFINE v == View(grid, lib, roster)
<1>6. /\ v # <<>> => grid.cursor < Len(v)
      /\ Len(v) \in Nat /\ (v # <<>> <=> Len(v) > 0) /\ \A i \in 1 .. Len(v) : v[i] \in Places
  <2>1. CursorOK(app, grid, lib, roster)
    BY DEF IInv, Related
  <2>2. QED
    BY <1>1, <1>5, <2>1, ViewPlaces DEF CursorOK
<1>7. /\ LibOK(lib)' /\ GridOK(grid)' /\ SheetOK(sheet)'
      /\ View(grid', lib', roster) # <<>> => grid'.cursor < Len(View(grid', lib', roster))
  <2>1. CASE UNCHANGED shelf
    BY <1>5, <1>6, <2>1 DEF shelf
  <2>2. CASE (\E t \in DOMAIN Tabs : grid' = ToTab(t)) /\ UNCHANGED <<lib, sheet>>
    <3>1. PICK t \in DOMAIN Tabs : grid' = ToTab(t)
      BY <2>2
    <3> DEFINE g == [grid EXCEPT !.tab = t, !.cursor = 0]
    <3>2. GridOK(g)
      BY <1>5 DEF GridOK
    <3> HIDE DEF g
    <3>3. /\ GridOK(Rebuilt(g, lib, roster))
          /\ View(Rebuilt(g, lib, roster), lib, roster) # <<>> =>
               Rebuilt(g, lib, roster).cursor < Len(View(Rebuilt(g, lib, roster), lib, roster))
      BY <1>5, <3>2, RebuiltOK
    <3>4. grid' = Rebuilt(g, lib, roster)
      BY <3>1 DEF ToTab, g
    <3>5. QED
      BY <1>5, <2>2, <3>3, <3>4
  <2>3. CASE grid' = [grid EXCEPT !.cursor = Moved(key, @, Len(v), Cols)] /\ UNCHANGED <<lib, sheet>>
    <3>1. grid.cursor \in Nat
      BY <1>5 DEF GridOK
    <3>2. Moved(key, grid.cursor, Len(v), Cols) \in Nat
          /\ (v # <<>> => Moved(key, grid.cursor, Len(v), Cols) < Len(v))
      BY <1>6, <3>1, CursorStays
    <3>3. GridOK(grid') /\ grid'.tab = grid.tab /\ grid'.cursor = Moved(key, grid.cursor, Len(v), Cols)
      BY <1>5, <2>3, <3>2 DEF GridOK
    <3>4. View(grid', lib, roster) = v
      BY <3>3 DEF View
    <3>5. QED
      BY <1>5, <2>3, <3>2, <3>3, <3>4
  <2>4. CASE OpenSheet
    <3>1. v # <<>> /\ UNCHANGED <<lib, grid>>
          /\ sheet' = [sheet EXCEPT !.rom = v[grid.cursor + 1], !.path = TitleAt(grid, lib, roster)]
      BY <2>4 DEF OpenSheet
    <3>2. v[grid.cursor + 1] \in Places
      <4>1. grid.cursor + 1 \in 1 .. Len(v)
        BY <1>5, <1>6, <3>1 DEF GridOK
      <4>2. QED
        BY <1>6, <4>1
    <3>3. SheetOK(sheet')
      BY <1>5, <3>1, <3>2 DEF SheetOK
    <3>4. QED
      BY <1>5, <1>6, <3>1, <3>3
  <2>5. CASE ToggleFavourite
    <3>1. UNCHANGED sheet /\ lib' = Toggled(lib, TitleAt(grid, lib, roster))
          /\ grid' = IF Tabs[grid.tab] = "favorites" THEN Rebuilt(grid, lib', roster) ELSE grid
      BY <2>5 DEF ToggleFavourite
    <3>2. LibOK(lib') /\ lib'.table = lib.table /\ lib'.stamp = lib.stamp
      BY <1>5, <3>1, ToggledOK
    <3>3. CASE Tabs[grid.tab] = "favorites"
      BY <1>5, <3>1, <3>2, <3>3, RebuiltOK
    <3>4. CASE Tabs[grid.tab] # "favorites"
      <4>1. View(grid, lib', roster) = v
        BY <1>5, <3>2, <3>4, ToggleKeepsView
      <4>2. QED
        BY <1>5, <1>6, <3>1, <3>2, <3>4, <4>1
    <3>5. QED
      BY <3>3, <3>4
  <2>6. grid.tab - 1 \in Int /\ grid.tab + 1 \in Int /\ DOMAIN Tabs = 1 .. Len(Tabs)
        /\ (grid.tab > 1 => grid.tab - 1 \in DOMAIN Tabs) /\ (grid.tab < Len(Tabs) => grid.tab + 1 \in DOMAIN Tabs)
    <3>1. Systems \in Seq(STRING)
      BY GridAssumption
    <3>2. DOMAIN Tabs = 1 .. Len(Tabs) /\ Len(Tabs) \in Nat
      BY <3>1 DEF Tabs
    <3>3. QED
      BY <1>5, <3>2 DEF GridOK
  <2>7. QED
    BY <2>1, <2>2, <2>3, <2>4, <2>5, <2>6 DEF GridKey
<1>8. RecordsOK'
  BY <1>1, <1>4, <1>7 DEF IInv, RecordsOK
<1>9. CursorOK(app, grid, lib, roster)'
  BY <1>1, <1>7 DEF CursorOK
<1>10. QED
  BY <1>1, <1>4, <1>8, <1>9 DEF IInv, Related

\* screen_keyboard_ask(): the caret is at the end of what fits.
LEMMA AskOK ==
  ASSUME NEW whose, NEW initial \in Seq(Nat), NEW limit \in Nat, NEW back, NEW empty,
         Ask(whose, initial, limit, back, empty)
  PROVE  KbOK(kb)' /\ kb'.back = back /\ app' = [app EXCEPT !.next = "KEYBOARD"]
<1> DEFINE text == SubSeq(initial, 1, IF Len(initial) > limit THEN limit ELSE Len(initial))
<1>1. text \in Seq(Nat)
  BY CutOK
<1>2. kb' = [text |-> text, caret |-> Len(text), accepted |-> FALSE,
             back |-> back, empty |-> empty, limit |-> limit]
  BY DEF Ask
<1> HIDE DEF text
<1>3. KbOK(kb')
  BY <1>1, <1>2 DEF KbOK
<1>4. kb'.back = back
  BY <1>2
<1>5. app' = [app EXCEPT !.next = "KEYBOARD"]
  BY DEF Ask, Goto
<1>6. QED
  BY <1>3, <1>4, <1>5

\* What the picker's keys owe the invariant; the rest they leave alone.
PickerOwes ==
    /\ AppOK(app) /\ RosterOK(roster) /\ ProfOK(prof) /\ KbOK(kb)
    /\ app.screen = "PROFILES" /\ PickOK(app, prof, kb) /\ ThemeOK(app, roster)

LEMMA BeginRenameOK ==
  ASSUME PickerOwes, app.next = "PROFILES", NEW p \in Slots, NEW r, RosterOK(r),
         r.theme[r.active] = roster.theme[roster.active], BeginRename(p, r)
  PROVE  PickerOwes'
<1>1. /\ prof' = [prof EXCEPT !.slot = p, !.name = <<>>, !.mode = "grid", !.cursor = p]
      /\ roster' = r /\ Ask(<<"player", p>>, r.name[p], NameLimit, "PROFILES", FALSE)
  BY DEF BeginRename
<1>2. r.name[p] \in Seq(Nat) /\ NameLimit \in Nat
  BY ScreensAssumption DEF RosterOK
<1>3. KbOK(kb)' /\ kb'.back = "PROFILES" /\ app' = [app EXCEPT !.next = "KEYBOARD"]
  BY <1>1, <1>2, AskOK
<1>4. AppOK(app)' /\ app'.screen = "PROFILES" /\ app'.next = "KEYBOARD" /\ app'.theme = app.theme
  BY <1>3, NextIsAsked DEF PickerOwes
<1>5. ProfOK(prof)'
  BY <1>1 DEF PickerOwes, ProfOK
<1>6. PickOK(app, prof, kb)' /\ ThemeOK(app, roster)'
  BY <1>1, <1>3, <1>4 DEF PickerOwes, PickOK, ThemeOK
<1>7. QED
  BY <1>1, <1>3, <1>4, <1>5, <1>6 DEF PickerOwes

\* A new player takes an empty slot, and no one else's theme changes.
LEMMA NewPlayerOK ==
  ASSUME NEW r, RosterOK(r), NEW p \in Slots, p \notin r.used
  PROVE  RosterOK(NewPlayer(r, p)) /\ NewPlayer(r, p).theme[NewPlayer(r, p).active] = r.theme[r.active]
<1> DEFINE n == NewPlayer(r, p)
<1>1. /\ DOMAIN n = DOMAIN r /\ n.used = r.used \cup {p} /\ n.active = r.active
      /\ n.name = [r.name EXCEPT ![p] = <<>>] /\ n.theme = [r.theme EXCEPT ![p] = ""]
  BY DEF RosterOK, NewPlayer
<1> HIDE DEF n
<1>2. [r.name EXCEPT ![p] = <<>>] \in [Slots -> Seq(Nat)]
  <2>1. <<>> \in Seq(Nat) /\ r.name \in [Slots -> Seq(Nat)]
    BY DEF RosterOK
  <2>2. QED
    BY <2>1
<1>3. DOMAIN [r.theme EXCEPT ![p] = ""] = Slots
  BY DEF RosterOK
<1>4. RosterOK(n)
  BY <1>1, <1>2, <1>3, Zenon DEF RosterOK
<1>5. n.theme[n.active] = r.theme[r.active]
  <2>1. r.active # p /\ r.active \in Slots /\ DOMAIN r.theme = Slots
    BY DEF RosterOK
  <2>2. [r.theme EXCEPT ![p] = ""][r.active] = r.theme[r.active]
    BY <2>1
  <2>3. QED
    BY <1>1, <2>2, Zenon
<1>6. QED
  BY <1>4, <1>5 DEF n

LEMMA PickerKeyOK ==
  ASSUME PickerOwes, app.next = "PROFILES", NEW key, PickerKey(key)
  PROVE  PickerOwes'
<1> USE DEF PickerOwes
<1>1. CASE ~ prof.picking /\ Goto("GRID") /\ UNCHANGED <<people, typing>>
  <2>1. app' = [app EXCEPT !.next = "GRID"] /\ UNCHANGED <<roster, prof, kb>>
    BY <1>1 DEF Goto, people, typing
  <2>2. AppOK(app)' /\ app'.screen = "PROFILES" /\ app'.theme = app.theme
    BY <2>1, NextIsAsked
  <2>3. QED
    BY <1>1, <2>1, <2>2 DEF PickOK, ThemeOK
<1>2. CASE (\E p \in Slots : prof' = [prof EXCEPT !.cursor = p]) /\ prof.mode = "grid" /\ Stay /\ UNCHANGED <<roster, look, typing>>
  <2>1. ProfOK(prof)' /\ prof'.picking = prof.picking /\ UNCHANGED <<app, roster, kb>>
    BY <1>2 DEF ProfOK, Stay, typing
  <2>2. QED
    BY <2>1 DEF PickOK
<1>3. CASE prof.cursor \in roster.used /\ Choose(prof.cursor)
  <2> DEFINE p == prof.cursor
  <2>1. /\ roster' = [roster EXCEPT !.active = p] /\ prof' = [prof EXCEPT !.picking = FALSE] /\ UNCHANGED kb
        /\ app' = [app EXCEPT !.next = "GRID", !.theme = IF p = roster.active THEN @ ELSE ThemeByName(roster.theme[p])]
    BY <1>3 DEF Choose, typing
  <2>2. RosterOK(roster)' /\ roster'.active = p /\ roster'.theme = roster.theme
    BY <1>3, <2>1 DEF RosterOK
  <2>3. ProfOK(prof)' /\ prof'.picking = FALSE
    BY <2>1 DEF ProfOK
  <2>4. /\ AppOK(app)' /\ app'.screen = "PROFILES"
        /\ app'.theme = IF p = roster.active THEN app.theme ELSE ThemeByName(roster.theme[p])
    BY <2>1 DEF AppOK
  <2>5. QED
    BY <2>1, <2>2, <2>3, <2>4 DEF PickOK, ThemeOK
<1>4. CASE prof.cursor \notin roster.used /\ BeginRename(prof.cursor, NewPlayer(roster, prof.cursor))
  <2>1. prof.cursor \in Slots
    BY DEF ProfOK
  <2>2. QED
    BY <1>4, <2>1, NewPlayerOK, BeginRenameOK
<1>5. CASE Vacant(roster) # {} /\ BeginRename(FirstVacant(roster), NewPlayer(roster, FirstVacant(roster)))
  <2>1. Vacant(roster) \in SUBSET Nat
    <3>1. Cardinality(Slots) \in Nat
      BY ScreensAssumption, FS_CardinalityType
    <3>2. QED
      BY <3>1, ScreensAssumption DEF Vacant
  <2>2. \E p \in Vacant(roster) : \A q \in Vacant(roster) : p <= q
    BY <1>5, <2>1, LeastExists
  <2>3. FirstVacant(roster) \in Vacant(roster)
    BY <2>2 DEF FirstVacant
  <2>4. FirstVacant(roster) \in Slots /\ FirstVacant(roster) \notin roster.used
    BY <2>3 DEF Vacant
  <2>5. QED
    BY <1>5, <2>4, NewPlayerOK, BeginRenameOK
<1>6. CASE prof' = [prof EXCEPT !.mode = "edit", !.row = "name"] /\ Stay /\ UNCHANGED <<roster, look, typing>>
  <2>1. ProfOK(prof)' /\ prof'.picking = prof.picking /\ UNCHANGED <<app, roster, kb>>
    BY <1>6 DEF ProfOK, Stay, typing
  <2>2. QED
    BY <2>1 DEF PickOK
<1>7. CASE /\ prof.cursor \in roster.used \ {0}
           /\ prof' = [prof EXCEPT !.mode = "confirm", !.keep = TRUE] /\ Stay /\ UNCHANGED <<roster, look, typing>>
  <2>1. ProfOK(prof)' /\ prof'.picking = prof.picking /\ UNCHANGED <<app, roster, kb>>
    BY <1>7 DEF ProfOK, Stay, typing
  <2>2. QED
    BY <2>1 DEF PickOK
<1>8. QED
  BY <1>1, <1>2, <1>3, <1>4, <1>5, <1>6, <1>7 DEF PickerKey

LEMMA EditKeyOK ==
  ASSUME PickerOwes, app.next = "PROFILES", NEW key, EditKey(key)
  PROVE  PickerOwes'
<1> USE DEF PickerOwes
<1>1. CASE /\ \/ prof' = [prof EXCEPT !.mode = "grid"]
              \/ prof' = [prof EXCEPT !.row = IF key = "UP" THEN "name" ELSE "look"]
           /\ Stay /\ UNCHANGED <<roster, look, typing>>
  <2>1. ProfOK(prof)' /\ prof'.picking = prof.picking /\ UNCHANGED <<app, roster, kb>>
    BY <1>1 DEF ProfOK, Stay, typing
  <2>2. QED
    BY <2>1 DEF PickOK
<1>2. CASE BeginRename(prof.cursor, roster)
  <2>1. prof.cursor \in Slots
    BY DEF ProfOK
  <2>2. QED
    BY <1>2, <2>1, BeginRenameOK
<1>3. CASE prof' = [prof EXCEPT !.mode = "grid"] /\ Goto("APPEARANCE") /\ UNCHANGED <<roster, typing>>
  <2>1. ProfOK(prof)' /\ prof'.picking = prof.picking /\ UNCHANGED <<roster, kb>> /\ app' = [app EXCEPT !.next = "APPEARANCE"]
    BY <1>3 DEF ProfOK, Goto, typing
  <2>2. AppOK(app)' /\ app'.screen = "PROFILES" /\ app'.next = "APPEARANCE" /\ app'.theme = app.theme
    BY <2>1, NextIsAsked
  <2>3. QED
    BY <2>1, <2>2 DEF PickOK, ThemeOK
<1>4. QED
  BY <1>1, <1>2, <1>3 DEF EditKey

LEMMA ConfirmKeyOK ==
  ASSUME PickerOwes, app.next = "PROFILES", NEW key, ConfirmKey(key)
  PROVE  PickerOwes'
<1> USE DEF PickerOwes
<1>1. CASE /\ prof' = [prof EXCEPT !.mode = "grid"] \/ prof' = [prof EXCEPT !.keep = ~@]
           /\ Stay /\ UNCHANGED <<roster, look, typing>>
  <2>1. ProfOK(prof)' /\ prof'.picking = prof.picking /\ UNCHANGED <<app, roster, kb>>
    BY <1>1 DEF ProfOK, Stay, typing
  <2>2. QED
    BY <2>1 DEF PickOK
<1>2. CASE prof.mode = "confirm" /\ Delete
  <2> DEFINE p == prof.cursor
  <2>1. /\ roster' = Removed(roster, p) /\ prof' = [prof EXCEPT !.mode = "grid"] /\ UNCHANGED kb
        /\ app' = [app EXCEPT !.theme = ThemeByName(roster'.theme[roster'.active])]
    BY <1>2 DEF Delete, typing
  <2>2. p \in Slots /\ p # 0
    BY <1>2 DEF ProfOK
  <2>3. /\ DOMAIN roster' = DOMAIN roster /\ roster'.used = roster.used \ {p}
        /\ roster'.active = IF roster.active = p THEN 0 ELSE roster.active
        /\ roster'.name = [roster.name EXCEPT ![p] = <<>>] /\ roster'.theme = [roster.theme EXCEPT ![p] = ""]
    BY <2>1 DEF RosterOK, Removed
  <2>4. RosterOK(roster)'
    <3>1. [roster.name EXCEPT ![p] = <<>>] \in [Slots -> Seq(Nat)]
      <4>1. <<>> \in Seq(Nat) /\ roster.name \in [Slots -> Seq(Nat)]
        BY DEF RosterOK
      <4>2. QED
        BY <4>1
    <3>2. DOMAIN [roster.theme EXCEPT ![p] = ""] = Slots
      BY DEF RosterOK
    <3>3. /\ 0 \in roster.used \ {p} /\ roster.used \ {p} \subseteq Slots
          /\ (IF roster.active = p THEN 0 ELSE roster.active) \in roster.used \ {p}
      BY <2>2 DEF RosterOK
    <3>4. DOMAIN roster' = {"used", "active", "name", "theme", "look"}
      BY <2>3 DEF RosterOK
    <3>5. 0 \in roster'.used /\ roster'.used \subseteq Slots /\ roster'.active \in roster'.used
      BY ONLY <2>3, <3>3, Zenon
    <3>6. roster'.name \in [Slots -> Seq(Nat)] /\ DOMAIN roster'.theme = Slots
      BY ONLY <2>3, <3>1, <3>2, Zenon
    <3>7. QED
      BY ONLY <3>4, <3>5, <3>6, Zenon DEF RosterOK
  <2>5. ProfOK(prof)' /\ prof'.picking = prof.picking
    BY <2>1 DEF ProfOK
  <2>6. AppOK(app)' /\ app'.screen = "PROFILES" /\ app'.next = app.next /\ app'.theme = ThemeByName(roster'.theme[roster'.active])
    BY <2>1 DEF AppOK
  <2>7. QED
    BY <2>1, <2>4, <2>5, <2>6 DEF PickOK, ThemeOK
<1>3. QED
  BY <1>1, <1>2 DEF ConfirmKey

LEMMA ProfilesKeyOK ==
  ASSUME IInv, NEW key, ProfilesKey(key)
  PROVE  IInv'
<1>1. /\ app.screen = "PROFILES" /\ app.next = "PROFILES"
      /\ UNCHANGED <<music, lib, grid, sheet, set, saved, list>>
  BY DEF ProfilesKey, On, Idle, shelf, config
<1>2. saved = set
  BY <1>1, NothingWaits DEF Unsaved
<1>3. PickerOwes
  BY <1>1 DEF IInv, RecordsOK, Related, PickerOwes
<1>4. PickerOwes'
  BY <1>1, <1>3, PickerKeyOK, EditKeyOK, ConfirmKeyOK DEF ProfilesKey
<1>5. RecordsOK'
  BY <1>1, <1>4 DEF IInv, RecordsOK, PickerOwes
<1>6. SavedOK(app, set, saved)' /\ CursorOK(app, grid, lib, roster)' /\ SongOK(app, music, set, list)'
  BY <1>1, <1>2, <1>4 DEF IInv, Related, SavedOK, CursorOK, SongOK, PickerOwes
<1>7. QED
  BY <1>4, <1>5, <1>6 DEF IInv, Related, PickerOwes

LEMMA KeyboardKeyOK ==
  ASSUME IInv, NEW key, KeyboardKey(key)
  PROVE  IInv'
<1>1. /\ app.screen = "KEYBOARD" /\ app.next = "KEYBOARD"
      /\ UNCHANGED <<music, lib, grid, roster, set, saved, list>>
  BY DEF KeyboardKey, On, Idle, config
<1>2. saved = set
  BY <1>1, NothingWaits DEF Unsaved
<1>3. AppOK(app) /\ SheetOK(sheet) /\ ProfOK(prof) /\ KbOK(kb) /\ PickOK(app, prof, kb)
  BY DEF IInv, RecordsOK, Related
<1>4. /\ AppOK(app)' /\ app'.screen = "KEYBOARD" /\ app'.theme = app.theme
      /\ app'.next \in {app.next, kb.back}
  <2>1. CASE UNCHANGED app
    BY <1>1, <1>3, <2>1
  <2>2. CASE app' = [app EXCEPT !.next = kb.back]
    BY <1>1, <1>3, <2>2, NextIsAsked
  <2>3. QED
    BY <2>1, <2>2 DEF KeyboardKey, Confirm, Stay
<1>5. SheetOK(sheet)' /\ ProfOK(prof)' /\ prof'.picking = prof.picking
  <2>1. CASE UNCHANGED <<sheet, prof>>
    BY <1>3, <2>1
  <2>2. CASE Confirm
    <3>1. kb.text \in Seq(Nat)
      BY <1>3 DEF KbOK
    <3>2. \/ prof' = [prof EXCEPT !.name = kb.text] /\ UNCHANGED sheet
          \/ sheet' = [sheet EXCEPT !.name = kb.text] /\ UNCHANGED prof
      BY <2>2 DEF Confirm
    <3>3. QED
      BY <1>3, <3>1, <3>2 DEF SheetOK, ProfOK
  <2>3. QED
    BY <2>1, <2>2 DEF KeyboardKey
<1>6. KbOK(kb)' /\ kb'.back = kb.back
  <2>1. kb.text \in Seq(Nat) /\ kb.caret \in 0 .. Len(kb.text) /\ Len(kb.text) \in Nat
    BY <1>3 DEF KbOK
  <2>2. CASE UNCHANGED kb
    BY <1>3, <2>2
  <2>3. CASE kb' = Deleted /\ kb.caret > 0
    <3> DEFINE text == RemoveAt(kb.text, kb.caret)
    <3>1. text \in Seq(Nat) /\ Len(text) = Len(kb.text) - 1
      BY <2>1, <2>3, TypedOK
    <3>2. DOMAIN kb' = DOMAIN kb /\ kb'.text = text /\ kb'.caret = kb.caret - 1 /\ kb'.back = kb.back
      BY <1>3, <2>3 DEF KbOK, Deleted
    <3> HIDE DEF text
    <3>3. QED
      BY <1>3, <2>1, <2>3, <3>1, <3>2 DEF KbOK
  <2>4. CASE kb' = [kb EXCEPT !.accepted = TRUE]
    BY <1>3, <2>4 DEF KbOK
  <2>5. CASE \E c \in Letters : kb' = Typed(c)
    <3>1. PICK c \in Letters : kb' = Typed(c)
      BY <2>5
    <3>2. c \in Nat
      BY ScreensAssumption
    <3> DEFINE text == InsertAt(kb.text, kb.caret + 1, c)
    <3>3. text \in Seq(Nat) /\ Len(text) = Len(kb.text) + 1
      BY <2>1, <3>2, TypedOK
    <3>4. DOMAIN kb' = DOMAIN kb /\ kb'.text = text /\ kb'.caret = kb.caret + 1 /\ kb'.back = kb.back
      BY <1>3, <3>1 DEF KbOK, Typed
    <3> HIDE DEF text
    <3>5. QED
      BY <1>3, <2>1, <3>3, <3>4 DEF KbOK
  <2>6. CASE \E at \in 0 .. Len(kb.text) : kb' = [kb EXCEPT !.caret = at]
    BY <1>3, <2>6 DEF KbOK
  <2>7. QED
    BY <2>2, <2>3, <2>4, <2>5, <2>6 DEF KeyboardKey, Confirm
<1>7. RecordsOK'
  BY <1>1, <1>4, <1>5, <1>6 DEF IInv, RecordsOK
<1>8. PickOK(app, prof, kb)'
  BY <1>1, <1>3, <1>4, <1>5, <1>6 DEF PickOK
<1>9. SavedOK(app, set, saved)' /\ CursorOK(app, grid, lib, roster)' /\ ThemeOK(app, roster)'
  BY <1>1, <1>2, <1>4 DEF IInv, Related, SavedOK, CursorOK, ThemeOK
<1>10. SongOK(app, music, set, list)'
  BY <1>1, <1>4 DEF IInv, Related, SongOK
<1>11. QED
  BY <1>7, <1>8, <1>9, <1>10 DEF IInv, Related

LEMMA AppearanceKeyOK ==
  ASSUME IInv, NEW key, AppearanceKey(key)
  PROVE  IInv'
<1>1. /\ app.screen = "APPEARANCE" /\ app.next = "APPEARANCE"
      /\ UNCHANGED <<music, lib, grid, sheet, prof, kb, set, saved, list>>
  BY DEF AppearanceKey, On, Idle, shelf, typing, config
<1>2. saved = set
  BY <1>1, NothingWaits DEF Unsaved
<1>3. AppOK(app) /\ RosterOK(roster)
  BY DEF IInv, RecordsOK
<1>4. /\ AppOK(app)' /\ app'.screen = "APPEARANCE" /\ app'.theme = app.theme
      /\ app'.next \in {app.next, "PROFILES"}
  <2>1. CASE UNCHANGED app
    BY <1>1, <1>3, <2>1
  <2>2. CASE app' = [app EXCEPT !.next = "PROFILES"]
    BY <1>1, <1>3, <2>2, NextIsAsked
  <2>3. QED
    BY <2>1, <2>2 DEF AppearanceKey, Apply, Stay
<1>5. RosterOK(roster)' /\ roster'.theme = roster.theme /\ roster'.active = roster.active
  <2>1. CASE UNCHANGED roster
    BY <1>3, <2>1
  <2>2. CASE roster' = [roster EXCEPT !.look[look.slot] = look.now]
    BY <1>3, <2>2 DEF RosterOK
  <2>3. QED
    BY <2>1, <2>2 DEF AppearanceKey, Apply
<1>6. RecordsOK'
  BY <1>1, <1>4, <1>5 DEF IInv, RecordsOK
<1>7. PickOK(app, prof, kb)' /\ SongOK(app, music, set, list)'
  BY <1>1, <1>4 DEF IInv, Related, PickOK, SongOK
<1>8. SavedOK(app, set, saved)' /\ CursorOK(app, grid, lib, roster)' /\ ThemeOK(app, roster)'
  BY <1>1, <1>2, <1>4, <1>5 DEF IInv, Related, SavedOK, CursorOK, ThemeOK
<1>9. QED
  BY <1>6, <1>7, <1>8 DEF IInv, Related

\* The code pad is told where it leads.
LEMMA AskCodeOK ==
  ASSUME AppOK(app), NEW good, NEW back, <<good, back>> \in Codes, AskCode(good, back)
  PROVE  /\ AppOK(app)' /\ app'.screen = app.screen /\ app'.theme = app.theme
         /\ app'.next = "CODE" /\ app'.code = <<good, back>>
BY DEF AskCode, AppOK

LEMMA SheetKeyOK ==
  ASSUME IInv, NEW key, SheetKey(key)
  PROVE  IInv'
<1>1. /\ app.screen = "DETAIL" /\ app.next = "DETAIL"
      /\ UNCHANGED <<music, grid, roster, prof, set, saved, list>>
  BY DEF SheetKey, On, Idle, people, config
<1>2. saved = set /\ ~ prof.picking
  <2>1. ~ Unsaved(app, app.screen)
    BY <1>1 DEF Unsaved
  <2>2. PickOK(app, prof, kb)
    BY DEF IInv, Related
  <2>3. QED
    BY <1>1, <2>1, <2>2, NothingWaits DEF PickOK
<1>3. AppOK(app) /\ LibOK(lib) /\ SheetOK(sheet) /\ KbOK(kb)
  BY DEF IInv, RecordsOK
<1>4. lib.table[sheet.rom] \in Titles
  BY <1>3 DEF LibOK, SheetOK
<1>5. /\ AppOK(app)' /\ app'.screen = "DETAIL" /\ app'.theme = app.theme
      /\ LibOK(lib)' /\ SheetOK(sheet)' /\ KbOK(kb)'
  <2>1. CASE /\ UNCHANGED <<lib, sheet, typing>>
             /\ \/ AskCode("DETAIL", "DETAIL") \/ AskCode("LAUNCH", "DETAIL")
                \/ Goto("CHEATS") \/ Goto("LAUNCH")
    <3>1. UNCHANGED <<lib, sheet, kb>>
      BY <2>1 DEF typing
    <3>2. AppOK(app)' /\ app'.screen = "DETAIL" /\ app'.theme = app.theme
      <4>1. <<"DETAIL", "DETAIL">> \in Codes /\ <<"LAUNCH", "DETAIL">> \in Codes
        BY DEF Codes
      <4>2. CASE AskCode("DETAIL", "DETAIL") \/ AskCode("LAUNCH", "DETAIL")
        BY <1>1, <1>3, <4>1, <4>2, AskCodeOK
      <4>3. CASE \E s : app' = [app EXCEPT !.next = s]
        BY <1>1, <1>3, <4>3, NextIsAsked
      <4>4. QED
        BY <2>1, <4>2, <4>3 DEF Goto
    <3>3. QED
      BY <1>3, <3>1, <3>2
  <2>2. CASE /\ sheet' = [sheet EXCEPT !.pending = TRUE, !.name = <<>>, !.at = lib.table[sheet.rom]]
             /\ Ask(<<"title", sheet.path>>, NameOf(lib, lib.table[sheet.rom]), TextLimit, "DETAIL", TRUE)
             /\ UNCHANGED lib
    <3>1. NameOf(lib, lib.table[sheet.rom]) \in Seq(Nat) /\ TextLimit \in Nat
      BY <1>3, <1>4, NamesAreWords, ScreensAssumption DEF LibOK
    <3>2. KbOK(kb)' /\ app' = [app EXCEPT !.next = "KEYBOARD"]
      BY <2>2, <3>1, AskOK
    <3>3. AppOK(app)' /\ app'.screen = "DETAIL" /\ app'.theme = app.theme
      BY <1>1, <1>3, <3>2, NextIsAsked
    <3>4. SheetOK(sheet)'
      BY <1>3, <1>4, <2>2 DEF SheetOK
    <3>5. QED
      BY <1>3, <2>2, <3>2, <3>3, <3>4
  <2>3. CASE lib' = Toggled(lib, lib.table[sheet.rom]) /\ Stay /\ UNCHANGED <<sheet, typing>>
    <3>1. UNCHANGED <<app, sheet, kb>>
      BY <2>3 DEF Stay, typing
    <3>2. LibOK(lib')
      BY <1>3, <2>3, ToggledOK
    <3>3. QED
      BY <1>1, <1>3, <3>1, <3>2
  <2>4. CASE sheet' = [sheet EXCEPT !.closing = TRUE] /\ Stay /\ UNCHANGED <<lib, typing>>
    <3>1. UNCHANGED <<app, lib, kb>> /\ SheetOK(sheet)'
      BY <1>3, <2>4 DEF Stay, typing, SheetOK
    <3>2. QED
      BY <1>1, <1>3, <3>1
  <2>5. QED
    BY <2>1, <2>2, <2>3, <2>4 DEF SheetKey
<1>6. RecordsOK'
  BY <1>1, <1>5 DEF IInv, RecordsOK
<1>7. PickOK(app, prof, kb)' /\ SavedOK(app, set, saved)' /\ CursorOK(app, grid, lib, roster)'
  BY <1>1, <1>2, <1>5 DEF PickOK, SavedOK, CursorOK
<1>8. SongOK(app, music, set, list)' /\ ThemeOK(app, roster)'
  BY <1>1, <1>5 DEF IInv, Related, SongOK, ThemeOK
<1>9. QED
  BY <1>6, <1>7, <1>8 DEF IInv, Related

LEMMA SheetClosesOK ==
  ASSUME IInv, SheetCloses
  PROVE  IInv'
<1>1. /\ app.screen = "DETAIL" /\ app' = [app EXCEPT !.next = "GRID"]
      /\ UNCHANGED <<music, lib, grid, sheet, roster, prof, kb, set, saved, list>>
  BY DEF SheetCloses, On, Idle, shelf, people, typing, config
<1>2. saved = set /\ ~ prof.picking
  <2>1. ~ Unsaved(app, app.screen)
    BY <1>1 DEF Unsaved
  <2>2. PickOK(app, prof, kb)
    BY DEF IInv, Related
  <2>3. QED
    BY <1>1, <2>1, <2>2, NothingWaits DEF PickOK
<1>3. /\ AppOK(app)' /\ app'.screen = app.screen /\ PickOK(app', prof, kb)
      /\ SavedOK(app', set, saved) /\ ThemeOK(app', roster) /\ SongOK(app', music, set, list)
  BY <1>1, <1>2, AskedNext
<1>4. RecordsOK'
  BY <1>1, <1>3 DEF IInv, RecordsOK
<1>5. CursorOK(app, grid, lib, roster)'
  BY <1>1, <1>3 DEF CursorOK
<1>6. QED
  BY <1>1, <1>3, <1>4, <1>5 DEF IInv, Related

\* The frame's first act leaves the song chosen selected once none waits.
LEMMA SettledOK ==
  ASSUME IInv
  PROVE  /\ ListOK(Ticked)
         /\ \A m \in Settled : /\ MusicOK(m) /\ (m.tables => m.volume = Volume(set.music))
                               /\ Ticked.settle = 0 => m.selected = Track(set.track)
<1>1. MusicOK(music) /\ ListOK(list) /\ SongOK(app, music, set, list)
  BY DEF IInv, RecordsOK, Related
<1>2. list.settle \in Nat /\ list.settle <= Settle /\ Settle \in Nat
  BY <1>1, ScreensAssumption DEF ListOK
<1>3. DOMAIN Ticked = DOMAIN list /\ Ticked.settle = IF list.settle > 0 THEN list.settle - 1 ELSE 0
  BY <1>1 DEF ListOK, Ticked
<1> HIDE DEF Ticked
<1>4. ListOK(Ticked)
  BY <1>1, <1>2, <1>3 DEF ListOK
<1>5. ASSUME NEW m \in Settled
      PROVE  /\ MusicOK(m) /\ (m.tables => m.volume = Volume(set.music))
             /\ Ticked.settle = 0 => m.selected = Track(set.track)
  <2>1. CASE list.settle = 1
    <3>1. m \in SetTrack(music, set.track)
      BY <2>1 DEF Settled
    <3>2. MusicOK(m) /\ m.selected = Track(set.track) /\ (m.tables => music.tables /\ m.volume = music.volume)
      BY <1>1, <3>1, MusicSteps
    <3>3. QED
      BY <1>1, <3>2 DEF SongOK
  <2>2. CASE list.settle # 1
    <3>1. m = music
      BY <2>2 DEF Settled
    <3>2. Ticked.settle = 0 => list.settle = 0
      BY <1>2, <1>3, <2>2
    <3>3. QED
      BY <1>1, <3>1, <3>2 DEF SongOK
  <2>3. QED
    BY <2>1, <2>2
<1>6. QED
  BY <1>4, <1>5

\* What the settings' keys owe the invariant; the rest they leave alone.
SettingsOwe ==
    /\ AppOK(app) /\ RosterOK(roster) /\ ListOK(list) /\ SetOK(set) /\ MusicOK(music)
    /\ app.screen = "SETTINGS"
    /\ SavedOK(app, set, saved) /\ SongOK(app, music, set, list) /\ ThemeOK(app, roster)

\* While the screen stays or asks for one of its own, nothing need be saved.
LEMMA MayBeUnsaved ==
  ASSUME NEW a, a.screen = "SETTINGS",
         a.next \in {"SETTINGS", "CLOCK", "PARENTAL", "SYSINFO", "CREDITS"}
            \/ (a.next = "CODE" /\ a.code[2] = "SETTINGS")
  PROVE  \A s, file : SavedOK(a, s, file)
BY DEF SavedOK, Unsaved

\* The next theme is one of the themes.
LEMMA NextThemeIsKnown ==
  ASSUME NEW name, \E i \in DOMAIN Themes : Themes[i] = name, NEW d \in Int
  PROVE  ThemeByName(NextTheme(name, d)) = NextTheme(name, d)
<1> DEFINE i == CHOOSE i \in DOMAIN Themes : Themes[i] = name
           n == Len(Themes)
<1>1. Themes \in Seq(STRING) /\ Themes # <<>>
  BY ScreensAssumption
<1>2. n \in Nat /\ n > 0 /\ DOMAIN Themes = 1 .. n
  BY <1>1
<1>3. i \in 1 .. n
  BY <1>2
<1> HIDE DEF i, n
<1>4. Around(i, d, n) \in 1 .. n
  <2>1. i - 1 + d \in Int
    BY <1>2, <1>3
  <2>2. (i - 1 + d) % n \in 0 .. n - 1
    BY <1>2, <2>1
  <2>3. QED
    BY <1>2, <2>2 DEF Around
<1>5. NextTheme(name, d) = Themes[Around(i, d, n)]
  BY DEF NextTheme, i, n
<1>6. QED
  BY <1>2, <1>4, <1>5 DEF ThemeByName

LEMMA RowKeyOK ==
  ASSUME IInv, app.screen = "SETTINGS", app.next = "SETTINGS", NEW key, RowKey(key)
  PROVE  SettingsOwe'
<1>1. /\ AppOK(app) /\ RosterOK(roster) /\ ListOK(list) /\ SetOK(set) /\ MusicOK(music)
      /\ SongOK(app, music, set, list) /\ ThemeOK(app, roster)
  BY DEF IInv, RecordsOK, Related
<1>2. /\ ListOK(Ticked)
      /\ \A m \in Settled : /\ MusicOK(m) /\ (m.tables => m.volume = Volume(set.music))
                            /\ Ticked.settle = 0 => m.selected = Track(set.track)
  BY SettledOK
<1>3. Step(key) \in Int
  BY DEF Step
<1>4. CASE ChangeTheme(Step(key)) /\ list' = Ticked /\ music' \in Settled /\ UNCHANGED <<set, saved>>
  <2> DEFINE theme == NextTheme(app.theme, Step(key))
  <2>1. \E i \in DOMAIN Themes : Themes[i] = app.theme
    BY <1>1, ThemesAreKnown DEF ThemeOK
  <2>2. ThemeByName(theme) = theme
    BY <1>3, <2>1, NextThemeIsKnown
  <2>3. app' = [app EXCEPT !.theme = theme] /\ roster' = [roster EXCEPT !.theme[roster.active] = app'.theme]
    BY <1>4 DEF ChangeTheme
  <2> HIDE DEF theme
  <2>4. AppOK(app)' /\ app'.screen = "SETTINGS" /\ app'.next = "SETTINGS" /\ app'.theme = theme
    BY <1>1, <2>3 DEF AppOK
  <2>5. RosterOK(roster)' /\ roster'.theme[roster'.active] = theme
    BY <1>1, <2>3, <2>4 DEF RosterOK
  <2>6. SavedOK(app, set, saved)'
    BY <2>4, MayBeUnsaved
  <2>7. ThemeOK(app, roster)'
    BY <2>2, <2>4, <2>5 DEF ThemeOK
  <2>8. SongOK(app, music, set, list)'
    BY <1>2, <1>4, <2>4 DEF SongOK
  <2>9. QED
    BY <1>1, <1>2, <1>4, <2>4, <2>5, <2>6, <2>7, <2>8 DEF SettingsOwe
<1>5. CASE /\ set' = [set EXCEPT !.boxart = ~@] /\ saved' = set'
           /\ music' \in Settled /\ list' = Ticked /\ UNCHANGED <<app, roster>>
  <2>1. SetOK(set)' /\ set'.track = set.track /\ set'.music = set.music
    BY <1>1, <1>5 DEF SetOK
  <2>2. SongOK(app, music, set, list)' /\ SavedOK(app, set, saved)'
    BY <1>2, <1>5, <2>1 DEF SongOK, SavedOK
  <2>3. QED
    BY <1>1, <1>2, <1>5, <2>1, <2>2 DEF SettingsOwe
<1>6. CASE /\ ChangeMusic(Step(key)) /\ list' = Ticked /\ UNCHANGED <<app, roster, saved>>
  <2> DEFINE v == Volume(set.music + Step(key))
  <2>1. v \in Int
    BY <1>1, <1>3, TracksAndVolumes, MusicAssumption DEF SetOK
  <2>2. SetOK(set)' /\ set'.track = set.track /\ set'.music = v
    BY <1>1, <1>6, <2>1 DEF SetOK, ChangeMusic
  <2>3. PICK m \in Settled : IF set'.music = set.music THEN music' = m ELSE music' \in SetVolume(m, set'.music)
    BY <1>6 DEF ChangeMusic
  <2>4. MusicOK(music)' /\ music'.selected = m.selected /\ (music'.tables => music'.volume = Volume(set'.music))
    <3> HIDE DEF v
    <3> SUFFICES ASSUME set'.music # set.music
                 PROVE  MusicOK(music)' /\ music'.selected = m.selected /\ (music'.tables => music'.volume = Volume(set'.music))
      BY <1>2, <2>3
    <3>1. MusicOK(m)
      BY <1>2, <2>3
    <3>2. \A n \in SetVolume(m, v) : MusicOK(n) /\ n.selected = m.selected /\ (n.tables => n.volume = Volume(v))
      BY <2>1, <3>1, MusicSteps
    <3>3. music' \in SetVolume(m, v) /\ set'.music = v
      BY <2>2, <2>3
    <3>4. QED
      BY <3>2, <3>3
  <2>5. SongOK(app, music, set, list)' /\ SavedOK(app, set, saved)'
    BY <1>2, <1>6, <2>2, <2>4, MayBeUnsaved DEF SongOK
  <2>6. QED
    BY <1>1, <1>2, <1>6, <2>2, <2>4, <2>5 DEF SettingsOwe
<1>7. CASE /\ set' = [set EXCEPT !.track = StepTrack(@, Step(key))]
           /\ music' \in Settled /\ list' = [list EXCEPT !.settle = Settle]
           /\ UNCHANGED <<app, roster, saved>>
  <2>1. StepTrack(set.track, Step(key)) \in Int
    <3>1. Cardinality(Tracks) \in Nat
      BY MusicAssumption, FS_CardinalityType
    <3>2. QED
      BY <1>1, <1>3, <3>1 DEF StepTrack, SetOK
  <2>2. SetOK(set)' /\ set'.music = set.music
    BY <1>1, <1>7, <2>1 DEF SetOK
  <2>3. ListOK(list)' /\ list'.settle # 0
    BY <1>1, <1>7, ScreensAssumption DEF ListOK
  <2>4. SongOK(app, music, set, list)' /\ SavedOK(app, set, saved)'
    BY <1>2, <1>7, <2>2, <2>3, MayBeUnsaved DEF SongOK
  <2>5. QED
    BY <1>1, <1>2, <1>7, <2>2, <2>3, <2>4 DEF SettingsOwe
<1>8. CASE /\ set' = [set EXCEPT !.others = ~@]
           /\ music' \in Settled /\ list' = Ticked /\ UNCHANGED <<app, roster, saved>>
  <2>1. SetOK(set)' /\ set'.track = set.track /\ set'.music = set.music
    BY <1>1, <1>8 DEF SetOK
  <2>2. SongOK(app, music, set, list)' /\ SavedOK(app, set, saved)'
    BY <1>2, <1>8, <2>1, MayBeUnsaved DEF SongOK
  <2>3. QED
    BY <1>1, <1>2, <1>8, <2>1, <2>2 DEF SettingsOwe
<1>9. QED
  BY <1>4, <1>5, <1>6, <1>7, <1>8 DEF RowKey

LEMMA OpenRowOK ==
  ASSUME IInv, app.screen = "SETTINGS", app.next = "SETTINGS", OpenRow
  PROVE  SettingsOwe'
<1>1. /\ AppOK(app) /\ RosterOK(roster) /\ ListOK(list) /\ SetOK(set) /\ MusicOK(music)
      /\ SongOK(app, music, set, list) /\ ThemeOK(app, roster)
  BY DEF IInv, RecordsOK, Related
<1>2. /\ ListOK(Ticked)
      /\ \A m \in Settled : /\ MusicOK(m) /\ (m.tables => m.volume = Volume(set.music))
                            /\ Ticked.settle = 0 => m.selected = Track(set.track)
  BY SettledOK
<1>3. music' \in Settled /\ list' = [Ticked EXCEPT !.returning = TRUE] /\ UNCHANGED <<roster, set>>
  BY DEF OpenRow
<1>4. ListOK(list)' /\ list'.settle = Ticked.settle
  BY <1>2, <1>3 DEF ListOK
<1>5. /\ AppOK(app)' /\ app'.screen = "SETTINGS" /\ app'.theme = app.theme
      /\ \/ app'.next \in {"CLOCK", "PARENTAL", "SYSINFO", "CREDITS"}
         \/ app'.next = "CODE" /\ app'.code[2] = "SETTINGS"
  <2>1. <<"CLOCK", "SETTINGS">> \in Codes /\ <<"PARENTAL", "SETTINGS">> \in Codes
    BY DEF Codes
  <2>2. CASE \E s \in {"CLOCK", "PARENTAL", "SYSINFO", "CREDITS"} : app' = [app EXCEPT !.next = s]
    BY <1>1, <2>2, NextIsAsked
  <2>3. CASE AskCode("CLOCK", "SETTINGS") \/ AskCode("PARENTAL", "SETTINGS")
    <3>1. /\ AppOK(app)' /\ app'.screen = app.screen /\ app'.theme = app.theme /\ app'.next = "CODE"
          /\ app'.code \in {<<"CLOCK", "SETTINGS">>, <<"PARENTAL", "SETTINGS">>}
      BY <1>1, <2>1, <2>3, AskCodeOK
    <3>2. QED
      BY <3>1
  <2>4. QED
    BY <2>2, <2>3 DEF OpenRow, Goto
<1>6. SavedOK(app, set, saved)'
  BY <1>5, MayBeUnsaved
<1>7. SongOK(app, music, set, list)' /\ ThemeOK(app, roster)'
  BY <1>1, <1>2, <1>3, <1>4, <1>5 DEF SongOK, ThemeOK
<1>8. QED
  BY <1>1, <1>2, <1>3, <1>4, <1>5, <1>6, <1>7 DEF SettingsOwe

LEMMA SettingsKeyOK ==
  ASSUME IInv, NEW key, SettingsKey(key)
  PROVE  IInv'
<1>1. /\ app.screen = "SETTINGS" /\ app.next = "SETTINGS"
      /\ UNCHANGED <<lib, grid, sheet, prof, kb>>
  BY DEF SettingsKey, On, Idle, shelf, typing
<1>2. ~ prof.picking
  BY <1>1 DEF IInv, Related, PickOK
<1>3. /\ AppOK(app) /\ RosterOK(roster) /\ ListOK(list) /\ SetOK(set) /\ MusicOK(music)
      /\ SongOK(app, music, set, list) /\ ThemeOK(app, roster) /\ SavedOK(app, set, saved)
  BY DEF IInv, RecordsOK, Related
<1>4. /\ ListOK(Ticked)
      /\ \A m \in Settled : /\ MusicOK(m) /\ (m.tables => m.volume = Volume(set.music))
                            /\ Ticked.settle = 0 => m.selected = Track(set.track)
  BY SettledOK
<1>5. SettingsOwe'
  <2>1. CASE Goto("GRID") /\ saved' = set /\ music' \in Settled /\ list' = Ticked /\ UNCHANGED <<roster, set>>
    <3>1. AppOK(app)' /\ app'.screen = "SETTINGS" /\ app'.theme = app.theme
      BY <1>1, <1>3, <2>1, NextIsAsked DEF Goto
    <3>2. SongOK(app, music, set, list)' /\ ThemeOK(app, roster)' /\ SavedOK(app, set, saved)'
      BY <1>3, <1>4, <2>1, <3>1 DEF SongOK, ThemeOK, SavedOK
    <3>3. QED
      BY <1>3, <1>4, <2>1, <3>1, <3>2 DEF SettingsOwe
  <2>2. CASE /\ list' = [Ticked EXCEPT !.cursor =
                            IF key = "UP" THEN (IF @ > 1 THEN @ - 1 ELSE 1)
                            ELSE IF @ < Len(Rows) THEN @ + 1 ELSE @]
             /\ music' \in Settled /\ Stay /\ UNCHANGED <<roster, set, saved>>
    <3>1. ListOK(list)' /\ list'.settle = Ticked.settle
      BY <1>4, <2>2 DEF ListOK
    <3>2. SongOK(app, music, set, list)'
      BY <1>1, <1>4, <2>2, <3>1 DEF SongOK, Stay
    <3>3. QED
      BY <1>1, <1>3, <1>4, <2>2, <3>1, <3>2 DEF SettingsOwe, Stay
  <2>3. CASE RowKey(key)
    BY <1>1, <2>3, RowKeyOK
  <2>4. CASE OpenRow
    BY <1>1, <2>4, OpenRowOK
  <2>5. QED
    BY <2>1, <2>2, <2>3, <2>4 DEF SettingsKey
<1>6. RecordsOK'
  BY <1>1, <1>5 DEF IInv, RecordsOK, SettingsOwe
<1>7. PickOK(app, prof, kb)' /\ CursorOK(app, grid, lib, roster)'
  BY <1>1, <1>2, <1>5 DEF PickOK, CursorOK, SettingsOwe
<1>8. QED
  BY <1>5, <1>6, <1>7 DEF IInv, Related, SettingsOwe

LEMMA SettingsRestOK ==
  ASSUME IInv, SettingsRest
  PROVE  IInv'
<1>1. /\ app.screen = "SETTINGS" /\ music' \in Settled /\ list' = Ticked
      /\ UNCHANGED <<app, lib, grid, sheet, roster, prof, kb, set, saved>>
  BY DEF SettingsRest, On, shelf, people, typing
<1>2. /\ ListOK(Ticked)
      /\ \A m \in Settled : /\ MusicOK(m) /\ (m.tables => m.volume = Volume(set.music))
                            /\ Ticked.settle = 0 => m.selected = Track(set.track)
  BY SettledOK
<1>3. RecordsOK'
  BY <1>1, <1>2 DEF IInv, RecordsOK
<1>4. SongOK(app, music, set, list)'
  BY <1>1, <1>2 DEF SongOK
<1>5. QED
  BY <1>1, <1>3, <1>4 DEF IInv, Related

LEMMA AwayKeyOK ==
  ASSUME IInv, NEW key, AwayKey(key)
  PROVE  IInv'
<1>1. PICK s \in Away : On(s) /\ Goto(Returns(s, key))
  BY DEF AwayKey
<1>2. /\ app.screen = s /\ app.next = s /\ app' = [app EXCEPT !.next = Returns(s, key)]
      /\ UNCHANGED <<music, lib, grid, sheet, roster, prof, kb, set, saved, list>>
  BY <1>1 DEF AwayKey, On, Idle, Goto, shelf, people, typing, config
<1>3. AppOK(app) /\ PickOK(app, prof, kb) /\ SavedOK(app, set, saved)
  BY DEF IInv, RecordsOK, Related
<1>4. /\ AppOK(app)' /\ app'.screen = app.screen /\ app'.next = Returns(s, key)
      /\ app'.theme = app.theme /\ app'.code = app.code
  BY <1>2, <1>3, NextIsAsked
<1>5. RecordsOK'
  BY <1>2, <1>4 DEF IInv, RecordsOK
<1>6. PickOK(app, prof, kb)' /\ CursorOK(app, grid, lib, roster)'
  BY <1>2, <1>3, <1>4 DEF PickOK, CursorOK, Away
<1>7. SavedOK(app, set, saved)'
  <2>1. CASE saved = set
    BY <1>2, <2>1 DEF SavedOK
  <2>2. CASE saved # set
    <3>1. Unsaved(app, s)
      BY <1>2, <1>3, <2>2 DEF SavedOK
    <3>2. CASE s = "CODE"
      <4>1. app.code \in {<<"CLOCK", "SETTINGS">>, <<"PARENTAL", "SETTINGS">>}
        BY <1>3, <3>1, <3>2 DEF Unsaved, AppOK, Codes
      <4>2. app'.next \in {"CLOCK", "PARENTAL", "SETTINGS"}
        BY <1>4, <3>2, <4>1 DEF Returns
      <4>3. QED
        BY <1>2, <1>4, <3>1, <3>2, <4>2 DEF SavedOK, Unsaved
    <3>3. CASE s # "CODE"
      <4>1. s # "CHEATS"
        BY <3>1 DEF Unsaved
      <4>2. app'.next = "SETTINGS"
        BY <1>4, <3>3, <4>1 DEF Returns
      <4>3. QED
        BY <1>2, <1>4, <3>1, <3>3, <4>2 DEF SavedOK, Unsaved
    <3>4. QED
      BY <3>2, <3>3
  <2>3. QED
    BY <2>1, <2>2
<1>8. SongOK(app, music, set, list)' /\ ThemeOK(app, roster)'
  BY <1>2, <1>4 DEF IInv, Related, SongOK, ThemeOK
<1>9. QED
  BY <1>5, <1>6, <1>7, <1>8 DEF IInv, Related

\* playstate_played() changes the stamps, and they stay stamps.
LEMMA PlayedOK ==
  ASSUME LibOK(lib)
  PROVE  LibOK(Played(lib))
<1> DEFINE s == lib.stamp[roster.active]
           t == sheet.path
           others == {u \in Titles \ {t} : s[u] > 0}
           stamps == [u \in Titles |->
                        IF u = t THEN Cardinality(others) + 1
                        ELSE IF s[u] = 0 THEN 0
                        ELSE Cardinality({v \in others : s[v] <= s[u]})]
           m == Played(lib)
<1>1. stamps \in [Titles -> Nat]
  <2>1. IsFiniteSet(Titles)
    BY ScreensAssumption
  <2>2. IsFiniteSet(others)
    <3>1. others \subseteq Titles
      OBVIOUS
    <3>2. QED
      BY <2>1, <3>1, FS_Subset
  <2>3. Cardinality(others) \in Nat
    BY <2>2, FS_CardinalityType
  <2>4. ASSUME NEW u \in Titles
        PROVE  Cardinality({v \in others : s[v] <= s[u]}) \in Nat
    <3>1. IsFiniteSet({v \in others : s[v] <= s[u]})
      BY <2>2, FS_Subset
    <3>2. QED
      BY <3>1, FS_CardinalityType
  <2> HIDE DEF others, s
  <2>5. QED
    BY <2>3, <2>4
<1>2. m = [lib EXCEPT !.stamp[roster.active] = stamps]
  BY DEF Played
<1> HIDE DEF m, stamps
<1>3. /\ DOMAIN m = DOMAIN lib /\ m.custom = lib.custom /\ m.table = lib.table
      /\ m.stamp = [lib.stamp EXCEPT ![roster.active] = stamps]
  BY <1>2 DEF LibOK
<1>4. m.stamp \in [Slots -> [Titles -> Nat]]
  BY <1>1, <1>3 DEF LibOK
<1>5. LibOK(m)
  BY <1>3, <1>4 DEF LibOK
<1>6. QED
  BY <1>5 DEF m

LEMMA LaunchEndsOK ==
  ASSUME IInv, LaunchEnds
  PROVE  IInv'
<1>1. /\ app.screen = "LAUNCH" /\ app.next = "LAUNCH"
      /\ UNCHANGED <<grid, sheet, roster, prof, kb, set, saved, list>>
  BY DEF LaunchEnds, On, Idle, people, typing, config
<1>2. saved = set /\ list.settle = 0 /\ ~ prof.picking
  <2>1. ~ Unsaved(app, app.screen)
    BY <1>1 DEF Unsaved
  <2>2. PickOK(app, prof, kb)
    BY DEF IInv, Related
  <2>3. QED
    BY <1>1, <2>1, <2>2, NothingWaits DEF PickOK
<1>3. AppOK(app) /\ LibOK(lib) /\ MusicOK(music) /\ SongOK(app, music, set, list) /\ ThemeOK(app, roster)
  BY DEF IInv, RecordsOK, Related
<1>4. AppOK(app)' /\ app'.screen \in {"LAUNCH", "off"} /\ app'.theme = app.theme
  BY <1>1, <1>3 DEF LaunchEnds, AppOK, Showing
<1>5. LibOK(lib)'
  BY <1>3, PlayedOK DEF LaunchEnds
<1>6. MusicOK(music)' /\ music'.selected = music.selected /\ (music'.tables => music.tables /\ music'.volume = music.volume)
  <2>1. /\ MusicOK(Release(music)) /\ Release(music).selected = music.selected
        /\ Release(music).volume = music.volume /\ (Release(music).tables <=> music.tables)
    BY <1>3, MusicSteps
  <2>2. CASE music' = Release(music)
    BY <2>1, <2>2
  <2>3. CASE music' \in Resume(Release(music))
    <3> DEFINE r == Release(music)
    <3>1. MusicOK(r) /\ music' \in Resume(r)
      BY <2>1, <2>3
    <3> HIDE DEF r
    <3>2. MusicOK(music') /\ music'.selected = r.selected /\ (music'.tables => r.tables /\ music'.volume = r.volume)
      BY <3>1, MusicSteps
    <3>3. QED
      BY <2>1, <3>2 DEF r
  <2>4. QED
    BY <2>2, <2>3 DEF LaunchEnds
<1>7. RecordsOK'
  BY <1>1, <1>4, <1>5, <1>6 DEF IInv, RecordsOK
<1>8. PickOK(app, prof, kb)' /\ SavedOK(app, set, saved)' /\ CursorOK(app, grid, lib, roster)'
  BY <1>1, <1>2, <1>4 DEF PickOK, SavedOK, CursorOK
<1>9. SongOK(app, music, set, list)' /\ ThemeOK(app, roster)'
  BY <1>1, <1>2, <1>3, <1>4, <1>6 DEF SongOK, ThemeOK
<1>10. QED
  BY <1>7, <1>8, <1>9 DEF IInv, Related

-----------------------------------------------------------------------------
(***************************************************************************)
(* The theorems.                                                           *)
(***************************************************************************)
LEMMA NextOK == IInv /\ [Next]_vars => IInv'
<1> SUFFICES ASSUME IInv, [Next]_vars PROVE IInv'
  OBVIOUS
<1>1. ASSUME NEW key \in Keys, Press(key) PROVE IInv'
  BY <1>1, GridKeyOK, ProfilesKeyOK, KeyboardKeyOK, AppearanceKeyOK, SheetKeyOK,
     SettingsKeyOK, AwayKeyOK DEF Press
<1>2. CASE Frame
  BY <1>2, PlateStepOK, MusicStartsOK, TurnOK, SheetClosesOK, SettingsRestOK, LaunchEndsOK DEF Frame
<1>3. CASE SongEnds
  BY <1>3, SongEndsOK
<1>4. CASE Over
  BY <1>4, StutterOK DEF Over
<1>5. CASE UNCHANGED vars
  BY <1>5, StutterOK
<1>6. QED
  BY <1>1, <1>2, <1>3, <1>4, <1>5 DEF Next

\* The invariant holds of every session.
THEOREM SessionsAreSound == Spec => []IInv
<1>1. Init => IInv
  BY InitOK
<1>2. IInv /\ [Next]_vars => IInv'
  BY NextOK
<1>3. QED
  BY <1>1, <1>2, PTL DEF Spec

\* Whatever is read at the boot and whatever is pressed, with any number of
\* players and titles, nothing is shown before a player is chosen where there
\* is a choice, and the grid's cursor is on a title of its tab
\* (screen_profiles.c:238, screen_grid.c:157).
THEOREM PickBeforePlayHolds == Spec => []PickBeforePlay
<1>1. IInv => PickBeforePlay
  <2> SUFFICES ASSUME IInv PROVE PickBeforePlay
    OBVIOUS
  <2>1. /\ AppOK(app) /\ RosterOK(roster) /\ GridOK(grid) /\ ProfOK(prof) /\ KbOK(kb) /\ ListOK(list)
        /\ MusicOK(music) /\ PickOK(app, prof, kb) /\ CursorOK(app, grid, lib, roster)
    BY DEF IInv, RecordsOK, Related
  <2>2. TypeOK
    <3>1. app.screen \in Home \cup Away \cup {"none", "off", "KEYBOARD", "APPEARANCE", "DETAIL", "SETTINGS", "LAUNCH", "FAULT"}
      BY <2>1 DEF AppOK, Showing
    <3>2. music.selected \in Tracks \cup {Shuffle} /\ music.volume \in 0 .. Loudest
      BY <2>1 DEF MusicOK, Sounds, Chosen
    <3>3. QED
      BY <2>1, <3>1, <3>2 DEF TypeOK, RosterOK, GridOK, ProfOK, KbOK, ListOK
  <2>3. QED
    BY <2>1, <2>2 DEF PickBeforePlay, PickOK, CursorOK
<1>2. QED
  BY <1>1, SessionsAreSound, PTL

\* However the settings are left - by a key, to a screen they open and from
\* there, or in a hurry with a song still to settle - and whatever memory the
\* music finds: away from them the file has what was set, the song chosen
\* last is the one selected and sounds, at the volume set, and the theme is
\* the active player's (screen_settings.c:124, :188, screen_profiles.c:218).
THEOREM WhatWasSetAlwaysHolds == Spec => []WhatWasSetHolds
<1>1. IInv => WhatWasSetHolds
  <2> SUFFICES ASSUME IInv, app.screen \in Home \cup {"DETAIL", "KEYBOARD", "APPEARANCE", "CHEATS"}
      PROVE  /\ saved = set
             /\ music.selected = Track(set.track)
             /\ music.tables => music.volume = Volume(set.music)
             /\ music.playing => /\ music.loops = (music.selected # Shuffle)
                                 /\ music.loops => music.sounding = music.selected
             /\ app.theme = ThemeByName(roster.theme[roster.active])
    BY DEF WhatWasSetHolds
  <2>1. saved = set /\ music.selected = Track(set.track)
    BY NothingWaits DEF Unsaved, Home
  <2>2. MusicOK(music) /\ SongOK(app, music, set, list) /\ ThemeOK(app, roster)
    BY DEF IInv, RecordsOK, Related
  <2>3. QED
    BY <2>1, <2>2 DEF MusicOK, SongOK, ThemeOK
<1>2. QED
  BY <1>1, SessionsAreSound, PTL

-----------------------------------------------------------------------------
(***************************************************************************)
(* Whose name it is.                                                       *)
(***************************************************************************)
\* Two libraries with the same table, the same stamps and the same
\* favourites of the active player show the same.
LEMMA SameView ==
  ASSUME NEW l, LibOK(l), NEW m, LibOK(m), NEW r, NEW g,
         m.table = l.table, m.stamp = l.stamp, m.fav[r.active] = l.fav[r.active]
  PROVE  View(g, m, r) = View(g, l, r)
<1>1. DOMAIN l.table = DOMAIN m.table
  OBVIOUS
<1>2. Records(m, r) = Records(l, r)
  BY DEF Records
<1>3. QED
  BY <1>2 DEF View

\* A title of the favourites' tab is a favourite.
LEMMA FavouritesAreLiked ==
  ASSUME NEW l, LibOK(l), NEW r, r.active \in Slots, NEW g, Tabs[g.tab] = "favorites",
         NEW i \in 1 .. Len(View(g, l, r))
  PROVE  l.table[View(g, l, r)[i]] \in l.fav[r.active]
<1> DEFINE n == Cardinality(Titles)
           recs == Records(l, r)
           T == {j \in DOMAIN recs : Belongs(recs[j], "favorites")}
           all == InOrder(T, Less)
           m == Cardinality(T)
           k == IF Len(all) > MaxView THEN MaxView ELSE Len(all)
<1>1. n \in Nat /\ DOMAIN recs = 1 .. n
  BY ScreensAssumption, FS_CardinalityType DEF Records, LibOK, Places
<1>2. \A j \in T : j \in 1 .. n /\ l.table[j] \in l.fav[r.active]
  <2> TAKE j \in T
  <2>1. j \in DOMAIN l.table /\ j \in 1 .. n
    BY <1>1 DEF Records
  <2>2. recs[j].fav = (l.table[j] \in l.fav[r.active])
    BY <2>1 DEF Records
  <2>3. QED
    BY <2>1, <2>2 DEF Belongs
<1> HIDE DEF recs
<1>3. T \subseteq 1 .. n /\ T \subseteq Nat /\ IsFiniteSet(T)
  <2>1. T \subseteq 1 .. n /\ IsFiniteSet(1 .. n)
    BY <1>1, <1>2, FS_Interval
  <2>2. QED
    BY <1>1, <2>1, FS_Subset
<1> HIDE DEF T
<1>4. Strict(T, Less)
  BY <1>3, LessIsStrict
<1>5. m \in Nat /\ all \in [1 .. m -> T]
  BY <1>3, <1>4, OrderedSequence
<1> HIDE DEF all, m
<1>6. all \in Seq(T) /\ Len(all) = m
  BY <1>5, FunctionIsSequence
<1>7. k \in Nat /\ k <= m /\ \A j \in 1 .. k : all[j] \in T
  BY <1>5, <1>6, GridAssumption
<1>8. View(g, l, r) = SubSeq(all, 1, k)
  BY DEF View, TabView, Kept, all, T, recs
<1> HIDE DEF k
<1>9. Len(SubSeq(all, 1, k)) = k /\ \A j \in 1 .. k : SubSeq(all, 1, k)[j] = all[j]
  BY <1>6, <1>7, SubSeqProperties
<1>10. QED
  BY <1>2, <1>7, <1>8, <1>9

\* No title is in the table twice.
LEMMA TableIsInjective ==
  ASSUME NEW l, LibOK(l), NEW i \in Places, NEW j \in Places, l.table[i] = l.table[j]
  PROVE  i = j
<1> DEFINE n == Cardinality(Titles)
<1>1. n \in Nat /\ IsFiniteSet(Titles)
  BY ScreensAssumption, FS_CardinalityType
<1>2. IsFiniteSet(Places) /\ Cardinality(Places) = n
  BY <1>1, FS_Interval DEF Places
<1>3. l.table \in Surjection(Places, Titles)
  BY DEF LibOK, Surjection
<1>4. l.table \in Injection(Places, Titles)
  BY <1>2, <1>3, FS_SurjSameCardinalityImpliesInj
<1>5. QED
  BY <1>4 DEF Injection, IsInjective
-----------------------------------------------------------------------------
(***************************************************************************)
(* The invariant of the names:                                             *)
(*  - the table has the sheet's title in the sheet's place;                *)
(*  - the keyboard goes back to the screen that asked, and is not on its   *)
(*    way up with an answer already given;                                 *)
(*  - a name that is waited for, a title's or a player's, is the one the   *)
(*    keyboard was asked for last, with the keyboard up or coming; once    *)
(*    the answer is given it is the keyboard's text;                       *)
(*  - on the grid the focus is spent; while the sheet is up, or a screen   *)
(*    that it opened, the grid's focus is on the sheet's title, or there   *)
(*    is none and the title is under the cursor as soon as it is a         *)
(*    favourite.                                                           *)
(***************************************************************************)
Among(s, a) == s \in {a.screen, a.next}
OnSheet(a, k) ==
    \/ Among("DETAIL", a) \/ Among("CHEATS", a)
    \/ Among("KEYBOARD", a) /\ k.back = "DETAIL"
    \/ Among("CODE", a) /\ a.code[2] = "DETAIL"
Liked(l, r, t) == [l EXCEPT !.fav[r.active] = @ \cup {t}]
UnderCursor(g, l, r, s) ==
    LET view == View(g, Liked(l, r, s.path), r)
    IN  g.cursor < Len(view) /\ view[g.cursor + 1] = s.rom

LikesOK(l) == DOMAIN l.fav = Slots
SheetNamed(l, s) == l.table[s.rom] = s.path
BackOK(a, k) ==
    /\ k.back \in {"GRID", "PROFILES", "DETAIL"}
    /\ a.screen = "KEYBOARD" => a.next \in {"KEYBOARD", k.back}
    /\ a.next = "KEYBOARD" => ~ k.accepted
TitleAsked(a, s, k, q) ==
    s.pending => /\ Among("KEYBOARD", a) /\ k.back = "DETAIL" /\ s.at = s.path
                 /\ q = <<"title", s.path>> /\ (k.accepted => s.name = k.text)
PlayerAsked(a, p, k, q) ==
    p.slot >= 0 => /\ Among("KEYBOARD", a) /\ k.back = "PROFILES"
                   /\ q = <<"player", p.slot>> /\ (p.name # <<>> => k.accepted /\ p.name = k.text)
FocusOK(a, g, l, r, s, k) ==
    /\ a.screen = "GRID" => g.opened /\ g.focus = -1
    /\ OnSheet(a, k) => g.opened /\ (g.focus = s.rom \/ (g.focus = -1 /\ UnderCursor(g, l, r, s)))
NamesInv ==
    /\ LikesOK(lib) /\ SheetNamed(lib, sheet) /\ BackOK(app, kb)
    /\ TitleAsked(app, sheet, kb, asked) /\ PlayerAsked(app, prof, kb, asked)
    /\ FocusOK(app, grid, lib, roster, sheet, kb)

\* A favourite more changes nothing but who likes what.
LEMMA LikedOK ==
  ASSUME NEW l, LibOK(l), LikesOK(l), NEW r, r.active \in Slots, NEW t
  PROVE  /\ LibOK(Liked(l, r, t)) /\ LikesOK(Liked(l, r, t))
         /\ Liked(l, r, t).table = l.table /\ Liked(l, r, t).stamp = l.stamp
         /\ Liked(l, r, t).fav[r.active] = l.fav[r.active] \cup {t}
<1> DEFINE m == Liked(l, r, t)
<1>1. /\ DOMAIN m = DOMAIN l /\ m.table = l.table /\ m.stamp = l.stamp /\ m.custom = l.custom
      /\ m.fav = [l.fav EXCEPT ![r.active] = @ \cup {t}]
  BY DEF LibOK, Liked
<1> HIDE DEF m
<1>2. DOMAIN m.fav = Slots /\ m.fav[r.active] = l.fav[r.active] \cup {t}
  BY <1>1 DEF LikesOK
<1>3. LibOK(m)
  BY <1>1 DEF LibOK
<1>4. QED
  BY <1>1, <1>2, <1>3 DEF m, LikesOK

\* It is not seen where it is one already, nor on any other tab.
LEMMA LikedIsShown ==
  ASSUME NEW l, LibOK(l), LikesOK(l), NEW r, r.active \in Slots, NEW t, NEW g,
         Tabs[g.tab] = "favorites" => t \in l.fav[r.active]
  PROVE  View(g, Liked(l, r, t), r) = View(g, l, r)
<1> DEFINE m == Liked(l, r, t)
<1>1. LibOK(m) /\ m.table = l.table /\ m.stamp = l.stamp /\ m.fav[r.active] = l.fav[r.active] \cup {t}
  BY LikedOK
<1> HIDE DEF m
<1>2. CASE Tabs[g.tab] # "favorites"
  BY <1>1, <1>2, ToggleKeepsView DEF m
<1>3. CASE Tabs[g.tab] = "favorites"
  <2>1. m.fav[r.active] = l.fav[r.active]
    BY <1>1, <1>3
  <2>2. QED
    BY <1>1, <2>1, SameView DEF m
<1>4. QED
  BY <1>2, <1>3

\* Set or taken before, it is the same.
LEMMA LikedOnce ==
  ASSUME LibOK(lib), LikesOK(lib), roster.active \in Slots, NEW t, NEW g
  PROVE  View(g, Liked(Toggled(lib, t), roster, t), roster) = View(g, Liked(lib, roster, t), roster)
<1>1. ASSUME NEW l, LibOK(l), NEW k, LibOK(k), k.table = l.table, k.stamp = l.stamp,
             k.fav[roster.active] = l.fav[roster.active]
      PROVE  View(g, k, roster) = View(g, l, roster)
  BY <1>1, SameView
<1> DEFINE m == Toggled(lib, t)
<1>2. LibOK(m) /\ m.table = lib.table /\ m.stamp = lib.stamp
  BY ToggledOK
<1>3. LikesOK(m) /\ m.fav[roster.active] \cup {t} = lib.fav[roster.active] \cup {t}
  <2>1. m.fav = [lib.fav EXCEPT ![roster.active] = IF t \in @ THEN @ \ {t} ELSE @ \cup {t}]
    BY DEF LibOK, Toggled
  <2> HIDE DEF m
  <2>2. DOMAIN m.fav = Slots
    BY <2>1 DEF LikesOK
  <2>3. m.fav[roster.active] = IF t \in lib.fav[roster.active] THEN lib.fav[roster.active] \ {t}
                               ELSE lib.fav[roster.active] \cup {t}
    BY <2>1 DEF LikesOK
  <2>4. QED
    BY <2>2, <2>3 DEF LikesOK
<1> HIDE DEF m
<1> DEFINE a == Liked(m, roster, t)
           b == Liked(lib, roster, t)
<1>4. LibOK(a) /\ a.table = lib.table /\ a.stamp = lib.stamp /\ a.fav[roster.active] = lib.fav[roster.active] \cup {t}
  BY <1>2, <1>3, LikedOK
<1>5. LibOK(b) /\ b.table = lib.table /\ b.stamp = lib.stamp /\ b.fav[roster.active] = lib.fav[roster.active] \cup {t}
  BY LikedOK
<1> HIDE DEF a, b
<1>6. View(g, a, roster) = View(g, b, roster)
  BY <1>1, <1>4, <1>5
<1>7. QED
  BY <1>6 DEF a, b, m

\* Away from the keyboard nobody waits for a name.
LEMMA NobodyWaits ==
  ASSUME NamesInv, ~ Among("KEYBOARD", app)
  PROVE  ~ sheet.pending /\ ~ (prof.slot >= 0)
BY DEF NamesInv, TitleAsked, PlayerAsked

\* A button pressed on another screen, which asks nothing.
LEMMA NothingAsked ==
  ASSUME NamesInv, ~ Among("KEYBOARD", app), ~ Among("KEYBOARD", app)', UNCHANGED kb,
         sheet'.pending = sheet.pending, prof'.slot = prof.slot
  PROVE  BackOK(app, kb)' /\ TitleAsked(app, sheet, kb, asked)' /\ PlayerAsked(app, prof, kb, asked)'
<1>1. ~ sheet'.pending /\ ~ (prof'.slot >= 0)
  BY NobodyWaits
<1>2. BackOK(app, kb)'
  BY DEF NamesInv, BackOK, Among
<1>3. QED
  BY <1>1, <1>2 DEF TitleAsked, PlayerAsked

\* A screen is entered that is neither the keyboard nor the one that asked.
LEMMA NothingCameBack ==
  ASSUME NamesInv, app.next # app.screen, app.next # "KEYBOARD"
  PROVE  /\ app.next # "DETAIL" => ~ sheet.pending
         /\ app.next # "PROFILES" => ~ (prof.slot >= 0)
BY DEF NamesInv, TitleAsked, PlayerAsked, BackOK, Among

\* A step that leaves the names, and what the sheet hangs on, alone.
LEMMA NamesUntouched ==
  ASSUME NamesInv, UNCHANGED <<lib, grid, sheet, roster, prof, kb, asked>>,
         app'.screen = app.screen, app'.next = app.next, app'.code = app.code
  PROVE  NamesInv'
<1>1. BackOK(app, kb)' /\ TitleAsked(app, sheet, kb, asked)' /\ PlayerAsked(app, prof, kb, asked)'
  BY DEF NamesInv, BackOK, TitleAsked, PlayerAsked, Among
<1>2. OnSheet(app, kb)' = OnSheet(app, kb)
  BY DEF OnSheet, Among
<1>3. FocusOK(app, grid, lib, roster, sheet, kb)'
  BY <1>2 DEF NamesInv, FocusOK
<1>4. QED
  BY <1>1, <1>3 DEF NamesInv

\* A step away from the grid, the keyboard and the sheet.
LEMMA NamesAside ==
  ASSUME NamesInv, ~ Among("KEYBOARD", app), ~ Among("KEYBOARD", app)', UNCHANGED kb,
         UNCHANGED <<grid, sheet>>, prof'.slot = prof.slot, LikesOK(lib)', lib'.table = lib.table,
         app'.screen # "GRID", ~ OnSheet(app, kb)'
  PROVE  NamesInv'
<1>1. BackOK(app, kb)' /\ TitleAsked(app, sheet, kb, asked)' /\ PlayerAsked(app, prof, kb, asked)'
  BY NothingAsked
<1>2. SheetNamed(lib, sheet)' /\ FocusOK(app, grid, lib, roster, sheet, kb)'
  BY DEF NamesInv, SheetNamed, FocusOK
<1>3. QED
  BY <1>1, <1>2 DEF NamesInv

\* A step that changes the sheet's title no more than it does, on a screen
\* that asks nothing; from no sheet it leads to none.
LEMMA NamesSteered ==
  ASSUME NamesInv, ~ Among("KEYBOARD", app), ~ Among("KEYBOARD", app)', UNCHANGED <<lib, grid, roster, kb>>,
         sheet'.rom = sheet.rom, sheet'.path = sheet.path, sheet'.pending = sheet.pending, prof'.slot = prof.slot,
         app'.screen = app.screen, OnSheet(app, kb)' => OnSheet(app, kb)
  PROVE  NamesInv'
<1>1. BackOK(app, kb)' /\ TitleAsked(app, sheet, kb, asked)' /\ PlayerAsked(app, prof, kb, asked)'
  BY NothingAsked
<1>2. LikesOK(lib)' /\ SheetNamed(lib, sheet)'
  BY DEF NamesInv, SheetNamed
<1>3. UnderCursor(grid, lib, roster, sheet)' = UnderCursor(grid, lib, roster, sheet)
  BY DEF UnderCursor
<1>4. FocusOK(app, grid, lib, roster, sheet, kb)'
  BY <1>3 DEF NamesInv, FocusOK
<1>5. QED
  BY <1>1, <1>2, <1>4 DEF NamesInv

\* At power-on no sheet is up and nobody waits for a name.
LEMMA NamesInit == Init => NamesInv
<1> SUFFICES ASSUME Init PROVE NamesInv
  OBVIOUS
<1>1. PICK b \in Boots : lib = Finished(b.lib)
  BY DEF Init
<1>2. /\ app.screen = "none" /\ app.next \in {"FAULT", "PROFILES", "GRID"} /\ prof.slot = -1
      /\ sheet.rom = 1 /\ sheet.path = lib.table[1] /\ sheet.pending = FALSE
      /\ kb.back = "GRID" /\ kb.accepted = FALSE
  BY DEF Init
<1>3. LikesOK(lib)
  <2>1. b.lib.fav \in [Slots -> SUBSET Titles] /\ lib.fav = b.lib.fav
    BY <1>1, ScreensAssumption DEF Finished
  <2>2. QED
    BY <2>1 DEF LikesOK
<1>4. ~ OnSheet(app, kb)
  BY <1>2 DEF OnSheet, Among
<1>5. SheetNamed(lib, sheet) /\ BackOK(app, kb) /\ TitleAsked(app, sheet, kb, asked) /\ PlayerAsked(app, prof, kb, asked)
  BY <1>2 DEF SheetNamed, BackOK, TitleAsked, PlayerAsked
<1>6. FocusOK(app, grid, lib, roster, sheet, kb)
  BY <1>2, <1>4 DEF FocusOK
<1>7. QED
  BY <1>3, <1>5, <1>6 DEF NamesInv

\* What happens without a button has nothing to do with names.
LEMMA FrameKeepsNames ==
  ASSUME IInv, NamesInv, PlateStep \/ MusicStarts \/ SongEnds \/ SettingsRest \/ UNCHANGED vars
  PROVE  NamesInv'
<1>1. UNCHANGED <<lib, grid, sheet, roster, prof, kb, asked>>
  BY DEF PlateStep, MusicStarts, SongEnds, SettingsRest, vars, shelf, people, typing
<1>2. UNCHANGED app \/ app' = [app EXCEPT !.started = TRUE]
  BY DEF PlateStep, MusicStarts, SongEnds, SettingsRest, vars
<1>3. app'.screen = app.screen /\ app'.next = app.next /\ app'.code = app.code
  BY <1>2 DEF IInv, RecordsOK, AppOK
<1>4. QED
  BY <1>1, <1>3, NamesUntouched

\* What the screen and the one to come are once one is entered.
LEMMA Arrived ==
  ASSUME IInv, NEW s \in Showing, Turning(s), Arrive(s)
  PROVE  /\ app.next = s /\ app.screen # s
         /\ app'.screen = s /\ app'.next = s /\ app'.code = app.code
         /\ \A t : Among(t, app') <=> t = s
<1>1. app.next = s /\ app.screen # s /\ app'.screen = s /\ app'.next = s /\ app'.code = app.code
  BY DEF Arrive, Turning, IInv, RecordsOK, AppOK
<1>2. QED
  BY <1>1 DEF Among

\* Screens that take no name are entered.
LEMMA ElsewhereKeepsNames ==
  ASSUME IInv, NamesInv, EnterAppearance \/ EnterSettings \/ EnterAway
  PROVE  NamesInv'
<1>1. PICK s \in Away \cup {"LAUNCH", "FAULT", "APPEARANCE", "SETTINGS"} : Turning(s) /\ Arrive(s)
  BY DEF EnterAppearance, EnterSettings, EnterAway
<1>2. UNCHANGED <<lib, grid, sheet, roster, prof, kb>>
  BY DEF EnterAppearance, EnterSettings, EnterAway, shelf, people, typing
<1>3. s \in Showing /\ s \notin {"GRID", "PROFILES", "KEYBOARD", "DETAIL"}
  BY DEF Showing, Away
<1>4. /\ app.next = s /\ app.screen # s
      /\ app'.screen = s /\ app'.next = s /\ app'.code = app.code
      /\ \A t : Among(t, app') <=> t = s
  BY <1>1, <1>3, Arrived
<1>5. ~ sheet.pending /\ ~ (prof.slot >= 0)
  BY <1>3, <1>4, NothingCameBack
<1>6. BackOK(app, kb)' /\ TitleAsked(app, sheet, kb, asked)' /\ PlayerAsked(app, prof, kb, asked)'
  BY <1>2, <1>3, <1>4, <1>5 DEF NamesInv, BackOK, TitleAsked, PlayerAsked
<1>7. OnSheet(app, kb)' => OnSheet(app, kb)
  BY <1>2, <1>4 DEF OnSheet, Among
<1>8. FocusOK(app, grid, lib, roster, sheet, kb)'
  BY <1>2, <1>3, <1>4, <1>7 DEF NamesInv, FocusOK
<1>9. QED
  BY <1>2, <1>6, <1>8 DEF NamesInv

\* The keyboard is entered before it has given an answer.
LEMMA EnterKeyboardKeepsNames ==
  ASSUME IInv, NamesInv, EnterKeyboard
  PROVE  NamesInv'
<1>1. /\ Turning("KEYBOARD") /\ Arrive("KEYBOARD") /\ kb' = [kb EXCEPT !.caret = Len(kb.text)]
      /\ UNCHANGED <<lib, grid, sheet, roster, prof, asked>>
  BY DEF EnterKeyboard, shelf, people
<1>2. /\ app.next = "KEYBOARD" /\ app'.screen = "KEYBOARD" /\ app'.next = "KEYBOARD" /\ app'.code = app.code
      /\ \A t : Among(t, app') <=> t = "KEYBOARD"
  BY <1>1, Arrived DEF Showing
<1>3. kb'.back = kb.back /\ kb'.accepted = kb.accepted /\ kb'.text = kb.text
  BY <1>1 DEF IInv, RecordsOK, KbOK
<1>4. BackOK(app, kb)' /\ TitleAsked(app, sheet, kb, asked)' /\ PlayerAsked(app, prof, kb, asked)'
  BY <1>1, <1>2, <1>3 DEF NamesInv, BackOK, TitleAsked, PlayerAsked
<1>5. OnSheet(app, kb)' => OnSheet(app, kb)
  BY <1>2, <1>3 DEF OnSheet, Among
<1>6. FocusOK(app, grid, lib, roster, sheet, kb)'
  BY <1>1, <1>2, <1>5 DEF NamesInv, FocusOK
<1>7. QED
  BY <1>1, <1>4, <1>6 DEF NamesInv

\* The picker takes the answer, and waits no more.
LEMMA EnterProfilesKeepsNames ==
  ASSUME IInv, NamesInv, EnterProfiles
  PROVE  NamesInv'
<1>1. Turning("PROFILES") /\ Arrive("PROFILES") /\ UNCHANGED <<lib, grid, sheet, kb, asked>>
  BY DEF EnterProfiles, shelf, typing
<1>2. /\ app.next = "PROFILES" /\ app.screen # "PROFILES" /\ app'.screen = "PROFILES" /\ app'.next = "PROFILES"
      /\ \A t : Among(t, app') <=> t = "PROFILES"
  BY <1>1, Arrived DEF Showing, Home
<1>3. ~ sheet.pending
  BY <1>2, NothingCameBack
<1>4. ~ (prof'.slot >= 0)
  <2>1. ProfOK(prof)
    BY DEF IInv, RecordsOK
  <2>2. CASE prof.slot >= 0
    <3>1. prof' = [prof EXCEPT !.mode = "grid", !.slot = -1]
      BY <2>2 DEF EnterProfiles
    <3>2. prof'.slot = -1
      BY <2>1, <3>1 DEF ProfOK
    <3>3. QED
      BY <3>2
  <2>3. CASE ~ (prof.slot >= 0)
    <3>1. prof' = [prof EXCEPT !.mode = "grid", !.cursor = roster.active]
      BY <2>3 DEF EnterProfiles
    <3>2. prof'.slot = prof.slot
      BY <2>1, <3>1 DEF ProfOK
    <3>3. QED
      BY <2>3, <3>2
  <2>4. QED
    BY <2>2, <2>3
<1>5. BackOK(app, kb)' /\ TitleAsked(app, sheet, kb, asked)' /\ PlayerAsked(app, prof, kb, asked)'
  BY <1>1, <1>2, <1>3, <1>4 DEF NamesInv, BackOK, TitleAsked, PlayerAsked
<1>6. FocusOK(app, grid, lib, roster, sheet, kb)'
  BY <1>2 DEF FocusOK, OnSheet
<1>7. QED
  BY <1>1, <1>5, <1>6 DEF NamesInv, SheetNamed

\* grid_focus() spends the focus, and puts the cursor on the sheet's title.
LEMMA FocusFinds ==
  ASSUME IInv, NamesInv, NEW g, GridOK(g), g.opened
  PROVE  /\ FocusOn(Rebuilt(g, lib, roster), lib, roster).opened
         /\ FocusOn(Rebuilt(g, lib, roster), lib, roster).focus = -1
         /\ FocusOn(Rebuilt(g, lib, roster), lib, roster).tab = g.tab
<1> DEFINE m == Rebuilt(g, lib, roster)
<1>1. DOMAIN m = DOMAIN g /\ m.opened = g.opened /\ m.tab = g.tab
  BY DEF Rebuilt, GridOK
<1> HIDE DEF m
<1>2. /\ FocusOn(m, lib, roster).opened = m.opened /\ FocusOn(m, lib, roster).focus = -1
      /\ FocusOn(m, lib, roster).tab = m.tab
  BY <1>1 DEF FocusOn, GridOK
<1>3. QED
  BY <1>1, <1>2 DEF m

\* The grid opens afresh, or on the title the sheet was about.
LEMMA EnterGridKeepsNames ==
  ASSUME IInv, NamesInv, EnterGrid
  PROVE  NamesInv'
<1>1. Turning("GRID") /\ Arrive("GRID") /\ UNCHANGED <<lib, sheet, roster, prof, kb, asked>>
  BY DEF EnterGrid, people, typing
<1>2. /\ app.next = "GRID" /\ app.screen # "GRID" /\ app'.screen = "GRID" /\ app'.next = "GRID"
      /\ \A t : Among(t, app') <=> t = "GRID"
  BY <1>1, Arrived DEF Showing, Home
<1>3. ~ sheet.pending /\ ~ (prof.slot >= 0)
  BY <1>2, NothingCameBack
<1>4. BackOK(app, kb)' /\ TitleAsked(app, sheet, kb, asked)' /\ PlayerAsked(app, prof, kb, asked)'
  BY <1>1, <1>2, <1>3 DEF NamesInv, BackOK, TitleAsked, PlayerAsked
<1>5. grid'.opened /\ grid'.focus = -1
  <2>1. PICK open \in {IF grid.opened THEN grid
                       ELSE [grid EXCEPT !.opened = TRUE, !.tab = OpeningTab(Records(lib, roster))]} :
          \E g \in {Rebuilt(open, lib, roster)} : grid' = FocusOn(g, lib, roster)
    BY DEF EnterGrid
  <2>2. GridOK(grid) /\ OpeningTab(Records(lib, roster)) \in DOMAIN Tabs
    BY OpeningTabIsATab DEF IInv, RecordsOK
  <2>3. GridOK(open) /\ open.opened
    BY <2>1, <2>2 DEF GridOK
  <2>4. grid' = FocusOn(Rebuilt(open, lib, roster), lib, roster)
    BY <2>1
  <2>5. QED
    BY <2>3, <2>4, FocusFinds
<1>6. FocusOK(app, grid, lib, roster, sheet, kb)'
  BY <1>2, <1>5 DEF FocusOK, OnSheet
<1>7. QED
  BY <1>1, <1>4, <1>6 DEF NamesInv, SheetNamed

\* Back from the sheet, the cursor is on the sheet's title, if the tab has it.
LEMMA GridFindsTheTitle ==
  ASSUME IInv, NamesInv, EnterGrid, app.screen = "DETAIL", Shown(sheet.path)'
  PROVE  TitleAt(grid', lib', roster') = sheet.path
<1>1. UNCHANGED <<lib, sheet, roster>>
  BY DEF EnterGrid, people
<1>2. LibOK(lib) /\ GridOK(grid) /\ SheetOK(sheet) /\ roster.active \in Slots
  BY DEF IInv, RecordsOK, RosterOK
<1>3. /\ grid.opened /\ lib.table[sheet.rom] = sheet.path /\ LikesOK(lib)
      /\ grid.focus = sheet.rom \/ (grid.focus = -1 /\ UnderCursor(grid, lib, roster, sheet))
  BY DEF NamesInv, FocusOK, OnSheet, Among, SheetNamed
<1> DEFINE v == View(grid, lib, roster)
           m == Rebuilt(grid, lib, roster)
<1>4. grid' = FocusOn(m, lib, roster)
  BY <1>3 DEF EnterGrid
<1>5. /\ DOMAIN m = DOMAIN grid /\ m.tab = grid.tab /\ m.focus = grid.focus
      /\ m.cursor = Clamped(grid.cursor, Len(v))
  BY <1>2 DEF Rebuilt, GridOK
<1> HIDE DEF m
<1>6. View(m, lib, roster) = v
  BY <1>5 DEF View
<1> DEFINE at == {i \in DOMAIN v : v[i] = m.focus}
<1>7. /\ grid'.tab = grid.tab
      /\ grid'.cursor = IF at = {} THEN m.cursor ELSE (CHOOSE i \in at : TRUE) - 1
  <2> DEFINE c == IF at = {} THEN m.cursor ELSE (CHOOSE i \in at : TRUE) - 1
  <2>1. FocusOn(m, lib, roster) = [m EXCEPT !.focus = -1, !.cursor = c]
    BY <1>6 DEF FocusOn
  <2> HIDE DEF c
  <2>2. grid'.tab = grid.tab /\ grid'.cursor = c
    BY <1>2, <1>4, <1>5, <2>1 DEF GridOK
  <2>3. QED
    BY <2>2 DEF c
<1>8. View(grid', lib', roster') = v
  BY <1>1, <1>7 DEF View
<1>9. Len(v) \in Nat /\ DOMAIN v = 1 .. Len(v) /\ \A i \in 1 .. Len(v) : v[i] \in Places
  BY <1>2, ViewPlaces
<1>10. PICK i \in DOMAIN v : lib.table[v[i]] = sheet.path
  <2>1. \E i \in DOMAIN View(grid', lib', roster') : lib'.table[View(grid', lib', roster')[i]] = sheet'.path
    BY DEF Shown
  <2>2. QED
    BY <1>1, <1>8, <2>1
<1>11. v[i] = sheet.rom
  BY <1>2, <1>3, <1>9, <1>10, TableIsInjective DEF SheetOK
<1> HIDE DEF v
<1>12. v[grid'.cursor + 1] = sheet.rom
  <2>1. CASE grid.focus = sheet.rom
    <3>1. i \in at
      BY <1>5, <1>11, <2>1
    <3>2. (CHOOSE j \in at : TRUE) \in at
      BY <3>1
    <3>3. grid'.cursor = (CHOOSE j \in at : TRUE) - 1
      BY <1>7, <3>1
    <3> DEFINE j == CHOOSE j \in at : TRUE
    <3>4. j \in Int /\ v[j] = sheet.rom
      BY <1>5, <1>9, <2>1, <3>2
    <3> HIDE DEF j
    <3>5. grid'.cursor + 1 = j
      BY <3>3, <3>4 DEF j
    <3>6. QED
      BY <3>4, <3>5
  <2>2. CASE grid.focus = -1 /\ UnderCursor(grid, lib, roster, sheet)
    <3>1. at = {}
      <4>1. Places \subseteq Nat
        <5>1. Cardinality(Titles) \in Nat
          BY ScreensAssumption, FS_CardinalityType
        <5>2. QED
          BY <5>1 DEF Places
      <4>2. QED
        BY <1>5, <1>9, <2>2, <4>1
    <3>2. Tabs[grid.tab] = "favorites" => sheet.path \in lib.fav[roster.active]
      <4>1. i \in 1 .. Len(v)
        BY <1>9, <1>10
      <4>2. QED
        BY <1>2, <1>10, <4>1, FavouritesAreLiked DEF v
    <3>3. View(grid, Liked(lib, roster, sheet.path), roster) = v
      BY <1>2, <1>3, <3>2, LikedIsShown DEF v
    <3>4. grid.cursor < Len(v) /\ v[grid.cursor + 1] = sheet.rom
      BY <2>2, <3>3 DEF UnderCursor
    <3>5. grid'.cursor = grid.cursor
      BY <1>5, <1>7, <3>1, <3>4 DEF Clamped
    <3>6. QED
      BY <3>4, <3>5
  <2>3. QED
    BY <1>3, <2>1, <2>2
<1>13. QED
  BY <1>1, <1>3, <1>8, <1>12 DEF TitleAt

\* A record that moved is found again by its path.
LEMMA FindPathOK ==
  ASSUME NEW l, LibOK(l), NEW t \in Titles
  PROVE  FindPath(l, t) \in Places /\ l.table[FindPath(l, t)] = t
BY DEF FindPath, LibOK

\* Renamed, the title keeps who likes it.
LEMMA RenamedKeepsLikes ==
  ASSUME LibOK(lib), LikesOK(lib), NEW t, NEW name
  PROVE  LikesOK(Finished([lib EXCEPT !.custom[t] = name]))
<1> DEFINE l == [lib EXCEPT !.custom[t] = name]
<1>1. l.fav = lib.fav
  BY DEF LibOK
<1> HIDE DEF l
<1>2. Finished(l).fav = l.fav
  BY DEF Finished
<1>3. QED
  BY <1>1, <1>2 DEF LikesOK, l

\* The sheet takes the answer, and finds its record where it moved to.
LEMMA EnterDetailKeepsNames ==
  ASSUME IInv, IInv', NamesInv, EnterDetail
  PROVE  NamesInv'
<1>1. Turning("DETAIL") /\ Arrive("DETAIL") /\ UNCHANGED <<roster, prof, kb, asked>>
  BY DEF EnterDetail, people, typing
<1>2. /\ app.next = "DETAIL" /\ app.screen # "DETAIL" /\ app'.screen = "DETAIL" /\ app'.next = "DETAIL"
      /\ \A t : Among(t, app') <=> t = "DETAIL"
  BY <1>1, Arrived DEF Showing
<1>3. LibOK(lib) /\ LikesOK(lib) /\ SheetOK(sheet) /\ GridOK(grid) /\ LibOK(lib)'
  BY DEF IInv, RecordsOK, NamesInv
<1>4. /\ SheetNamed(lib, sheet) /\ grid.opened
      /\ grid.focus = sheet.rom \/ (grid.focus = -1 /\ UnderCursor(grid, lib, roster, sheet))
  BY <1>2 DEF NamesInv, FocusOK, OnSheet, Among
<1>5. /\ ~ sheet'.pending /\ LikesOK(lib)' /\ SheetNamed(lib, sheet)' /\ grid'.opened
      /\ grid'.focus = sheet'.rom \/ (grid'.focus = -1 /\ UnderCursor(grid, lib, roster, sheet)')
  <2>1. CASE /\ sheet.pending
             /\ lib' = Finished([lib EXCEPT !.custom[sheet.at] = sheet.name])
             /\ sheet' = [sheet EXCEPT !.pending = FALSE, !.closing = FALSE,
                                       !.rom = FindPath(lib', sheet.at)]
             /\ grid' = [grid EXCEPT !.focus = FindPath(lib', sheet.at)]
    <3>1. sheet.at = sheet.path /\ sheet.at \in Titles
      BY <1>3, <2>1 DEF NamesInv, TitleAsked, SheetOK
    <3>2. sheet'.path = sheet.path /\ sheet'.pending = FALSE /\ sheet'.rom = FindPath(lib', sheet.at)
      BY <1>3, <2>1 DEF SheetOK
    <3>3. grid'.opened = grid.opened /\ grid'.focus = FindPath(lib', sheet.at)
      BY <1>3, <2>1 DEF GridOK
    <3>4. lib'.table[FindPath(lib', sheet.at)] = sheet.at
      BY <1>3, <3>1, FindPathOK
    <3>5. LikesOK(lib)'
      BY <1>3, <2>1, RenamedKeepsLikes
    <3>6. QED
      BY <1>4, <3>1, <3>2, <3>3, <3>4, <3>5 DEF SheetNamed
  <2>2. CASE sheet' = [sheet EXCEPT !.pending = FALSE, !.closing = FALSE] /\ UNCHANGED <<lib, grid>>
    <3>1. sheet'.path = sheet.path /\ sheet'.pending = FALSE /\ sheet'.rom = sheet.rom
      BY <1>3, <2>2 DEF SheetOK
    <3>2. UnderCursor(grid, lib, roster, sheet)' = UnderCursor(grid, lib, roster, sheet)
      BY <1>1, <2>2, <3>1 DEF UnderCursor
    <3>3. QED
      BY <1>3, <1>4, <2>2, <3>1, <3>2 DEF SheetNamed
  <2>3. QED
    BY <2>1, <2>2 DEF EnterDetail
<1>6. ~ (prof.slot >= 0)
  BY <1>2, NothingCameBack
<1>7. BackOK(app, kb)' /\ TitleAsked(app, sheet, kb, asked)' /\ PlayerAsked(app, prof, kb, asked)'
  BY <1>1, <1>2, <1>5, <1>6 DEF NamesInv, BackOK, TitleAsked, PlayerAsked
<1>8. FocusOK(app, grid, lib, roster, sheet, kb)'
  BY <1>2, <1>5 DEF FocusOK
<1>9. QED
  BY <1>5, <1>7, <1>8 DEF NamesInv

\* The sheet opens on the title under the cursor, whether a favourite or not.
LEMMA OpenSheetKeepsNames ==
  ASSUME IInv, NamesInv, On("GRID"), OpenSheet, UNCHANGED <<roster, prof, kb>>
  PROVE  NamesInv'
<1>1. app.screen = "GRID" /\ app.next = "GRID" /\ LibOK(lib) /\ SheetOK(sheet) /\ GridOK(grid) /\ roster.active \in Slots
  BY DEF On, Idle, IInv, RecordsOK, RosterOK
<1> DEFINE v == View(grid, lib, roster)
<1>2. /\ v # <<>> /\ UNCHANGED <<lib, grid>> /\ app' = [app EXCEPT !.next = "DETAIL"]
      /\ sheet' = [sheet EXCEPT !.rom = v[grid.cursor + 1], !.path = TitleAt(grid, lib, roster)]
  BY DEF OpenSheet, Goto
<1>3. /\ sheet'.rom = v[grid.cursor + 1] /\ sheet'.path = lib.table[v[grid.cursor + 1]]
      /\ sheet'.pending = sheet.pending
  BY <1>1, <1>2 DEF SheetOK, TitleAt
<1>4. app'.screen = "GRID" /\ app'.next = "DETAIL"
  BY <1>1, <1>2, NextIsAsked DEF IInv, RecordsOK
<1>5. BackOK(app, kb)' /\ TitleAsked(app, sheet, kb, asked)' /\ PlayerAsked(app, prof, kb, asked)'
  BY <1>1, <1>3, <1>4, NothingAsked DEF Among
<1>6. grid.opened /\ grid.focus = -1 /\ LikesOK(lib)
  BY <1>1 DEF NamesInv, FocusOK
<1>7. grid.cursor \in Nat /\ grid.cursor < Len(v) /\ Len(v) \in Nat
  BY <1>1, <1>2, ViewPlaces DEF IInv, Related, CursorOK, GridOK
<1>8. UnderCursor(grid, lib, roster, sheet')
  <2>1. grid.cursor + 1 \in 1 .. Len(v)
    BY <1>7
  <2>2. Tabs[grid.tab] = "favorites" => sheet'.path \in lib.fav[roster.active]
    BY <1>1, <1>3, <2>1, FavouritesAreLiked
  <2>3. View(grid, Liked(lib, roster, sheet'.path), roster) = v
    BY <1>1, <1>6, <2>2, LikedIsShown
  <2>4. QED
    BY <1>3, <1>7, <2>3 DEF UnderCursor
<1>9. FocusOK(app, grid, lib, roster, sheet, kb)'
  BY <1>2, <1>6, <1>8 DEF FocusOK
<1>10. QED
  BY <1>2, <1>3, <1>5, <1>6, <1>9 DEF NamesInv, SheetNamed

\* A button on the grid, where no sheet is up unless it opens one.
LEMMA GridKeyKeepsNames ==
  ASSUME IInv, NamesInv, NEW key, GridKey(key)
  PROVE  NamesInv'
<1>1. app.screen = "GRID" /\ app.next = "GRID" /\ UNCHANGED <<roster, prof, kb>>
  BY DEF GridKey, On, Idle, people, typing
<1>2. LibOK(lib) /\ GridOK(grid)
  BY DEF IInv, RecordsOK
<1>3. CASE OpenSheet
  BY <1>1, <1>3, OpenSheetKeepsNames DEF GridKey
<1>4. CASE (Goto("PROFILES") \/ Goto("SETTINGS")) /\ UNCHANGED shelf
  <2>1. app'.screen = "GRID" /\ app'.next \in {"PROFILES", "SETTINGS"}
    BY <1>1, <1>4, NextIsAsked DEF Goto, IInv, RecordsOK
  <2>2. ~ OnSheet(app, kb)'
    BY <2>1 DEF OnSheet, Among
  <2>3. QED
    BY <1>1, <1>4, <2>1, <2>2, NamesSteered DEF shelf, Among
<1>5. CASE UNCHANGED <<app, sheet>> /\ LikesOK(lib)' /\ lib'.table = lib.table /\ grid'.opened = grid.opened /\ grid'.focus = grid.focus
  <2>1. BackOK(app, kb)' /\ TitleAsked(app, sheet, kb, asked)' /\ PlayerAsked(app, prof, kb, asked)'
    BY <1>1, <1>5, NothingAsked DEF Among
  <2>2. FocusOK(app, grid, lib, roster, sheet, kb)'
    BY <1>1, <1>5 DEF NamesInv, FocusOK, OnSheet, Among
  <2>3. QED
    BY <1>5, <2>1, <2>2 DEF NamesInv, SheetNamed
<1>6. CASE (\E t : grid' = ToTab(t)) /\ Stay /\ UNCHANGED <<lib, sheet>>
  <2>1. grid'.opened = grid.opened /\ grid'.focus = grid.focus
    BY <1>2, <1>6 DEF GridOK, ToTab, Rebuilt
  <2>2. QED
    BY <1>5, <1>6, <2>1 DEF Stay, NamesInv
<1>7. CASE (\E c : grid' = [grid EXCEPT !.cursor = c]) /\ Stay /\ UNCHANGED <<lib, sheet>>
  <2>1. grid'.opened = grid.opened /\ grid'.focus = grid.focus
    BY <1>2, <1>7 DEF GridOK
  <2>2. QED
    BY <1>5, <1>7, <2>1 DEF Stay, NamesInv
<1>8. CASE ToggleFavourite
  <2>1. /\ lib' = Toggled(lib, TitleAt(grid, lib, roster)) /\ UNCHANGED <<app, sheet>>
        /\ grid' = grid \/ grid' = Rebuilt(grid, lib', roster)
    BY <1>8 DEF ToggleFavourite, Stay
  <2>2. grid'.opened = grid.opened /\ grid'.focus = grid.focus
    BY <1>2, <2>1 DEF GridOK, Rebuilt
  <2>3. lib'.table = lib.table
    BY <1>2, <2>1, ToggledOK
  <2>4. LikesOK(lib)'
    BY <1>2, <2>1 DEF NamesInv, LikesOK, LibOK, Toggled
  <2>5. QED
    BY <1>5, <2>1, <2>2, <2>3, <2>4
<1>9. QED
  BY <1>3, <1>4, <1>6, <1>7, <1>8 DEF GridKey

\* What screen_keyboard_ask() leaves for the answer.
LEMMA AskAsks ==
  ASSUME AppOK(app), NEW whose, NEW initial, NEW limit, NEW back, NEW empty, Ask(whose, initial, limit, back, empty)
  PROVE  /\ kb'.back = back /\ kb'.accepted = FALSE /\ asked' = whose
         /\ app'.screen = app.screen /\ app'.next = "KEYBOARD" /\ app'.code = app.code
<1>1. app' = [app EXCEPT !.next = "KEYBOARD"]
  BY DEF Ask, Goto
<1>2. kb'.back = back /\ kb'.accepted = FALSE /\ asked' = whose
  BY DEF Ask
<1>3. QED
  BY <1>1, <1>2, NextIsAsked

\* The picker asks for the name of a player.
LEMMA BeginRenameKeepsNames ==
  ASSUME IInv, NamesInv, On("PROFILES"), NEW p \in Slots, NEW r, BeginRename(p, r), UNCHANGED <<lib, grid, sheet>>
  PROVE  NamesInv'
<1>1. app.screen = "PROFILES" /\ app.next = "PROFILES" /\ AppOK(app) /\ ProfOK(prof)
  BY DEF On, Idle, IInv, RecordsOK
<1>2. /\ prof' = [prof EXCEPT !.slot = p, !.name = <<>>, !.mode = "grid", !.cursor = p]
      /\ Ask(<<"player", p>>, r.name[p], NameLimit, "PROFILES", FALSE)
  BY DEF BeginRename
<1>3. prof'.slot = p /\ prof'.name = <<>>
  BY <1>1, <1>2 DEF ProfOK
<1>4. /\ kb'.back = "PROFILES" /\ kb'.accepted = FALSE /\ asked' = <<"player", p>>
      /\ app'.screen = "PROFILES" /\ app'.next = "KEYBOARD"
  BY <1>1, <1>2, AskAsks
<1>5. ~ sheet.pending
  BY <1>1, NobodyWaits DEF Among
<1>6. BackOK(app, kb)' /\ TitleAsked(app, sheet, kb, asked)' /\ PlayerAsked(app, prof, kb, asked)'
  BY <1>3, <1>4, <1>5 DEF BackOK, TitleAsked, PlayerAsked, Among
<1>7. FocusOK(app, grid, lib, roster, sheet, kb)'
  BY <1>4 DEF FocusOK, OnSheet, Among
<1>8. QED
  BY <1>6, <1>7 DEF NamesInv, SheetNamed

\* Which player is asked about, when one is.
LEMMA VacantIsASlot ==
  ASSUME Vacant(roster) # {}
  PROVE  FirstVacant(roster) \in Slots /\ FirstVacant(roster) \notin roster.used
<1>1. Vacant(roster) \in SUBSET Nat
  <2>1. Cardinality(Slots) \in Nat
    BY ScreensAssumption, FS_CardinalityType
  <2>2. QED
    BY <2>1, ScreensAssumption DEF Vacant
<1>2. \E p \in Vacant(roster) : \A q \in Vacant(roster) : p <= q
  BY <1>1, LeastExists
<1>3. FirstVacant(roster) \in Vacant(roster)
  BY <1>2 DEF FirstVacant
<1>4. QED
  BY <1>3 DEF Vacant

\* A button on the picker: it asks for the player it stands on, or for one to come.
LEMMA ProfilesKeyKeepsNames ==
  ASSUME IInv, NamesInv, NEW key, ProfilesKey(key)
  PROVE  NamesInv'
<1>1. app.screen = "PROFILES" /\ app.next = "PROFILES" /\ UNCHANGED <<lib, grid, sheet>> /\ On("PROFILES")
  BY DEF ProfilesKey, On, Idle, shelf
<1>2. AppOK(app) /\ ProfOK(prof) /\ prof.cursor \in Slots
  BY DEF IInv, RecordsOK, ProfOK
<1>3. CASE \E p \in Slots : \E r : BeginRename(p, r)
  BY <1>1, <1>3, BeginRenameKeepsNames
<1>4. CASE UNCHANGED typing /\ prof'.slot = prof.slot /\ app'.screen = "PROFILES" /\ app'.next \in {"PROFILES", "GRID", "APPEARANCE"}
  <2>1. ~ OnSheet(app, kb)'
    BY <1>4 DEF OnSheet, Among
  <2>2. UNCHANGED kb /\ LikesOK(lib)' /\ lib'.table = lib.table
    BY <1>1, <1>4 DEF typing, NamesInv
  <2>3. QED
    BY <1>1, <1>4, <2>1, <2>2, NamesAside DEF Among
<1>5. ASSUME PickerKey(key)
      PROVE  NamesInv'
  <2>1. CASE Goto("GRID") /\ UNCHANGED <<people, typing>>
    BY <1>1, <1>2, <1>4, <2>1, NextIsAsked DEF Goto, people
  <2>2. CASE /\ \/ \E p : prof' = [prof EXCEPT !.cursor = p]
                \/ prof' = [prof EXCEPT !.mode = "edit", !.row = "name"]
                \/ prof' = [prof EXCEPT !.mode = "confirm", !.keep = TRUE]
             /\ Stay /\ UNCHANGED <<roster, look, typing>>
    BY <1>1, <1>2, <1>4, <2>2 DEF Stay, ProfOK
  <2>3. CASE Choose(prof.cursor)
    <3>1. prof'.slot = prof.slot
      BY <1>2, <2>3 DEF Choose, ProfOK
    <3>2. app'.screen = app.screen /\ app'.next = "GRID" /\ UNCHANGED typing
      BY <1>2, <2>3 DEF Choose, AppOK
    <3>3. QED
      BY <1>1, <1>4, <3>1, <3>2
  <2>4. CASE BeginRename(prof.cursor, NewPlayer(roster, prof.cursor))
    BY <1>2, <1>3, <2>4
  <2>5. CASE Vacant(roster) # {} /\ BeginRename(FirstVacant(roster), NewPlayer(roster, FirstVacant(roster)))
    BY <1>3, <2>5, VacantIsASlot
  <2>6. QED
    BY <1>5, <2>1, <2>2, <2>3, <2>4, <2>5 DEF PickerKey
<1>6. ASSUME EditKey(key)
      PROVE  NamesInv'
  <2>1. CASE /\ (prof' = [prof EXCEPT !.mode = "grid"]) \/ (\E row : prof' = [prof EXCEPT !.row = row])
             /\ Stay /\ UNCHANGED <<roster, look, typing>>
    BY <1>1, <1>2, <1>4, <2>1 DEF Stay, ProfOK
  <2>2. CASE BeginRename(prof.cursor, roster)
    BY <1>2, <1>3, <2>2
  <2>3. CASE prof' = [prof EXCEPT !.mode = "grid"] /\ Goto("APPEARANCE") /\ UNCHANGED <<roster, typing>>
    <3>1. prof'.slot = prof.slot
      BY <1>2, <2>3 DEF ProfOK
    <3>2. app'.screen = app.screen /\ app'.next = "APPEARANCE"
      BY <1>2, <2>3, NextIsAsked DEF Goto
    <3>3. QED
      BY <1>1, <1>4, <2>3, <3>1, <3>2
  <2>4. QED
    BY <1>6, <2>1, <2>2, <2>3 DEF EditKey
<1>7. ASSUME ConfirmKey(key)
      PROVE  NamesInv'
  <2>1. CASE /\ (prof' = [prof EXCEPT !.mode = "grid"]) \/ (\E k : prof' = [prof EXCEPT !.keep = k])
             /\ Stay /\ UNCHANGED <<roster, look, typing>>
    BY <1>1, <1>2, <1>4, <2>1 DEF Stay, ProfOK
  <2>2. CASE Delete
    <3>1. prof'.slot = prof.slot
      BY <1>2, <2>2 DEF Delete, ProfOK
    <3>2. app'.screen = app.screen /\ app'.next = app.next /\ UNCHANGED typing
      BY <1>2, <2>2 DEF Delete, AppOK
    <3>3. QED
      BY <1>1, <1>4, <3>1, <3>2
  <2>3. QED
    BY <1>7, <2>1, <2>2 DEF ConfirmKey
<1>8. QED
  BY <1>5, <1>6, <1>7 DEF ProfilesKey

\* The keyboard is closed once, with an answer or without.
LEMMA KeyboardKeyKeepsNames ==
  ASSUME IInv, NamesInv, NEW key, KeyboardKey(key)
  PROVE  NamesInv'
<1>1. app.screen = "KEYBOARD" /\ app.next = "KEYBOARD" /\ UNCHANGED <<lib, grid, roster, asked>>
  BY DEF KeyboardKey, On, Idle
<1>2. AppOK(app) /\ KbOK(kb) /\ SheetOK(sheet) /\ ProfOK(prof)
  BY DEF IInv, RecordsOK
<1>3. kb.back \in {"GRID", "PROFILES", "DETAIL"} /\ ~ kb.accepted
  BY <1>1 DEF NamesInv, BackOK
<1>4. /\ sheet.pending => /\ kb.back = "DETAIL" /\ sheet.at = sheet.path /\ asked = <<"title", sheet.path>>
      /\ prof.slot >= 0 => kb.back = "PROFILES" /\ asked = <<"player", prof.slot>> /\ prof.name = <<>>
  BY <1>3 DEF NamesInv, TitleAsked, PlayerAsked
<1>5. kb'.back = kb.back /\ app'.screen = "KEYBOARD" /\ app'.next \in {"KEYBOARD", kb.back} /\ app'.code = app.code
  <2>1. kb'.back = kb.back
    BY <1>2 DEF KeyboardKey, Confirm, Deleted, Typed, KbOK
  <2>2. UNCHANGED app \/ app' = [app EXCEPT !.next = kb.back]
    BY DEF KeyboardKey, Confirm, Stay
  <2>3. QED
    BY <1>1, <1>2, <2>1, <2>2, NextIsAsked
<1>6. /\ sheet'.rom = sheet.rom /\ sheet'.path = sheet.path /\ sheet'.at = sheet.at /\ sheet'.pending = sheet.pending
      /\ prof'.slot = prof.slot
  <2>1. UNCHANGED sheet \/ sheet' = [sheet EXCEPT !.name = kb.text]
    BY DEF KeyboardKey, Confirm
  <2>2. UNCHANGED prof \/ prof' = [prof EXCEPT !.name = kb.text]
    BY DEF KeyboardKey, Confirm
  <2>3. QED
    BY <1>2, <2>1, <2>2 DEF SheetOK, ProfOK
<1>7. /\ BackOK(app, kb)' /\ TitleAsked(app, sheet, kb, asked)' /\ PlayerAsked(app, prof, kb, asked)'
  <2>1. CASE Confirm
    <3>1. kb'.accepted /\ kb'.text = kb.text
      BY <1>2, <2>1 DEF Confirm, KbOK
    <3>2. app'.next = kb.back
      BY <1>2, <2>1, NextIsAsked DEF Confirm
    <3>3. sheet.pending => sheet'.name = kb.text
      BY <1>2, <1>4, <2>1 DEF Confirm, SheetOK
    <3>4. prof.slot >= 0 => prof'.name = kb.text
      BY <1>2, <1>4, <2>1 DEF Confirm, ProfOK
    <3>5. QED
      BY <1>1, <1>3, <1>4, <1>5, <1>6, <3>1, <3>2, <3>3, <3>4 DEF BackOK, TitleAsked, PlayerAsked, Among
  <2>2. CASE UNCHANGED <<sheet, prof>> /\ kb'.accepted = kb.accepted
    BY <1>1, <1>3, <1>4, <1>5, <1>6, <2>2 DEF BackOK, TitleAsked, PlayerAsked, Among
  <2>3. QED
    BY <1>2, <2>1, <2>2 DEF KeyboardKey, Deleted, Typed, KbOK
<1>8. OnSheet(app, kb)' => OnSheet(app, kb)
  BY <1>1, <1>3, <1>5 DEF OnSheet, Among
<1>9. UnderCursor(grid, lib, roster, sheet)' = UnderCursor(grid, lib, roster, sheet)
  BY <1>1, <1>6 DEF UnderCursor
<1>10. FocusOK(app, grid, lib, roster, sheet, kb)'
  BY <1>1, <1>5, <1>6, <1>8, <1>9 DEF NamesInv, FocusOK
<1>11. QED
  BY <1>1, <1>6, <1>7, <1>10 DEF NamesInv, SheetNamed

\* A theme is no name.
LEMMA AppearanceKeyKeepsNames ==
  ASSUME IInv, NamesInv, NEW key, AppearanceKey(key)
  PROVE  NamesInv'
<1>1. app.screen = "APPEARANCE" /\ app.next = "APPEARANCE" /\ UNCHANGED <<lib, grid, sheet, prof, kb>>
  BY DEF AppearanceKey, On, Idle, shelf, typing
<1>2. UNCHANGED app \/ app' = [app EXCEPT !.next = "PROFILES"]
  BY DEF AppearanceKey, Apply, Stay
<1>3. app'.screen = "APPEARANCE" /\ app'.next \in {"APPEARANCE", "PROFILES"}
  BY <1>1, <1>2, NextIsAsked DEF IInv, RecordsOK
<1>4. ~ OnSheet(app, kb)'
  BY <1>3 DEF OnSheet, Among
<1>5. QED
  BY <1>1, <1>3, <1>4, NamesAside DEF Among, NamesInv

\* A setting is no name.
LEMMA SettingsKeyKeepsNames ==
  ASSUME IInv, NamesInv, NEW key, SettingsKey(key)
  PROVE  NamesInv'
<1>1. app.screen = "SETTINGS" /\ app.next = "SETTINGS" /\ UNCHANGED <<lib, grid, sheet, prof, kb>>
  BY DEF SettingsKey, On, Idle, shelf, typing
<1>2. AppOK(app)
  BY DEF IInv, RecordsOK
<1>3. /\ app'.screen = "SETTINGS" /\ ~ Among("KEYBOARD", app)' /\ ~ OnSheet(app, kb)'
  <2>1. CASE \E s \in {"GRID", "CLOCK", "PARENTAL", "SYSINFO", "CREDITS"} : Goto(s)
    <3>1. PICK s \in {"GRID", "CLOCK", "PARENTAL", "SYSINFO", "CREDITS"} : Goto(s)
      BY <2>1
    <3>2. app'.screen = "SETTINGS" /\ app'.next = s
      BY <1>1, <1>2, <3>1, NextIsAsked DEF Goto
    <3>3. QED
      BY <3>1, <3>2 DEF OnSheet, Among
  <2>2. CASE AskCode("CLOCK", "SETTINGS") \/ AskCode("PARENTAL", "SETTINGS")
    <3>1. <<"CLOCK", "SETTINGS">> \in Codes /\ <<"PARENTAL", "SETTINGS">> \in Codes
      BY DEF Codes
    <3>2. app'.screen = "SETTINGS" /\ app'.next = "CODE" /\ app'.code \in {<<"CLOCK", "SETTINGS">>, <<"PARENTAL", "SETTINGS">>}
      BY <1>1, <1>2, <2>2, <3>1, AskCodeOK
    <3>3. app'.code[2] = "SETTINGS"
      BY <3>2
    <3>4. QED
      BY <3>2, <3>3 DEF OnSheet, Among
  <2>3. CASE UNCHANGED app \/ \E d : ChangeTheme(d)
    <3>1. app'.screen = "SETTINGS" /\ app'.next = "SETTINGS"
      BY <1>1, <1>2, <2>3 DEF ChangeTheme, AppOK
    <3>2. QED
      BY <3>1 DEF OnSheet, Among
  <2>4. QED
    BY <2>1, <2>2, <2>3 DEF SettingsKey, RowKey, OpenRow, Stay
<1>4. QED
  BY <1>1, <1>3, NamesAside DEF Among, NamesInv

\* A button on the sheet may change whose favourite it is, and no more of the view.
LEMMA SheetKeyKeepsNames ==
  ASSUME IInv, NamesInv, NEW key, SheetKey(key)
  PROVE  NamesInv'
<1>1. app.screen = "DETAIL" /\ app.next = "DETAIL" /\ UNCHANGED <<grid, roster, prof>>
  BY DEF SheetKey, On, Idle, people
<1>2. AppOK(app) /\ LibOK(lib) /\ SheetOK(sheet) /\ roster.active \in Slots
  BY DEF IInv, RecordsOK, RosterOK
<1>3. /\ lib.table[sheet.rom] = sheet.path /\ LikesOK(lib) /\ OnSheet(app, kb) /\ grid.opened
      /\ grid.focus = sheet.rom \/ (grid.focus = -1 /\ UnderCursor(grid, lib, roster, sheet))
  BY <1>1 DEF NamesInv, SheetNamed, FocusOK, OnSheet, Among
<1>4. ~ sheet.pending /\ ~ (prof.slot >= 0) /\ ~ Among("KEYBOARD", app)
  BY <1>1, NobodyWaits DEF Among
<1>5. CASE /\ sheet' = [sheet EXCEPT !.pending = TRUE, !.name = <<>>, !.at = lib.table[sheet.rom]]
           /\ Ask(<<"title", sheet.path>>, NameOf(lib, lib.table[sheet.rom]), TextLimit, "DETAIL", TRUE)
           /\ UNCHANGED lib
  <2>1. /\ kb'.back = "DETAIL" /\ kb'.accepted = FALSE /\ asked' = <<"title", sheet.path>>
        /\ app'.screen = "DETAIL" /\ app'.next = "KEYBOARD"
    BY <1>1, <1>2, <1>5, AskAsks
  <2>2. sheet'.rom = sheet.rom /\ sheet'.path = sheet.path /\ sheet'.at = sheet.path
    BY <1>2, <1>3, <1>5 DEF SheetOK
  <2>3. BackOK(app, kb)' /\ TitleAsked(app, sheet, kb, asked)' /\ PlayerAsked(app, prof, kb, asked)'
    BY <1>1, <1>4, <2>1, <2>2 DEF BackOK, TitleAsked, PlayerAsked, Among
  <2>4. UnderCursor(grid, lib, roster, sheet)' = UnderCursor(grid, lib, roster, sheet)
    BY <1>1, <1>5, <2>2 DEF UnderCursor
  <2>5. FocusOK(app, grid, lib, roster, sheet, kb)'
    BY <1>1, <1>3, <2>1, <2>2, <2>4 DEF FocusOK
  <2>6. QED
    BY <1>3, <1>5, <2>2, <2>3, <2>5 DEF NamesInv, SheetNamed
<1>6. CASE lib' = Toggled(lib, lib.table[sheet.rom]) /\ Stay /\ UNCHANGED <<sheet, typing>>
  <2>1. UNCHANGED <<app, sheet, kb, asked>> /\ lib' = Toggled(lib, sheet.path)
    BY <1>3, <1>6 DEF Stay, typing
  <2>2. lib'.table = lib.table
    BY <1>2, <2>1, ToggledOK
  <2>3. LikesOK(lib)'
    BY <1>2, <1>3, <2>1 DEF LikesOK, LibOK, Toggled
  <2>4. UnderCursor(grid, lib, roster, sheet)' = UnderCursor(grid, lib, roster, sheet)
    BY <1>1, <1>2, <1>3, <2>1, LikedOnce DEF UnderCursor
  <2>5. BackOK(app, kb)' /\ TitleAsked(app, sheet, kb, asked)' /\ PlayerAsked(app, prof, kb, asked)'
    BY <1>1, <2>1 DEF NamesInv
  <2>6. FocusOK(app, grid, lib, roster, sheet, kb)'
    BY <1>1, <2>1, <2>4 DEF NamesInv, FocusOK
  <2>7. QED
    BY <1>3, <2>1, <2>2, <2>3, <2>5, <2>6 DEF NamesInv, SheetNamed
<1>7. CASE sheet' = [sheet EXCEPT !.closing = TRUE] /\ Stay /\ UNCHANGED <<lib, typing>>
  <2>1. sheet'.rom = sheet.rom /\ sheet'.path = sheet.path /\ sheet'.pending = sheet.pending
    BY <1>2, <1>7 DEF SheetOK
  <2>2. UNCHANGED <<app, kb>>
    BY <1>7 DEF Stay, typing
  <2>3. QED
    BY <1>1, <1>3, <1>4, <1>7, <2>1, <2>2, NamesSteered DEF Among
<1>8. CASE /\ UNCHANGED <<lib, sheet, typing>>
           /\ AskCode("DETAIL", "DETAIL") \/ AskCode("LAUNCH", "DETAIL") \/ Goto("CHEATS") \/ Goto("LAUNCH")
  <2>1. <<"DETAIL", "DETAIL">> \in Codes /\ <<"LAUNCH", "DETAIL">> \in Codes
    BY DEF Codes
  <2>2. CASE AskCode("DETAIL", "DETAIL") \/ AskCode("LAUNCH", "DETAIL")
    <3>1. app'.screen = "DETAIL" /\ app'.next = "CODE"
      BY <1>1, <1>2, <2>1, <2>2, AskCodeOK
    <3>2. QED
      BY <1>1, <1>3, <1>4, <1>8, <3>1, NamesSteered DEF Among, typing
  <2>3. CASE Goto("CHEATS") \/ Goto("LAUNCH")
    <3>1. app'.screen = "DETAIL" /\ app'.next \in {"CHEATS", "LAUNCH"}
      BY <1>1, <1>2, <2>3, NextIsAsked DEF Goto
    <3>2. QED
      BY <1>1, <1>3, <1>4, <1>8, <3>1, NamesSteered DEF Among, typing
  <2>4. QED
    BY <1>8, <2>2, <2>3
<1>9. QED
  BY <1>5, <1>6, <1>7, <1>8 DEF SheetKey

\* A sheet closed leaves the grid's focus for the grid to find.
LEMMA SheetClosesKeepsNames ==
  ASSUME IInv, NamesInv, SheetCloses
  PROVE  NamesInv'
<1>1. /\ app.screen = "DETAIL" /\ app.next = "DETAIL" /\ app' = [app EXCEPT !.next = "GRID"]
      /\ UNCHANGED <<lib, grid, sheet, roster, prof, kb>>
  BY DEF SheetCloses, On, Idle, shelf, people, typing
<1>2. app'.screen = "DETAIL" /\ app'.next = "GRID"
  BY <1>1, NextIsAsked DEF IInv, RecordsOK
<1>3. OnSheet(app, kb)
  BY <1>1 DEF OnSheet, Among
<1>4. QED
  BY <1>1, <1>2, <1>3, NamesSteered DEF Among

\* The screens the sheet opens lead back to it with nothing changed.
LEMMA AwayKeyKeepsNames ==
  ASSUME IInv, NamesInv, NEW key, AwayKey(key)
  PROVE  NamesInv'
<1>1. PICK s \in Away : On(s) /\ Goto(Returns(s, key))
  BY DEF AwayKey
<1>2. /\ app.screen = s /\ app.next = s /\ app' = [app EXCEPT !.next = Returns(s, key)]
      /\ UNCHANGED <<lib, grid, sheet, roster, prof, kb>>
  BY <1>1 DEF AwayKey, On, Idle, Goto, shelf, people, typing
<1>3. AppOK(app)
  BY DEF IInv, RecordsOK
<1>4. app'.screen = s /\ app'.next = Returns(s, key) /\ app'.code = app.code
  BY <1>2, <1>3, NextIsAsked
<1>5. Returns(s, key) # "KEYBOARD" /\ (Returns(s, key) \in {"DETAIL", "CHEATS"} => OnSheet(app, kb))
  <2>1. CASE s = "CODE"
    <3>1. Returns(s, key) \in {app.code[1], app.code[2]}
      BY <2>1 DEF Returns
    <3>2. /\ app.code[1] \in {"GRID", "DETAIL", "LAUNCH", "CLOCK", "PARENTAL"}
          /\ app.code[2] \in {"GRID", "DETAIL", "SETTINGS"}
          /\ app.code[1] = "DETAIL" => app.code[2] = "DETAIL"
      BY <1>3 DEF AppOK, Codes
    <3>3. QED
      BY <1>2, <2>1, <3>1, <3>2 DEF OnSheet, Among
  <2>2. CASE s = "CHEATS"
    BY <1>2, <2>2 DEF Returns, OnSheet, Among
  <2>3. CASE s \notin {"CODE", "CHEATS"}
    BY <2>3 DEF Returns
  <2>4. QED
    BY <2>1, <2>2, <2>3
<1>6. OnSheet(app, kb)' => OnSheet(app, kb)
  <2>1. s # "DETAIL" /\ s # "KEYBOARD"
    BY DEF Away
  <2>2. CASE s \in {"CODE", "CHEATS"}
    BY <1>2, <1>4, <1>5, <2>1, <2>2 DEF OnSheet, Among
  <2>3. CASE s \notin {"CODE", "CHEATS"}
    <3>1. Returns(s, key) = "SETTINGS"
      BY <2>3 DEF Returns
    <3>2. QED
      BY <1>4, <2>1, <2>3, <3>1 DEF OnSheet, Among
  <2>4. QED
    BY <2>2, <2>3
<1>7. ~ Among("KEYBOARD", app) /\ ~ Among("KEYBOARD", app)'
  BY <1>2, <1>4, <1>5 DEF Among, Away
<1>8. QED
  BY <1>2, <1>4, <1>6, <1>7, NamesSteered

\* A launch that ends leads to where no sheet is.
LEMMA LaunchEndsKeepsNames ==
  ASSUME IInv, NamesInv, LaunchEnds
  PROVE  NamesInv'
<1>1. app.screen = "LAUNCH" /\ app.next = "LAUNCH" /\ UNCHANGED <<grid, sheet, prof, kb>>
  BY DEF LaunchEnds, On, Idle, people, typing
<1>2. app'.screen \in {"LAUNCH", "off"} /\ app'.next \in {"off", "FAULT", "GRID"}
  BY <1>1 DEF LaunchEnds, IInv, RecordsOK, AppOK
<1>3. ~ OnSheet(app, kb)'
  BY <1>2 DEF OnSheet, Among
<1>4. LikesOK(lib)' /\ lib'.table = lib.table
  <2>1. lib' = lib \/ lib' = Played(lib)
    BY DEF LaunchEnds
  <2>2. LikesOK(lib) /\ LibOK(lib)
    BY DEF NamesInv, IInv, RecordsOK
  <2>3. Played(lib).fav = lib.fav /\ Played(lib).table = lib.table
    BY <2>2 DEF Played, LibOK
  <2>4. QED
    BY <2>1, <2>2, <2>3 DEF LikesOK
<1>5. QED
  BY <1>1, <1>2, <1>3, <1>4, NamesAside DEF Among

\* Every step keeps the invariant.
LEMMA NextKeepsNames ==
  ASSUME IInv, IInv', NamesInv, [Next]_vars
  PROVE  NamesInv'
<1>1. ASSUME NEW key \in Keys, Press(key) PROVE NamesInv'
  BY <1>1, GridKeyKeepsNames, ProfilesKeyKeepsNames, KeyboardKeyKeepsNames, AppearanceKeyKeepsNames,
     SheetKeyKeepsNames, SettingsKeyKeepsNames, AwayKeyKeepsNames DEF Press
<1>2. CASE Turn
  BY <1>2, EnterGridKeepsNames, EnterProfilesKeepsNames, EnterKeyboardKeepsNames, EnterDetailKeepsNames,
     ElsewhereKeepsNames DEF Turn
<1>3. CASE Frame \/ SongEnds \/ Over \/ UNCHANGED vars
  BY <1>2, <1>3, FrameKeepsNames, SheetClosesKeepsNames, LaunchEndsKeepsNames DEF Frame, Over
<1>4. QED
  BY <1>1, <1>3 DEF Next

\* The picker names nobody who is there before and after.
LEMMA PickerNamesNobody ==
  ASSUME IInv, NEW key, ProfilesKey(key), NEW p \in roster.used \cap roster'.used
  PROVE  roster'.name[p] = roster.name[p]
<1>1. RosterOK(roster) /\ ProfOK(prof)
  BY DEF IInv, RecordsOK
<1>2. ASSUME NEW q \in Slots, q \notin roster.used, roster' = NewPlayer(roster, q)
      PROVE  roster'.name[p] = roster.name[p]
  <2>1. roster'.name = [roster.name EXCEPT ![q] = <<>>]
    BY <1>1, <1>2 DEF NewPlayer, RosterOK
  <2>2. p # q
    BY <1>2
  <2>3. QED
    BY <1>1, <2>1, <2>2 DEF RosterOK
<1>3. CASE UNCHANGED roster
  BY <1>3
<1>4. CASE PickerKey(key)
  <2>1. CASE Choose(prof.cursor)
    BY <1>1, <2>1 DEF Choose, RosterOK
  <2>2. CASE prof.cursor \notin roster.used /\ BeginRename(prof.cursor, NewPlayer(roster, prof.cursor))
    BY <1>1, <1>2, <2>2 DEF BeginRename, ProfOK
  <2>3. CASE Vacant(roster) # {} /\ BeginRename(FirstVacant(roster), NewPlayer(roster, FirstVacant(roster)))
    BY <1>2, <2>3, VacantIsASlot DEF BeginRename
  <2>4. QED
    BY <1>3, <1>4, <2>1, <2>2, <2>3 DEF PickerKey, people
<1>5. CASE EditKey(key)
  BY <1>3, <1>5 DEF EditKey, BeginRename
<1>6. CASE ConfirmKey(key)
  <2>1. CASE Delete
    <3>1. /\ roster'.used = roster.used \ {prof.cursor}
          /\ roster'.name = [roster.name EXCEPT ![prof.cursor] = <<>>]
      BY <1>1, <2>1 DEF Delete, Removed, RosterOK
    <3>2. p # prof.cursor
      BY <3>1
    <3>3. QED
      BY <1>1, <3>1, <3>2 DEF RosterOK
  <2>2. QED
    BY <1>3, <1>6, <2>1 DEF ConfirmKey
<1>7. QED
  BY <1>4, <1>5, <1>6 DEF ProfilesKey

\* A player gets a name on the way back from the keyboard.
LEMMA PlayersKeepNames ==
  ASSUME IInv, NamesInv, [Next]_vars, NEW p \in roster.used \cap roster'.used, roster'.name[p] # roster.name[p]
  PROVE  kb.accepted /\ asked = <<"player", p>> /\ roster'.name[p] = Trimmed(kb.text)
<1>1. RosterOK(roster) /\ ProfOK(prof) /\ p \in Slots
  BY DEF IInv, RecordsOK, RosterOK
<1>2. roster' # roster
  OBVIOUS
<1>3. ASSUME NEW key \in Keys, Press(key)
      PROVE  roster'.name[p] = roster.name[p]
  <2>1. CASE ProfilesKey(key)
    BY <2>1, PickerNamesNobody
  <2>2. CASE AppearanceKey(key)
    BY <1>1, <2>2 DEF AppearanceKey, Apply, RosterOK
  <2>3. CASE SettingsKey(key)
    BY <1>1, <2>3 DEF SettingsKey, RowKey, OpenRow, ChangeTheme, RosterOK
  <2>4. CASE GridKey(key) \/ KeyboardKey(key) \/ SheetKey(key) \/ AwayKey(key)
    BY <2>4 DEF GridKey, KeyboardKey, SheetKey, AwayKey, people
  <2>5. QED
    BY <1>3, <2>1, <2>2, <2>3, <2>4 DEF Press
<1>4. EnterProfiles
  BY <1>2, <1>3 DEF Next, Frame, Turn, vars, people, PlateStep, MusicStarts, SongEnds, Over, SheetCloses, SettingsRest, LaunchEnds,
     EnterGrid, EnterKeyboard, EnterAppearance, EnterDetail, EnterSettings, EnterAway
<1>5. prof.slot >= 0 /\ prof.name # <<>> /\ roster' = [roster EXCEPT !.name[prof.slot] = Trimmed(prof.name)]
  BY <1>2, <1>4 DEF EnterProfiles
<1>6. p = prof.slot /\ roster'.name[p] = Trimmed(prof.name)
  <2>1. roster'.name = [roster.name EXCEPT ![prof.slot] = Trimmed(prof.name)] /\ DOMAIN roster.name = Slots
    BY <1>1, <1>5 DEF RosterOK
  <2>2. QED
    BY <1>1, <2>1
<1>7. QED
  BY <1>5, <1>6 DEF NamesInv, PlayerAsked

\* A title gets a name on the way back from the keyboard.
LEMMA TitlesKeepNames ==
  ASSUME IInv, NamesInv, [Next]_vars, NEW t \in Titles, lib'.custom[t] # lib.custom[t]
  PROVE  kb.accepted /\ asked = <<"title", t>> /\ lib'.custom[t] = kb.text
<1>1. LibOK(lib) /\ SheetOK(sheet)
  BY DEF IInv, RecordsOK
<1>2. lib' # lib
  OBVIOUS
<1>3. ASSUME NEW key \in Keys, Press(key)
      PROVE  lib'.custom[t] = lib.custom[t]
  <2>1. \A u : Toggled(lib, u).custom = lib.custom
    BY <1>1 DEF Toggled, LibOK
  <2>2. lib' = lib \/ \E u : lib' = Toggled(lib, u)
    BY <1>3 DEF Press, GridKey, ToggleFavourite, OpenSheet, ProfilesKey, KeyboardKey, AppearanceKey, SheetKey, SettingsKey, AwayKey, shelf
  <2>3. QED
    BY <2>1, <2>2
<1>4. CASE LaunchEnds
  <2>1. lib' = lib \/ lib' = Played(lib)
    BY <1>4 DEF LaunchEnds
  <2>2. Played(lib).custom = lib.custom
    BY <1>1 DEF Played, LibOK
  <2>3. QED
    BY <1>2, <2>1, <2>2
<1>5. CASE EnterDetail
  <2>1. sheet.pending /\ kb.accepted /\ lib' = Finished([lib EXCEPT !.custom[sheet.at] = sheet.name])
    BY <1>2, <1>5 DEF EnterDetail
  <2>2. lib'.custom = [lib.custom EXCEPT ![sheet.at] = sheet.name]
    <3> DEFINE l == [lib EXCEPT !.custom[sheet.at] = sheet.name]
    <3>1. l.custom = [lib.custom EXCEPT ![sheet.at] = sheet.name]
      BY <1>1 DEF LibOK
    <3> HIDE DEF l
    <3>2. Finished(l).custom = l.custom
      BY DEF Finished
    <3>3. QED
      BY <2>1, <3>1, <3>2 DEF l
  <2>3. t = sheet.at /\ lib'.custom[t] = sheet.name
    BY <1>1, <2>2 DEF LibOK
  <2>4. QED
    BY <2>1, <2>3 DEF NamesInv, TitleAsked
<1>6. QED
  BY <1>2, <1>3, <1>4, <1>5 DEF Next, Frame, Turn, vars, shelf, PlateStep, MusicStarts, SongEnds, Over, SheetCloses, SettingsRest,
     EnterGrid, EnterProfiles, EnterKeyboard, EnterAppearance, EnterSettings, EnterAway

\* From the sheet to the grid it is only by entering it.
LEMMA GridIsEntered ==
  ASSUME IInv, [Next]_vars, app.screen = "DETAIL", app'.screen = "GRID"
  PROVE  EnterGrid
<1>1. AppOK(app)
  BY DEF IInv, RecordsOK
<1>2. ASSUME NEW key \in Keys, Press(key)
      PROVE  app'.screen = app.screen
  <2>1. SheetKey(key)
    BY <1>2 DEF Press, GridKey, ProfilesKey, KeyboardKey, AppearanceKey, SettingsKey, AwayKey, On, Away
  <2>2. QED
    BY <1>1, <2>1 DEF SheetKey, Ask, AskCode, Goto, Stay, AppOK
<1>3. CASE PlateStep \/ MusicStarts \/ SongEnds \/ SettingsRest \/ SheetCloses \/ LaunchEnds \/ Over \/ UNCHANGED vars
  BY <1>1, <1>3 DEF PlateStep, MusicStarts, SongEnds, SettingsRest, SheetCloses, LaunchEnds, Over, On, Idle, vars, AppOK
<1>4. CASE Turn
  <2>1. ASSUME NEW s \in Showing, Turning(s), Arrive(s)
        PROVE  s = "GRID"
    BY <2>1, Arrived
  <2>2. QED
    BY <1>4, <2>1 DEF Turn, EnterProfiles, EnterKeyboard, EnterAppearance, EnterDetail, EnterSettings, EnterAway,
       Showing, Home, Away
<1>5. QED
  BY <1>2, <1>3, <1>4 DEF Next, Frame

\* Whatever is asked, and by whom, with any number of titles and players: a
\* name goes to the title or the player it was asked for and to no other, as
\* it was typed; the sheet keeps its title while the library is sorted again
\* under it; and the grid comes back with the cursor on that title wherever
\* the tab still has it (screen_detail.c:106, screen_profiles.c:178,
\* screen_grid.c:681).
THEOREM NamesAlwaysStay == Spec => NamesStay
<1> DEFINE Named ==
      /\ \A p \in roster.used \cap roster'.used :
            roster'.name[p] # roster.name[p] =>
               kb.accepted /\ asked = <<"player", p>> /\ roster'.name[p] = Trimmed(kb.text)
      /\ \A t \in Titles :
            lib'.custom[t] # lib.custom[t] =>
               kb.accepted /\ asked = <<"title", t>> /\ lib'.custom[t] = kb.text
      /\ app'.screen = "DETAIL" => lib'.table[sheet'.rom] = sheet'.path
      /\ (app.screen = "DETAIL" /\ app'.screen = "GRID" /\ Shown(sheet.path)') =>
            TitleAt(grid', lib', roster') = sheet.path
<1>1. IInv /\ NamesInv /\ [Next]_vars => NamesInv' /\ Named
  <2> SUFFICES ASSUME IInv, NamesInv, [Next]_vars PROVE NamesInv' /\ Named
    OBVIOUS
  <2>1. NamesInv'
    BY NextOK, NextKeepsNames
  <2>2. app'.screen = "DETAIL" => lib'.table[sheet'.rom] = sheet'.path
    BY <2>1 DEF NamesInv, SheetNamed
  <2>3. (app.screen = "DETAIL" /\ app'.screen = "GRID" /\ Shown(sheet.path)') =>
           TitleAt(grid', lib', roster') = sheet.path
    BY GridIsEntered, GridFindsTheTitle
  <2>4. QED
    BY <2>1, <2>2, <2>3, PlayersKeepNames, TitlesKeepNames
<1>2. Init => NamesInv
  BY NamesInit
<1>3. Spec => [][Named]_vars
  <2> HIDE DEF Named
  <2>1. QED
    BY <1>1, <1>2, SessionsAreSound, PTL DEF Spec
<1>4. QED
  BY <1>3 DEF NamesStay
=============================================================================
