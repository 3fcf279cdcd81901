-------------------------- MODULE PlayerData_proofs --------------------------
(***************************************************************************)
(* What holds of the players' files for any games, slots, clocks and       *)
(* timestamps: types, that the game just played outranks all others, that  *)
(* only the parent moves a padlock, that a player's history is his own,    *)
(* that a free slot is an empty folder and that what is not dirty is       *)
(* saved, wherever the power goes.                                         *)
(*                                                                         *)
(* Each theorem names what it needs besides DataAssumption.  OldLocksGone, *)
(* OrdinaryRoster, AllReached, RoomForAll and NoTwins each leave out       *)
(* something the code does get wrong or does not promise; the README says  *)
(* what.                                                                   *)
(***************************************************************************)
EXTENDS PlayerData, SequenceTheorems, WellFoundedInduction, TLAPS

-----------------------------------------------------------------------------
\* A set of numbers that is not empty has a least one, and a bounded one a
\* greatest: what CHOOSE picks for Max is there.
LEMMA LeastNatural ==
  ASSUME NEW T \in SUBSET Nat, T # {}
  PROVE  \E x \in T : \A y \in T : x <= y
<1> DEFINE R == OpToRel(<, Nat)
<1>1. IsWellFoundedOn(R, Nat)
  BY NatLessThanWellFounded
<1>2. \A x, y \in Nat : y < x => <<y, x>> \in R
  BY DEF OpToRel
<1> HIDE DEF R
<1>3. PICK x \in T : \A y \in T : ~ (<<y, x>> \in R)
  BY <1>1, WFMin
<1>4. \A y \in T : x <= y
  <2> TAKE y \in T
  <2>1. x \in Nat /\ y \in Nat /\ ~ (y < x)
    BY <1>2, <1>3
  <2>2. QED
    BY <2>1
<1>5. QED
  BY <1>4

\* A set of numbers under a bound has a greatest: Max is in it.
LEMMA MaxIsGreatest ==
  ASSUME NEW T \in SUBSET Nat, T # {}, NEW b \in Nat, \A x \in T : x <= b
  PROVE Max(T) \in T /\ \A y \in T : Max(T) >= y
<1> DEFINE D == {b - x : x \in T}
<1>1. \A x \in T : b - x \in Nat
  OBVIOUS
<1>2. D \in SUBSET Nat /\ D # {}
  BY <1>1
<1>3. PICK d \in D : \A y \in D : d <= y
  BY <1>2, LeastNatural
<1>4. PICK x \in T : d = b - x
  OBVIOUS
<1>5. \A y \in T : x >= y
  <2> TAKE y \in T
  <2>1. b - y \in D
    OBVIOUS
  <2>2. d <= b - y
    BY <1>3, <2>1
  <2>3. QED
    BY <1>4, <2>2
<1>6. QED
  BY <1>5 DEF Max

-----------------------------------------------------------------------------
(***************************************************************************)
(* The records, and the file they are kept in.                             *)
(***************************************************************************)
Records == [fav : BOOLEAN, stamp : Stamps, played : BOOLEAN, locked : BOOLEAN]

\* A record a row was read into.
Told(base, r) == [fav |-> base.fav \/ r.fav, stamp |-> r.stamp,
                  played |-> r.played, locked |-> base.locked \/ r.locked]

\* What playstate_load() leaves of a record: as it was, or a row of its key.
LEMMA AppliedIs ==
  ASSUME NEW rows, NEW games, NEW base, NEW g \in Games
  PROVE  \/ /\ g \notin games \/ \A r \in rows : r.key # Key[g]
            /\ Applied(rows, games, base)[g] = base[g]
         \/ /\ g \in games
            /\ \E r \in rows :
                  /\ r.key = Key[g]
                  /\ Applied(rows, games, base)[g] = Told(base[g], r)
<1> DEFINE mine == {r \in rows : r.key = Key[g]}
           row == CHOOSE r \in mine : TRUE
<1>1. CASE g \notin games \/ mine = {}
  BY <1>1 DEF Applied
<1>2. CASE g \in games /\ mine # {}
  <2>1. row \in mine
    BY <1>2
  <2>2. Applied(rows, games, base)[g] = Told(base[g], row)
    BY <1>2 DEF Applied, Told
  <2>3. QED
    BY <1>2, <2>1, <2>2
<1>3. QED
  BY <1>1, <1>2

\* playstate_load() leaves records.
LEMMA AppliedType ==
  ASSUME NEW rows \in SUBSET Rows, NEW games, NEW base \in [Games -> Records]
  PROVE  Applied(rows, games, base) \in [Games -> Records]
<1>1. ASSUME NEW g \in Games PROVE Applied(rows, games, base)[g] \in Records
  <2>1. base[g] \in Records
    OBVIOUS
  <2>2. ASSUME NEW r \in rows
        PROVE  Told(base[g], r) \in Records
    BY DEF Rows, Records, Told
  <2>3. \/ Applied(rows, games, base)[g] = base[g]
        \/ \E r \in rows : Applied(rows, games, base)[g] = Told(base[g], r)
    BY AppliedIs
  <2>4. QED
    BY <2>1, <2>2, <2>3
<1>2. Applied(rows, games, base) = [g \in Games |-> Applied(rows, games, base)[g]]
  BY DEF Applied
<1>3. QED
  BY <1>1, <1>2

\* newest_stamp after a load is no less than before, nor than what was applied.
LEMMA NewestIs ==
  ASSUME NEW rows \in SUBSET Rows, NEW games \in SUBSET Games, NEW base \in Stamps
  PROVE  /\ NewestOf(rows, games, base) \in Stamps
         /\ NewestOf(rows, games, base) >= base
         /\ \A r \in rows : \A g \in games : r.key = Key[g] => r.stamp <= NewestOf(rows, games, base)
<1> DEFINE T == {base} \cup {r.stamp : r \in {q \in rows : q.key \in {Key[g] : g \in games}}}
<1>1. T \in SUBSET Nat /\ T # {} /\ \A x \in T : x \in Stamps
  BY DataAssumption DEF Stamps, Rows
<1>2. \A x \in T : x <= MaxStamp
  BY <1>1, DataAssumption DEF Stamps
<1>3. MaxStamp \in Nat
  BY DataAssumption
<1>4. Max(T) \in T /\ \A x \in T : Max(T) >= x
  <2> HIDE DEF T
  <2>1. QED
    BY <1>1, <1>2, <1>3, MaxIsGreatest
<1>5. NewestOf(rows, games, base) = Max(T)
  BY DEF NewestOf
<1>6. \A r \in rows : \A g \in games : r.key = Key[g] => r.stamp \in T
  OBVIOUS
<1>7. \A x \in T : x \in Int
  BY <1>1
<1>8. Max(T) \in Stamps /\ Max(T) >= base
  BY <1>1, <1>4
<1>9. ASSUME NEW r \in rows, NEW g \in games, r.key = Key[g] PROVE r.stamp <= Max(T)
  <2> HIDE DEF T
  <2>1. Max(T) >= r.stamp /\ Max(T) \in Int /\ r.stamp \in Int
    BY <1>4, <1>6, <1>7, <1>9
  <2>2. QED
    BY <2>1
<1>10. QED
  BY <1>5, <1>8, <1>9

\* The rows playstate_save() writes are of records worth one; none is locked.
LEMMA RowsAre ==
  ASSUME NEW r \in [Games -> Records]
  PROVE  /\ RowsOf(r) \in SUBSET Rows
         /\ \A x \in RowsOf(r) :
               ~ x.locked /\ \E g \in Games : Worth(r, g) /\ x.key = Key[g]
<1> DEFINE row(g) == [key |-> Key[g], fav |-> r[g].fav, stamp |-> r[g].stamp,
                      played |-> r[g].played, locked |-> FALSE]
<1>1. ASSUME NEW x \in RowsOf(r) PROVE \E g \in Games : Worth(r, g) /\ x = row(g)
  BY <1>1 DEF RowsOf
<1>2. \A g \in Games : row(g) \in Rows /\ ~ row(g).locked /\ row(g).key = Key[g]
  BY DEF Rows, Records, Keys
<1>3. QED
  <2> HIDE DEF row
  <2>1. QED
    BY <1>1, <1>2

-----------------------------------------------------------------------------
(***************************************************************************)
(* What a handler's script is made of, and what it leaves on the card.     *)
(***************************************************************************)
LEMMA ConcatElements ==
  ASSUME NEW S, NEW s \in Seq(S), NEW t \in Seq(S)
  PROVE  s \o t \in Seq(S) /\ ToSet(s \o t) = ToSet(s) \cup ToSet(t)
<1>1. /\ s \o t \in Seq(S)
      /\ Len(s \o t) = Len(s) + Len(t)
      /\ \A i \in 1 .. Len(s) + Len(t) : (s \o t)[i] = IF i <= Len(s) THEN s[i] ELSE t[i - Len(s)]
  BY ConcatProperties
<1>2. /\ Len(s) \in Nat /\ DOMAIN s = 1 .. Len(s)
      /\ Len(t) \in Nat /\ DOMAIN t = 1 .. Len(t)
      /\ DOMAIN (s \o t) = 1 .. Len(s) + Len(t)
  BY <1>1, LenProperties
<1>3. ASSUME NEW i \in DOMAIN (s \o t) PROVE (s \o t)[i] \in ToSet(s) \cup ToSet(t)
  <2>1. CASE i <= Len(s)
    BY <1>1, <1>2, <2>1 DEF ToSet
  <2>2. CASE ~ (i <= Len(s))
    <3>1. i - Len(s) \in DOMAIN t /\ (s \o t)[i] = t[i - Len(s)]
      BY <1>1, <1>2, <2>2
    <3>2. QED
      BY <3>1 DEF ToSet
  <2>3. QED
    BY <2>1, <2>2
<1>4. ASSUME NEW i \in DOMAIN s PROVE s[i] \in ToSet(s \o t)
  <2>1. i \in DOMAIN (s \o t) /\ (s \o t)[i] = s[i]
    BY <1>1, <1>2
  <2>2. QED
    BY <2>1 DEF ToSet
<1>5. ASSUME NEW i \in DOMAIN t PROVE t[i] \in ToSet(s \o t)
  <2>1. i + Len(s) \in DOMAIN (s \o t) /\ (s \o t)[i + Len(s)] = t[i]
    BY <1>1, <1>2
  <2>2. QED
    BY <2>1 DEF ToSet
<1>6. QED
  BY <1>1, <1>3, <1>4, <1>5 DEF ToSet

\* A write made on a condition is there when the condition holds.
LEMMA WhenIs ==
  ASSUME NEW needed, NEW w \in Writes
  PROVE  /\ When(needed, w) \in Seq(Writes)
         /\ needed => ToSet(When(needed, w)) = {w}
         /\ ~ needed => ToSet(When(needed, w)) = {}
<1>1. <<>> \in Seq(Writes) /\ <<w>> \in Seq(Writes)
  OBVIOUS
<1>2. ToSet(<<>>) = {} /\ ToSet(<<w>>) = {w}
  BY DEF ToSet
<1>3. QED
  BY <1>1, <1>2 DEF When

\* A script of one write, of two and of four.
LEMMA LiteralElements ==
  ASSUME NEW a \in Writes, NEW b \in Writes, NEW c \in Writes, NEW d \in Writes
  PROVE  /\ <<>> \in Seq(Writes) /\ ToSet(<<>>) = {}
         /\ <<a>> \in Seq(Writes) /\ ToSet(<<a>>) = {a}
         /\ <<a, b>> \in Seq(Writes) /\ ToSet(<<a, b>>) = {a, b}
         /\ <<a, b, c, d>> \in Seq(Writes) /\ ToSet(<<a, b, c, d>>) = {a, b, c, d}
BY DEF ToSet

\* The last write to a file is what it holds then.
LEMMA AfterIs ==
  ASSUME NEW script \in Seq(Writes), NEW f \in Places
  PROVE  \/ /\ \A w \in ToSet(script) : w.at # f
            /\ After(script)[f] = disk[f]
         \/ \E w \in ToSet(script) : w.at = f /\ After(script)[f] = w.to
<1> DEFINE hits == {k \in DOMAIN script : script[k].at = f}
<1>1. Len(script) \in Nat /\ DOMAIN script = 1 .. Len(script)
  BY LenProperties
<1>2. CASE hits = {}
  BY <1>2 DEF After, ToSet
<1>3. CASE hits # {}
  <2>1. hits \in SUBSET Nat /\ \A k \in hits : k <= Len(script)
    BY <1>1
  <2>2. Max(hits) \in hits
    <3> HIDE DEF hits
    <3>1. QED
      BY <1>1, <1>3, <2>1, MaxIsGreatest
  <2>3. After(script)[f] = script[Max(hits)].to
    BY <1>3 DEF After
  <2>4. QED
    BY <2>2, <2>3 DEF ToSet
<1>4. QED
  BY <1>2, <1>3

\* What is written where, and what a file holds.
LEMMA PlacesAre ==
  /\ Ini \in Places /\ Locks \in Places
  /\ \A p \in Slots : Play(p) \in Places /\ Cheat(p) \in Places /\ Saves(p) \in Places
  /\ \A p, q \in Slots : /\ Play(p) = Play(q) => p = q
                         /\ Cheat(p) = Cheat(q) => p = q
                         /\ Saves(p) = Saves(q) => p = q
                         /\ Play(p) \notin {Ini, Locks, Cheat(q), Saves(q)}
                         /\ Cheat(p) \notin {Ini, Locks, Play(q), Saves(q)}
                         /\ Saves(p) \notin {Ini, Locks, Play(q), Cheat(q)}
  /\ Ini # Locks
  /\ \A f \in Places : f \in {Ini, Locks} \/ \E p \in Slots : f \in {Play(p), Cheat(p), Saves(p)}
BY DEF Places, Ini, Locks, Play, Cheat, Saves

\* What a write to each file may hold, and that it is no more than a place and
\* what goes there.
LEMMA WritesAre ==
  ASSUME NEW w \in Writes
  PROVE  /\ w.at \in Places
         /\ w = Write(w.at, w.to)
         /\ w.at = Ini => w.to \in [used : SUBSET Slots, active : Slots]
         /\ w.at = Locks => w.to \in SUBSET Keys
         /\ \A p \in Slots : /\ w.at = Play(p) => w.to \in SUBSET Rows
                             /\ w.at = Cheat(p) => w.to \in SUBSET Keys
                             /\ w.at = Saves(p) => w.to \in SUBSET Games
<1>1. w.at \in Places
  BY PlacesAre DEF Writes
<1>2. w = Write(w.at, w.to)
  BY DEF Writes, Write
<1>3. CASE w \in [at : {Ini}, to : [used : SUBSET Slots, active : Slots]]
  <2>1. w.at = Ini /\ w.to \in [used : SUBSET Slots, active : Slots]
    BY <1>3
  <2>2. QED
    BY <1>1, <1>2, <2>1, PlacesAre
<1>4. CASE w \in [at : {Locks} \cup {Cheat(p) : p \in Slots}, to : SUBSET Keys]
  <2>1. w.at \in {Locks} \cup {Cheat(p) : p \in Slots} /\ w.to \in SUBSET Keys
    BY <1>4
  <2>2. QED
    BY <1>1, <1>2, <2>1, PlacesAre
<1>5. CASE w \in [at : {Play(p) : p \in Slots}, to : SUBSET Rows]
  <2>1. w.at \in {Play(p) : p \in Slots} /\ w.to \in SUBSET Rows
    BY <1>5
  <2>2. QED
    BY <1>1, <1>2, <2>1, PlacesAre
<1>6. CASE w \in [at : {Saves(p) : p \in Slots}, to : SUBSET Games]
  <2>1. w.at \in {Saves(p) : p \in Slots} /\ w.to \in SUBSET Games
    BY <1>6
  <2>2. QED
    BY <1>1, <1>2, <2>1, PlacesAre
<1>7. QED
  BY <1>3, <1>4, <1>5, <1>6 DEF Writes

\* The writes to each file.
LEMMA WritesOf ==
  /\ \A x \in SUBSET Slots : \A p \in Slots : Write(Ini, [used |-> x, active |-> p]) \in Writes
  /\ \A x \in SUBSET Keys : Write(Locks, x) \in Writes
  /\ \A p \in Slots : /\ \A x \in SUBSET Rows : Write(Play(p), x) \in Writes
                      /\ \A x \in SUBSET Keys : Write(Cheat(p), x) \in Writes
                      /\ \A x \in SUBSET Games : Write(Saves(p), x) \in Writes
BY DEF Writes, Write

\* The parts of a write.
LEMMA AtTo ==
  ASSUME NEW f, NEW x
  PROVE  Write(f, x).at = f /\ Write(f, x).to = x
BY DEF Write

\* What each file on the card holds.
LEMMA FilesAre ==
  ASSUME TypeOK
  PROVE  /\ disk[Ini] \in [used : SUBSET Slots, active : Slots]
         /\ disk[Locks] \in SUBSET Keys
         /\ \A p \in Slots : /\ disk[Play(p)] \in SUBSET Rows
                             /\ disk[Cheat(p)] \in SUBSET Keys
                             /\ disk[Saves(p)] \in SUBSET Games
<1>1. \A f \in Places : Write(f, disk[f]) \in Writes
  BY DEF TypeOK
<1>2. \A f \in Places : Write(f, disk[f]).at = f /\ Write(f, disk[f]).to = disk[f]
  BY AtTo
<1>3. QED
  BY <1>1, <1>2, WritesAre, PlacesAre

\* Any script leaves a player's files readable.
LEMMA AfterType ==
  ASSUME TypeOK, NEW script \in Seq(Writes), NEW p \in Slots
  PROVE  After(script)[Play(p)] \in SUBSET Rows /\ After(script)[Cheat(p)] \in SUBSET Keys
<1>1. \A w \in ToSet(script) : w \in Writes
  <2>1. \A k \in DOMAIN script : script[k] \in Writes
    BY LenProperties, ElementOfSeq
  <2>2. QED
    BY <2>1 DEF ToSet
<1>2. After(script)[Play(p)] \in SUBSET Rows
  BY <1>1, AfterIs, FilesAre, PlacesAre, WritesAre
<1>3. After(script)[Cheat(p)] \in SUBSET Keys
  BY <1>1, AfterIs, FilesAre, PlacesAre, WritesAre
<1>4. QED
  BY <1>2, <1>3

\* The writes the handlers make.
LEMMA SavesAre ==
  ASSUME TypeOK, NEW p \in Slots
  PROVE  /\ \A r \in [Games -> Records] :
               SavePlay(r, p) \in Writes /\ SavePlay(r, p).at = Play(p) /\ SavePlay(r, p).to = RowsOf(r)
         /\ \A c \in SUBSET Keys :
               SaveCheats(c, p) \in Writes /\ SaveCheats(c, p).at = Cheat(p) /\ SaveCheats(c, p).to = c
         /\ SaveLocks \in Writes /\ SaveLocks.at = Locks
         /\ \A u \in SUBSET Slots :
               /\ SaveRoster(u, p) \in Writes /\ SaveRoster(u, p).at = Ini
               /\ SaveRoster(u, p).to = [used |-> {q \in u : q + 2 <= IniSections}, active |-> p]
<1>1. ASSUME NEW r \in [Games -> Records]
      PROVE  SavePlay(r, p) \in Writes /\ SavePlay(r, p).at = Play(p) /\ SavePlay(r, p).to = RowsOf(r)
  <2>1. RowsOf(r) \in SUBSET Rows
    BY RowsAre
  <2>2. QED
    BY <2>1, WritesOf, AtTo DEF SavePlay
<1>2. \A c \in SUBSET Keys :
         SaveCheats(c, p) \in Writes /\ SaveCheats(c, p).at = Cheat(p) /\ SaveCheats(c, p).to = c
  BY WritesOf, AtTo DEF SaveCheats
<1>3. SaveLocks \in Writes /\ SaveLocks.at = Locks
  <2>1. {Key[g] : g \in {h \in present : rec[h].locked}} \in SUBSET Keys
    BY DEF TypeOK, Keys
  <2>2. QED
    BY <2>1, WritesOf, AtTo DEF SaveLocks
<1>4. ASSUME NEW u \in SUBSET Slots
      PROVE  /\ SaveRoster(u, p) \in Writes /\ SaveRoster(u, p).at = Ini
             /\ SaveRoster(u, p).to = [used |-> {q \in u : q + 2 <= IniSections}, active |-> p]
  <2>1. {q \in u : q + 2 <= IniSections} \in SUBSET Slots
    OBVIOUS
  <2>2. QED
    BY <2>1, WritesOf, AtTo DEF SaveRoster
<1>5. QED
  BY <1>1, <1>2, <1>3, <1>4

\* profile_activate()'s script.
Switching(begun, from, p, roster) ==
    Script(begun \o When(dirty, SavePlay(rec, from)) \o When(cheatsDirty, SaveCheats(cheats, from))
           \o <<SaveRoster(roster, p)>>)

\* What profile_activate() has written: what came before it, the play and cheat
\* files if they are dirty, and the roster.
LEMMA SwitchingIs ==
  ASSUME TypeOK, NEW begun \in Seq(Writes), NEW from \in Slots, NEW p \in Slots,
         NEW roster \in SUBSET Slots
  PROVE  /\ Switching(begun, from, p, roster) \in Seq(Writes)
         /\ ~ writable => Switching(begun, from, p, roster) = <<>>
         /\ writable => ToSet(Switching(begun, from, p, roster)) =
               ToSet(begun) \cup ToSet(When(dirty, SavePlay(rec, from)))
               \cup ToSet(When(cheatsDirty, SaveCheats(cheats, from))) \cup {SaveRoster(roster, p)}
<1> DEFINE w1 == When(dirty, SavePlay(rec, from))
           w2 == When(cheatsDirty, SaveCheats(cheats, from))
           w3 == <<SaveRoster(roster, p)>>
<1>1. rec \in [Games -> Records] /\ cheats \in SUBSET Keys
  BY DEF TypeOK, Records
<1>2. /\ SavePlay(rec, from) \in Writes /\ SaveCheats(cheats, from) \in Writes
      /\ SaveRoster(roster, p) \in Writes
  BY <1>1, SavesAre
<1>3. w1 \in Seq(Writes) /\ w2 \in Seq(Writes)
  BY <1>2, WhenIs
<1>4. w3 \in Seq(Writes) /\ ToSet(w3) = {SaveRoster(roster, p)}
  BY <1>2, LiteralElements
<1> HIDE DEF w1, w2, w3
<1> DEFINE u == begun \o w1
           v == u \o w2
<1>5. u \in Seq(Writes) /\ ToSet(u) = ToSet(begun) \cup ToSet(w1)
  BY <1>3, ConcatElements
<1>6. v \in Seq(Writes) /\ ToSet(v) = ToSet(u) \cup ToSet(w2)
  <2> HIDE DEF u
  <2>1. QED
    BY <1>3, <1>5, ConcatElements
<1>7. /\ v \o w3 \in Seq(Writes)
      /\ ToSet(v \o w3) = ToSet(begun) \cup ToSet(w1) \cup ToSet(w2) \cup ToSet(w3)
  <2> HIDE DEF u, v
  <2>1. v \o w3 \in Seq(Writes) /\ ToSet(v \o w3) = ToSet(v) \cup ToSet(w3)
    BY <1>4, <1>6, ConcatElements
  <2>2. QED
    BY <1>5, <1>6, <2>1
<1>8. <<>> \in Seq(Writes)
  OBVIOUS
<1>9. QED
  BY <1>4, <1>7, <1>8 DEF Switching, Script, w1, w2, w3

\* profile_activate() in terms of the script it writes.
LEMMA ActivateIs ==
  ASSUME NEW begun, NEW from, NEW p, NEW roster, Activate(begun, from, p, roster)
  PROVE  LET rows == After(Switching(begun, from, p, roster))[Play(p)]
         IN  /\ todo' = Switching(begun, from, p, roster)
             /\ active' = p /\ used' = roster
             /\ rec' = Applied(rows, present, Cleared)
             /\ newest' = NewestOf(rows, present, newest)
             /\ dirty' = (dirty /\ ~ writable /\ rows = {})
             /\ cheats' = After(Switching(begun, from, p, roster))[Cheat(p)]
             /\ cheatsDirty' = FALSE
             /\ UNCHANGED <<on, present, writable, locksDirty, leaving, disk, touched>>
BY DEF Activate, FlushAs, Switching

\* What a deletion writes before it activates.
LEMMA RemovedIs ==
  ASSUME TypeOK, NEW p \in Slots, NEW next \in Slots
  PROVE  /\ Removed(p, next) \in Seq(Writes)
         /\ Removed(p, next) = <<Write(Saves(p), disk[Saves(p)] \ Reachable), Write(Play(p), {}),
                                 Write(Cheat(p), {}), SaveRoster(used \ {p}, next)>>
         /\ ToSet(Removed(p, next)) = {Write(Saves(p), disk[Saves(p)] \ Reachable), Write(Play(p), {}),
                                       Write(Cheat(p), {}), SaveRoster(used \ {p}, next)}
<1>1. disk[Saves(p)] \ Reachable \in SUBSET Games
  BY FilesAre
<1>2. used \ {p} \in SUBSET Slots
  BY DEF TypeOK
<1>3. /\ Write(Saves(p), disk[Saves(p)] \ Reachable) \in Writes /\ Write(Play(p), {}) \in Writes
      /\ Write(Cheat(p), {}) \in Writes /\ SaveRoster(used \ {p}, next) \in Writes
  BY <1>1, <1>2, WritesOf, SavesAre
<1> DEFINE a == Write(Saves(p), disk[Saves(p)] \ Reachable)
           b == Write(Play(p), {})
           c == Write(Cheat(p), {})
           d == SaveRoster(used \ {p}, next)
<1>4. Removed(p, next) = <<a, b, c, d>>
  BY DEF Removed
<1>5. <<a, b, c, d>> \in Seq(Writes) /\ ToSet(<<a, b, c, d>>) = {a, b, c, d}
  <2>1. a \in Writes /\ b \in Writes /\ c \in Writes /\ d \in Writes
    BY <1>3
  <2> HIDE DEF a, b, c, d
  <2>2. QED
    BY <2>1 DEF ToSet
<1>6. QED
  BY <1>4, <1>5

\* Whoever is chosen or deleted, somebody is activated.
LEMMA SwitchIs ==
  ASSUME TypeOK, NEW p \in Slots, Choose(p) \/ Delete(p)
  PROVE  /\ Idle
         /\ \E begun \in Seq(Writes), from \in Slots, q \in Slots, roster \in SUBSET Slots :
               /\ Activate(begun, from, q, roster)
               /\ \A w \in ToSet(begun) : \/ w \in {Write(Play(p), {}), Write(Cheat(p), {})}
                                          \/ w.at \in {Ini, Saves(p)}
<1>1. active \in Slots /\ 0 \in Slots /\ used \in SUBSET Slots /\ used \ {p} \in SUBSET Slots
  BY DataAssumption DEF TypeOK
<1>2. CASE Choose(p)
  <2>1. <<>> \in Seq(Writes) /\ ToSet(<<>>) = {}
    BY DEF ToSet
  <2>2. Idle /\ Activate(<<>>, active, p, used)
    BY <1>2 DEF Choose
  <2>3. QED
    BY <1>1, <2>1, <2>2
<1>3. CASE Delete(p)
  <2> DEFINE next == IF p = active THEN 0 ELSE active
  <2>1. next \in Slots
    BY <1>1
  <2>2. Idle /\ Activate(Removed(p, next), next, next, used \ {p})
    BY <1>3 DEF Delete
  <2> HIDE DEF next
  <2>3. Removed(p, next) \in Seq(Writes)
    BY <2>1, RemovedIs
  <2>4. \A w \in ToSet(Removed(p, next)) : \/ w \in {Write(Play(p), {}), Write(Cheat(p), {})}
                                           \/ w.at \in {Ini, Saves(p)}
    <3>1. SaveRoster(used \ {p}, next).at = Ini
      BY <1>1, <2>1, SavesAre
    <3>2. Write(Saves(p), disk[Saves(p)] \ Reachable).at = Saves(p)
      BY AtTo
    <3>3. QED
      BY <2>1, <3>1, <3>2, RemovedIs
  <2>5. QED
    BY <1>1, <2>1, <2>2, <2>3, <2>4
<1>4. QED
  BY <1>2, <1>3

-----------------------------------------------------------------------------
(***************************************************************************)
(* Types.                                                                  *)
(***************************************************************************)
LEMMA InitTypes == Init => TypeOK
<1> SUFFICES ASSUME Init PROVE TypeOK
  OBVIOUS
<1> USE DataAssumption
<1>1. rec \in [Games -> Records]
  BY DEF Init, Unread, Blank, Records, Stamps
<1>2. \A f \in Places : Write(f, disk[f]) \in Writes
  <2>1. OldRows \in SUBSET Rows /\ {} \in SUBSET Rows /\ {} \in SUBSET Keys /\ {} \in SUBSET Games
    OBVIOUS
  <2>2. Write(Ini, disk[Ini]) \in Writes
    <3>1. disk[Ini] = [used |-> OldRoster, active |-> 0]
      BY PlacesAre DEF Init
    <3>2. QED
      BY <3>1, WritesOf
  <2>3. \A p \in Slots : Write(Play(p), disk[Play(p)]) \in Writes
    <3> TAKE p \in Slots
    <3>1. disk[Play(p)] \in {OldRows, {}}
      BY PlacesAre DEF Init
    <3>2. QED
      BY <2>1, <3>1, WritesOf
  <2>4. Write(Locks, disk[Locks]) \in Writes
    <3>1. disk[Locks] = {}
      BY PlacesAre DEF Init
    <3>2. QED
      BY <2>1, <3>1, WritesOf
  <2>5. \A p \in Slots : Write(Cheat(p), disk[Cheat(p)]) \in Writes /\ Write(Saves(p), disk[Saves(p)]) \in Writes
    <3> TAKE p \in Slots
    <3>1. disk[Cheat(p)] = {} /\ disk[Saves(p)] = {}
      BY PlacesAre DEF Init
    <3>2. QED
      BY <2>1, <3>1, WritesOf
  <2>6. QED
    BY <2>2, <2>3, <2>4, <2>5, PlacesAre
<1>3. touched \in [Slots -> SUBSET Keys]
  <2>1. {r.key : r \in OldRows} \in SUBSET Keys
    BY DEF Rows
  <2>2. QED
    BY <2>1 DEF Init
<1>4. DOMAIN disk = Places /\ todo \in Seq(Writes)
  BY DEF Init
<1>5. /\ on \in BOOLEAN /\ writable \in BOOLEAN /\ leaving \in BOOLEAN
      /\ dirty \in BOOLEAN /\ locksDirty \in BOOLEAN /\ cheatsDirty \in BOOLEAN
      /\ present \in SUBSET Games /\ newest \in Stamps /\ cheats \in SUBSET Keys
      /\ used \in SUBSET Slots /\ active \in Slots
  BY DEF Init, Stamps
<1>6. QED
  BY <1>1, <1>2, <1>3, <1>4, <1>5, Zenon DEF TypeOK, Records

\* A write done, whole or half, leaves each file what it may hold.
LEMMA DiskTypes ==
  ASSUME TypeOK, NEW w \in Writes, disk' = [disk EXCEPT ![w.at] = w.to]
  PROVE  DOMAIN disk' = Places /\ \A f \in Places : Write(f, disk'[f]) \in Writes
<1>1. DOMAIN disk = Places /\ \A f \in Places : Write(f, disk[f]) \in Writes
  BY DEF TypeOK
<1>2. w.at \in Places /\ Write(w.at, w.to) \in Writes
  BY WritesAre
<1>3. QED
  BY <1>1, <1>2

\* What a power cut leaves of a write that was begun is something the file may
\* hold; nothing, unless it is the roster or a folder of saves.
LEMMA HalvesAre ==
  ASSUME TypeOK, NEW w \in Writes, NEW half \in Halves(w)
  PROVE  /\ Write(w.at, half) \in Writes
         /\ w.at # Ini => half = {} \/ \E p \in Slots : w.at = Saves(p) /\ half \subseteq disk[w.at]
<1>1. CASE w.at = Ini
  <2>1. w.to \in [used : SUBSET Slots, active : Slots]
    BY <1>1, WritesAre
  <2>2. PICK k \in Slots, a \in {0, w.to.active} :
           half = [used |-> {0} \cup {p \in w.to.used : p < k}, active |-> a]
    BY <1>1 DEF Halves
  <2>3. {0} \cup {p \in w.to.used : p < k} \in SUBSET Slots /\ a \in Slots
    BY <2>1, DataAssumption
  <2>4. QED
    BY <1>1, <2>2, <2>3, WritesOf
<1>2. CASE w.at # Ini /\ w.at \in {Saves(p) : p \in Slots}
  <2>1. PICK p \in Slots : w.at = Saves(p)
    BY <1>2
  <2>2. half \in SUBSET disk[Saves(p)]
    BY <1>2, <2>1 DEF Halves
  <2>3. half \in SUBSET Games
    BY <2>2, FilesAre
  <2>4. QED
    BY <2>1, <2>2, <2>3, WritesOf
<1>3. CASE w.at # Ini /\ w.at \notin {Saves(p) : p \in Slots}
  <2>1. half = {}
    BY <1>3 DEF Halves
  <2>2. w.at \in Places
    BY WritesAre
  <2>3. w.at = Locks \/ \E p \in Slots : w.at = Play(p) \/ w.at = Cheat(p)
    BY <1>3, <2>2, PlacesAre
  <2>4. QED
    BY <1>3, <2>1, <2>3, WritesOf
<1>4. QED
  BY <1>1, <1>2, <1>3

\* One of a handler's writes is done.
LEMMA WriteFileTypes == TypeOK /\ WriteFile => TypeOK'
<1> SUFFICES ASSUME TypeOK, WriteFile PROVE TypeOK'
  OBVIOUS
<1>1. Head(todo) \in Writes /\ Tail(todo) \in Seq(Writes)
  BY HeadTailProperties DEF TypeOK, WriteFile
<1>2. DOMAIN disk' = Places /\ \A f \in Places : Write(f, disk'[f]) \in Writes
  BY <1>1, DiskTypes DEF WriteFile
<1>3. todo' \in Seq(Writes)
  BY <1>1 DEF WriteFile
<1>4. QED
  BY <1>2, <1>3, Zenon DEF TypeOK, WriteFile, ram

\* The power leaves the card as it was or with one of the pending writes half
\* done.
LEMMA PowerOffDisk ==
  ASSUME TypeOK, PowerOff
  PROVE  \/ disk' = disk
         \/ \E w \in ToSet(todo) : \E half \in Halves(w) :
               w \in Writes /\ w.at[1] \in Torn /\ disk' = [disk EXCEPT ![w.at] = half]
<1>1. CASE todo # <<>>
  <2>1. Head(todo) \in ToSet(todo) /\ Head(todo) \in Writes
    <3>1. todo \in Seq(Writes)
      BY DEF TypeOK
    <3>2. Len(todo) \in Nat /\ DOMAIN todo = 1 .. Len(todo) /\ Len(todo) # 0
      BY <1>1, <3>1, LenProperties, EmptySeq
    <3>3. Head(todo) = todo[1] /\ 1 \in DOMAIN todo
      BY <3>1, <3>2
    <3>4. QED
      BY <1>1, <3>1, <3>3, HeadTailProperties DEF ToSet
  <2>2. QED
    BY <2>1 DEF PowerOff
<1>2. CASE todo = <<>>
  BY <1>2 DEF PowerOff
<1>3. QED
  BY <1>1, <1>2

\* The power goes.
LEMMA PowerOffTypes == TypeOK /\ PowerOff => TypeOK'
<1> SUFFICES ASSUME TypeOK, PowerOff PROVE TypeOK'
  OBVIOUS
<1> USE DataAssumption
<1>1. DOMAIN disk' = Places /\ \A f \in Places : Write(f, disk'[f]) \in Writes
  <2>1. CASE disk' = disk
    BY <2>1 DEF TypeOK
  <2>2. ASSUME NEW w \in Writes, NEW half \in Halves(w), disk' = [disk EXCEPT ![w.at] = half]
        PROVE  DOMAIN disk' = Places /\ \A f \in Places : Write(f, disk'[f]) \in Writes
    <3>1. Write(w.at, half) \in Writes /\ Write(w.at, half).at = w.at /\ Write(w.at, half).to = half
      BY HalvesAre, AtTo
    <3>2. QED
      BY <2>2, <3>1, DiskTypes
  <2>3. QED
    BY <2>1, <2>2, PowerOffDisk
<1>2. rec' \in [Games -> Records]
  BY DEF PowerOff, Unread, Blank, Records, Stamps
<1>3. /\ on' \in BOOLEAN /\ writable' \in BOOLEAN /\ leaving' \in BOOLEAN
      /\ dirty' \in BOOLEAN /\ locksDirty' \in BOOLEAN /\ cheatsDirty' \in BOOLEAN
      /\ present' \in SUBSET Games /\ newest' \in Stamps /\ cheats' \in SUBSET Keys
      /\ used' \in SUBSET Slots /\ active' \in Slots /\ todo' \in Seq(Writes)
  <2>1. todo' = <<>> /\ newest' = 0 /\ 0 \in Stamps /\ 0 \in Slots
    BY DEF PowerOff, Stamps
  <2>2. <<>> \in Seq(Writes)
    OBVIOUS
  <2>3. QED
    BY <2>1, <2>2, Zenon DEF PowerOff
<1>4. touched' \in [Slots -> SUBSET Keys]
  BY DEF PowerOff, TypeOK
<1>5. QED
  BY <1>1, <1>2, <1>3, <1>4, Zenon DEF TypeOK, Records

\* app_init() loads records of the right type from any card.
LEMMA BootTypes == TypeOK /\ Boot => TypeOK'
<1> SUFFICES ASSUME TypeOK, Boot PROVE TypeOK'
  OBVIOUS
<1> USE DataAssumption
<1>1. BootAs \in Slots /\ disk[Play(BootAs)] \in SUBSET Rows /\ disk[Cheat(BootAs)] \in SUBSET Keys
  BY FilesAre DEF BootAs
<1>2. present' \in SUBSET Games /\ writable' \in BOOLEAN
  BY DEF Boot
<1> DEFINE played == Applied(disk[Play(BootAs)], present', Unread)
<1>3. played \in [Games -> Records]
  <2>1. Unread \in [Games -> Records]
    BY DEF Unread, Blank, Records, Stamps
  <2>2. QED
    BY <1>1, <2>1, AppliedType
<1>4. rec' \in [Games -> Records] /\ locksDirty' \in BOOLEAN
  <2>1. /\ rec' = [g \in Games |->
                     [played[g] EXCEPT !.locked = @ \/ (g \in present' /\ Key[g] \in disk[Locks])]]
        /\ locksDirty' = (disk[Locks] = {} /\ \E g \in Games : played[g].locked)
    BY DEF Boot
  <2> HIDE DEF played
  <2>2. \A g \in Games : [played[g] EXCEPT !.locked = @ \/ (g \in present' /\ Key[g] \in disk[Locks])] \in Records
    <3> TAKE g \in Games
    <3> DEFINE l == played[g].locked \/ (g \in present' /\ Key[g] \in disk[Locks])
    <3>1. l \in BOOLEAN
      OBVIOUS
    <3>2. played[g] \in Records
      BY <1>3
    <3> HIDE DEF l
    <3>3. [played[g] EXCEPT !.locked = l] \in Records
      BY <3>1, <3>2 DEF Records
    <3>4. QED
      BY <3>3 DEF l
  <2>3. QED
    BY <2>1, <2>2
<1>5. newest' \in Stamps
  <2>1. 0 \in Stamps
    BY DEF Stamps
  <2>2. QED
    BY <1>1, <1>2, <2>1, NewestIs DEF Boot
<1>6. used' \in SUBSET Slots /\ active' \in Slots /\ cheats' \in SUBSET Keys
  BY <1>1, FilesAre DEF Boot
<1>7. /\ on' \in BOOLEAN /\ leaving' \in BOOLEAN /\ dirty' \in BOOLEAN /\ cheatsDirty' \in BOOLEAN
      /\ todo' \in Seq(Writes) /\ DOMAIN disk' = Places
      /\ touched' \in [Slots -> SUBSET Keys]
  BY DEF Boot, TypeOK
<1>8. \A f \in Places : Write(f, disk'[f]) \in Writes
  BY DEF Boot, TypeOK
<1>9. QED
  BY <1>2, <1>4, <1>5, <1>6, <1>7, <1>8, Zenon DEF TypeOK, Records

\* The history of what a player did to his games.
LEMMA TouchTypes ==
  ASSUME TypeOK, NEW g \in Games, Touch(Key[g])
  PROVE  touched' \in [Slots -> SUBSET Keys]
BY DEF Touch, TypeOK, Keys

\* A title is favourited.
LEMMA FavouriteTypes ==
  ASSUME TypeOK, NEW g \in Games, Favourite(g)
  PROVE  TypeOK'
<1>1. touched' \in [Slots -> SUBSET Keys]
  BY TouchTypes DEF Favourite
<1>2. rec' \in [Games -> Records]
  BY DEF Favourite, TypeOK, Records
<1>3. dirty' \in BOOLEAN
  BY DEF Favourite
<1>4. QED
  BY <1>1, <1>2, <1>3, Zenon DEF TypeOK, Records, Favourite

\* The parent moves a padlock.
LEMMA ToggleLockTypes ==
  ASSUME TypeOK, NEW g \in Games, ToggleLock(g)
  PROVE  TypeOK'
<1>1. rec' \in [Games -> Records] /\ locksDirty' \in BOOLEAN
  BY DEF ToggleLock, TypeOK, Records
<1>2. QED
  BY <1>1, Zenon DEF TypeOK, Records, ToggleLock

\* cheatstate_capture() keeps keys.
LEMMA CapturedIs ==
  ASSUME TypeOK, NEW g \in Games, NEW ticked
  PROVE  Captured(Key[g], ticked) \in SUBSET Keys
BY DEF Captured, TypeOK, Keys

\* A game's sheet is left.
LEMMA LeaveSheetTypes ==
  ASSUME TypeOK, NEW g \in Games, NEW ticked \in BOOLEAN, LeaveSheet(g, ticked)
  PROVE  TypeOK'
<1>1. touched' \in [Slots -> SUBSET Keys]
  BY TouchTypes DEF LeaveSheet
<1>2. cheats' \in SUBSET Keys
  BY CapturedIs DEF LeaveSheet
<1>3. todo' \in Seq(Writes)
  <2>1. SaveCheats(cheats', active) \in Writes
    BY <1>2, SavesAre DEF TypeOK
  <2>2. QED
    BY <2>1 DEF LeaveSheet, Script
<1>4. cheatsDirty' \in BOOLEAN
  BY DEF LeaveSheet, TypeOK
<1>5. QED
  BY <1>1, <1>2, <1>3, <1>4, Zenon DEF TypeOK, LeaveSheet

\* What a launch writes.
LaunchOrders(g, ticked, boots) ==
    {Write(Saves(active), disk[Saves(active)] \cup {g}), SavePlay(rec', active)}
    \cup ToSet(When(CheatsMoved(Key[g], ticked), SaveCheats(cheats', active)))
    \cup ToSet(When(boots /\ locksDirty, SaveLocks))

LEMMA LaunchWrites ==
  ASSUME TypeOK, NEW g \in Games, NEW ticked \in BOOLEAN, NEW t \in Clock, NEW boots \in BOOLEAN,
         Launch(g, ticked, t, boots)
  PROVE  /\ rec' \in [Games -> Records] /\ newest' \in Stamps /\ cheats' \in SUBSET Keys
         /\ todo' \in Seq(Writes)
         /\ ~ writable => todo' = <<>>
         /\ writable => ToSet(todo') = LaunchOrders(g, ticked, boots)
<1>1. Stamped(t) \in Stamps
  BY DataAssumption DEF Stamped, Stamps, TypeOK
<1>2. newest' \in Stamps /\ cheats' \in SUBSET Keys /\ rec' \in [Games -> Records]
  <2>1. rec' = [rec EXCEPT ![g].stamp = Stamped(t), ![g].played = TRUE]
    BY DEF Launch
  <2>2. rec' \in [Games -> Records]
    BY <1>1, <2>1 DEF TypeOK, Records
  <2>3. QED
    BY <1>1, <2>2, CapturedIs DEF Launch
<1> DEFINE w1 == Write(Saves(active), disk[Saves(active)] \cup {g})
           w2 == SavePlay(rec', active)
           w3 == SaveCheats(cheats', active)
           s1 == <<w1, w2>>
           s3 == When(CheatsMoved(Key[g], ticked), w3)
           s4 == When(boots /\ locksDirty, SaveLocks)
<1>3. w1 \in Writes /\ w2 \in Writes /\ w3 \in Writes /\ SaveLocks \in Writes
  <2>1. active \in Slots
    BY DEF TypeOK
  <2>2. disk[Saves(active)] \cup {g} \in SUBSET Games
    BY <2>1, FilesAre
  <2>3. QED
    BY <1>2, <2>1, <2>2, SavesAre, WritesOf
<1>4. todo' = Script(s1 \o s3 \o s4)
  BY DEF Launch
<1> HIDE DEF w1, w2, w3
<1>5. s1 \in Seq(Writes) /\ ToSet(s1) = {w1, w2}
  BY <1>3, LiteralElements
<1>6. s3 \in Seq(Writes) /\ s4 \in Seq(Writes)
  BY <1>3, WhenIs
<1> HIDE DEF s1, s3, s4
<1> DEFINE u == s1 \o s3
<1>7. u \in Seq(Writes) /\ ToSet(u) = ToSet(s1) \cup ToSet(s3)
  BY <1>5, <1>6, ConcatElements
<1>8. u \o s4 \in Seq(Writes) /\ ToSet(u \o s4) = ToSet(u) \cup ToSet(s4)
  <2> HIDE DEF u
  <2>1. QED
    BY <1>6, <1>7, ConcatElements
<1>9. <<>> \in Seq(Writes)
  OBVIOUS
<1>10. /\ todo' \in Seq(Writes)
       /\ ~ writable => todo' = <<>>
       /\ writable => ToSet(todo') = {w1, w2} \cup ToSet(s3) \cup ToSet(s4)
  BY <1>4, <1>5, <1>7, <1>8, <1>9 DEF Script
<1>11. QED
  BY <1>2, <1>10 DEF w1, w2, w3, s3, s4, LaunchOrders

\* A game is started.
LEMMA LaunchTypes ==
  ASSUME TypeOK, NEW g \in Games, NEW ticked \in BOOLEAN, NEW t \in Clock, NEW boots \in BOOLEAN,
         Launch(g, ticked, t, boots)
  PROVE  TypeOK'
<1>1. touched' \in [Slots -> SUBSET Keys]
  BY TouchTypes DEF Launch
<1>2. /\ rec' \in [Games -> Records] /\ newest' \in Stamps /\ cheats' \in SUBSET Keys
      /\ todo' \in Seq(Writes)
  BY LaunchWrites
<1>3. dirty' \in BOOLEAN /\ cheatsDirty' \in BOOLEAN /\ locksDirty' \in BOOLEAN /\ leaving' \in BOOLEAN
  BY DEF Launch, TypeOK
<1>4. QED
  BY <1>1, <1>2, <1>3, Zenon DEF TypeOK, Records, Launch

\* A slot is filled.
LEMMA AddProfileTypes ==
  ASSUME TypeOK, NEW p \in Slots, AddProfile(p)
  PROVE  TypeOK'
<1>1. used' \in SUBSET Slots
  BY DEF AddProfile, TypeOK
<1>2. todo' \in Seq(Writes)
  <2>1. SaveRoster(used', active) \in Writes
    BY <1>1, SavesAre DEF TypeOK
  <2>2. QED
    BY <2>1 DEF AddProfile, Script
<1>3. touched' \in [Slots -> SUBSET Keys]
  BY DEF AddProfile, TypeOK
<1>4. QED
  BY <1>1, <1>2, <1>3, Zenon DEF TypeOK, AddProfile

\* The records profile_activate() clears before it loads.
LEMMA ClearedType == TypeOK => Cleared \in [Games -> Records]
<1> SUFFICES ASSUME TypeOK PROVE Cleared \in [Games -> Records]
  OBVIOUS
<1>1. 0 \in Stamps
  BY DataAssumption DEF Stamps
<1>2. ASSUME NEW g \in Games
      PROVE  [rec[g] EXCEPT !.fav = FALSE, !.stamp = 0, !.played = FALSE] \in Records
  <2>1. rec[g] \in Records
    BY DEF TypeOK, Records
  <2>2. QED
    BY <1>1, <2>1 DEF Records
<1>3. QED
  BY <1>2 DEF Cleared

\* A player is activated, whatever was written before.
LEMMA ActivateTypes ==
  ASSUME TypeOK, NEW begun \in Seq(Writes), NEW from \in Slots, NEW p \in Slots,
         NEW roster \in SUBSET Slots, Activate(begun, from, p, roster)
  PROVE  TypeOK'
<1> DEFINE script == Switching(begun, from, p, roster)
           rows == After(script)[Play(p)]
<1>1. script \in Seq(Writes)
  BY SwitchingIs
<1>2. rows \in SUBSET Rows /\ After(script)[Cheat(p)] \in SUBSET Keys
  <2> HIDE DEF script
  <2>1. QED
    BY <1>1, AfterType
<1>3. /\ todo' = script /\ active' = p /\ used' = roster
      /\ rec' = Applied(rows, present, Cleared)
      /\ newest' = NewestOf(rows, present, newest)
      /\ dirty' = (dirty /\ ~ writable /\ rows = {})
      /\ cheats' = After(script)[Cheat(p)]
      /\ cheatsDirty' = FALSE
      /\ UNCHANGED <<on, present, writable, locksDirty, leaving, disk, touched>>
  BY ActivateIs
<1> HIDE DEF script, rows
<1>4. rec' \in [Games -> Records]
  BY <1>2, <1>3, ClearedType, AppliedType
<1>5. newest' \in Stamps
  BY <1>2, <1>3, NewestIs DEF TypeOK
<1>6. dirty' \in BOOLEAN /\ cheatsDirty' \in BOOLEAN
  BY <1>3 DEF TypeOK
<1>7. QED
  BY <1>1, <1>2, <1>3, <1>4, <1>5, <1>6, Zenon DEF TypeOK, Records

\* Every step keeps the types.
LEMMA NextTypes == TypeOK /\ [Next]_vars => TypeOK'
<1> SUFFICES ASSUME TypeOK, [Next]_vars PROVE TypeOK'
  OBVIOUS
<1>1. CASE UNCHANGED vars
  BY <1>1, Zenon DEF TypeOK, vars, ram
<1>2. ASSUME NEW p \in Slots, Choose(p) \/ Delete(p) PROVE TypeOK'
  BY <1>2, SwitchIs, ActivateTypes
<1>3. QED
  BY <1>1, <1>2, WriteFileTypes, PowerOffTypes, BootTypes, FavouriteTypes, ToggleLockTypes,
     LeaveSheetTypes, LaunchTypes, AddProfileTypes DEF Next, Handler

\* Every variable has its type whatever the handlers do and whenever the power
\* goes: no timestamp leaves its 32 bits, and the card only ever holds what a
\* load can read (playstate.c, profile.c, cheatstate.c, locks.c).
THEOREM TypeCorrect == Spec => []TypeOK
<1>1. QED
  BY InitTypes, NextTypes, PTL DEF Spec

-----------------------------------------------------------------------------
(***************************************************************************)
(* The game just played outranks every other, as long as the timestamps do *)
(* not run out: newest_stamp is never behind a record's.                   *)
(***************************************************************************)
NewestInv == on => \A g \in Games : rec[g].stamp <= newest

\* After a load no record is ahead of newest_stamp that was not before.
LEMMA AppliedNewest ==
  ASSUME NEW rows \in SUBSET Rows, NEW games \in SUBSET Games, NEW base \in Stamps,
         NEW from, \A g \in Games : from[g].stamp = 0, NEW g \in Games
  PROVE  Applied(rows, games, from)[g].stamp <= NewestOf(rows, games, base)
<1>1. /\ NewestOf(rows, games, base) \in Stamps
      /\ \A r \in rows : g \in games /\ r.key = Key[g] => r.stamp <= NewestOf(rows, games, base)
  BY NewestIs
<1>2. NewestOf(rows, games, base) >= 0
  BY <1>1, DataAssumption DEF Stamps
<1>3. \/ Applied(rows, games, from)[g].stamp = 0
      \/ \E r \in rows : g \in games /\ r.key = Key[g] /\ Applied(rows, games, from)[g].stamp = r.stamp
  <2>1. \/ Applied(rows, games, from)[g] = from[g]
        \/ /\ g \in games
           /\ \E r \in rows :
                  r.key = Key[g] /\ Applied(rows, games, from)[g] = Told(from[g], r)
    BY AppliedIs
  <2>2. ASSUME NEW r \in rows, Applied(rows, games, from)[g] = Told(from[g], r)
        PROVE  Applied(rows, games, from)[g].stamp = r.stamp
    BY <2>2 DEF Told
  <2>3. CASE Applied(rows, games, from)[g] = from[g]
    BY <2>3
  <2>4. QED
    BY <2>1, <2>2, <2>3
<1>4. QED
  BY <1>1, <1>2, <1>3

\* What the next play is stamped with, while the numbers last.
LEMMA StampedIsNewest ==
  ASSUME MaxNewest < MaxStamp, TypeOK, newest <= MaxNewest, NEW t \in Clock
  PROVE  Stamped(t) > newest
<1>1. newest \in Nat /\ t \in Nat /\ newest + 1 \in 0 .. MaxStamp /\ MaxStamp \in Nat
  BY DataAssumption DEF TypeOK, Stamps
<1>2. (newest + 1) % (MaxStamp + 1) = newest + 1
  BY <1>1
<1>3. QED
  BY <1>1, <1>2 DEF Stamped

\* playstate_played() stamps the game just played above every other.
LEMMA LaunchStamps ==
  ASSUME MaxNewest < MaxStamp, TypeOK, NewestInv, NEW g \in Games, NEW ticked \in BOOLEAN,
         NEW t \in Clock, NEW boots \in BOOLEAN, Launch(g, ticked, t, boots)
  PROVE  /\ on
         /\ newest' \in Stamps /\ newest' = rec'[g].stamp
         /\ \A h \in Games \ {g} : rec'[h] = rec[h] /\ rec'[h].stamp < rec'[g].stamp
<1>1. rec' = [rec EXCEPT ![g].stamp = Stamped(t), ![g].played = TRUE] /\ newest' = Stamped(t) /\ on
  BY DEF Launch, Idle
<1>2. rec'[g].stamp = Stamped(t) /\ \A h \in Games \ {g} : rec'[h] = rec[h]
  BY <1>1 DEF TypeOK
<1>3. Stamped(t) > newest /\ Stamped(t) \in Stamps
  <2>1. newest <= MaxNewest
    BY DEF Launch
  <2>2. QED
    BY <2>1, StampedIsNewest, DataAssumption DEF Stamped, Stamps, TypeOK
<1>4. \A h \in Games : rec[h].stamp \in Nat /\ newest \in Nat /\ rec[h].stamp <= newest
  BY <1>1, DataAssumption DEF NewestInv, TypeOK, Stamps
<1>5. newest' \in Stamps /\ newest' = rec'[g].stamp
  BY <1>1, <1>2, <1>3
<1>6. ASSUME NEW h \in Games \ {g} PROVE rec'[h] = rec[h] /\ rec'[h].stamp < rec'[g].stamp
  <2>1. Stamped(t) \in Nat
    BY <1>3, DataAssumption DEF Stamps
  <2>2. rec[h].stamp < Stamped(t)
    BY <1>3, <1>4, <2>1
  <2>3. QED
    BY <1>2, <2>2
<1>7. QED
  BY <1>1, <1>5, <1>6

\* Nothing is played yet.
LEMMA InitNewest == Init => NewestInv
BY DEF Init, NewestInv

\* No load, launch or switch of players leaves newest_stamp behind a record.
LEMMA NextNewest ==
  ASSUME MaxNewest < MaxStamp
  PROVE  TypeOK /\ NewestInv /\ [Next]_vars => NewestInv'
<1> SUFFICES ASSUME TypeOK, NewestInv, [Next]_vars PROVE NewestInv'
  OBVIOUS
<1>1. ASSUME UNCHANGED <<on, rec, newest>> PROVE NewestInv'
  BY <1>1 DEF NewestInv
<1>2. CASE UNCHANGED vars
  BY <1>1, <1>2, Zenon DEF vars, ram
<1>3. CASE WriteFile
  BY <1>1, <1>3, Zenon DEF WriteFile, ram
<1>4. CASE PowerOff
  BY <1>4, Zenon DEF PowerOff, NewestInv
<1>5. CASE Boot
  <2>1. BootAs \in Slots /\ disk[Play(BootAs)] \in SUBSET Rows /\ present' \in SUBSET Games
    BY <1>5, FilesAre, DataAssumption DEF BootAs, Boot
  <2> DEFINE played == Applied(disk[Play(BootAs)], present', Unread)
  <2>2. \A g \in Games : played[g].stamp <= newest'
    <3>1. \A g \in Games : Unread[g].stamp = 0
      BY DEF Unread, Blank
    <3>2. 0 \in Stamps
      BY DataAssumption DEF Stamps
    <3>3. QED
      BY <1>5, <2>1, <3>1, <3>2, AppliedNewest DEF Boot
  <2>3. rec' = [g \in Games |->
                  [played[g] EXCEPT !.locked = @ \/ (g \in present' /\ Key[g] \in disk[Locks])]]
    BY <1>5 DEF Boot
  <2>4. played \in [Games -> Records]
    <3>1. Unread \in [Games -> Records]
      BY DataAssumption DEF Unread, Blank, Records, Stamps
    <3>2. QED
      BY <2>1, <3>1, AppliedType
  <2> HIDE DEF played
  <2>5. \A g \in Games : rec'[g].stamp = played[g].stamp
    BY <2>3, <2>4 DEF Records
  <2>6. QED
    BY <2>2, <2>5 DEF NewestInv
<1>6. ASSUME NEW g \in Games, Favourite(g) PROVE NewestInv'
  <2>1. rec' = [rec EXCEPT ![g].fav = ~ @] /\ newest' = newest /\ on
    BY <1>6 DEF Favourite, Idle
  <2>2. \A h \in Games : rec'[h].stamp = rec[h].stamp
    BY <2>1 DEF TypeOK
  <2>3. QED
    BY <2>1, <2>2 DEF NewestInv
<1>7. ASSUME NEW g \in Games, ToggleLock(g) PROVE NewestInv'
  <2>1. rec' = [rec EXCEPT ![g].locked = ~ @] /\ newest' = newest /\ on
    BY <1>7 DEF ToggleLock, Idle
  <2>2. \A h \in Games : rec'[h].stamp = rec[h].stamp
    BY <2>1 DEF TypeOK
  <2>3. QED
    BY <2>1, <2>2 DEF NewestInv
<1>8. ASSUME NEW g \in Games, NEW ticked \in BOOLEAN, LeaveSheet(g, ticked) PROVE NewestInv'
  BY <1>1, <1>8, Zenon DEF LeaveSheet
<1>9. ASSUME NEW g \in Games, NEW ticked \in BOOLEAN, NEW t \in Clock, NEW boots \in BOOLEAN,
             Launch(g, ticked, t, boots)
      PROVE  NewestInv'
  <2>1. /\ newest' \in Stamps /\ newest' = rec'[g].stamp
        /\ \A h \in Games \ {g} : rec'[h] = rec[h] /\ rec'[h].stamp < rec'[g].stamp
    BY <1>9, LaunchStamps
  <2>2. \A h \in Games : rec[h].stamp \in Int /\ newest' \in Int
    BY <2>1, DataAssumption DEF TypeOK, Stamps
  <2>3. QED
    BY <2>1, <2>2 DEF NewestInv
<1>10. ASSUME NEW p \in Slots, AddProfile(p) PROVE NewestInv'
  BY <1>1, <1>10, Zenon DEF AddProfile
<1>11. ASSUME NEW p \in Slots, Choose(p) \/ Delete(p) PROVE NewestInv'
  <2>1. PICK begun \in Seq(Writes), from \in Slots, q \in Slots, roster \in SUBSET Slots :
           Activate(begun, from, q, roster)
    BY <1>11, SwitchIs
  <2> DEFINE script == Switching(begun, from, q, roster)
             rows == After(script)[Play(q)]
  <2>2. rows \in SUBSET Rows
    <3>1. script \in Seq(Writes)
      BY SwitchingIs
    <3>2. QED
      BY <3>1, AfterType
  <2>3. rec' = Applied(rows, present, Cleared) /\ newest' = NewestOf(rows, present, newest)
    BY <2>1, ActivateIs
  <2> HIDE DEF script, rows
  <2>4. \A g \in Games : Cleared[g].stamp = 0
    BY DEF Cleared, TypeOK
  <2>5. newest \in Stamps /\ present \in SUBSET Games
    BY DEF TypeOK
  <2>6. \A g \in Games : rec'[g].stamp <= newest'
    BY <2>2, <2>3, <2>4, <2>5, AppliedNewest
  <2>7. QED
    BY <2>6 DEF NewestInv
<1>12. QED
  BY <1>2, <1>3, <1>4, <1>5, <1>6, <1>7, <1>8, <1>9, <1>10, <1>11 DEF Next, Handler

\* With newest_stamp ahead of the records a step that changes a play is a launch
\* that outranks them.
LEMMA StepPlayedIsNewest ==
  ASSUME MaxNewest < MaxStamp
  PROVE  TypeOK /\ NewestInv /\ [Next]_vars =>
            [on /\ on' /\ active' = active /\ used' = used =>
              \A g \in Games :
                 rec'[g].played /\ <<rec'[g].played, rec'[g].stamp>> # <<rec[g].played, rec[g].stamp>>
                     => \A h \in Games \ {g} : rec'[h].stamp < rec'[g].stamp]_vars
<1> DEFINE Outranks ==
              \A g \in Games :
                 rec'[g].played /\ <<rec'[g].played, rec'[g].stamp>> # <<rec[g].played, rec[g].stamp>>
                     => \A h \in Games \ {g} : rec'[h].stamp < rec'[g].stamp
<1> SUFFICES ASSUME TypeOK, NewestInv, Next, on, on', active' = active, used' = used
             PROVE  Outranks
  BY DEF vars, ram
<1>1. ASSUME \A g \in Games : rec'[g].played = rec[g].played /\ rec'[g].stamp = rec[g].stamp
      PROVE  Outranks
  BY <1>1
<1>2. CASE WriteFile
  BY <1>1, <1>2 DEF WriteFile, ram
<1>3. CASE PowerOff \/ Boot
  BY <1>3, Zenon DEF PowerOff, Boot
<1>4. ASSUME NEW g \in Games, Favourite(g) \/ ToggleLock(g) PROVE Outranks
  <2>1. \A h \in Games : rec'[h].played = rec[h].played /\ rec'[h].stamp = rec[h].stamp
    BY <1>4 DEF Favourite, ToggleLock, TypeOK
  <2>2. QED
    BY <1>1, <2>1
<1>5. ASSUME NEW g \in Games, NEW ticked \in BOOLEAN, LeaveSheet(g, ticked) PROVE Outranks
  BY <1>1, <1>5 DEF LeaveSheet
<1>6. ASSUME NEW g \in Games, NEW ticked \in BOOLEAN, NEW t \in Clock, NEW boots \in BOOLEAN,
             Launch(g, ticked, t, boots)
      PROVE  Outranks
  <2>1. \A h \in Games \ {g} : rec'[h] = rec[h] /\ rec'[h].stamp < rec'[g].stamp
    BY <1>6, LaunchStamps
  <2>2. QED
    BY <2>1
<1>7. ASSUME NEW p \in Slots, AddProfile(p) PROVE Outranks
  BY <1>1, <1>7 DEF AddProfile
<1>8. ASSUME NEW p \in Slots, Choose(p) \/ Delete(p) PROVE Outranks
  <2>1. CASE Choose(p)
    BY <2>1 DEF Choose, Activate
  <2>2. CASE Delete(p)
    <3>1. used' = used \ {p} /\ p \in used
      BY <2>2 DEF Delete, Activate
    <3>2. QED
      BY <3>1
  <2>3. QED
    BY <1>8, <2>1, <2>2
<1>9. QED
  BY <1>2, <1>3, <1>4, <1>5, <1>6, <1>7, <1>8 DEF Next, Handler

\* PlayedIsNewest: playstate_played() makes the game just played outrank every
\* game played before, across boots, switches and whatever the clock says, for any
\* games and players, as long as no game is started on the last timestamp
\* (2^32 - 1), where the one after it wraps to 0.
THEOREM PlayedOutranksAll ==
  ASSUME MaxNewest < MaxStamp
  PROVE  Spec => PlayedIsNewest
<1>1. TypeOK /\ [Next]_vars => TypeOK'
  BY NextTypes
<1>2. TypeOK /\ NewestInv /\ [Next]_vars => NewestInv'
  BY NextNewest
<1>3. TypeOK /\ NewestInv /\ [Next]_vars =>
            [on /\ on' /\ active' = active /\ used' = used =>
              \A g \in Games :
                 rec'[g].played /\ <<rec'[g].played, rec'[g].stamp>> # <<rec[g].played, rec[g].stamp>>
                     => \A h \in Games \ {g} : rec'[h].stamp < rec'[g].stamp]_vars
  BY StepPlayedIsNewest
<1>4. QED
  BY <1>1, <1>2, <1>3, InitTypes, InitNewest, PTL DEF Spec, PlayedIsNewest

-----------------------------------------------------------------------------
(***************************************************************************)
(* How the files and the pending writes change, for the invariants that    *)
(* speak of them.                                                          *)
(***************************************************************************)
LEMMA PendingAre ==
  ASSUME TypeOK
  PROVE  /\ \A w \in ToSet(todo) : w \in Writes
         /\ todo = <<>> <=> ToSet(todo) = {}
         /\ Len(todo) \in Nat /\ DOMAIN todo = 1 .. Len(todo)
<1>1. todo \in Seq(Writes)
  BY DEF TypeOK
<1>2. Len(todo) \in Nat /\ DOMAIN todo = 1 .. Len(todo) /\ todo \in [1 .. Len(todo) -> Writes]
  BY <1>1, LenProperties
<1>3. \A w \in ToSet(todo) : w \in Writes
  BY <1>2 DEF ToSet
<1>4. todo = <<>> => ToSet(todo) = {}
  BY DEF ToSet
<1>5. ASSUME todo # <<>> PROVE ToSet(todo) # {}
  <2>1. 1 \in DOMAIN todo
    BY <1>1, <1>2, <1>5, EmptySeq
  <2>2. QED
    BY <2>1 DEF ToSet
<1>6. QED
  BY <1>2, <1>3, <1>4, <1>5

\* A write done takes the first of the script and leaves the rest.
LEMMA WriteFileIs ==
  ASSUME TypeOK, WriteFile
  PROVE  /\ DOMAIN todo' = 1 .. Len(todo) - 1 /\ Len(todo) - 1 \in Nat
         /\ \A k \in DOMAIN todo' : k + 1 \in DOMAIN todo /\ todo'[k] = todo[k + 1]
         /\ ToSet(todo) = {todo[1]} \cup ToSet(todo')
         /\ 1 \in DOMAIN todo /\ todo[1] \in Writes /\ todo[1] \in ToSet(todo)
         /\ disk' = [disk EXCEPT ![todo[1].at] = todo[1].to]
         /\ disk'[todo[1].at] = todo[1].to
         /\ \A f \in Places : f # todo[1].at => disk'[f] = disk[f]
<1>1. todo \in Seq(Writes) /\ todo # <<>> /\ todo' = Tail(todo)
  BY DEF TypeOK, WriteFile
<1>2. Len(todo) \in Nat /\ Len(todo) # 0 /\ DOMAIN todo = 1 .. Len(todo)
  BY <1>1, LenProperties, EmptySeq
<1>3. /\ todo' \in Seq(Writes) /\ Len(todo') = Len(todo) - 1
      /\ \A i \in 1 .. Len(todo') : todo'[i] = todo[i + 1]
  BY <1>1, HeadTailProperties
<1>4. DOMAIN todo' = 1 .. Len(todo) - 1 /\ Len(todo) - 1 \in Nat
  BY <1>2, <1>3, LenProperties
<1>5. \A k \in DOMAIN todo' : k + 1 \in DOMAIN todo /\ todo'[k] = todo[k + 1]
  BY <1>2, <1>3, <1>4
<1>6. 1 \in DOMAIN todo /\ todo[1] \in Writes /\ todo[1] \in ToSet(todo) /\ Head(todo) = todo[1]
  BY <1>1, <1>2, ElementOfSeq DEF ToSet
<1>7. ToSet(todo) = {todo[1]} \cup ToSet(todo')
  <2>1. \A k \in DOMAIN todo : k = 1 \/ (k - 1 \in DOMAIN todo' /\ todo[k] = todo'[k - 1])
    BY <1>2, <1>3, <1>4
  <2>2. QED
    BY <1>5, <1>6, <2>1 DEF ToSet
<1>8. disk' = [disk EXCEPT ![todo[1].at] = todo[1].to]
  BY <1>6 DEF WriteFile
<1>9. DOMAIN disk = Places /\ todo[1].at \in Places
  BY <1>6, WritesAre DEF TypeOK
<1>10. QED
  BY <1>4, <1>5, <1>6, <1>7, <1>8, <1>9

\* The power leaves a file as it was, or as little as a half write leaves.
LEMMA PowerOffIs ==
  ASSUME TypeOK, PowerOff
  PROVE  /\ ToSet(todo') = {} /\ todo' = <<>> /\ ~ on' /\ touched' = touched
         /\ "ini" \notin Torn => disk'[Ini] = disk[Ini]
         /\ \A p \in Slots : /\ disk'[Play(p)] \in {disk[Play(p)], {}}
                             /\ disk'[Cheat(p)] \in {disk[Cheat(p)], {}}
                             /\ disk'[Saves(p)] \subseteq disk[Saves(p)]
<1>1. ToSet(todo') = {} /\ todo' = <<>> /\ ~ on' /\ touched' = touched
  BY DEF PowerOff, ToSet
<1>2. CASE disk' = disk
  BY <1>1, <1>2
<1>3. ASSUME NEW w \in Writes, NEW half \in Halves(w), w.at[1] \in Torn,
             disk' = [disk EXCEPT ![w.at] = half]
      PROVE  /\ "ini" \notin Torn => disk'[Ini] = disk[Ini]
             /\ \A p \in Slots : /\ disk'[Play(p)] \in {disk[Play(p)], {}}
                                 /\ disk'[Cheat(p)] \in {disk[Cheat(p)], {}}
                                 /\ disk'[Saves(p)] \subseteq disk[Saves(p)]
  <2>1. \A f \in Places : disk'[f] = IF f = w.at THEN half ELSE disk[f]
    BY <1>3 DEF TypeOK
  <2>2. w.at # Ini => half = {} \/ \E p \in Slots : w.at = Saves(p) /\ half \subseteq disk[w.at]
    BY HalvesAre
  <2>3. "ini" \notin Torn => w.at # Ini
    BY <1>3 DEF Ini
  <2>4. "ini" \notin Torn => disk'[Ini] = disk[Ini]
    BY <2>1, <2>3, PlacesAre
  <2>5. \A p \in Slots : /\ disk'[Play(p)] \in {disk[Play(p)], {}}
                         /\ disk'[Cheat(p)] \in {disk[Cheat(p)], {}}
                         /\ disk'[Saves(p)] \subseteq disk[Saves(p)]
    BY <2>1, <2>2, PlacesAre
  <2>6. QED
    BY <2>4, <2>5
<1>4. QED
  BY <1>1, <1>2, <1>3, PowerOffDisk

\* What is pending after a sheet is left, a slot filled and somebody activated.
LEMMA LeaveSheetWrites ==
  ASSUME TypeOK, NEW g \in Games, NEW ticked \in BOOLEAN, LeaveSheet(g, ticked)
  PROVE  /\ cheats' \in SUBSET Keys
         /\ ~ writable => todo' = <<>>
         /\ writable => todo' = <<SaveCheats(cheats', active)>>
         /\ \A w \in ToSet(todo') : writable /\ w = SaveCheats(cheats', active)
<1>1. cheats' \in SUBSET Keys
  BY CapturedIs DEF LeaveSheet
<1>2. todo' = IF writable THEN <<SaveCheats(cheats', active)>> ELSE <<>>
  BY DEF LeaveSheet, Script
<1>3. QED
  BY <1>1, <1>2 DEF ToSet

\* What profile_add_at() has pending.
LEMMA AddProfileWrites ==
  ASSUME TypeOK, NEW p \in Slots, AddProfile(p)
  PROVE  /\ ~ writable => todo' = <<>>
         /\ writable => todo' = <<SaveRoster(used \cup {p}, active)>>
         /\ \A w \in ToSet(todo') : writable /\ w = SaveRoster(used \cup {p}, active)
<1>1. todo' = IF writable THEN <<SaveRoster(used \cup {p}, active)>> ELSE <<>>
  BY DEF AddProfile, Script
<1>2. /\ ToSet(<<>>) = {}
      /\ ToSet(<<SaveRoster(used \cup {p}, active)>>) = {SaveRoster(used \cup {p}, active)}
  BY DEF ToSet
<1>3. QED
  BY <1>1, <1>2, Zenon

\* What do_load() has pending.
LEMMA LaunchPending ==
  ASSUME TypeOK, NEW g \in Games, NEW ticked \in BOOLEAN, NEW t \in Clock, NEW boots \in BOOLEAN,
         Launch(g, ticked, t, boots)
  PROVE  \A w \in ToSet(todo') :
            /\ writable
            /\ w \in {Write(Saves(active), disk[Saves(active)] \cup {g}), SavePlay(rec', active),
                      SaveCheats(cheats', active), SaveLocks}
<1>1. /\ ~ writable => todo' = <<>>
      /\ writable => ToSet(todo') = LaunchOrders(g, ticked, boots)
      /\ rec' \in [Games -> Records] /\ cheats' \in SUBSET Keys
  BY LaunchWrites
<1>2. SaveCheats(cheats', active) \in Writes /\ SaveLocks \in Writes
  BY <1>1, SavesAre DEF TypeOK
<1>3. /\ ToSet(When(CheatsMoved(Key[g], ticked), SaveCheats(cheats', active))) \subseteq {SaveCheats(cheats', active)}
      /\ ToSet(When(boots /\ locksDirty, SaveLocks)) \subseteq {SaveLocks}
  <2>1. ASSUME NEW needed, NEW w \in Writes PROVE ToSet(When(needed, w)) \subseteq {w}
    BY WhenIs
  <2>2. QED
    BY <1>2, <2>1
<1>4. ~ writable => ToSet(todo') = {}
  BY <1>1 DEF ToSet
<1>5. ASSUME NEW w \in ToSet(todo')
      PROVE  /\ writable
             /\ w \in {Write(Saves(active), disk[Saves(active)] \cup {g}), SavePlay(rec', active),
                       SaveCheats(cheats', active), SaveLocks}
  <2>1. writable
    BY <1>4
  <2>2. w \in {Write(Saves(active), disk[Saves(active)] \cup {g}), SavePlay(rec', active)}
             \cup ToSet(When(CheatsMoved(Key[g], ticked), SaveCheats(cheats', active)))
             \cup ToSet(When(boots /\ locksDirty, SaveLocks))
    <3>1. w \in LaunchOrders(g, ticked, boots)
      BY <1>1, <2>1, Zenon
    <3>2. QED
      BY <3>1 DEF LaunchOrders
  <2>3. QED
    BY <1>3, <2>1, <2>2, Zenon
<1>6. QED
  BY <1>5

\* What an activation has pending: the roster last, and what came before.
LEMMA SwitchingPending ==
  ASSUME TypeOK, NEW begun \in Seq(Writes), NEW from \in Slots, NEW p \in Slots,
         NEW roster \in SUBSET Slots
  PROVE  /\ writable => SaveRoster(roster, p) \in ToSet(Switching(begun, from, p, roster))
         /\ writable => ToSet(begun) \subseteq ToSet(Switching(begun, from, p, roster))
         /\ \A w \in ToSet(Switching(begun, from, p, roster)) :
               /\ writable
               /\ w \in ToSet(begun) \cup {SavePlay(rec, from), SaveCheats(cheats, from), SaveRoster(roster, p)}
<1>1. rec \in [Games -> Records] /\ cheats \in SUBSET Keys
  BY DEF TypeOK, Records
<1>2. SavePlay(rec, from) \in Writes /\ SaveCheats(cheats, from) \in Writes
  BY <1>1, SavesAre
<1>3. /\ ToSet(When(dirty, SavePlay(rec, from))) \subseteq {SavePlay(rec, from)}
      /\ ToSet(When(cheatsDirty, SaveCheats(cheats, from))) \subseteq {SaveCheats(cheats, from)}
  <2>1. ASSUME NEW needed, NEW w \in Writes PROVE ToSet(When(needed, w)) \subseteq {w}
    BY WhenIs
  <2>2. QED
    BY <1>2, <2>1
<1>4. ToSet(<<>>) = {}
  BY DEF ToSet
<1> DEFINE asked == ToSet(Switching(begun, from, p, roster))
           play  == ToSet(When(dirty, SavePlay(rec, from)))
           ticks == ToSet(When(cheatsDirty, SaveCheats(cheats, from)))
           last  == SaveRoster(roster, p)
<1>5. asked = IF writable THEN ToSet(begun) \cup play \cup ticks \cup {last} ELSE {}
  BY <1>4, SwitchingIs
<1>6. play \subseteq {SavePlay(rec, from)} /\ ticks \subseteq {SaveCheats(cheats, from)}
  BY <1>3
<1> HIDE DEF asked, play, ticks, last
<1>7. /\ writable => last \in asked
      /\ writable => ToSet(begun) \subseteq asked
      /\ \A w \in asked :
            writable /\ w \in ToSet(begun) \cup {SavePlay(rec, from), SaveCheats(cheats, from), last}
  BY <1>5, <1>6
<1>8. QED
  BY <1>7 DEF asked, last

-----------------------------------------------------------------------------
(***************************************************************************)
(* Padlocks.  No play file this build writes has one, so on a card whose   *)
(* files are all this build's nothing but the parent moves one.            *)
(***************************************************************************)
Unlocked(rows) == \A r \in rows : ~ r.locked

LocksInv ==
    \A p \in Slots :
        Unlocked(disk[Play(p)]) /\ \A w \in ToSet(todo) : w.at = Play(p) => Unlocked(w.to)

\* No row of an earlier build has a padlock in it.
OldLocksGone == \A r \in OldRows : ~ r.locked

\* Loading rows without padlocks moves none.
LEMMA AppliedLocks ==
  ASSUME NEW rows, Unlocked(rows), NEW games, NEW base \in [Games -> Records], NEW g \in Games
  PROVE  Applied(rows, games, base)[g].locked = base[g].locked
<1>1. \/ Applied(rows, games, base)[g] = base[g]
      \/ \E r \in rows :
            /\ r.key = Key[g]
            /\ Applied(rows, games, base)[g] = Told(base[g], r)
  BY AppliedIs
<1>2. ASSUME NEW r \in rows, Applied(rows, games, base)[g] = Told(base[g], r)
      PROVE  Applied(rows, games, base)[g].locked = base[g].locked
  <2>1. Applied(rows, games, base)[g].locked = (base[g].locked \/ r.locked)
    BY <1>2 DEF Told
  <2>2. ~ r.locked /\ base[g].locked \in BOOLEAN
    BY DEF Unlocked, Records
  <2>3. (base[g].locked \/ r.locked) = base[g].locked
    BY <2>2
  <2>4. QED
    BY <2>1, <2>3
<1>3. QED
  BY <1>1, <1>2

\* Scripts that write no padlock leave none in a play file.
LEMMA AfterUnlocked ==
  ASSUME TypeOK, LocksInv, NEW script \in Seq(Writes), NEW p \in Slots,
         \A w \in ToSet(script) : w.at = Play(p) => Unlocked(w.to)
  PROVE  Unlocked(After(script)[Play(p)])
<1>1. Play(p) \in Places
  BY PlacesAre
<1>2. Unlocked(disk[Play(p)])
  BY DEF LocksInv
<1>3. QED
  BY <1>1, <1>2, AfterIs

\* What a handler has pending for a play file has no padlock in it.
LEMMA WritesUnlocked ==
  ASSUME TypeOK, NEW q \in Slots
  PROVE  /\ \A r \in [Games -> Records] : \A p \in Slots :
               SavePlay(r, p).at = Play(q) => Unlocked(SavePlay(r, p).to)
         /\ \A c \in SUBSET Keys : \A p \in Slots : SaveCheats(c, p).at # Play(q)
         /\ \A u \in SUBSET Slots : \A p \in Slots : SaveRoster(u, p).at # Play(q)
         /\ SaveLocks.at # Play(q)
         /\ \A p \in Slots : \A x : Write(Saves(p), x).at # Play(q)
         /\ \A p \in Slots : Write(Cheat(p), {}).at # Play(q) /\ Unlocked(Write(Play(p), {}).to)
<1>1. \A r \in [Games -> Records] : \A p \in Slots : Unlocked(SavePlay(r, p).to)
  BY SavesAre, RowsAre DEF Unlocked
<1>2. /\ \A c \in SUBSET Keys : \A p \in Slots : SaveCheats(c, p).at # Play(q)
      /\ \A u \in SUBSET Slots : \A p \in Slots : SaveRoster(u, p).at # Play(q)
      /\ SaveLocks.at # Play(q)
  <2>1. 0 \in Slots
    BY DataAssumption
  <2>2. SaveLocks.at = Locks
    BY <2>1, SavesAre
  <2>3. ASSUME NEW p \in Slots, NEW c \in SUBSET Keys PROVE SaveCheats(c, p).at = Cheat(p)
    BY SavesAre
  <2>4. ASSUME NEW p \in Slots, NEW u \in SUBSET Slots PROVE SaveRoster(u, p).at = Ini
    BY SavesAre
  <2>5. QED
    BY <2>2, <2>3, <2>4, PlacesAre
<1>3. /\ \A p \in Slots : \A x : Write(Saves(p), x).at # Play(q)
      /\ \A p \in Slots : Write(Cheat(p), {}).at # Play(q) /\ Unlocked(Write(Play(p), {}).to)
  BY AtTo, PlacesAre DEF Unlocked
<1>4. QED
  BY <1>1, <1>2, <1>3

\* Nor does an activation write one.
LEMMA SwitchUnlocked ==
  ASSUME TypeOK, NEW p \in Slots, NEW begun \in Seq(Writes), NEW from \in Slots, NEW r \in Slots,
         NEW roster \in SUBSET Slots,
         \A w \in ToSet(begun) : \/ w \in {Write(Play(p), {}), Write(Cheat(p), {})}
                                 \/ w.at \in {Ini, Saves(p)},
         NEW q \in Slots, NEW w \in ToSet(Switching(begun, from, r, roster)), w.at = Play(q)
  PROVE  Unlocked(w.to)
<1>1. w \in ToSet(begun) \cup {SavePlay(rec, from), SaveCheats(cheats, from), SaveRoster(roster, r)}
  BY SwitchingPending
<1>2. rec \in [Games -> Records] /\ cheats \in SUBSET Keys
  BY DEF TypeOK, Records
<1>3. CASE w \in ToSet(begun)
  <2>1. w.at # Ini /\ w.at # Saves(p)
    BY PlacesAre
  <2>2. QED
    BY <1>3, <2>1, WritesUnlocked
<1>4. CASE w \in {SavePlay(rec, from), SaveCheats(cheats, from), SaveRoster(roster, r)}
  BY <1>2, <1>4, WritesUnlocked
<1>5. QED
  BY <1>1, <1>3, <1>4

\* The card starts without padlocks in a play file.
LEMMA InitLocks ==
  ASSUME OldLocksGone
  PROVE  Init => LocksInv
<1> SUFFICES ASSUME Init PROVE LocksInv
  OBVIOUS
<1>1. \A p \in Slots : disk[Play(p)] \in {OldRows, {}}
  BY PlacesAre DEF Init
<1>2. ToSet(todo) = {}
  BY DEF Init, ToSet
<1>3. QED
  BY <1>1, <1>2 DEF LocksInv, Unlocked, OldLocksGone

\* No play file or pending write of one ever gets one.
LEMMA NextLocks == TypeOK /\ LocksInv /\ [Next]_vars => LocksInv'
<1> SUFFICES ASSUME TypeOK, LocksInv, [Next]_vars PROVE LocksInv'
  OBVIOUS
<1>1. ASSUME UNCHANGED <<disk, todo>> PROVE LocksInv'
  BY <1>1 DEF LocksInv
<1>2. ASSUME disk' = disk, \A q \in Slots : \A w \in ToSet(todo') : w.at = Play(q) => Unlocked(w.to)
      PROVE  LocksInv'
  BY <1>2 DEF LocksInv
<1>3. CASE UNCHANGED vars
  BY <1>1, <1>3, Zenon DEF vars
<1>4. CASE WriteFile
  <2>1. ToSet(todo') \subseteq ToSet(todo)
    BY <1>4, WriteFileIs
  <2>2. ASSUME NEW p \in Slots PROVE Unlocked(disk'[Play(p)])
    <3>1. \/ disk'[Play(p)] = disk[Play(p)]
          \/ \E w \in ToSet(todo) : w.at = Play(p) /\ disk'[Play(p)] = w.to
      BY <1>4, WriteFileIs, PlacesAre
    <3>2. QED
      BY <3>1 DEF LocksInv
  <2>3. QED
    BY <2>1, <2>2 DEF LocksInv
<1>5. CASE PowerOff
  <2>1. ToSet(todo') = {} /\ \A p \in Slots : disk'[Play(p)] \in {disk[Play(p)], {}}
    BY <1>5, PowerOffIs
  <2>2. \A p \in Slots : Unlocked(disk'[Play(p)])
    BY <2>1 DEF LocksInv, Unlocked
  <2>3. QED
    BY <2>1, <2>2 DEF LocksInv
<1>6. CASE Boot
  BY <1>1, <1>6, Zenon DEF Boot
<1>7. ASSUME NEW g \in Games, Favourite(g) \/ ToggleLock(g) PROVE LocksInv'
  BY <1>1, <1>7, Zenon DEF Favourite, ToggleLock
<1>8. ASSUME NEW g \in Games, NEW ticked \in BOOLEAN, LeaveSheet(g, ticked) PROVE LocksInv'
  <2>1. \A q \in Slots : \A w \in ToSet(todo') : w.at # Play(q)
    BY <1>8, LeaveSheetWrites, WritesUnlocked DEF TypeOK
  <2>2. disk' = disk
    BY <1>8 DEF LeaveSheet
  <2>3. QED
    BY <1>2, <2>1, <2>2
<1>9. ASSUME NEW g \in Games, NEW ticked \in BOOLEAN, NEW t \in Clock, NEW boots \in BOOLEAN,
             Launch(g, ticked, t, boots)
      PROVE  LocksInv'
  <2>1. \A w \in ToSet(todo') :
           w \in {Write(Saves(active), disk[Saves(active)] \cup {g}), SavePlay(rec', active),
                  SaveCheats(cheats', active), SaveLocks}
    BY <1>9, LaunchPending
  <2>2. rec' \in [Games -> Records] /\ cheats' \in SUBSET Keys /\ active \in Slots
    <3>1. active \in Slots
      BY DEF TypeOK
    <3>2. QED
      BY <1>9, <3>1, LaunchWrites
  <2>3. ASSUME NEW q \in Slots, NEW w \in ToSet(todo'), w.at = Play(q) PROVE Unlocked(w.to)
    BY <2>1, <2>2, <2>3, WritesUnlocked
  <2>4. disk' = disk
    BY <1>9 DEF Launch
  <2>5. QED
    BY <1>2, <2>3, <2>4
<1>10. ASSUME NEW p \in Slots, AddProfile(p) PROVE LocksInv'
  <2>1. \A q \in Slots : \A w \in ToSet(todo') : w.at # Play(q)
    <3>1. used \cup {p} \in SUBSET Slots /\ active \in Slots
      BY DEF TypeOK
    <3>2. QED
      BY <1>10, <3>1, AddProfileWrites, WritesUnlocked
  <2>2. disk' = disk
    BY <1>10 DEF AddProfile
  <2>3. QED
    BY <1>2, <2>1, <2>2
<1>11. ASSUME NEW p \in Slots, Choose(p) \/ Delete(p) PROVE LocksInv'
  <2>1. PICK begun \in Seq(Writes), from \in Slots, r \in Slots, roster \in SUBSET Slots :
           /\ Activate(begun, from, r, roster)
           /\ \A w \in ToSet(begun) : \/ w \in {Write(Play(p), {}), Write(Cheat(p), {})}
                                      \/ w.at \in {Ini, Saves(p)}
    BY <1>11, SwitchIs
  <2>2. todo' = Switching(begun, from, r, roster) /\ disk' = disk
    BY <2>1, ActivateIs
  <2>3. \A q \in Slots : \A w \in ToSet(todo') : w.at = Play(q) => Unlocked(w.to)
    BY <2>1, <2>2, SwitchUnlocked
  <2>4. QED
    BY <1>2, <2>2, <2>3
<1>12. QED
  BY <1>3, <1>4, <1>5, <1>6, <1>7, <1>8, <1>9, <1>10, <1>11 DEF Next, Handler

ParentMoved ==
    on /\ on' => \A g \in Games :
       rec'[g].locked # rec[g].locked => locksDirty' /\ todo' = todo /\ active' = active

\* While the play files hold none, only ToggleLock moves a padlock.
LEMMA StepLocks == TypeOK /\ LocksInv /\ [Next]_vars => [ParentMoved]_vars
<1> SUFFICES ASSUME TypeOK, LocksInv, Next, on, on' PROVE ParentMoved
  BY DEF ParentMoved
<1>1. ASSUME \A g \in Games : rec'[g].locked = rec[g].locked PROVE ParentMoved
  BY <1>1 DEF ParentMoved
<1>2. CASE WriteFile
  BY <1>1, <1>2 DEF WriteFile, ram
<1>3. CASE PowerOff \/ Boot
  BY <1>3, Zenon DEF PowerOff, Boot
<1>4. ASSUME NEW g \in Games, Favourite(g) PROVE ParentMoved
  <2>1. \A h \in Games : rec'[h].locked = rec[h].locked
    BY <1>4 DEF Favourite, TypeOK
  <2>2. QED
    BY <1>1, <2>1
<1>5. ASSUME NEW g \in Games, ToggleLock(g) PROVE ParentMoved
  BY <1>5, Zenon DEF ToggleLock, ParentMoved
<1>6. ASSUME NEW g \in Games, NEW ticked \in BOOLEAN, LeaveSheet(g, ticked) PROVE ParentMoved
  BY <1>1, <1>6 DEF LeaveSheet
<1>7. ASSUME NEW g \in Games, NEW ticked \in BOOLEAN, NEW t \in Clock, NEW boots \in BOOLEAN,
             Launch(g, ticked, t, boots)
      PROVE  ParentMoved
  <2>1. \A h \in Games : rec'[h].locked = rec[h].locked
    BY <1>7 DEF Launch, TypeOK
  <2>2. QED
    BY <1>1, <2>1
<1>8. ASSUME NEW p \in Slots, AddProfile(p) PROVE ParentMoved
  BY <1>1, <1>8 DEF AddProfile
<1>9. ASSUME NEW p \in Slots, Choose(p) \/ Delete(p) PROVE ParentMoved
  <2>1. PICK begun \in Seq(Writes), from \in Slots, r \in Slots, roster \in SUBSET Slots :
           /\ Activate(begun, from, r, roster)
           /\ \A w \in ToSet(begun) : \/ w \in {Write(Play(p), {}), Write(Cheat(p), {})}
                                      \/ w.at \in {Ini, Saves(p)}
    BY <1>9, SwitchIs
  <2> DEFINE script == Switching(begun, from, r, roster)
             rows == After(script)[Play(r)]
  <2>2. \A w \in ToSet(script) : w.at = Play(r) => Unlocked(w.to)
    BY <2>1, SwitchUnlocked
  <2>3. script \in Seq(Writes)
    BY SwitchingIs
  <2>4. rec' = Applied(rows, present, Cleared)
    BY <2>1, ActivateIs
  <2> HIDE DEF script
  <2>5. Unlocked(rows)
    BY <2>2, <2>3, AfterUnlocked
  <2> HIDE DEF rows
  <2>6. \A g \in Games : rec'[g].locked = Cleared[g].locked
    BY <2>4, <2>5, ClearedType, AppliedLocks
  <2>7. \A g \in Games : Cleared[g].locked = rec[g].locked
    BY DEF Cleared, TypeOK
  <2>8. QED
    BY <1>1, <2>6, <2>7
<1>10. QED
  BY <1>2, <1>3, <1>4, <1>5, <1>6, <1>7, <1>8, <1>9 DEF Next, Handler

\* OnlyTheParentMovesLocks: switching, adding and deleting players, playing games
\* and leaving sheets leave every padlock as it is, for any games, players and
\* bounds - on a card whose play files have no padlock left from a build that kept
\* them there (playstate_load() still honours one, playstate.c:48).
THEOREM LocksAreTheParents ==
  ASSUME OldLocksGone
  PROVE  Spec => OnlyTheParentMovesLocks
<1>1. Init => LocksInv
  BY InitLocks
<1>2. OnlyTheParentMovesLocks <=> [][ParentMoved]_vars
  BY DEF OnlyTheParentMovesLocks, ParentMoved
<1>3. QED
  BY <1>1, <1>2, NextTypes, NextLocks, StepLocks, InitTypes, PTL DEF Spec

-----------------------------------------------------------------------------
(***************************************************************************)
(* The roster, in memory and on the card.  Its file has room for everyone, *)
(* is written whole, and only players who are not active are deleted, on   *)
(* storage that can be written.                                            *)
(***************************************************************************)
OrdinaryRoster ==
    /\ \A p \in Slots : p + 2 <= IniSections
    /\ "ini" \notin Torn
    /\ Deletable \subseteq {"other"}

RosterInv ==
    /\ \A w \in ToSet(todo) : w.at = Ini => w.to.used = used
    /\ ~ on \/ ~ writable => todo = <<>>
    /\ 0 \in disk[Ini].used
    /\ on => 0 \in used /\ active \in used
    /\ on /\ writable /\ (\A w \in ToSet(todo) : w.at # Ini) => disk[Ini].used = used
    /\ on => present \in Libraries

\* profile_save() writes the whole roster where its file has room for it.
LEMMA SavedRoster ==
  ASSUME OrdinaryRoster, TypeOK, NEW u \in SUBSET Slots, NEW p \in Slots
  PROVE  SaveRoster(u, p).at = Ini /\ SaveRoster(u, p).to.used = u
<1>1. {q \in u : q + 2 <= IniSections} = u
  BY DEF OrdinaryRoster
<1>2. /\ SaveRoster(u, p).at = Ini
      /\ SaveRoster(u, p).to = [used |-> {q \in u : q + 2 <= IniSections}, active |-> p]
  BY SavesAre
<1>3. SaveRoster(u, p).to.used = {q \in u : q + 2 <= IniSections}
  BY <1>2
<1>4. QED
  BY <1>1, <1>2, <1>3

\* The handlers that leave the roster alone: what they write is the player's.
OwnPlaces == {Play(active), Cheat(active), Saves(active), Locks}

\* Leaving a sheet writes the files of the player who is active.
LEMMA LeaveSheetPlaces ==
  ASSUME TypeOK, NEW g \in Games, NEW ticked \in BOOLEAN, LeaveSheet(g, ticked)
  PROVE  \A w \in ToSet(todo') : writable /\ w.at \in OwnPlaces
<1>1. cheats' \in SUBSET Keys /\ \A w \in ToSet(todo') : writable /\ w = SaveCheats(cheats', active)
  BY LeaveSheetWrites
<1>2. active \in Slots
  BY DEF TypeOK
<1>3. QED
  BY <1>1, <1>2, SavesAre DEF OwnPlaces

\* So does a launch, and the padlocks' file.
LEMMA LaunchPlaces ==
  ASSUME TypeOK, NEW g \in Games, NEW ticked \in BOOLEAN, NEW t \in Clock, NEW boots \in BOOLEAN,
         Launch(g, ticked, t, boots)
  PROVE  \A w \in ToSet(todo') : writable /\ w.at \in OwnPlaces
<1>1. rec' \in [Games -> Records] /\ cheats' \in SUBSET Keys
  BY LaunchWrites
<1>2. active \in Slots
  BY DEF TypeOK
<1>3. /\ SavePlay(rec', active).at = Play(active) /\ SaveCheats(cheats', active).at = Cheat(active)
      /\ SaveLocks.at = Locks
      /\ Write(Saves(active), disk[Saves(active)] \cup {g}).at = Saves(active)
  BY <1>1, <1>2, SavesAre, AtTo
<1>4. QED
  BY <1>3, LaunchPending DEF OwnPlaces

\* A on somebody else's card is an activation with nothing written before.
LEMMA ChooseIs ==
  ASSUME TypeOK, NEW p \in Slots, Choose(p)
  PROVE  /\ Idle /\ p \in used \ {active}
         /\ Activate(<<>>, active, p, used)
         /\ todo' = Switching(<<>>, active, p, used)
         /\ \A w \in ToSet(todo') :
               writable /\ w \in {SavePlay(rec, active), SaveCheats(cheats, active), SaveRoster(used, p)}
<1>1. Idle /\ p \in used \ {active} /\ Activate(<<>>, active, p, used)
  BY DEF Choose
<1>2. <<>> \in Seq(Writes) /\ ToSet(<<>>) = {} /\ active \in Slots /\ used \in SUBSET Slots
  BY DEF ToSet, TypeOK
<1>3. todo' = Switching(<<>>, active, p, used)
  BY <1>1, ActivateIs
<1>4. QED
  BY <1>1, <1>2, <1>3, SwitchingPending

\* Deleting somebody who is not active removes his files, then activates the
\* player who is active again.
LEMMA DeleteIs ==
  ASSUME OrdinaryRoster, TypeOK, NEW p \in Slots, Delete(p)
  PROVE  /\ Idle /\ p \in used \ {0, active} /\ writable
         /\ Activate(Removed(p, active), active, active, used \ {p})
         /\ todo' = Switching(Removed(p, active), active, active, used \ {p})
         /\ \A w \in ToSet(todo') :
               w \in {Write(Saves(p), disk[Saves(p)] \ Reachable), Write(Play(p), {}), Write(Cheat(p), {}),
                      SavePlay(rec, active), SaveCheats(cheats, active), SaveRoster(used \ {p}, active)}
         /\ {Write(Saves(p), disk[Saves(p)] \ Reachable), Write(Play(p), {}), Write(Cheat(p), {}),
             SaveRoster(used \ {p}, active)} \subseteq ToSet(todo')
<1>1. Idle /\ p \in used \ {0} /\ p # active /\ writable
  <2>1. (IF p = active THEN "active" ELSE "other") \in Deletable /\ (writable \/ "refused" \in Deletable)
    BY DEF Delete
  <2>2. "active" \notin Deletable /\ "refused" \notin Deletable
    BY DEF OrdinaryRoster
  <2>3. p # active /\ writable
    BY <2>1, <2>2
  <2>4. QED
    BY <2>3 DEF Delete
<1>2. Activate(Removed(p, active), active, active, used \ {p})
  BY <1>1 DEF Delete
<1>3. active \in Slots /\ used \ {p} \in SUBSET Slots
  BY DEF TypeOK
<1>4. /\ Removed(p, active) \in Seq(Writes)
      /\ ToSet(Removed(p, active)) = {Write(Saves(p), disk[Saves(p)] \ Reachable), Write(Play(p), {}),
                                      Write(Cheat(p), {}), SaveRoster(used \ {p}, active)}
  BY <1>3, RemovedIs
<1>5. todo' = Switching(Removed(p, active), active, active, used \ {p})
  BY <1>2, ActivateIs
<1>6. /\ \A w \in ToSet(todo') :
             w \in ToSet(Removed(p, active)) \cup {SavePlay(rec, active), SaveCheats(cheats, active), SaveRoster(used \ {p}, active)}
      /\ ToSet(Removed(p, active)) \subseteq ToSet(todo')
  BY <1>1, <1>3, <1>4, <1>5, SwitchingPending
<1>7. QED
  BY <1>1, <1>2, <1>4, <1>5, <1>6

\* The roster before the first boot.
LEMMA InitRoster == Init => RosterInv
<1> SUFFICES ASSUME Init PROVE RosterInv
  OBVIOUS
<1>1. disk[Ini].used = OldRoster /\ todo = <<>> /\ ToSet(todo) = {} /\ ~ on
  BY PlacesAre DEF Init, ToSet
<1>2. QED
  BY <1>1, DataAssumption DEF RosterInv

\* The roster on the card is the one in memory once its write is done, and the
\* player who is active is in it.
LEMMA NextRoster ==
  ASSUME OrdinaryRoster
  PROVE  TypeOK /\ RosterInv /\ [Next]_vars => RosterInv'
<1> SUFFICES ASSUME TypeOK, RosterInv, [Next]_vars PROVE RosterInv'
  OBVIOUS
<1>1. ASSUME UNCHANGED <<on, writable, present, used, active, todo, disk>> PROVE RosterInv'
  BY <1>1, Zenon DEF RosterInv
\* Nothing of the roster changes, nor is any of it written.
<1>2. ASSUME Idle, UNCHANGED <<on, writable, present, used, active, disk>>,
             \A w \in ToSet(todo') : writable /\ w.at # Ini, ~ writable => todo' = <<>>
      PROVE  RosterInv'
  <2>1. on /\ ToSet(todo) = {}
    BY <1>2, PendingAre DEF Idle
  <2>2. QED
    BY <1>2, <2>1 DEF RosterInv
\* It is written, as it is in memory then.
<1>3. ASSUME on, UNCHANGED <<on, writable, present, disk>>, 0 \in used', active' \in used',
             \A w \in ToSet(todo') : w.at = Ini => w.to.used = used',
             writable => \E w \in ToSet(todo') : w.at = Ini,
             ~ writable => todo' = <<>>
      PROVE  RosterInv'
  BY <1>3 DEF RosterInv
<1>4. CASE UNCHANGED vars
  BY <1>1, <1>4, Zenon DEF vars, ram
<1>5. CASE WriteFile
  <2>1. /\ ToSet(todo) = {todo[1]} \cup ToSet(todo')
        /\ todo[1] \in ToSet(todo) /\ todo[1] \in Writes
        /\ disk'[todo[1].at] = todo[1].to
        /\ \A f \in Places : f # todo[1].at => disk'[f] = disk[f]
    BY <1>5, WriteFileIs
  <2>2. on /\ writable
    <3>1. todo # <<>>
      BY <1>5 DEF WriteFile
    <3>2. QED
      BY <3>1 DEF RosterInv
  <2>3. UNCHANGED <<on, writable, present, used, active>>
    BY <1>5 DEF WriteFile, ram
  <2>4. /\ \A w \in ToSet(todo) : w.at = Ini => w.to.used = used
        /\ 0 \in used /\ active \in used /\ present \in Libraries
    BY <2>2 DEF RosterInv
  <2>5. disk'[Ini].used = used \/ (disk'[Ini] = disk[Ini] /\ todo[1].at # Ini)
    BY <2>1, <2>4, PlacesAre
  <2>6. 0 \in disk'[Ini].used
    BY <2>4, <2>5 DEF RosterInv
  <2>7. (\A w \in ToSet(todo') : w.at # Ini) => disk'[Ini].used = used
    BY <2>1, <2>2, <2>5 DEF RosterInv
  <2>8. QED
    BY <2>1, <2>2, <2>3, <2>4, <2>6, <2>7 DEF RosterInv
<1>6. CASE PowerOff
  <2>1. ToSet(todo') = {} /\ todo' = <<>> /\ ~ on' /\ disk'[Ini] = disk[Ini]
    BY <1>6, PowerOffIs DEF OrdinaryRoster
  <2>2. QED
    BY <2>1 DEF RosterInv
<1>7. CASE Boot
  <2>1. /\ ~ on /\ present' \in Libraries /\ used' = disk[Ini].used \cup {0} /\ active' = BootAs
        /\ disk' = disk /\ todo' = todo
    BY <1>7 DEF Boot
  <2>2. todo = <<>> /\ ToSet(todo) = {} /\ 0 \in disk[Ini].used
    BY <2>1, PendingAre DEF RosterInv
  <2>3. BootAs \in disk[Ini].used
    BY <2>2 DEF BootAs
  <2>4. used' = disk[Ini].used
    BY <2>1, <2>2
  <2>5. QED
    BY <2>1, <2>2, <2>3, <2>4 DEF RosterInv
<1>8. ASSUME NEW g \in Games, Favourite(g) \/ ToggleLock(g) PROVE RosterInv'
  BY <1>1, <1>8, Zenon DEF Favourite, ToggleLock
<1>9. ASSUME NEW g \in Games, NEW ticked \in BOOLEAN, LeaveSheet(g, ticked) PROVE RosterInv'
  <2>1. \A w \in ToSet(todo') : writable /\ w.at # Ini
    BY <1>9, LeaveSheetPlaces, PlacesAre DEF OwnPlaces, TypeOK
  <2>2. ~ writable => todo' = <<>>
    BY <1>9, LeaveSheetWrites
  <2>3. Idle /\ UNCHANGED <<on, writable, present, used, active, disk>>
    BY <1>9 DEF LeaveSheet
  <2>4. QED
    BY <1>2, <2>1, <2>2, <2>3
<1>10. ASSUME NEW g \in Games, NEW ticked \in BOOLEAN, NEW t \in Clock, NEW boots \in BOOLEAN,
             Launch(g, ticked, t, boots)
      PROVE  RosterInv'
  <2>1. active \in Slots
    BY DEF TypeOK
  <2>2. \A w \in ToSet(todo') : writable /\ w.at # Ini
    BY <1>10, <2>1, LaunchPlaces, PlacesAre DEF OwnPlaces
  <2>3. ~ writable => todo' = <<>>
    BY <1>10, LaunchWrites
  <2>4. Idle /\ UNCHANGED <<on, writable, present, used, active, disk>>
    BY <1>10 DEF Launch
  <2>5. QED
    BY <1>2, <2>2, <2>3, <2>4
<1>11. ASSUME NEW p \in Slots, AddProfile(p) PROVE RosterInv'
  <2>1. used \cup {p} \in SUBSET Slots /\ active \in Slots
    BY DEF TypeOK
  <2>2. SaveRoster(used \cup {p}, active).at = Ini /\ SaveRoster(used \cup {p}, active).to.used = used \cup {p}
    BY <2>1, SavedRoster
  <2>3. /\ ~ writable => todo' = <<>>
        /\ writable => todo' = <<SaveRoster(used \cup {p}, active)>>
        /\ \A w \in ToSet(todo') : w = SaveRoster(used \cup {p}, active)
    BY <1>11, AddProfileWrites
  <2>4. writable => SaveRoster(used \cup {p}, active) \in ToSet(todo')
    BY <2>3 DEF ToSet
  <2>5. on /\ used' = used \cup {p} /\ UNCHANGED <<on, writable, present, disk, active>>
    BY <1>11 DEF AddProfile, Idle
  <2>6. 0 \in used' /\ active' \in used'
    BY <2>5 DEF RosterInv
  <2>7. QED
    BY <1>3, <2>2, <2>3, <2>4, <2>5, <2>6
<1>12. ASSUME NEW p \in Slots, Choose(p) PROVE RosterInv'
  <2>1. /\ Idle /\ p \in used \ {active} /\ Activate(<<>>, active, p, used)
        /\ todo' = Switching(<<>>, active, p, used)
        /\ \A w \in ToSet(todo') :
              writable /\ w \in {SavePlay(rec, active), SaveCheats(cheats, active), SaveRoster(used, p)}
    BY <1>12, ChooseIs
  <2>2. /\ active \in Slots /\ used \in SUBSET Slots /\ rec \in [Games -> Records] /\ cheats \in SUBSET Keys
        /\ <<>> \in Seq(Writes)
    BY DEF TypeOK, Records
  <2>3. SaveRoster(used, p).at = Ini /\ SaveRoster(used, p).to.used = used
    BY <2>2, SavedRoster
  <2>4. SavePlay(rec, active).at # Ini /\ SaveCheats(cheats, active).at # Ini
    BY <2>2, SavesAre, PlacesAre
  <2>5. on /\ used' = used /\ active' = p /\ UNCHANGED <<on, writable, present, disk>>
    BY <2>1, ActivateIs DEF Idle
  <2>6. writable => SaveRoster(used, p) \in ToSet(todo')
    BY <2>1, <2>2, SwitchingPending
  <2>7. ~ writable => todo' = <<>>
    BY <2>1, <2>2, SwitchingIs
  <2>8. 0 \in used' /\ active' \in used'
    BY <2>1, <2>5 DEF RosterInv
  <2>9. QED
    BY <1>3, <2>1, <2>3, <2>4, <2>5, <2>6, <2>7, <2>8
<1>13. ASSUME NEW p \in Slots, Delete(p) PROVE RosterInv'
  <2> DEFINE roster == SaveRoster(used \ {p}, active)
  <2>1. /\ Idle /\ p \in used \ {0, active} /\ writable
        /\ Activate(Removed(p, active), active, active, used \ {p})
        /\ \A w \in ToSet(todo') :
               w \in {Write(Saves(p), disk[Saves(p)] \ Reachable), Write(Play(p), {}), Write(Cheat(p), {}),
                      SavePlay(rec, active), SaveCheats(cheats, active), roster}
        /\ roster \in ToSet(todo')
    BY <1>13, DeleteIs
  <2>2. /\ active \in Slots /\ used \ {p} \in SUBSET Slots /\ rec \in [Games -> Records]
        /\ cheats \in SUBSET Keys
    BY DEF TypeOK, Records
  <2>3. roster.at = Ini /\ roster.to.used = used \ {p}
    BY <2>2, SavedRoster
  <2> HIDE DEF roster
  <2>4. SavePlay(rec, active).at # Ini /\ SaveCheats(cheats, active).at # Ini
    BY <2>2, SavesAre, PlacesAre
  <2>5. /\ Write(Saves(p), disk[Saves(p)] \ Reachable).at # Ini
        /\ Write(Play(p), {}).at # Ini /\ Write(Cheat(p), {}).at # Ini
    BY AtTo, PlacesAre
  <2>6. on /\ used' = used \ {p} /\ active' = active /\ UNCHANGED <<on, writable, present, disk>>
    BY <2>1, ActivateIs DEF Idle
  <2>7. 0 \in used' /\ active' \in used'
    BY <2>1, <2>6 DEF RosterInv
  <2>8. \A w \in ToSet(todo') : w.at = Ini => w.to.used = used'
    BY <2>1, <2>3, <2>4, <2>5, <2>6
  <2>9. QED
    BY <1>3, <2>1, <2>3, <2>6, <2>7, <2>8
<1>14. QED
  BY <1>4, <1>5, <1>6, <1>7, <1>8, <1>9, <1>10, <1>11, <1>12, <1>13 DEF Next, Handler

-----------------------------------------------------------------------------
(***************************************************************************)
(* A slot the roster has free has no files, and everybody's files are his  *)
(* own doing.                                                              *)
(***************************************************************************)
\* A deletion finds every game's save: the library always reaches every folder.
AllReached == \A lib \in Libraries : \A g \in Games : \E h \in lib : Folder[g] = Folder[h]

\* The files of a slot that are surely gone once it is free.
FilesOf(p) == {Play(p), Cheat(p)} \cup (IF AllReached THEN {Saves(p)} ELSE {})

FreeInv ==
    /\ \A p \in Slots \ disk[Ini].used : \A f \in FilesOf(p) : disk[f] = {}
    /\ on => \A p \in Slots \ used : \A f \in FilesOf(p) :
                /\ disk[f] = {} \/ \E w \in ToSet(todo) : w.at = f
                /\ \A k \in DOMAIN todo : todo[k].at = f =>
                      todo[k].to = {} /\ \A j \in DOMAIN todo : todo[j].at = Ini => k < j
    /\ \A p \in Slots : \A f \in FilesOf(p) :
          \A w \in ToSet(todo) : w.at = f /\ w.to # {} => p \in disk[Ini].used

\* A slot's files are nobody else's.
LEMMA OwnFiles ==
  ASSUME NEW p \in Slots, NEW f \in FilesOf(p)
  PROVE  /\ f \in Places /\ f # Ini /\ f # Locks /\ f \in {Play(p), Cheat(p), Saves(p)}
         /\ \A q \in Slots : f \in {Play(q), Cheat(q), Saves(q)} => q = p
BY PlacesAre DEF FilesOf

\* A card has files for the players in its roster.
LEMMA InitFree == Init => FreeInv
<1> SUFFICES ASSUME Init PROVE FreeInv
  OBVIOUS
<1>1. /\ disk[Ini].used = OldRoster /\ ToSet(todo) = {} /\ ~ on
  BY PlacesAre DEF Init, ToSet
<1>2. \A p \in Slots \ OldRoster : \A f \in FilesOf(p) : disk[f] = {}
  <2> TAKE p \in Slots \ OldRoster
  <2> TAKE f \in FilesOf(p)
  <2>1. p # 0 /\ 0 \in Slots
    BY DataAssumption
  <2>2. f \in Places /\ f # Ini /\ f # Play(0)
    BY <2>1, OwnFiles
  <2>3. QED
    BY <2>2 DEF Init
<1>3. QED
  BY <1>1, <1>2 DEF FreeInv

\* An element of two scripts one after the other is of the first, at its place, or
\* comes later and is of the second.
LEMMA ConcatSplit ==
  ASSUME NEW S, NEW s \in Seq(S), NEW t \in Seq(S), NEW k \in DOMAIN (s \o t)
  PROVE  \/ k \in DOMAIN s /\ k <= Len(s) /\ (s \o t)[k] = s[k]
         \/ k > Len(s) /\ (s \o t)[k] \in ToSet(t)
<1>1. /\ s \o t \in Seq(S)
      /\ Len(s \o t) = Len(s) + Len(t)
      /\ \A i \in 1 .. Len(s) + Len(t) : (s \o t)[i] = IF i <= Len(s) THEN s[i] ELSE t[i - Len(s)]
  BY ConcatProperties
<1>2. /\ Len(s) \in Nat /\ DOMAIN s = 1 .. Len(s)
      /\ Len(t) \in Nat /\ DOMAIN t = 1 .. Len(t)
      /\ DOMAIN (s \o t) = 1 .. Len(s) + Len(t)
  BY <1>1, LenProperties
<1>3. CASE k <= Len(s)
  BY <1>1, <1>2, <1>3
<1>4. CASE ~ (k <= Len(s))
  <2>1. k - Len(s) \in DOMAIN t /\ (s \o t)[k] = t[k - Len(s)]
    BY <1>1, <1>2, <1>4
  <2>2. k > Len(s)
    BY <1>2, <1>4
  <2>3. QED
    BY <2>1, <2>2 DEF ToSet
<1>5. QED
  BY <1>3, <1>4

\* A deletion empties the slot's files before it writes the roster.
LEMMA DeleteOrder ==
  ASSUME TypeOK, NEW p \in Slots, p # active, writable,
         NEW k \in DOMAIN Switching(Removed(p, active), active, active, used \ {p})
  PROVE  LET w == Switching(Removed(p, active), active, active, used \ {p})[k]
         IN  /\ w.at \in {Saves(p), Play(p), Cheat(p)} => k <= 3
             /\ w.at = Ini => k > 3
<1> DEFINE begun == Removed(p, active)
           w1 == When(dirty, SavePlay(rec, active))
           w2 == When(cheatsDirty, SaveCheats(cheats, active))
           w3 == <<SaveRoster(used \ {p}, active)>>
           a == Write(Saves(p), disk[Saves(p)] \ Reachable)
           b == Write(Play(p), {})
           c == Write(Cheat(p), {})
           d == SaveRoster(used \ {p}, active)
<1>1. active \in Slots /\ used \ {p} \in SUBSET Slots /\ rec \in [Games -> Records] /\ cheats \in SUBSET Keys
  BY DEF TypeOK, Records
<1>2. /\ SavePlay(rec, active) \in Writes /\ SavePlay(rec, active).at = Play(active)
      /\ SaveCheats(cheats, active) \in Writes /\ SaveCheats(cheats, active).at = Cheat(active)
      /\ d \in Writes /\ d.at = Ini
  BY <1>1, SavesAre
<1>3. begun \in Seq(Writes) /\ begun = <<a, b, c, d>>
  BY <1>1, RemovedIs
<1>4. w1 \in Seq(Writes) /\ \A w \in ToSet(w1) : w.at = Play(active)
  BY <1>2, WhenIs
<1>5. w2 \in Seq(Writes) /\ \A w \in ToSet(w2) : w.at = Cheat(active)
  BY <1>2, WhenIs
<1>6. w3 \in Seq(Writes) /\ \A w \in ToSet(w3) : w.at = Ini
  BY <1>2 DEF ToSet
<1>7. a.at = Saves(p) /\ b.at = Play(p) /\ c.at = Cheat(p)
  BY AtTo
<1>8. Switching(begun, active, active, used \ {p}) = begun \o w1 \o w2 \o w3
  BY DEF Switching, Script
<1> HIDE DEF a, b, c, d
<1>9. /\ Len(begun) = 4
      /\ \A i \in DOMAIN begun : /\ begun[i].at \in {Saves(p), Play(p), Cheat(p)} => i <= 3
                                 /\ begun[i].at = Ini => i > 3
  <2>1. Len(begun) = 4 /\ DOMAIN begun = 1 .. 4
    BY <1>3
  <2>2. begun[1] = a /\ begun[2] = b /\ begun[3] = c /\ begun[4] = d
    BY <1>3
  <2>3. \A i \in 1 .. 4 : i = 1 \/ i = 2 \/ i = 3 \/ i = 4
    OBVIOUS
  <2>4. Ini \notin {Saves(p), Play(p), Cheat(p)}
    BY PlacesAre
  <2>5. QED
    BY <1>2, <1>7, <2>1, <2>2, <2>3, <2>4
<1>10. begun \o w1 \in Seq(Writes) /\ begun \o w1 \o w2 \in Seq(Writes)
  <2> HIDE DEF begun, w1, w2
  <2>1. begun \o w1 \in Seq(Writes)
    BY <1>3, <1>4, ConcatElements
  <2>2. QED
    BY <1>5, <2>1, ConcatElements
<1>11. Len(begun) <= Len(begun \o w1) /\ Len(begun \o w1) <= Len(begun \o w1 \o w2)
  <2> DEFINE u == begun \o w1
  <2>1. u \in Seq(Writes)
    BY <1>10
  <2>2. Len(begun) \in Nat /\ Len(w1) \in Nat /\ Len(u) = Len(begun) + Len(w1)
    BY <1>3, <1>4, ConcatProperties, LenProperties
  <2> HIDE DEF u, w2
  <2>3. Len(u) \in Nat /\ Len(w2) \in Nat /\ Len(u \o w2) = Len(u) + Len(w2)
    BY <1>5, <2>1, ConcatProperties, LenProperties
  <2>4. QED
    BY <2>2, <2>3 DEF u
<1> DEFINE s == begun \o w1 \o w2 \o w3
<1>12. \/ k \in DOMAIN begun /\ s[k] = begun[k]
       \/ k > 4 /\ s[k] \in ToSet(w1) \cup ToSet(w2) \cup ToSet(w3)
  <2> DEFINE u == begun \o w1
             v == u \o w2
  <2>1. u \in Seq(Writes) /\ v \in Seq(Writes) /\ k \in DOMAIN (v \o w3)
    BY <1>8, <1>10
  <2>2. /\ Len(begun) = 4 /\ Len(u) \in Nat /\ Len(v) \in Nat /\ Len(begun) <= Len(u) /\ Len(u) <= Len(v)
    BY <1>9, <1>11, <2>1, LenProperties
  <2>3. k \in Nat
    <3>1. v \o w3 \in Seq(Writes)
      <4> HIDE DEF v, w3
      <4>1. QED
        BY <1>6, <2>1, ConcatElements
    <3>2. QED
      BY <2>1, <3>1, LenProperties
  <2>4. \/ k \in DOMAIN v /\ (v \o w3)[k] = v[k]
        \/ k > 4 /\ (v \o w3)[k] \in ToSet(w3)
    <3> HIDE DEF u, v, w3, begun
    <3>1. k > Len(v) => k > 4
      BY <2>2, <2>3
    <3>2. QED
      BY <1>6, <2>1, <3>1, ConcatSplit
  <2>5. k \in DOMAIN v => \/ k \in DOMAIN u /\ v[k] = u[k]
                          \/ k > 4 /\ v[k] \in ToSet(w2)
    <3> HIDE DEF u, w2, begun
    <3>1. k > Len(u) => k > 4
      BY <2>2, <2>3
    <3>2. QED
      BY <1>5, <2>1, <3>1, ConcatSplit
  <2>6. k \in DOMAIN u => \/ k \in DOMAIN begun /\ u[k] = begun[k]
                          \/ k > 4 /\ u[k] \in ToSet(w1)
    <3> HIDE DEF begun, w1
    <3>1. k > Len(begun) => k > 4
      BY <2>2
    <3>2. QED
      BY <1>3, <1>4, <3>1, ConcatSplit
  <2>7. s = v \o w3
    OBVIOUS
  <2> HIDE DEF u, v, s, begun, w1, w2, w3
  <2>8. QED
    BY <2>4, <2>5, <2>6, <2>7, Zenon
<1>13. \A w \in ToSet(w1) \cup ToSet(w2) \cup ToSet(w3) : w.at \notin {Saves(p), Play(p), Cheat(p)}
  BY <1>1, <1>4, <1>5, <1>6, PlacesAre
<1>14. /\ s[k].at \in {Saves(p), Play(p), Cheat(p)} => k <= 3
       /\ s[k].at = Ini => k > 3
  <2> HIDE DEF s, begun, w1, w2, w3
  <2>1. CASE k \in DOMAIN begun /\ s[k] = begun[k]
    BY <1>9, <2>1
  <2>2. CASE k > 4 /\ s[k] \in ToSet(w1) \cup ToSet(w2) \cup ToSet(w3)
    <3>1. k > 3
      <4>1. k \in Int
        <5>1. s \in Seq(Writes)
          <6> DEFINE v == begun \o w1 \o w2
          <6>1. v \in Seq(Writes)
            BY <1>10
          <6> HIDE DEF v
          <6>2. v \o w3 \in Seq(Writes)
            BY <1>6, <6>1, ConcatElements
          <6>3. QED
            BY <6>2 DEF s, v
        <5>2. k \in DOMAIN s
          BY <1>8 DEF s, begun
        <5>3. QED
          BY <5>1, <5>2, LenProperties
      <4>2. QED
        BY <2>2, <4>1
    <3>2. QED
      BY <1>13, <2>2, <3>1
  <2>3. QED
    BY <1>12, <2>1, <2>2
<1>15. QED
  BY <1>8, <1>14

\* A free slot's files are gone before the roster says that it is free, and nothing
\* is written to them while it is.
LEMMA NextFree ==
  ASSUME OrdinaryRoster
  PROVE  TypeOK /\ RosterInv /\ FreeInv /\ [Next]_vars => FreeInv'
<1> SUFFICES ASSUME TypeOK, RosterInv, FreeInv, [Next]_vars PROVE FreeInv'
  OBVIOUS
<1>0. AllReached' = AllReached /\ \A p : FilesOf(p)' = FilesOf(p)
  BY DEF AllReached, FilesOf, Play, Cheat, Saves
<1>1. ASSUME UNCHANGED <<on, used, todo, disk>> PROVE FreeInv'
  BY <1>1 DEF FreeInv, FilesOf, AllReached
\* At rest the files of a free slot are empty, and the card has the roster.
<1>2. ASSUME Idle
      PROVE  /\ on /\ ToSet(todo) = {} /\ (writable => disk[Ini].used = used) /\ active \in used
             /\ \A p \in Slots \ used : \A f \in FilesOf(p) : disk[f] = {}
  <2>1. on /\ ToSet(todo) = {}
    BY <1>2, PendingAre DEF Idle
  <2>2. QED
    BY <2>1 DEF FreeInv, RosterInv
\* What is written is the active player's, or the roster.
<1>3. ASSUME Idle, disk' = disk, used \subseteq used', TypeOK',
             \A w \in ToSet(todo') : writable /\ w.at \in OwnPlaces \cup {Ini}
      PROVE  FreeInv'
  <2>1. \A p \in Slots : \A f \in FilesOf(p) : f \in OwnPlaces => p = active
    <3> TAKE p \in Slots
    <3> TAKE f \in FilesOf(p)
    <3>1. active \in Slots
      BY DEF TypeOK
    <3>2. QED
      BY <3>1, OwnFiles DEF OwnPlaces
  <2>2. \A p \in Slots \ used' : \A f \in FilesOf(p) : disk[f] = {} /\ \A w \in ToSet(todo') : w.at # f
    BY <1>2, <1>3, <2>1, OwnFiles
  <2>3. \A p \in Slots \ used' : \A f \in FilesOf(p) : \A k \in DOMAIN todo' : todo'[k].at # f
    BY <2>2 DEF ToSet
  <2>4. \A p \in Slots : \A f \in FilesOf(p) : \A w \in ToSet(todo') : w.at = f => p \in disk[Ini].used
    BY <1>2, <1>3, <2>1, OwnFiles
  <2>5. \A p \in Slots \ disk[Ini].used : \A f \in FilesOf(p) : disk[f] = {}
    BY DEF FreeInv
  <2>6. QED
    BY <1>3, <2>2, <2>3, <2>4, <2>5 DEF FreeInv, FilesOf, AllReached
<1>4. CASE UNCHANGED vars
  BY <1>1, <1>4, Zenon DEF vars, ram
<1>5. CASE WriteFile
  <2> DEFINE w1 == todo[1]
  <2>1. /\ DOMAIN todo' = 1 .. Len(todo) - 1 /\ Len(todo) - 1 \in Nat
        /\ \A k \in DOMAIN todo' : k + 1 \in DOMAIN todo /\ todo'[k] = todo[k + 1]
        /\ ToSet(todo) = {w1} \cup ToSet(todo')
        /\ 1 \in DOMAIN todo /\ w1 \in Writes /\ w1 \in ToSet(todo)
        /\ disk'[w1.at] = w1.to
        /\ \A f \in Places : f # w1.at => disk'[f] = disk[f]
    BY <1>5, WriteFileIs
  <2>2. on /\ writable
    <3>1. todo # <<>>
      BY <1>5 DEF WriteFile
    <3>2. QED
      BY <3>1 DEF RosterInv
  <2>3. on' = on /\ used' = used
    BY <1>5 DEF WriteFile, ram
  <2>4. w1.at = Ini => disk'[Ini].used = used
    BY <2>1 DEF RosterInv
  <2>5. w1.at # Ini => disk'[Ini] = disk[Ini]
    BY <2>1, PlacesAre
  <2>6. DOMAIN todo = 1 .. Len(todo) /\ Len(todo) \in Nat
    BY PendingAre
  \* Before the roster is written, no free slot has a write left.
  <2>7. ASSUME w1.at = Ini, NEW p \in Slots \ used, NEW f \in FilesOf(p)
        PROVE  \A k \in DOMAIN todo : todo[k].at # f
    <3> SUFFICES ASSUME NEW k \in DOMAIN todo, todo[k].at = f PROVE FALSE
      OBVIOUS
    <3>1. k < 1
      BY <2>1, <2>2, <2>7 DEF FreeInv
    <3>2. QED
      BY <2>6, <3>1
  <2>8. ASSUME NEW p \in Slots \ disk'[Ini].used, NEW f \in FilesOf(p) PROVE disk'[f] = {}
    <3>1. f \in Places /\ f # Ini
      BY OwnFiles
    <3>2. CASE w1.at = Ini
      <4>1. p \in Slots \ used
        BY <2>4, <2>8, <3>2
      <4>2. \A w \in ToSet(todo) : w.at # f
        BY <2>7, <3>2, <4>1 DEF ToSet
      <4>3. disk[f] = {}
        BY <2>2, <4>1, <4>2 DEF FreeInv
      <4>4. QED
        BY <2>1, <3>1, <3>2, <4>3
    <3>3. CASE w1.at # Ini
      <4>1. p \in Slots \ disk[Ini].used
        BY <2>5, <2>8, <3>3
      <4>2. disk[f] = {} /\ (w1.at = f => w1.to = {})
        BY <2>1, <4>1 DEF FreeInv
      <4>3. QED
        BY <2>1, <3>1, <4>2
    <3>4. QED
      BY <3>2, <3>3
  <2>9. ASSUME NEW p \in Slots \ used, NEW f \in FilesOf(p)
        PROVE  /\ disk'[f] = {} \/ \E w \in ToSet(todo') : w.at = f
               /\ \A k \in DOMAIN todo' : todo'[k].at = f =>
                     todo'[k].to = {} /\ \A j \in DOMAIN todo' : todo'[j].at = Ini => k < j
    <3>1. f \in Places
      BY OwnFiles
    <3>2. /\ disk[f] = {} \/ \E w \in ToSet(todo) : w.at = f
          /\ \A k \in DOMAIN todo : todo[k].at = f =>
                todo[k].to = {} /\ \A j \in DOMAIN todo : todo[j].at = Ini => k < j
      BY <2>2 DEF FreeInv
    <3>3. w1.at = f => w1.to = {}
      BY <2>1, <3>2
    <3>4. disk'[f] = {} \/ \E w \in ToSet(todo') : w.at = f
      BY <2>1, <3>1, <3>2, <3>3
    <3>5. ASSUME NEW k \in DOMAIN todo', todo'[k].at = f, NEW j \in DOMAIN todo', todo'[j].at = Ini
          PROVE  k < j
      <4>1. k + 1 \in DOMAIN todo /\ j + 1 \in DOMAIN todo /\ todo[k + 1].at = f /\ todo[j + 1].at = Ini
        BY <2>1, <3>5
      <4>2. k + 1 < j + 1
        BY <3>2, <4>1
      <4>3. k \in Int /\ j \in Int
        BY <2>1
      <4>4. QED
        BY <4>2, <4>3
    <3>6. \A k \in DOMAIN todo' : todo'[k].at = f => todo'[k].to = {}
      BY <2>1, <3>2
    <3>7. QED
      BY <3>4, <3>5, <3>6
  <2>10. ASSUME NEW p \in Slots, NEW f \in FilesOf(p), NEW w \in ToSet(todo'), w.at = f, w.to # {}
         PROVE  p \in disk'[Ini].used
    <3>1. w \in ToSet(todo)
      BY <2>1
    <3>2. CASE w1.at # Ini
      BY <2>5, <2>10, <3>1, <3>2 DEF FreeInv
    <3>3. CASE w1.at = Ini
      <4>1. \E k \in DOMAIN todo : todo[k].at = f
        BY <2>10, <3>1 DEF ToSet
      <4>2. p \in used
        BY <2>7, <3>3, <4>1
      <4>3. QED
        BY <2>4, <3>3, <4>2
    <3>4. QED
      BY <3>2, <3>3
  <2> HIDE DEF w1
  <2>11. QED
    BY <1>0, <2>3, <2>8, <2>9, <2>10 DEF FreeInv, FilesOf, AllReached
<1>6. CASE PowerOff
  <2>1. ToSet(todo') = {} /\ ~ on' /\ disk'[Ini] = disk[Ini]
    BY <1>6, PowerOffIs DEF OrdinaryRoster
  <2>2. ASSUME NEW p \in Slots \ disk[Ini].used, NEW f \in FilesOf(p) PROVE disk'[f] = {}
    <3>1. disk[f] = {}
      BY DEF FreeInv
    <3>2. f \in {Play(p), Cheat(p), Saves(p)}
      BY OwnFiles
    <3>3. /\ disk'[Play(p)] \in {disk[Play(p)], {}}
          /\ disk'[Cheat(p)] \in {disk[Cheat(p)], {}}
          /\ disk'[Saves(p)] \subseteq disk[Saves(p)]
      BY <1>6, PowerOffIs
    <3>4. QED
      BY <3>1, <3>2, <3>3
  <2>3. QED
    BY <2>1, <2>2 DEF FreeInv, FilesOf, AllReached
<1>7. CASE Boot
  <2>1. disk' = disk /\ todo' = todo /\ used' = disk[Ini].used \cup {0} /\ ~ on
    BY <1>7 DEF Boot
  <2>2. ToSet(todo) = {} /\ DOMAIN todo = {}
    <3>1. todo = <<>>
      BY <2>1 DEF RosterInv
    <3>2. QED
      BY <3>1 DEF ToSet
  <2>3. \A p \in Slots \ used' : \A f \in FilesOf(p) : disk[f] = {}
    BY <2>1 DEF FreeInv
  <2>4. QED
    BY <2>1, <2>2, <2>3 DEF FreeInv, FilesOf, AllReached
<1>8. ASSUME NEW g \in Games, Favourite(g) \/ ToggleLock(g) PROVE FreeInv'
  BY <1>1, <1>8, Zenon DEF Favourite, ToggleLock
<1>9. ASSUME NEW g \in Games, NEW ticked \in BOOLEAN, LeaveSheet(g, ticked) PROVE FreeInv'
  <2>1. Idle /\ disk' = disk /\ used' = used
    BY <1>9 DEF LeaveSheet
  <2>2. QED
    BY <1>3, <1>9, <2>1, LeaveSheetPlaces, LeaveSheetTypes
<1>10. ASSUME NEW g \in Games, NEW ticked \in BOOLEAN, NEW t \in Clock, NEW boots \in BOOLEAN,
             Launch(g, ticked, t, boots)
      PROVE  FreeInv'
  <2>1. Idle /\ disk' = disk /\ used' = used
    BY <1>10 DEF Launch
  <2>2. QED
    BY <1>3, <1>10, <2>1, LaunchPlaces, LaunchTypes
<1>11. ASSUME NEW p \in Slots, AddProfile(p) PROVE FreeInv'
  <2>1. Idle /\ disk' = disk /\ used' = used \cup {p}
    BY <1>11 DEF AddProfile
  <2>2. \A w \in ToSet(todo') : writable /\ w.at = Ini
    <3>1. used \cup {p} \in SUBSET Slots /\ active \in Slots
      BY DEF TypeOK
    <3>2. SaveRoster(used \cup {p}, active).at = Ini
      BY <3>1, SavedRoster
    <3>3. \A w \in ToSet(todo') : writable /\ w = SaveRoster(used \cup {p}, active)
      BY <1>11, AddProfileWrites
    <3>4. QED
      BY <3>2, <3>3
  <2>3. QED
    BY <1>3, <1>11, <2>1, <2>2, AddProfileTypes
<1>12. ASSUME NEW p \in Slots, Choose(p) PROVE FreeInv'
  <2>1. /\ Idle /\ Activate(<<>>, active, p, used)
        /\ \A w \in ToSet(todo') :
              writable /\ w \in {SavePlay(rec, active), SaveCheats(cheats, active), SaveRoster(used, p)}
    BY <1>12, ChooseIs
  <2>2. active \in Slots /\ used \in SUBSET Slots /\ rec \in [Games -> Records] /\ cheats \in SUBSET Keys
    BY DEF TypeOK, Records
  <2>3. /\ SavePlay(rec, active).at = Play(active) /\ SaveCheats(cheats, active).at = Cheat(active)
        /\ SaveRoster(used, p).at = Ini
    BY <2>2, SavesAre
  <2>4. \A w \in ToSet(todo') : writable /\ w.at \in OwnPlaces \cup {Ini}
    BY <2>1, <2>3 DEF OwnPlaces
  <2>5. disk' = disk /\ used' = used
    BY <2>1, ActivateIs
  <2>6. TypeOK'
    BY <1>12, NextTypes DEF Next, Handler
  <2>7. QED
    BY <1>3, <2>1, <2>4, <2>5, <2>6
<1>13. ASSUME NEW p \in Slots, Delete(p) PROVE FreeInv'
  <2> DEFINE a == Write(Saves(p), disk[Saves(p)] \ Reachable)
             b == Write(Play(p), {})
             c == Write(Cheat(p), {})
             d == SaveRoster(used \ {p}, active)
             mine == {Saves(p), Play(p), Cheat(p)}
  <2>1. /\ Idle /\ p \in used \ {0, active} /\ writable
        /\ Activate(Removed(p, active), active, active, used \ {p})
        /\ todo' = Switching(Removed(p, active), active, active, used \ {p})
        /\ \A w \in ToSet(todo') :
               w \in {a, b, c, SavePlay(rec, active), SaveCheats(cheats, active), d}
        /\ {a, b, c, d} \subseteq ToSet(todo')
    BY <1>13, DeleteIs
  <2>2. /\ active \in Slots /\ used \ {p} \in SUBSET Slots /\ rec \in [Games -> Records]
        /\ cheats \in SUBSET Keys
    BY DEF TypeOK, Records
  <2>3. /\ SavePlay(rec, active).at = Play(active) /\ SaveCheats(cheats, active).at = Cheat(active)
        /\ d.at = Ini
    BY <2>2, SavesAre
  <2>4. /\ a.at = Saves(p) /\ b.at = Play(p) /\ c.at = Cheat(p)
        /\ b.to = {} /\ c.to = {}
    BY AtTo
  <2>5. AllReached => a.to = {}
    <3>1. a.to = disk[Saves(p)] \ Reachable
      BY AtTo
    <3>2. on /\ present \in Libraries
      BY <1>2, <2>1 DEF RosterInv
    <3>3. AllReached => Reachable = Games
      BY <3>2 DEF AllReached, Reachable
    <3>4. disk[Saves(p)] \subseteq Games
      BY FilesAre
    <3>5. QED
      BY <3>1, <3>3, <3>4
  <2>6. disk' = disk /\ used' = used \ {p}
    BY <2>1, ActivateIs
  <2>7. DOMAIN todo' \in SUBSET Int /\ \A k \in DOMAIN todo' : todo'[k] \in ToSet(todo')
    <3>1. todo' \in Seq(Writes)
      <4>1. TypeOK'
        BY <1>13, NextTypes DEF Next, Handler
      <4>2. QED
        BY <4>1 DEF TypeOK
    <3>2. QED
      BY <3>1, LenProperties DEF ToSet
  <2>8. \A k \in DOMAIN todo' : /\ todo'[k].at \in mine => k <= 3
                               /\ todo'[k].at = Ini => k > 3
    BY <2>1, DeleteOrder
  <2> HIDE DEF a, b, c, d
  \* What is written to a slot's files is the active player's, or nothing.
  <2>9. ASSUME NEW q \in Slots, NEW f \in FilesOf(q), NEW w \in ToSet(todo'), w.at = f
        PROVE  /\ q \in {p, active}
               /\ q = p => w.to = {} /\ f \in mine
    <3>1. /\ f # Ini /\ f \in {Play(q), Cheat(q), Saves(q)}
          /\ \A r \in Slots : f \in {Play(r), Cheat(r), Saves(r)} => r = q
          /\ f = Saves(q) => AllReached
      BY OwnFiles, PlacesAre DEF FilesOf
    <3>2. w \in {a, b, c, SavePlay(rec, active), SaveCheats(cheats, active), d}
      BY <2>1
    <3>3. CASE w \in {SavePlay(rec, active), SaveCheats(cheats, active), d}
      BY <2>1, <2>2, <2>3, <2>9, <3>1, <3>3
    <3>4. CASE w \in {a, b, c}
      <4>1. q = p /\ f \in mine
        BY <2>4, <2>9, <3>1, <3>4
      <4>2. w = a => AllReached
        BY <2>4, <2>9, <3>1, <4>1
      <4>3. w.to = {}
        BY <2>4, <2>5, <3>4, <4>2
      <4>4. QED
        BY <4>1, <4>3
    <3>5. QED
      BY <3>2, <3>3, <3>4
  <2>10. ASSUME NEW q \in Slots \ used', NEW f \in FilesOf(q)
         PROVE  /\ disk'[f] = {} \/ \E w \in ToSet(todo') : w.at = f
                /\ \A k \in DOMAIN todo' : todo'[k].at = f =>
                      todo'[k].to = {} /\ \A j \in DOMAIN todo' : todo'[j].at = Ini => k < j
    <3>1. q # active /\ (q = p \/ q \notin used)
      BY <1>2, <2>1, <2>6
    <3>2. disk'[f] = {} \/ \E w \in ToSet(todo') : w.at = f
      <4>1. CASE q = p
        <5>1. f \in mine
          BY <4>1, OwnFiles
        <5>2. QED
          BY <2>1, <2>4, <5>1
      <4>2. CASE q \notin used
        BY <1>2, <2>1, <2>6, <4>2
      <4>3. QED
        BY <3>1, <4>1, <4>2
    <3>3. ASSUME NEW k \in DOMAIN todo', todo'[k].at = f
          PROVE  todo'[k].to = {} /\ \A j \in DOMAIN todo' : todo'[j].at = Ini => k < j
      <4>1. q = p /\ todo'[k].to = {} /\ f \in mine
        BY <2>7, <2>9, <3>1, <3>3
      <4>2. k <= 3
        <5>1. todo'[k].at \in mine
          BY <3>3, <4>1
        <5>2. QED
          BY <2>1, <5>1, DeleteOrder
      <4>3. ASSUME NEW j \in DOMAIN todo', todo'[j].at = Ini PROVE k < j
        <5>1. j > 3 /\ j \in Int /\ k \in Int
          BY <2>7, <2>8, <4>3
        <5>2. QED
          BY <4>2, <5>1
      <4>4. QED
        BY <4>1, <4>3
    <3>4. QED
      BY <3>2, <3>3
  <2>11. ASSUME NEW q \in Slots, NEW f \in FilesOf(q), NEW w \in ToSet(todo'), w.at = f
         PROVE  q \in disk'[Ini].used
    BY <1>2, <2>1, <2>6, <2>9, <2>11
  <2>12. \A q \in Slots \ disk'[Ini].used : \A f \in FilesOf(q) : disk'[f] = {}
    BY <2>6 DEF FreeInv
  <2>13. QED
    BY <1>0, <2>10, <2>11, <2>12 DEF FreeInv, FilesOf, AllReached
<1>14. QED
  BY <1>4, <1>5, <1>6, <1>7, <1>8, <1>9, <1>10, <1>11, <1>12, <1>13 DEF Next, Handler

-----------------------------------------------------------------------------
(***************************************************************************)
(* Whose a history is: every row, tick and record is of a game the player  *)
(* did something to.                                                       *)
(***************************************************************************)
KeysOf(rows) == {r.key : r \in rows}

HistoryInv ==
    /\ \A p \in Slots : KeysOf(disk[Play(p)]) \subseteq touched[p] /\ disk[Cheat(p)] \subseteq touched[p]
    /\ \A p \in Slots : \A w \in ToSet(todo) :
          /\ w.at = Play(p) => KeysOf(w.to) \subseteq touched[p]
          /\ w.at = Cheat(p) => w.to \subseteq touched[p]
    /\ on => cheats \subseteq touched[active]
    /\ on => \A g \in present : Worth(rec, g) => Key[g] \in touched[active]

\* playstate_save() writes rows for the games worth one only.
LEMMA SavedRows ==
  ASSUME NEW r \in [Games -> Records], NEW mine, \A g \in present : Worth(r, g) => Key[g] \in mine
  PROVE  KeysOf(RowsOf(r)) \subseteq mine
<1>1. \A x \in RowsOf(r) : \E g \in Games : Worth(r, g) /\ x.key = Key[g]
  BY RowsAre
<1>2. \A g \in Games : Worth(r, g) => g \in present
  BY DEF Worth
<1>3. QED
  BY <1>1, <1>2 DEF KeysOf

\* playstate_load() changes a record for a row with its key only.
LEMMA AppliedKey ==
  ASSUME NEW rows, NEW games, NEW base, NEW g \in Games
  PROVE  Applied(rows, games, base)[g] = base[g] \/ \E x \in rows : x.key = Key[g]
<1>1. CASE {r \in rows : r.key = Key[g]} = {}
  BY <1>1 DEF Applied
<1>2. CASE {r \in rows : r.key = Key[g]} # {}
  BY <1>2
<1>3. QED
  BY <1>1, <1>2

\* What is applied to a record that says nothing is a row of the file.
LEMMA AppliedWorth ==
  ASSUME NEW rows \in SUBSET Rows, NEW base \in [Games -> Records], NEW g \in Games,
         ~ base[g].fav, base[g].stamp = 0, ~ base[g].played,
         NEW r, r[g].fav = Applied(rows, present, base)[g].fav,
         r[g].stamp = Applied(rows, present, base)[g].stamp,
         r[g].played = Applied(rows, present, base)[g].played,
         Worth(r, g)
  PROVE  Key[g] \in KeysOf(rows)
<1>1. Applied(rows, present, base)[g] # base[g]
  <2>1. r[g].fav \/ r[g].stamp # 0 \/ r[g].played
    BY DEF Worth
  <2>2. QED
    BY <2>1
<1>2. \E x \in rows : x.key = Key[g]
  BY <1>1, AppliedKey
<1>3. QED
  BY <1>2 DEF KeysOf

\* After a script whose writes are each the player's own, so are the files.
LEMMA AfterHistory ==
  ASSUME TypeOK, HistoryInv, NEW script \in Seq(Writes), NEW p \in Slots,
         \A w \in ToSet(script) : /\ w.at = Play(p) => KeysOf(w.to) \subseteq touched[p]
                                  /\ w.at = Cheat(p) => w.to \subseteq touched[p]
  PROVE  /\ KeysOf(After(script)[Play(p)]) \subseteq touched[p]
         /\ After(script)[Cheat(p)] \subseteq touched[p]
<1>1. Play(p) \in Places /\ Cheat(p) \in Places
  BY PlacesAre
<1>2. KeysOf(disk[Play(p)]) \subseteq touched[p] /\ disk[Cheat(p)] \subseteq touched[p]
  BY DEF HistoryInv
<1>3. KeysOf(After(script)[Play(p)]) \subseteq touched[p]
  BY <1>1, <1>2, AfterIs
<1>4. After(script)[Cheat(p)] \subseteq touched[p]
  BY <1>1, <1>2, AfterIs
<1>5. QED
  BY <1>3, <1>4

\* The card's first rows are its first player's.
LEMMA InitHistory == Init => HistoryInv
<1> SUFFICES ASSUME Init PROVE HistoryInv
  OBVIOUS
<1>1. /\ ~ on /\ ToSet(todo) = {}
      /\ touched = [p \in Slots |-> IF p = 0 THEN {r.key : r \in OldRows} ELSE {}]
  BY DEF Init, ToSet
<1>2. \A p \in Slots : disk[Cheat(p)] = {} /\ disk[Play(p)] = IF p = 0 THEN OldRows ELSE {}
  BY PlacesAre, DataAssumption DEF Init
<1>3. QED
  BY <1>1, <1>2 DEF HistoryInv, KeysOf

\* An activation of r by the player who is active, after writes that empty.
LEMMA ActivateHistory ==
  ASSUME TypeOK, HistoryInv, on, NEW begun \in Seq(Writes), NEW r \in Slots, NEW roster \in SUBSET Slots,
         Activate(begun, active, r, roster),
         \A p \in Slots : \A w \in ToSet(begun) : w.at \in {Play(p), Cheat(p)} => w.to = {}
  PROVE  HistoryInv'
<1> DEFINE script == Switching(begun, active, r, roster)
           rows == After(script)[Play(r)]
<1>1. /\ todo' = script /\ active' = r
      /\ rec' = Applied(rows, present, Cleared)
      /\ cheats' = After(script)[Cheat(r)]
      /\ UNCHANGED <<on, present, disk, touched>>
  BY ActivateIs
<1>2. script \in Seq(Writes)
  BY SwitchingIs DEF TypeOK
<1>3. active \in Slots /\ rec \in [Games -> Records] /\ cheats \in SUBSET Keys
  BY DEF TypeOK, Records
<1>4. /\ SavePlay(rec, active).at = Play(active) /\ SavePlay(rec, active).to = RowsOf(rec)
      /\ SaveCheats(cheats, active).at = Cheat(active) /\ SaveCheats(cheats, active).to = cheats
      /\ SaveRoster(roster, r).at = Ini
  BY <1>3, SavesAre
<1>5. \A w \in ToSet(script) :
         w \in ToSet(begun) \cup {SavePlay(rec, active), SaveCheats(cheats, active), SaveRoster(roster, r)}
  BY <1>3, SwitchingPending
<1> HIDE DEF script
<1>6. ASSUME NEW p \in Slots, NEW w \in ToSet(script)
      PROVE  /\ w.at = Play(p) => KeysOf(w.to) \subseteq touched[p]
             /\ w.at = Cheat(p) => w.to \subseteq touched[p]
  <2>1. CASE w \in ToSet(begun)
    BY <2>1 DEF KeysOf
  <2>2. CASE w = SavePlay(rec, active)
    <3>1. KeysOf(RowsOf(rec)) \subseteq touched[active]
      BY <1>3, SavedRows DEF HistoryInv
    <3>2. QED
      BY <1>3, <1>4, <2>2, <3>1, PlacesAre
  <2>3. CASE w = SaveCheats(cheats, active)
    <3>1. cheats \subseteq touched[active]
      BY DEF HistoryInv
    <3>2. QED
      BY <1>3, <1>4, <2>3, <3>1, PlacesAre
  <2>4. CASE w = SaveRoster(roster, r)
    BY <1>4, <2>4, PlacesAre
  <2>5. QED
    BY <1>5, <2>1, <2>2, <2>3, <2>4
<1>7. /\ KeysOf(rows) \subseteq touched[r] /\ cheats' \subseteq touched[r]
      /\ rows \in SUBSET Rows
  BY <1>1, <1>2, <1>6, AfterHistory, AfterType
<1> HIDE DEF rows
<1>8. ASSUME NEW g \in present, Worth(rec, g)' PROVE Key[g] \in touched[r]
  <2>1. g \in Games
    BY DEF TypeOK
  <2>2. Cleared \in [Games -> Records]
    BY ClearedType
  <2>3. ~ Cleared[g].fav /\ Cleared[g].stamp = 0 /\ ~ Cleared[g].played
    <3>1. Cleared[g] = [rec[g] EXCEPT !.fav = FALSE, !.stamp = 0, !.played = FALSE]
      BY <2>1 DEF Cleared
    <3>2. rec[g] \in Records
      BY <1>3, <2>1
    <3>3. QED
      BY <3>1, <3>2 DEF Records
  <2>4. Worth(rec', g)
    BY <1>1, <1>8 DEF Worth
  <2>5. Key[g] \in KeysOf(rows)
    BY <1>1, <1>7, <2>1, <2>2, <2>3, <2>4, AppliedWorth
  <2>6. QED
    BY <1>7, <2>5
<1>9. QED
  BY <1>1, <1>6, <1>7, <1>8 DEF HistoryInv

\* Whatever is in a player's files, in what is pending for them or in memory while
\* he is active stays his.
LEMMA NextHistory ==
  ASSUME OrdinaryRoster
  PROVE  TypeOK /\ RosterInv /\ FreeInv /\ HistoryInv /\ [Next]_vars => HistoryInv'
<1> SUFFICES ASSUME TypeOK, RosterInv, FreeInv, HistoryInv, [Next]_vars PROVE HistoryInv'
  OBVIOUS
<1>0. /\ active \in Slots /\ rec \in [Games -> Records] /\ present \in SUBSET Games
      /\ touched \in [Slots -> SUBSET Keys] /\ used \in SUBSET Slots
  BY DEF TypeOK, Records
\* Nothing is written, and no more is remembered than before.
<1>1. ASSUME UNCHANGED <<on, present, active, cheats, disk, todo, touched>>,
             \A g \in Games : /\ rec'[g].fav = rec[g].fav /\ rec'[g].stamp = rec[g].stamp
                              /\ rec'[g].played = rec[g].played
      PROVE  HistoryInv'
  <2>1. \A g \in present : Worth(rec', g) => Worth(rec, g)
    BY <1>0, <1>1 DEF Worth
  <2>2. \A g \in present : Worth(rec, g)' => Worth(rec', g)
    BY <1>1 DEF Worth
  <2>3. QED
    BY <1>1, <2>1, <2>2 DEF HistoryInv
\* The active player touches a game.
<1>2. ASSUME NEW g \in Games, Touch(Key[g]), UNCHANGED <<on, present, active, disk>>,
             on, cheats' \subseteq cheats \cup {Key[g]},
             \A h \in Games \ {g} : rec'[h] = rec[h],
             \A w \in ToSet(todo') : /\ w.at = Play(active) => KeysOf(w.to) \subseteq touched'[active]
                                     /\ w.at = Cheat(active) => w.to \subseteq touched'[active]
                                     /\ w.at \in OwnPlaces
      PROVE  HistoryInv'
  <2>1. touched' = [touched EXCEPT ![active] = @ \cup {Key[g]}]
    BY <1>2 DEF Touch
  <2>2. touched'[active] = touched[active] \cup {Key[g]} /\ \A p \in Slots : touched[p] \subseteq touched'[p]
    BY <1>0, <2>1
  <2>3. cheats' \subseteq touched'[active']
    BY <1>2, <2>2 DEF HistoryInv
  <2>4. ASSUME NEW h \in present', Worth(rec, h)' PROVE Key[h] \in touched'[active']
    <3>1. CASE h = g
      BY <1>2, <2>2, <3>1
    <3>2. CASE h # g
      <4>1. h \in Games /\ Worth(rec, h)
        BY <1>0, <1>2, <2>4, <3>2 DEF Worth
      <4>2. QED
        BY <1>2, <2>2, <4>1 DEF HistoryInv
    <3>3. QED
      BY <3>1, <3>2
  <2>5. ASSUME NEW p \in Slots, NEW w \in ToSet(todo')
        PROVE  /\ w.at = Play(p) => KeysOf(w.to) \subseteq touched'[p]
               /\ w.at = Cheat(p) => w.to \subseteq touched'[p]
    <3>1. w.at \in {Play(p), Cheat(p)} => p = active
      BY <1>0, <1>2, PlacesAre DEF OwnPlaces
    <3>2. QED
      BY <1>2, <3>1
  <2>6. ASSUME NEW p \in Slots
        PROVE  KeysOf(disk'[Play(p)]) \subseteq touched'[p] /\ disk'[Cheat(p)] \subseteq touched'[p]
    BY <1>2, <2>2 DEF HistoryInv
  <2>7. QED
    BY <2>3, <2>4, <2>5, <2>6 DEF HistoryInv
<1>3. CASE UNCHANGED vars
  BY <1>1, <1>3 DEF vars, ram
<1>4. CASE WriteFile
  <2>1. /\ ToSet(todo) = {todo[1]} \cup ToSet(todo')
        /\ \A p \in Slots :
              /\ disk'[Play(p)] = disk[Play(p)] \/ (todo[1].at = Play(p) /\ disk'[Play(p)] = todo[1].to)
              /\ disk'[Cheat(p)] = disk[Cheat(p)] \/ (todo[1].at = Cheat(p) /\ disk'[Cheat(p)] = todo[1].to)
    BY <1>4, WriteFileIs, PlacesAre
  <2>2. UNCHANGED <<on, present, active, cheats, rec, touched>>
    BY <1>4 DEF WriteFile, ram
  <2>3. ASSUME NEW p \in Slots
        PROVE  KeysOf(disk'[Play(p)]) \subseteq touched[p] /\ disk'[Cheat(p)] \subseteq touched[p]
    BY <2>1 DEF HistoryInv
  <2>4. ASSUME NEW p \in Slots, NEW w \in ToSet(todo')
        PROVE  /\ w.at = Play(p) => KeysOf(w.to) \subseteq touched[p]
               /\ w.at = Cheat(p) => w.to \subseteq touched[p]
    BY <2>1 DEF HistoryInv
  <2>5. on => \A g \in present : Worth(rec, g)' => Key[g] \in touched[active]
    BY <2>2 DEF HistoryInv, Worth
  <2>6. QED
    BY <2>2, <2>3, <2>4, <2>5 DEF HistoryInv
<1>5. CASE PowerOff
  <2>1. /\ ToSet(todo') = {} /\ ~ on' /\ touched' = touched
        /\ \A p \in Slots : /\ disk'[Play(p)] \in {disk[Play(p)], {}}
                            /\ disk'[Cheat(p)] \in {disk[Cheat(p)], {}}
    BY <1>5, PowerOffIs
  <2>2. \A p \in Slots : KeysOf(disk'[Play(p)]) \subseteq touched[p] /\ disk'[Cheat(p)] \subseteq touched[p]
    BY <2>1 DEF HistoryInv, KeysOf
  <2>3. QED
    BY <2>1, <2>2 DEF HistoryInv
<1>6. CASE Boot
  <2> DEFINE played == Applied(disk[Play(BootAs)], present', Unread)
  <2>1. /\ BootAs \in Slots /\ disk[Play(BootAs)] \in SUBSET Rows
        /\ KeysOf(disk[Play(BootAs)]) \subseteq touched[BootAs]
        /\ disk[Cheat(BootAs)] \subseteq touched[BootAs]
    <3>1. BootAs \in Slots
      BY FilesAre, DataAssumption DEF BootAs
    <3>2. QED
      BY <3>1, FilesAre DEF HistoryInv
  <2>2. /\ active' = BootAs /\ cheats' = disk[Cheat(BootAs)] /\ touched' = touched
        /\ disk' = disk /\ todo' = todo /\ present' \in SUBSET Games
        /\ rec' = [g \in Games |->
                     [played[g] EXCEPT !.locked = @ \/ (g \in present' /\ Key[g] \in disk[Locks])]]
    BY <1>6, DataAssumption DEF Boot
  <2>3. Unread \in [Games -> Records]
    BY DataAssumption DEF Unread, Blank, Records, Stamps
  <2>4. played \in [Games -> Records]
    BY <2>1, <2>3, AppliedType
  <2>5. ASSUME NEW g \in present', Worth(rec, g)' PROVE Key[g] \in touched[BootAs]
    <3>1. g \in Games /\ Unread[g] = Blank
      BY <2>2 DEF Unread
    <3>2. rec'[g].fav = played[g].fav /\ rec'[g].stamp = played[g].stamp /\ rec'[g].played = played[g].played
      <4> HIDE DEF played
      <4>1. played[g] \in Records
        BY <2>4, <3>1
      <4>2. rec'[g] = [played[g] EXCEPT !.locked = @ \/ (g \in present' /\ Key[g] \in disk[Locks])]
        BY <2>2, <3>1
      <4>3. QED
        BY <4>1, <4>2 DEF Records
    <3>3. rec'[g].fav \/ rec'[g].stamp # 0 \/ rec'[g].played
      BY <2>5 DEF Worth
    <3>4. played[g] # Unread[g]
      BY <3>1, <3>2, <3>3 DEF Blank
    <3>5. \E x \in disk[Play(BootAs)] : x.key = Key[g]
      BY <3>1, <3>4, AppliedKey
    <3>6. QED
      BY <2>1, <3>5 DEF KeysOf
  <2>6. ASSUME NEW p \in Slots
        PROVE  /\ KeysOf(disk[Play(p)]) \subseteq touched[p] /\ disk[Cheat(p)] \subseteq touched[p]
               /\ \A w \in ToSet(todo) : /\ w.at = Play(p) => KeysOf(w.to) \subseteq touched[p]
                                         /\ w.at = Cheat(p) => w.to \subseteq touched[p]
    BY DEF HistoryInv
  <2> HIDE DEF played
  <2>7. QED
    BY <2>1, <2>2, <2>5, <2>6 DEF HistoryInv
<1>7. ASSUME NEW g \in Games, Favourite(g) PROVE HistoryInv'
  <2>1. /\ Idle /\ Touch(Key[g]) /\ UNCHANGED <<on, present, active, disk, cheats, todo>>
        /\ rec' = [rec EXCEPT ![g].fav = ~ @]
    BY <1>7 DEF Favourite
  <2>2. ToSet(todo') = {} /\ on
    BY <2>1, PendingAre DEF Idle
  <2>3. \A h \in Games \ {g} : rec'[h] = rec[h]
    BY <1>0, <2>1
  <2>4. QED
    BY <1>2, <2>1, <2>2, <2>3
<1>8. ASSUME NEW g \in Games, ToggleLock(g) PROVE HistoryInv'
  <2>1. /\ UNCHANGED <<on, present, active, cheats, disk, todo, touched>>
        /\ rec' = [rec EXCEPT ![g].locked = ~ @]
    BY <1>8 DEF ToggleLock
  <2>2. \A h \in Games : /\ rec'[h].fav = rec[h].fav /\ rec'[h].stamp = rec[h].stamp
                         /\ rec'[h].played = rec[h].played
    BY <1>0, <2>1 DEF Records
  <2>3. QED
    BY <1>1, <2>1, <2>2
<1>9. ASSUME NEW g \in Games, NEW ticked \in BOOLEAN, LeaveSheet(g, ticked) PROVE HistoryInv'
  <2>1. /\ Idle /\ Touch(Key[g]) /\ UNCHANGED <<on, present, active, disk, rec>>
        /\ cheats' = Captured(Key[g], ticked)
    BY <1>9 DEF LeaveSheet
  <2>2. on /\ cheats' \subseteq cheats \cup {Key[g]} /\ cheats' \in SUBSET Keys
    BY <2>1, CapturedIs DEF Idle, Captured
  <2>3. cheats' \subseteq touched'[active]
    <3>1. touched'[active] = touched[active] \cup {Key[g]}
      BY <1>0, <2>1 DEF Touch
    <3>2. QED
      BY <2>2, <3>1 DEF HistoryInv
  <2>4. SaveCheats(cheats', active).at = Cheat(active) /\ SaveCheats(cheats', active).to = cheats'
    BY <1>0, <2>2, SavesAre
  <2>5. \A w \in ToSet(todo') : /\ w.at = Play(active) => KeysOf(w.to) \subseteq touched'[active]
                                /\ w.at = Cheat(active) => w.to \subseteq touched'[active]
                                /\ w.at \in OwnPlaces
    BY <1>0, <1>9, <2>3, <2>4, LeaveSheetWrites, PlacesAre DEF OwnPlaces
  <2>6. QED
    BY <1>2, <2>1, <2>2, <2>5
<1>10. ASSUME NEW g \in Games, NEW ticked \in BOOLEAN, NEW t \in Clock, NEW boots \in BOOLEAN,
             Launch(g, ticked, t, boots)
      PROVE  HistoryInv'
  <2>1. /\ Idle /\ Touch(Key[g]) /\ UNCHANGED <<on, present, active, disk>>
        /\ cheats' = Captured(Key[g], ticked)
        /\ rec' = [rec EXCEPT ![g].stamp = Stamped(t), ![g].played = TRUE]
    BY <1>10 DEF Launch
  <2>2. /\ on /\ cheats' \subseteq cheats \cup {Key[g]} /\ cheats' \in SUBSET Keys
        /\ rec' \in [Games -> Records]
    BY <1>10, <2>1, CapturedIs, LaunchWrites DEF Idle, Captured
  <2>3. \A h \in Games \ {g} : rec'[h] = rec[h]
    BY <1>0, <2>1
  <2>4. touched'[active] = touched[active] \cup {Key[g]}
    BY <1>0, <2>1 DEF Touch
  <2>5. cheats' \subseteq touched'[active]
    BY <2>2, <2>4 DEF HistoryInv
  <2>6. KeysOf(RowsOf(rec')) \subseteq touched'[active]
    <3>1. ASSUME NEW h \in present, Worth(rec', h) PROVE Key[h] \in touched'[active]
      <4>1. CASE h = g
        BY <2>4, <4>1
      <4>2. CASE h # g
        <5>1. h \in Games /\ Worth(rec, h)
          BY <1>0, <2>3, <3>1, <4>2 DEF Worth
        <5>2. QED
          BY <2>2, <2>4, <5>1 DEF HistoryInv
      <4>3. QED
        BY <4>1, <4>2
    <3>2. QED
      BY <2>2, <3>1, SavedRows
  <2>7. /\ SavePlay(rec', active).at = Play(active) /\ SavePlay(rec', active).to = RowsOf(rec')
        /\ SaveCheats(cheats', active).at = Cheat(active) /\ SaveCheats(cheats', active).to = cheats'
        /\ SaveLocks.at = Locks
        /\ Write(Saves(active), disk[Saves(active)] \cup {g}).at = Saves(active)
    BY <1>0, <2>2, SavesAre, AtTo
  <2>8. \A w \in ToSet(todo') :
            w \in {Write(Saves(active), disk[Saves(active)] \cup {g}), SavePlay(rec', active),
                   SaveCheats(cheats', active), SaveLocks}
    BY <1>10, LaunchPending
  <2>9. \A w \in ToSet(todo') : /\ w.at = Play(active) => KeysOf(w.to) \subseteq touched'[active]
                                /\ w.at = Cheat(active) => w.to \subseteq touched'[active]
                                /\ w.at \in OwnPlaces
    BY <1>0, <2>5, <2>6, <2>7, <2>8, PlacesAre DEF OwnPlaces
  <2>10. QED
    BY <1>2, <2>1, <2>2, <2>3, <2>9
\* A slot that is filled was free, and its files were empty.
<1>11. ASSUME NEW p \in Slots, AddProfile(p) PROVE HistoryInv'
  <2>1. /\ Idle /\ p \in Slots \ used /\ UNCHANGED <<on, present, active, disk, rec, cheats>>
        /\ touched' = [touched EXCEPT ![p] = {}]
    BY <1>11 DEF AddProfile
  <2>2. on /\ ToSet(todo) = {} /\ active \in used
    BY <2>1, PendingAre DEF Idle, RosterInv
  <2>3. disk[Play(p)] = {} /\ disk[Cheat(p)] = {}
    <3>1. Play(p) \in FilesOf(p) /\ Cheat(p) \in FilesOf(p)
      BY DEF FilesOf
    <3>2. QED
      BY <2>1, <2>2, <3>1 DEF FreeInv
  <2>4. touched'[active] = touched[active] /\ \A q \in Slots \ {p} : touched'[q] = touched[q]
    BY <1>0, <2>1, <2>2
  <2>5. ASSUME NEW q \in Slots
        PROVE  KeysOf(disk'[Play(q)]) \subseteq touched'[q] /\ disk'[Cheat(q)] \subseteq touched'[q]
    BY <2>1, <2>3, <2>4 DEF HistoryInv, KeysOf
  <2>6. \A w \in ToSet(todo') : w.at = Ini
    <3>1. used \cup {p} \in SUBSET Slots
      BY <1>0
    <3>2. SaveRoster(used \cup {p}, active).at = Ini
      BY <1>0, <3>1, SavedRoster
    <3>3. \A w \in ToSet(todo') : w = SaveRoster(used \cup {p}, active)
      BY <1>11, AddProfileWrites
    <3>4. QED
      BY <3>2, <3>3
  <2>7. \A q \in Slots : \A w \in ToSet(todo') : w.at # Play(q) /\ w.at # Cheat(q)
    BY <2>6, PlacesAre
  <2>8. \A g \in present : Worth(rec, g)' => Worth(rec, g)
    BY <2>1 DEF Worth
  <2>9. cheats' \subseteq touched'[active'] /\ \A g \in present' : Worth(rec, g)' => Key[g] \in touched'[active']
    BY <2>1, <2>2, <2>4, <2>8 DEF HistoryInv
  <2>10. QED
    BY <2>5, <2>7, <2>9 DEF HistoryInv
<1>12. ASSUME NEW p \in Slots, Choose(p) PROVE HistoryInv'
  <2>1. Idle /\ Activate(<<>>, active, p, used) /\ <<>> \in Seq(Writes) /\ ToSet(<<>>) = {}
    BY <1>12 DEF Choose, ToSet
  <2>2. QED
    BY <1>0, <2>1, ActivateHistory DEF Idle
<1>13. ASSUME NEW p \in Slots, Delete(p) PROVE HistoryInv'
  <2>1. Idle /\ Activate(Removed(p, active), active, active, used \ {p})
    BY <1>13, DeleteIs
  <2>2. /\ Removed(p, active) \in Seq(Writes)
        /\ ToSet(Removed(p, active)) = {Write(Saves(p), disk[Saves(p)] \ Reachable), Write(Play(p), {}),
                                        Write(Cheat(p), {}), SaveRoster(used \ {p}, active)}
    BY <1>0, RemovedIs
  <2>3. used \ {p} \in SUBSET Slots
    BY <1>0
  <2>4. SaveRoster(used \ {p}, active).at = Ini
    BY <1>0, <2>3, SavedRoster
  <2>5. /\ Write(Saves(p), disk[Saves(p)] \ Reachable).at = Saves(p)
        /\ Write(Play(p), {}).to = {} /\ Write(Cheat(p), {}).to = {}
    BY AtTo
  <2>6. \A q \in Slots : \A w \in ToSet(Removed(p, active)) : w.at \in {Play(q), Cheat(q)} => w.to = {}
    BY <2>2, <2>4, <2>5, PlacesAre
  <2>7. on
    BY <2>1 DEF Idle
  <2>8. QED
    BY <1>0, <2>1, <2>2, <2>3, <2>6, <2>7, ActivateHistory
<1>14. QED
  BY <1>3, <1>4, <1>5, <1>6, <1>7, <1>8, <1>9, <1>10, <1>11, <1>12, <1>13 DEF Next, Handler

PlayersInv == TypeOK /\ RosterInv /\ FreeInv /\ HistoryInv

\* What the players' files, the pending writes and memory have to do with each
\* other, step by step: the induction the next two theorems rest on.
THEOREM PlayersInvariant ==
  ASSUME OrdinaryRoster
  PROVE  Spec => []PlayersInv
<1>1. Init => PlayersInv
  BY InitTypes, InitRoster, InitFree, InitHistory DEF PlayersInv
<1>2. PlayersInv /\ [Next]_vars => PlayersInv'
  BY NextTypes, NextRoster, NextFree, NextHistory DEF PlayersInv
<1>3. QED
  BY <1>1, <1>2, PTL DEF Spec

\* OwnHistoryOnly: no favourite, play or cheat of one player is ever written to
\* another's file or shown as his, whatever is switched, deleted, refilled and
\* interrupted, for any number of games and of players the roster has room for.
THEOREM HistoryIsOnesOwn ==
  ASSUME OrdinaryRoster
  PROVE  Spec => []OwnHistoryOnly
<1>1. PlayersInv => OwnHistoryOnly
  <2> SUFFICES ASSUME PlayersInv PROVE OwnHistoryOnly
    OBVIOUS
  <2>1. \A p \in Slots : {r.key : r \in disk[Play(p)]} \cup disk[Cheat(p)] \subseteq touched[p]
    BY DEF PlayersInv, HistoryInv, KeysOf
  <2>2. on => cheats \cup {Key[g] : g \in {h \in present : rec[h].fav \/ rec[h].played}}
                 \subseteq touched[active]
    BY DEF PlayersInv, HistoryInv, Worth
  <2>3. QED
    BY <2>1, <2>2 DEF OwnHistoryOnly
<1>2. QED
  BY <1>1, PlayersInvariant, PTL

\* FreeSlotIsEmpty: run_delete() and profile_activate() write in an order that never
\* has the roster on the card say a slot is free while a file of its player is
\* left, wherever the power cuts them - if every save is beside a ROM of the
\* library, where profile_erase_saves() looks.
THEOREM FreeSlotsAreEmpty ==
  ASSUME OrdinaryRoster, AllReached
  PROVE  Spec => []FreeSlotIsEmpty
<1>1. PlayersInv => FreeSlotIsEmpty
  BY DEF PlayersInv, FreeInv, FilesOf, FreeSlotIsEmpty
<1>2. QED
  BY <1>1, PlayersInvariant, PTL

-----------------------------------------------------------------------------
(***************************************************************************)
(* Clean means saved: what a flag that is clear vouches for is in the file *)
(* as the writes still pending will leave it.                              *)
(***************************************************************************)
\* The roster's file has a section for every slot, and no card has two copies of
\* one game.
RoomForAll == \A p \in Slots : p + 2 <= IniSections
NoTwins == \A lib \in Libraries : \A g, h \in lib : Key[g] = Key[h] => g = h

\* The files once the handler is done.
Final == After(todo)

RosterSaved ==
    writable => /\ Final[Ini].used = used
                /\ (IF Final[Ini].active \in Final[Ini].used THEN Final[Ini].active ELSE 0) = active
PlaySaved ==
    ~ dirty => \A g \in present :
                  /\ Applied(Final[Play(active)], present, Unread)[g].fav = rec[g].fav
                  /\ Applied(Final[Play(active)], present, Unread)[g].stamp = rec[g].stamp
CheatsSaved == ~ cheatsDirty => cheats = Final[Cheat(active)]
LocksSaved == ~ locksDirty => \A g \in present : rec[g].locked <=> Key[g] \in Final[Locks]

SavedInv ==
    /\ 0 \in disk[Ini].used /\ \A w \in ToSet(todo) : w.at = Ini => 0 \in w.to.used
    /\ ~ on => todo = <<>>
    /\ on => 0 \in used /\ active \in used /\ present \in Libraries
    /\ on /\ ~ leaving => RosterSaved /\ PlaySaved /\ CheatsSaved /\ LocksSaved

\* Nothing pending changes nothing.
LEMMA NothingPending ==
  ASSUME todo = <<>>, NEW f \in Places
  PROVE  Final[f] = disk[f]
<1>1. \A s : s = <<>> => DOMAIN s = {}
  OBVIOUS
<1>2. DOMAIN todo = {}
  BY <1>1
<1>3. QED
  BY <1>2 DEF Final, After

\* What a handler leaves of a file, by what it has pending.
LEMMA FinalIs ==
  ASSUME TypeOK', disk' = disk, NEW f \in Places
  PROVE  \/ (\A w \in ToSet(todo') : w.at # f) /\ Final'[f] = disk[f]
         \/ \E w \in ToSet(todo') : w.at = f /\ Final'[f] = w.to
<1>1. todo' \in Seq(Writes)
  BY DEF TypeOK
<1>2. Final'[f] = After(todo')[f]
  BY DEF Final, After
<1>3. QED
  BY <1>1, <1>2, AfterIs

\* The maximum of a set moved down by one.
LEMMA MaxShifts ==
  ASSUME NEW T \in SUBSET Nat, NEW S \in SUBSET Nat, T # {}, NEW b \in Nat, \A x \in S : x <= b,
         \A x \in T : x + 1 \in S, \A x \in S : x = 1 \/ x - 1 \in T
  PROVE  Max(S) = Max(T) + 1
<1>1. S # {} /\ \A x \in T : x <= b
  <2>1. ASSUME NEW x \in T PROVE x <= b
    <3>1. x \in Nat /\ x + 1 <= b
      OBVIOUS
    <3>2. QED
      BY <3>1
  <2>2. QED
    BY <2>1
<1>2. Max(T) \in T /\ \A y \in T : Max(T) >= y
  BY <1>1, MaxIsGreatest
<1>3. Max(S) \in S /\ \A y \in S : Max(S) >= y
  BY <1>1, MaxIsGreatest
<1> DEFINE t == Max(T)
           s == Max(S)
<1>4. t \in Nat /\ s \in Nat /\ s >= t + 1 /\ t \in T /\ (s = 1 \/ s - 1 \in T)
  BY <1>2, <1>3
<1>5. \A y \in T : t >= y
  BY <1>2
<1> HIDE DEF t, s
<1>6. s - 1 \in T
  <2>1. CASE s = 1
    <3>1. t = s - 1
      BY <1>4, <2>1
    <3>2. QED
      BY <1>4, <3>1
  <2>2. QED
    BY <1>4, <2>1
<1>7. s = t + 1
  <2>1. t >= s - 1
    BY <1>5, <1>6
  <2>2. QED
    BY <1>4, <2>1
<1>8. QED
  BY <1>7 DEF t, s

\* A write that is done was among those that were going to be.
LEMMA FinalKept ==
  ASSUME TypeOK, WriteFile, NEW f \in Places
  PROVE  Final'[f] = Final[f]
<1> DEFINE hits == {k \in DOMAIN todo : todo[k].at = f}
           left == {k \in DOMAIN todo' : todo'[k].at = f}
<1>1. /\ DOMAIN todo' = 1 .. Len(todo) - 1 /\ Len(todo) - 1 \in Nat
      /\ \A k \in DOMAIN todo' : k + 1 \in DOMAIN todo /\ todo'[k] = todo[k + 1]
      /\ 1 \in DOMAIN todo
      /\ disk'[todo[1].at] = todo[1].to
      /\ \A q \in Places : q # todo[1].at => disk'[q] = disk[q]
  BY WriteFileIs
<1>2. Len(todo) \in Nat /\ DOMAIN todo = 1 .. Len(todo)
  BY PendingAre
<1>3. hits \in SUBSET Nat /\ left \in SUBSET Nat /\ \A x \in hits : x <= Len(todo)
  BY <1>1, <1>2
<1>4. \A x \in left : x + 1 \in hits
  BY <1>1
<1>5. \A x \in hits : x = 1 \/ x - 1 \in left
  <2> TAKE x \in hits
  <2>1. CASE x # 1
    <3>1. x - 1 \in DOMAIN todo' /\ (x - 1) + 1 = x
      BY <1>1, <1>2, <2>1
    <3>2. QED
      BY <1>1, <3>1
  <2>2. QED
    BY <2>1
<1>6. Final[f] = IF hits = {} THEN disk[f] ELSE todo[Max(hits)].to
  BY DEF Final, After
<1>7. Final'[f] = IF left = {} THEN disk'[f] ELSE todo'[Max(left)].to
  BY DEF Final, After
<1>8. CASE left # {}
  <2>1. Max(hits) = Max(left) + 1 /\ hits # {} /\ Max(left) \in left
    <3> HIDE DEF hits, left
    <3>1. \A x \in left : x <= Len(todo)
      BY <1>2, <1>3, <1>4
    <3>2. QED
      BY <1>2, <1>3, <1>4, <1>5, <1>8, <3>1, MaxShifts, MaxIsGreatest
  <2>2. todo'[Max(left)] = todo[Max(left) + 1]
    BY <1>1, <2>1
  <2>3. QED
    BY <1>6, <1>7, <1>8, <2>1, <2>2
<1>9. CASE left = {} /\ hits # {}
  <2>1. hits = {1}
    BY <1>5, <1>9
  <2>2. Max(hits) = 1
    <3> HIDE DEF hits
    <3>1. Max(hits) \in hits
      BY <1>2, <1>3, <1>9, MaxIsGreatest
    <3>2. QED
      BY <2>1, <3>1
  <2>3. todo[1].at = f
    BY <2>1
  <2>4. QED
    BY <1>1, <1>6, <1>7, <1>9, <2>2, <2>3
<1>10. CASE left = {} /\ hits = {}
  <2>1. todo[1].at # f
    BY <1>1, <1>10
  <2>2. QED
    BY <1>1, <1>6, <1>7, <1>10, <2>1
<1>11. QED
  BY <1>8, <1>9, <1>10

\* What a load makes of favourites and stamps depends on those it starts from.
LEMMA AppliedAgrees ==
  ASSUME NEW rows, NEW games, NEW a, NEW b, NEW g \in Games, a[g].fav = b[g].fav, a[g].stamp = b[g].stamp
  PROVE  /\ Applied(rows, games, a)[g].fav = Applied(rows, games, b)[g].fav
         /\ Applied(rows, games, a)[g].stamp = Applied(rows, games, b)[g].stamp
<1> DEFINE mine == {r \in rows : r.key = Key[g]}
           row == CHOOSE r \in mine : TRUE
           read(base) == [fav |-> base[g].fav \/ row.fav, stamp |-> row.stamp,
                          played |-> row.played, locked |-> base[g].locked \/ row.locked]
<1>1. CASE g \notin games \/ mine = {}
  BY <1>1 DEF Applied
<1>2. CASE g \in games /\ mine # {}
  <2>1. Applied(rows, games, a)[g] = read(a) /\ Applied(rows, games, b)[g] = read(b)
    BY <1>2 DEF Applied
  <2> HIDE DEF row
  <2>2. read(a).fav = read(b).fav /\ read(a).stamp = read(b).stamp
    OBVIOUS
  <2>3. QED
    BY <2>1, <2>2
<1>3. QED
  BY <1>1, <1>2

\* playstate_load() reads back what playstate_save() wrote, if no two titles share
\* a row.
LEMMA RowsReadBack ==
  ASSUME NEW r \in [Games -> Records], present \in SUBSET Games,
         \A g, h \in present : Key[g] = Key[h] => g = h, NEW g \in present
  PROVE  /\ Applied(RowsOf(r), present, Unread)[g].fav = r[g].fav
         /\ Applied(RowsOf(r), present, Unread)[g].stamp = r[g].stamp
<1> DEFINE row(h) == [key |-> Key[h], fav |-> r[h].fav, stamp |-> r[h].stamp,
                      played |-> r[h].played, locked |-> FALSE]
           again == Applied(RowsOf(r), present, Unread)[g]
<1>1. g \in Games /\ r[g] \in Records /\ Unread[g].fav = FALSE /\ Unread[g].stamp = 0
  BY DEF Unread, Blank
<1>2. ASSUME NEW x \in RowsOf(r) PROVE \E h \in Games : Worth(r, h) /\ x = row(h)
  BY <1>2 DEF RowsOf
<1>3. ASSUME NEW x \in RowsOf(r), x.key = Key[g] PROVE Worth(r, g) /\ x = row(g)
  <2>1. PICK h \in Games : Worth(r, h) /\ x = row(h)
    BY <1>2
  <2>2. h \in present /\ Key[h] = Key[g]
    BY <1>3, <2>1 DEF Worth
  <2>3. QED
    BY <2>1, <2>2
<1>4. ASSUME Worth(r, g) PROVE row(g) \in RowsOf(r) /\ row(g).key = Key[g]
  <2>1. ASSUME NEW v \in Games, Worth(r, v), Key[v] = Key[g] PROVE v = g
    BY <2>1 DEF Worth
  <2>2. g \in Nat
    BY <1>1, DataAssumption
  <2>3. ~ \E v \in Games : Worth(r, v) /\ Key[v] = Key[g] /\ v < g
    BY <2>1, <2>2
  <2>4. QED
    BY <1>1, <1>4, <2>3 DEF RowsOf
<1>5. CASE Worth(r, g)
  <2>1. \E x \in RowsOf(r) : x.key = Key[g] /\ again = Told(Unread[g], x)
    <3>1. \E x \in RowsOf(r) : x.key = Key[g]
      <4> HIDE DEF row
      <4>1. QED
        BY <1>4, <1>5
    <3>2. \/ g \notin present \/ \A x \in RowsOf(r) : x.key # Key[g]
          \/ \E x \in RowsOf(r) : x.key = Key[g] /\ again = Told(Unread[g], x)
      BY <1>1, AppliedIs
    <3>3. QED
      BY <3>1, <3>2
  <2>2. again = Told(Unread[g], row(g))
    <3> HIDE DEF again, row
    <3>1. QED
      BY <1>3, <2>1
  <2>3. again.fav = (FALSE \/ r[g].fav) /\ again.stamp = r[g].stamp
    <3> HIDE DEF again
    <3>1. QED
      BY <1>1, <2>2 DEF Told
  <2>4. r[g].fav \in BOOLEAN
    BY <1>1 DEF Records
  <2>5. QED
    <3> HIDE DEF again
    <3>1. again.fav = r[g].fav
      BY <2>3, <2>4
    <3>2. QED
      BY <2>3, <3>1 DEF again
<1>6. CASE ~ Worth(r, g)
  <2>1. again = Unread[g]
    <3>1. \A x \in RowsOf(r) : x.key # Key[g]
      BY <1>3, <1>6
    <3>2. g \in Games
      BY <1>1
    <3>3. ASSUME NEW rows, NEW games, NEW base, \A x \in rows : x.key # Key[g]
          PROVE  Applied(rows, games, base)[g] = base[g]
      BY <3>2, <3>3 DEF Applied
    <3>4. QED
      BY <3>1, <3>3
  <2>2. r[g].fav = FALSE /\ r[g].stamp = 0
    <3>1. r[g].fav \in BOOLEAN /\ ~ r[g].fav /\ r[g].stamp = 0
      BY <1>1, <1>6 DEF Worth, Records
    <3>2. QED
      BY <3>1
  <2>3. QED
    BY <1>1, <2>1, <2>2
<1>7. QED
  BY <1>5, <1>6

\* profile_save() writes the whole roster where its file has room for it.
LEMMA WholeRoster ==
  ASSUME RoomForAll, TypeOK, NEW u \in SUBSET Slots, NEW p \in Slots
  PROVE  /\ SaveRoster(u, p).at = Ini
         /\ SaveRoster(u, p).to.used = u /\ SaveRoster(u, p).to.active = p
<1>1. {q \in u : q + 2 <= IniSections} = u
  BY DEF RoomForAll
<1>2. /\ SaveRoster(u, p).at = Ini
      /\ SaveRoster(u, p).to = [used |-> {q \in u : q + 2 <= IniSections}, active |-> p]
  BY SavesAre
<1>3. QED
  BY <1>1, <1>2

\* Whoever is activated, by a choice or after a deletion, is in the roster that is
\* written, once or twice.
LEMMA SwitchRoster ==
  ASSUME RoomForAll, TypeOK, SavedInv, NEW p \in Slots, Choose(p) \/ Delete(p)
  PROVE  /\ Idle
         /\ \E begun \in Seq(Writes), from \in Slots, q \in Slots, roster \in SUBSET Slots :
               /\ Activate(begun, from, q, roster)
               /\ 0 \in roster /\ q \in roster
               /\ \A w \in ToSet(begun) : w.at # Locks /\ (w.at = Ini => w = SaveRoster(roster, q))
<1>1. active \in Slots /\ 0 \in Slots /\ used \in SUBSET Slots /\ used \ {p} \in SUBSET Slots
  BY DataAssumption DEF TypeOK
<1>2. Idle
  BY SwitchIs
<1>3. 0 \in used /\ active \in used
  BY <1>2 DEF SavedInv, Idle
<1>4. CASE Choose(p)
  <2>1. <<>> \in Seq(Writes) /\ ToSet(<<>>) = {}
    BY DEF ToSet
  <2>2. p \in used /\ Activate(<<>>, active, p, used)
    BY <1>4 DEF Choose
  <2>3. QED
    BY <1>1, <1>2, <1>3, <2>1, <2>2
<1>5. CASE Delete(p)
  <2> DEFINE next == IF p = active THEN 0 ELSE active
  <2>1. next \in Slots /\ p # 0 /\ 0 \in used \ {p} /\ next \in used \ {p}
    BY <1>1, <1>3, <1>5 DEF Delete
  <2>2. Activate(Removed(p, next), next, next, used \ {p})
    BY <1>5 DEF Delete
  <2> HIDE DEF next
  <2>3. /\ Removed(p, next) \in Seq(Writes)
        /\ ToSet(Removed(p, next)) = {Write(Saves(p), disk[Saves(p)] \ Reachable), Write(Play(p), {}),
                                      Write(Cheat(p), {}), SaveRoster(used \ {p}, next)}
    BY <2>1, RemovedIs
  <2>4. SaveRoster(used \ {p}, next).at = Ini
    BY <1>1, <2>1, SavesAre
  <2>5. /\ Write(Saves(p), disk[Saves(p)] \ Reachable).at = Saves(p)
        /\ Write(Play(p), {}).at = Play(p) /\ Write(Cheat(p), {}).at = Cheat(p)
    BY AtTo
  <2>6. \A w \in ToSet(Removed(p, next)) :
           w.at # Locks /\ (w.at = Ini => w = SaveRoster(used \ {p}, next))
    BY <2>3, <2>4, <2>5, PlacesAre
  <2>7. QED
    BY <1>1, <1>2, <2>1, <2>2, <2>3, <2>6
<1>6. QED
  BY <1>4, <1>5

\* The card starts with nothing pending.
LEMMA InitSaved == Init => SavedInv
<1> SUFFICES ASSUME Init PROVE SavedInv
  OBVIOUS
<1>1. disk[Ini].used = OldRoster /\ todo = <<>> /\ ToSet(todo) = {} /\ ~ on
  BY PlacesAre DEF Init, ToSet
<1>2. QED
  BY <1>1, DataAssumption DEF SavedInv

\* A handler that leaves the files alone, or is on its way into a game.
LEMMA RosterKept ==
  ASSUME SavedInv, Idle, on', disk' = disk, UNCHANGED <<present, used, active>>,
         \A w \in ToSet(todo') : w.at # Ini,
         ~ leaving' => RosterSaved' /\ PlaySaved' /\ CheatsSaved' /\ LocksSaved'
  PROVE  SavedInv'
BY DEF SavedInv, Idle

\* The padlocks' flag still tells the truth when none has moved.
LEMMA LocksKept ==
  ASSUME TypeOK, TypeOK', SavedInv, Idle, ~ leaving', disk' = disk, on', present' = present,
         ~ locksDirty' => ~ locksDirty /\ \A g \in Games : rec'[g].locked = rec[g].locked,
         \A w \in ToSet(todo') : w.at # Locks
  PROVE  LocksSaved'
<1>1. Final[Locks] = disk[Locks] /\ Final'[Locks] = disk[Locks]
  <2>1. Locks \in Places
    BY PlacesAre
  <2>2. Final[Locks] = disk[Locks]
    BY <2>1, NothingPending DEF Idle
  <2>3. QED
    BY <2>1, <2>2, FinalIs
<1>2. LocksSaved /\ present \subseteq Games
  BY DEF SavedInv, Idle, TypeOK
<1>3. QED
  BY <1>1, <1>2 DEF LocksSaved

\* So do the others when nothing of theirs is written.
LEMMA FilesKept ==
  ASSUME TypeOK, TypeOK', SavedInv, Idle, disk' = disk,
         UNCHANGED <<present, writable, used, active>>
  PROVE  /\ (\A w \in ToSet(todo') : w.at # Ini) => RosterSaved'
         /\ (~ dirty' => /\ ~ dirty
                         /\ \A g \in Games : rec'[g].fav = rec[g].fav /\ rec'[g].stamp = rec[g].stamp
                         /\ \A w \in ToSet(todo') : w.at # Play(active)) => PlaySaved'
         /\ (~ cheatsDirty' => /\ ~ cheatsDirty /\ cheats' = cheats
                               /\ \A w \in ToSet(todo') : w.at # Cheat(active)) => CheatsSaved'
<1>1. Ini \in Places /\ Play(active) \in Places /\ Cheat(active) \in Places
  BY PlacesAre DEF TypeOK
<1>2. \A f \in Places : Final[f] = disk[f]
  BY NothingPending DEF Idle
<1>3. \A f \in Places : (\A w \in ToSet(todo') : w.at # f) => Final'[f] = Final[f]
  BY <1>2, FinalIs
<1>4. RosterSaved /\ PlaySaved /\ CheatsSaved
  BY DEF SavedInv, Idle
<1>5. (\A w \in ToSet(todo') : w.at # Ini) => RosterSaved'
  BY <1>1, <1>3, <1>4 DEF RosterSaved
<1>6. ASSUME ~ dirty' => /\ ~ dirty
                         /\ \A g \in Games : rec'[g].fav = rec[g].fav /\ rec'[g].stamp = rec[g].stamp
                         /\ \A w \in ToSet(todo') : w.at # Play(active)
      PROVE  PlaySaved'
  <2>1. SUFFICES ASSUME ~ dirty', NEW g \in present
                 PROVE  /\ Applied(Final'[Play(active)], present, Unread)[g].fav = rec'[g].fav
                        /\ Applied(Final'[Play(active)], present, Unread)[g].stamp = rec'[g].stamp
    BY DEF PlaySaved
  <2>2. g \in Games
    BY DEF TypeOK
  <2>3. Final'[Play(active)] = Final[Play(active)]
    BY <1>1, <1>3, <1>6, <2>1
  <2>4. QED
    BY <1>4, <1>6, <2>1, <2>2, <2>3 DEF PlaySaved
<1>7. ASSUME ~ cheatsDirty' => /\ ~ cheatsDirty /\ cheats' = cheats
                               /\ \A w \in ToSet(todo') : w.at # Cheat(active)
      PROVE  CheatsSaved'
  BY <1>1, <1>3, <1>4, <1>7 DEF CheatsSaved
<1>8. QED
  BY <1>5, <1>6, <1>7

\* What playstate, cheats and padlocks have in memory is what the files will say
\* of it, unless a flag says otherwise.
LEMMA NextSaved ==
  ASSUME RoomForAll, NoTwins
  PROVE  TypeOK /\ LocksInv /\ SavedInv /\ [Next]_vars => SavedInv'
<1> SUFFICES ASSUME TypeOK, LocksInv, SavedInv, [Next]_vars PROVE SavedInv'
  OBVIOUS
<1>1. TypeOK'
  BY NextTypes
<1>2. on /\ on' => \A g \in Games :
         rec'[g].locked # rec[g].locked => locksDirty' /\ todo' = todo /\ active' = active
  <2>1. CASE UNCHANGED vars
    BY <2>1 DEF vars, ram
  <2>2. CASE Next
    BY <2>2, StepLocks DEF ParentMoved, vars, ram
  <2>3. QED
    BY <2>1, <2>2
<1>3. /\ Ini \in Places /\ Locks \in Places
      /\ \A p \in Slots : Play(p) \in Places /\ Cheat(p) \in Places /\ Saves(p) \in Places
  BY PlacesAre
<1>4. active \in Slots /\ used \in SUBSET Slots /\ present \in SUBSET Games
  BY DEF TypeOK
<1>5. CASE UNCHANGED vars
  <2>1. /\ UNCHANGED <<on, disk, todo, present, writable, rec, dirty, locksDirty, cheats, cheatsDirty>>
        /\ UNCHANGED <<used, active, leaving>>
    BY <1>5, Zenon DEF vars, ram
  <2>2. Final' = Final
    BY <2>1, Zenon DEF Final, After
  <2>3. RosterSaved' = RosterSaved /\ CheatsSaved' = CheatsSaved /\ LocksSaved' = LocksSaved
    BY <2>1, <2>2, Zenon DEF RosterSaved, CheatsSaved, LocksSaved
  <2>4. PlaySaved' = PlaySaved
    BY <2>1, <2>2, Zenon DEF PlaySaved
  <2>5. QED
    BY <2>1, <2>3, <2>4, Zenon DEF SavedInv
<1>6. CASE WriteFile
  <2>1. \A f \in Places : Final'[f] = Final[f]
    BY <1>6, FinalKept
  <2>2. UNCHANGED <<on, present, writable, rec, dirty, locksDirty, cheats, cheatsDirty, used, active, leaving>>
    BY <1>6 DEF WriteFile, ram
  <2>3. ToSet(todo') \subseteq ToSet(todo) /\ 0 \in disk'[Ini].used
    BY <1>3, <1>6, WriteFileIs DEF SavedInv
  <2>4. ~ on => FALSE
    BY <1>6 DEF WriteFile, SavedInv
  <2>5. Play(active) \in Places /\ Cheat(active) \in Places
    BY <1>3, <1>4
  <2>6. RosterSaved => RosterSaved'
    BY <1>3, <2>1, <2>2 DEF RosterSaved
  <2>7. PlaySaved => PlaySaved'
    BY <2>1, <2>2, <2>5 DEF PlaySaved
  <2>8. CheatsSaved => CheatsSaved'
    BY <2>1, <2>2, <2>5 DEF CheatsSaved
  <2>9. LocksSaved => LocksSaved'
    BY <1>3, <2>1, <2>2 DEF LocksSaved
  <2>10. QED
    BY <2>2, <2>3, <2>4, <2>6, <2>7, <2>8, <2>9 DEF SavedInv
<1>7. CASE PowerOff
  <2>1. ~ on' /\ todo' = <<>> /\ ToSet(todo') = {}
    BY <1>7, PowerOffIs
  <2>2. 0 \in disk'[Ini].used
    <3>1. ASSUME NEW w \in ToSet(todo), NEW half \in Halves(w), w \in Writes,
                 disk' = [disk EXCEPT ![w.at] = half]
          PROVE  0 \in disk'[Ini].used
      <4>1. disk'[Ini] = IF w.at = Ini THEN half ELSE disk[Ini]
        BY <1>3, <3>1 DEF TypeOK
      <4>2. w.at = Ini => 0 \in half.used
        BY DEF Halves
      <4>3. QED
        BY <4>1, <4>2 DEF SavedInv
    <3>2. QED
      BY <1>7, <3>1, PowerOffDisk DEF SavedInv
  <2>3. QED
    BY <2>1, <2>2 DEF SavedInv
<1>8. CASE Boot
  <2> DEFINE played == Applied(disk[Play(BootAs)], present', Unread)
  <2>1. /\ ~ on /\ present' \in Libraries /\ used' = disk[Ini].used \cup {0} /\ active' = BootAs
        /\ disk' = disk /\ todo' = todo /\ cheats' = disk[Cheat(BootAs)]
        /\ rec' = [g \in Games |->
                      [played[g] EXCEPT !.locked = @ \/ (g \in present' /\ Key[g] \in disk[Locks])]]
        /\ locksDirty' = (disk[Locks] = {} /\ \E g \in Games : played[g].locked)
    BY <1>8 DEF Boot
  <2>2. todo' = <<>> /\ ToSet(todo') = {} /\ 0 \in disk[Ini].used
    BY <2>1 DEF SavedInv, ToSet
  <2>3. \A f \in Places : Final'[f] = disk[f]
    BY <1>1, <2>1, <2>2, FinalIs
  <2>4. BootAs \in Slots /\ disk[Play(BootAs)] \in SUBSET Rows
    BY FilesAre, DataAssumption DEF BootAs
  <2>5. used' = disk[Ini].used /\ BootAs \in disk[Ini].used
    BY <2>1, <2>2 DEF BootAs
  <2>6. played \in [Games -> Records] /\ Unread \in [Games -> Records] /\ present' \in SUBSET Games
    <3>1. Unread \in [Games -> Records]
      BY DataAssumption DEF Unread, Blank, Records, Stamps
    <3>2. QED
      BY <1>1, <2>4, <3>1, AppliedType DEF TypeOK
  <2>7. RosterSaved'
    BY <1>3, <2>1, <2>3, <2>5 DEF RosterSaved, BootAs
  <2>8. CheatsSaved'
    BY <1>3, <2>1, <2>3, <2>4 DEF CheatsSaved
  <2>9. Final'[Play(active')] = disk[Play(BootAs)] /\ Final'[Locks] = disk[Locks]
    BY <1>3, <2>1, <2>3, <2>4
  <2>10. \A g \in Games : ~ played[g].locked
    <3>1. Unlocked(disk[Play(BootAs)])
      BY <2>4 DEF LocksInv
    <3>2. \A g \in Games : ~ Unread[g].locked
      BY DEF Unread, Blank
    <3>3. QED
      BY <2>6, <3>1, <3>2, AppliedLocks
  <2> HIDE DEF played
  <2>11. \A g \in Games : /\ rec'[g].fav = played[g].fav /\ rec'[g].stamp = played[g].stamp
                          /\ rec'[g].locked = (played[g].locked \/ (g \in present' /\ Key[g] \in disk[Locks]))
    BY <2>1, <2>6 DEF Records
  <2>12. PlaySaved'
    <3>1. \A g \in present' : Applied(Final'[Play(active')], present', Unread)[g] = played[g]
      BY <2>9 DEF played
    <3>2. QED
      BY <2>6, <2>11, <3>1 DEF PlaySaved
  <2>13. LocksSaved'
    BY <2>6, <2>9, <2>10, <2>11 DEF LocksSaved
  <2>14. QED
    BY <2>1, <2>2, <2>5, <2>7, <2>8, <2>12, <2>13 DEF SavedInv
<1>9. ASSUME NEW g \in Games, Favourite(g) PROVE SavedInv'
  <2>1. /\ Idle /\ todo' = todo /\ disk' = disk /\ dirty' /\ on' = on /\ leaving' = leaving
        /\ UNCHANGED <<present, writable, locksDirty, cheats, cheatsDirty, used, active>>
        /\ rec' = [rec EXCEPT ![g].fav = ~ @]
    BY <1>9, Zenon DEF Favourite
  <2>2. ToSet(todo') = {} /\ on' /\ ~ leaving'
    BY <2>1 DEF Idle, ToSet
  <2>3. \A h \in Games : rec'[h].locked = rec[h].locked
    BY <2>1 DEF TypeOK
  <2>4. RosterSaved' /\ PlaySaved' /\ CheatsSaved'
    BY <1>1, <2>1, <2>2, FilesKept
  <2>5. LocksSaved'
    BY <1>1, <2>1, <2>2, <2>3, LocksKept
  <2>6. QED
    BY <2>1, <2>2, <2>4, <2>5, RosterKept
<1>10. ASSUME NEW g \in Games, ToggleLock(g) PROVE SavedInv'
  <2>1. /\ Idle /\ todo' = todo /\ disk' = disk /\ locksDirty' /\ on' = on /\ leaving' = leaving
        /\ UNCHANGED <<present, writable, dirty, cheats, cheatsDirty, used, active>>
        /\ rec' = [rec EXCEPT ![g].locked = ~ @]
    BY <1>10, Zenon DEF ToggleLock
  <2>2. ToSet(todo') = {} /\ on' /\ ~ leaving'
    BY <2>1 DEF Idle, ToSet
  <2>3. \A h \in Games : rec'[h].fav = rec[h].fav /\ rec'[h].stamp = rec[h].stamp
    BY <2>1 DEF TypeOK
  <2>4. RosterSaved' /\ PlaySaved' /\ CheatsSaved'
    BY <1>1, <2>1, <2>2, <2>3, FilesKept
  <2>5. LocksSaved'
    BY <2>1 DEF LocksSaved
  <2>6. QED
    BY <2>1, <2>2, <2>4, <2>5, RosterKept
<1>11. ASSUME NEW g \in Games, NEW ticked \in BOOLEAN, LeaveSheet(g, ticked) PROVE SavedInv'
  <2>1. /\ Idle /\ disk' = disk /\ on' = on /\ leaving' = leaving /\ cheatsDirty' = ~ writable
        /\ UNCHANGED <<present, writable, rec, dirty, locksDirty, used, active>>
    BY <1>11, Zenon DEF LeaveSheet
  <2>2. /\ cheats' \in SUBSET Keys /\ (writable => todo' = <<SaveCheats(cheats', active)>>)
        /\ \A w \in ToSet(todo') : writable /\ w = SaveCheats(cheats', active)
    BY <1>11, LeaveSheetWrites
  <2>3. SaveCheats(cheats', active).at = Cheat(active) /\ SaveCheats(cheats', active).to = cheats'
    BY <1>4, <2>2, SavesAre
  <2>4. on' /\ ~ leaving' /\ \A w \in ToSet(todo') : w.at \notin {Ini, Locks, Play(active)}
    BY <1>4, <2>1, <2>2, <2>3, PlacesAre DEF Idle
  <2>5. RosterSaved' /\ PlaySaved'
    BY <1>1, <2>1, <2>4, FilesKept
  <2>6. LocksSaved'
    BY <1>1, <2>1, <2>4, LocksKept
  <2>7. CheatsSaved'
    <3>1. SUFFICES ASSUME writable PROVE cheats' = Final'[Cheat(active)]
      BY <2>1, Zenon DEF CheatsSaved
    <3>2. SaveCheats(cheats', active) \in ToSet(todo')
      BY <2>2, <3>1 DEF ToSet
    <3>3. QED
      BY <1>1, <1>3, <1>4, <2>1, <2>2, <2>3, <3>2, FinalIs
  <2>8. QED
    BY <2>1, <2>4, <2>5, <2>6, <2>7, RosterKept
<1>12. ASSUME NEW g \in Games, NEW ticked \in BOOLEAN, NEW t \in Clock, NEW boots \in BOOLEAN,
              Launch(g, ticked, t, boots)
       PROVE  SavedInv'
  <2> DEFINE moved == CheatsMoved(Key[g], ticked)
  <2>1. /\ Idle /\ disk' = disk /\ on' = on /\ leaving' = boots
        /\ dirty' = ~ writable /\ cheatsDirty' = (moved /\ ~ writable)
        /\ locksDirty' = (locksDirty /\ ~ (boots /\ writable))
        /\ cheats' = Captured(Key[g], ticked)
        /\ UNCHANGED <<present, writable, used, active>>
    BY <1>12, Zenon DEF Launch
  <2>2. rec' \in [Games -> Records] /\ cheats' \in SUBSET Keys
    BY <1>12, LaunchWrites
  <2>3. \A w \in ToSet(todo') : writable /\ w.at \in OwnPlaces
    BY <1>12, LaunchPlaces
  <2>4. \A w \in ToSet(todo') : w.at # Ini
    BY <1>4, <2>3, PlacesAre DEF OwnPlaces
  <2>5. on'
    BY <2>1 DEF Idle
  <2>6. ASSUME ~ boots PROVE RosterSaved' /\ PlaySaved' /\ CheatsSaved' /\ LocksSaved'
    <3>1. SaveCheats(cheats', active) \in Writes /\ SaveLocks \in Writes
      BY <1>4, <2>2, SavesAre
    <3>2. /\ SavePlay(rec', active).at = Play(active) /\ SavePlay(rec', active).to = RowsOf(rec')
          /\ SaveCheats(cheats', active).at = Cheat(active) /\ SaveCheats(cheats', active).to = cheats'
          /\ Write(Saves(active), disk[Saves(active)] \cup {g}).at = Saves(active)
      BY <1>4, <2>2, SavesAre, AtTo
    <3>3. ToSet(When(boots /\ locksDirty, SaveLocks)) = {}
      BY <2>6, <3>1, WhenIs
    <3>4. /\ moved => ToSet(When(moved, SaveCheats(cheats', active))) = {SaveCheats(cheats', active)}
          /\ ~ moved => ToSet(When(moved, SaveCheats(cheats', active))) = {}
      <4> HIDE DEF moved
      <4>1. QED
        BY <3>1, WhenIs
    <3>5. /\ ~ writable => todo' = <<>>
          /\ writable => ToSet(todo') =
                {Write(Saves(active), disk[Saves(active)] \cup {g}), SavePlay(rec', active)}
                \cup ToSet(When(moved, SaveCheats(cheats', active)))
      <4>1. /\ ~ writable => todo' = <<>>
            /\ writable => ToSet(todo') = LaunchOrders(g, ticked, boots)
        BY <1>12, LaunchWrites
      <4>2. LaunchOrders(g, ticked, boots) =
                {Write(Saves(active), disk[Saves(active)] \cup {g}), SavePlay(rec', active)}
                \cup ToSet(When(moved, SaveCheats(cheats', active)))
        BY <3>3 DEF LaunchOrders
      <4>3. QED
        BY <4>1, <4>2
    <3> HIDE DEF moved
    <3>6. ToSet(<<>>) = {}
      BY DEF ToSet
    <3>7. \A w \in ToSet(todo') :
             /\ w.at \notin {Ini, Locks}
             /\ w.at = Play(active) => w.to = RowsOf(rec')
             /\ w.at = Cheat(active) => moved /\ w.to = cheats'
      <4>1. ASSUME NEW w \in ToSet(todo')
            PROVE  \/ w = Write(Saves(active), disk[Saves(active)] \cup {g})
                   \/ w = SavePlay(rec', active)
                   \/ moved /\ w = SaveCheats(cheats', active)
        <5>1. writable
          BY <3>5, <3>6
        <5>2. w \in {Write(Saves(active), disk[Saves(active)] \cup {g}), SavePlay(rec', active)}
                    \cup ToSet(When(moved, SaveCheats(cheats', active)))
          BY <3>5, <5>1, Zenon
        <5>3. QED
          BY <3>4, <5>2
      <4>2. QED
        BY <1>4, <3>2, <4>1, PlacesAre
    <3>8. RosterSaved'
      BY <1>1, <2>1, <2>4, FilesKept
    <3>9. PlaySaved'
      <4>1. SUFFICES ASSUME writable
                     PROVE  \A h \in present' :
                               /\ Applied(Final'[Play(active')], present', Unread)[h].fav = rec'[h].fav
                               /\ Applied(Final'[Play(active')], present', Unread)[h].stamp = rec'[h].stamp
        BY <2>1, Zenon DEF PlaySaved
      <4>2. SavePlay(rec', active) \in ToSet(todo')
        BY <3>5, <4>1
      <4>3. Final'[Play(active)] = RowsOf(rec')
        BY <1>1, <1>3, <1>4, <2>1, <3>2, <3>7, <4>2, FinalIs
      <4>4. \A h, k \in present : Key[h] = Key[k] => h = k
        BY <2>1 DEF SavedInv, Idle, NoTwins
      <4>5. \A h \in present :
               /\ Applied(RowsOf(rec'), present, Unread)[h].fav = rec'[h].fav
               /\ Applied(RowsOf(rec'), present, Unread)[h].stamp = rec'[h].stamp
        BY <1>4, <2>2, <4>4, RowsReadBack
      <4>6. QED
        BY <2>1, <4>3, <4>5
    <3>10. CheatsSaved'
      <4>1. CASE moved
        <5>1. SUFFICES ASSUME writable PROVE cheats' = Final'[Cheat(active)]
          BY <2>1, <4>1, Zenon DEF CheatsSaved
        <5>2. SaveCheats(cheats', active) \in ToSet(todo')
          BY <3>4, <3>5, <4>1, <5>1
        <5>3. QED
          BY <1>1, <1>3, <1>4, <2>1, <3>2, <3>7, <5>2, FinalIs
      <4>2. CASE ~ moved
        <5>1. ~ cheatsDirty /\ ~ ticked /\ Key[g] \notin cheats
          BY <4>2 DEF CheatsMoved, moved
        <5>2. cheats' = cheats
          BY <2>1, <5>1 DEF Captured
        <5>3. \A w \in ToSet(todo') : w.at # Cheat(active)
          BY <3>7, <4>2
        <5>4. QED
          BY <1>1, <2>1, <5>1, <5>2, <5>3, FilesKept
      <4>3. QED
        BY <4>1, <4>2
    <3>11. LocksSaved'
      <4>1. \A h \in Games : rec'[h].locked = rec[h].locked
        BY <1>12 DEF Launch, TypeOK
      <4>2. locksDirty' = locksDirty
        BY <2>1, <2>6 DEF TypeOK
      <4>3. ~ leaving'
        BY <2>1, <2>6
      <4>4. QED
        BY <1>1, <2>1, <2>5, <3>7, <4>1, <4>2, <4>3, LocksKept
    <3>12. QED
      BY <3>8, <3>9, <3>10, <3>11
  <2>7. QED
    BY <2>1, <2>4, <2>5, <2>6, RosterKept
<1>13. ASSUME NEW p \in Slots, AddProfile(p) PROVE SavedInv'
  <2>1. /\ Idle /\ disk' = disk /\ on' = on /\ leaving' = leaving /\ used' = used \cup {p}
        /\ UNCHANGED <<present, writable, rec, dirty, locksDirty, cheats, cheatsDirty, active>>
    BY <1>13, Zenon DEF AddProfile
  <2> DEFINE roster == SaveRoster(used \cup {p}, active)
  <2>2. /\ writable => todo' = <<roster>>
        /\ \A w \in ToSet(todo') : writable /\ w = roster
    BY <1>13, AddProfileWrites
  <2>3. roster.at = Ini /\ roster.to.used = used \cup {p} /\ roster.to.active = active
    BY <1>4, WholeRoster
  <2> HIDE DEF roster
  <2>4. on /\ on' /\ ~ leaving' /\ 0 \in used' /\ active' \in used' /\ present' \in Libraries
    BY <2>1 DEF Idle, SavedInv
  <2>5. \A w \in ToSet(todo') : w.at = Ini /\ w.to.used = used'
    BY <2>1, <2>2, <2>3
  <2>6. \A w \in ToSet(todo') : w.at \notin {Locks, Play(active), Cheat(active)}
    BY <1>4, <2>5, PlacesAre
  <2>7. \A f \in {Play(active), Cheat(active)} : Final'[f] = Final[f]
    BY <1>1, <1>3, <1>4, <2>1, <2>6, FinalIs, NothingPending DEF Idle
  <2>8. PlaySaved' /\ CheatsSaved'
    <3>1. PlaySaved /\ CheatsSaved
      BY <2>1 DEF Idle, SavedInv
    <3>2. QED
      BY <2>1, <2>7, <3>1 DEF PlaySaved, CheatsSaved
  <2>9. LocksSaved'
    BY <1>1, <2>1, <2>4, <2>6, LocksKept
  <2>10. RosterSaved'
    <3>1. SUFFICES ASSUME writable
                   PROVE  /\ Final'[Ini].used = used'
                          /\ (IF Final'[Ini].active \in Final'[Ini].used THEN Final'[Ini].active ELSE 0) = active'
      BY <2>1, Zenon DEF RosterSaved
    <3>2. roster \in ToSet(todo')
      BY <2>2, <3>1 DEF ToSet
    <3>3. Final'[Ini] = roster.to
      BY <1>1, <1>3, <2>1, <2>2, <2>3, <3>2, FinalIs
    <3>4. QED
      BY <2>1, <2>3, <2>4, <3>3
  <2>11. QED
    BY <2>1, <2>4, <2>5, <2>8, <2>9, <2>10 DEF SavedInv
<1>14. ASSUME NEW p \in Slots, Choose(p) \/ Delete(p) PROVE SavedInv'
  <2>1. Idle
    BY <1>14, SwitchRoster
  <2>2. PICK begun \in Seq(Writes), from \in Slots, q \in Slots, roster \in SUBSET Slots :
           /\ Activate(begun, from, q, roster)
           /\ 0 \in roster /\ q \in roster
           /\ \A w \in ToSet(begun) : w.at # Locks /\ (w.at = Ini => w = SaveRoster(roster, q))
    BY <1>14, SwitchRoster
  <2> DEFINE script == Switching(begun, from, q, roster)
             saved == SaveRoster(roster, q)
             rows == After(script)[Play(q)]
  <2>3. /\ todo' = script /\ active' = q /\ used' = roster
        /\ rec' = Applied(rows, present, Cleared)
        /\ cheats' = After(script)[Cheat(q)]
        /\ UNCHANGED <<on, present, writable, locksDirty, leaving, disk>>
    BY <2>2, ActivateIs
  <2>4. /\ writable => saved \in ToSet(script)
        /\ \A w \in ToSet(script) :
              writable /\ w \in ToSet(begun) \cup {SavePlay(rec, from), SaveCheats(cheats, from), saved}
    BY SwitchingPending
  <2>5. saved.at = Ini /\ saved.to.used = roster /\ saved.to.active = q
    BY WholeRoster
  <2> HIDE DEF saved
  <2>6. SavePlay(rec, from).at = Play(from) /\ SaveCheats(cheats, from).at = Cheat(from)
    BY SavesAre DEF TypeOK, Records
  <2>7. \A w \in ToSet(script) : w.at # Locks /\ (w.at = Ini => w = saved)
    BY <2>2, <2>4, <2>5, <2>6, PlacesAre DEF saved
  <2>8. \A f : Final'[f] = After(script)[f]
    BY <2>3 DEF Final, After
  <2> HIDE DEF script
  <2>9. on /\ on' /\ ~ leaving' /\ ToSet(todo) = {}
    BY <2>1, <2>3, PendingAre DEF Idle
  <2>10. RosterSaved'
    <3>1. SUFFICES ASSUME writable
                   PROVE  /\ Final'[Ini].used = used'
                          /\ (IF Final'[Ini].active \in Final'[Ini].used THEN Final'[Ini].active ELSE 0) = active'
      BY <2>3, Zenon DEF RosterSaved
    <3>2. Final'[Ini] = saved.to
      BY <1>1, <1>3, <2>3, <2>4, <2>5, <2>7, <3>1, FinalIs
    <3>3. QED
      BY <2>2, <2>3, <2>5, <3>2
  <2>11. PlaySaved'
    <3>1. SUFFICES ASSUME NEW g \in present
                   PROVE  /\ Applied(rows, present, Unread)[g].fav = Applied(rows, present, Cleared)[g].fav
                          /\ Applied(rows, present, Unread)[g].stamp = Applied(rows, present, Cleared)[g].stamp
      BY <2>3, <2>8 DEF PlaySaved
    <3>2. g \in Games
      BY <1>4
    <3>3. Unread[g].fav = Cleared[g].fav /\ Unread[g].stamp = Cleared[g].stamp
      BY <3>2 DEF Unread, Blank, Cleared, TypeOK
    <3> HIDE DEF rows
    <3>4. QED
      BY <3>2, <3>3, AppliedAgrees
  <2>12. CheatsSaved'
    BY <2>3, <2>8 DEF CheatsSaved
  <2>13. LocksSaved'
    <3>1. \A w \in ToSet(todo') : w.at # Locks
      BY <2>3, <2>7
    <3>2. ASSUME ~ locksDirty' PROVE ~ locksDirty /\ \A g \in Games : rec'[g].locked = rec[g].locked
      BY <1>2, <2>3, <2>9, <3>2
    <3>3. QED
      BY <1>1, <2>1, <2>3, <2>9, <3>1, <3>2, LocksKept
  <2>14. \A w \in ToSet(todo') : w.at = Ini => 0 \in w.to.used
    BY <2>2, <2>3, <2>5, <2>7
  <2>15. QED
    BY <2>2, <2>3, <2>9, <2>10, <2>11, <2>12, <2>13, <2>14 DEF SavedInv
<1>15. QED
  BY <1>5, <1>6, <1>7, <1>8, <1>9, <1>10, <1>11, <1>12, <1>13, <1>14 DEF Next, Handler

\* CleanMeansSaved: with its flag clear, what memory holds of the player's history,
\* of his cheats and of the padlocks is what a boot would bring back, and on
\* storage that can be written so are the players and the one active, whatever
\* torn files earlier power cuts left - where the roster's file has a section for
\* every slot, play files have no padlock of an earlier build's, and no card has
\* two copies of one game, of which a boot gives the other's row to both.
THEOREM CleanIsSaved ==
  ASSUME RoomForAll, NoTwins, OldLocksGone
  PROVE  Spec => []CleanMeansSaved
<1>1. Init => TypeOK /\ LocksInv /\ SavedInv
  BY InitTypes, InitLocks, InitSaved
<1>2. TypeOK /\ LocksInv /\ SavedInv /\ [Next]_vars => (TypeOK /\ LocksInv /\ SavedInv)'
  BY NextTypes, NextLocks, NextSaved
<1>3. TypeOK /\ SavedInv => CleanMeansSaved
  <2> SUFFICES ASSUME TypeOK, SavedInv, Idle PROVE CleanMeansSaved
    BY DEF CleanMeansSaved
  <2>1. RosterSaved /\ PlaySaved /\ CheatsSaved /\ LocksSaved
    BY DEF SavedInv, Idle
  <2>2. \A f \in Places : Final[f] = disk[f]
    BY NothingPending DEF Idle
  <2>3. /\ Final[Ini] = disk[Ini] /\ Final[Locks] = disk[Locks]
        /\ Final[Play(active)] = disk[Play(active)] /\ Final[Cheat(active)] = disk[Cheat(active)]
    BY <2>2, PlacesAre DEF TypeOK
  <2>4. writable => disk[Ini].used = used /\ BootAs = active
    BY <2>1, <2>3 DEF RosterSaved, BootAs
  <2>5. QED
    BY <2>1, <2>3, <2>4 DEF PlaySaved, CheatsSaved, LocksSaved, CleanMeansSaved
<1>4. QED
  BY <1>1, <1>2, <1>3, PTL DEF Spec
=============================================================================
