-------------------------- MODULE LibIndex_proofs --------------------------
(***************************************************************************)
(* The library's index for every tree of folders, every card and every     *)
(* sequence of edits: once written it holds until somebody changes the     *)
(* card's contents, and a boot that finds it so reads it and nothing else. *)
(*                                                                         *)
(* And, for sizes that tell a directory's files apart, however a boot came *)
(* by its library it is the one a scan of the card would give.             *)
(***************************************************************************)
EXTENDS LibIndex, FiniteSetTheorems, WellFoundedInduction, TLAPS

Saving == {"save", "write", "exit", "exitWrite"}

\* While the file is being written it is not settled, and it is only written
\* for a walk that fits; so a settled one is of a walk that fits.
SettledInv ==
    /\ SettledStaysSettled
    /\ settled => WalkFits
    /\ phase \in Saving => WalkFits
    /\ phase \in {"write", "exitWrite"} => ~ settled

\* Nothing a console does but a rename changes what the walk sees.
LEMMA WalkIsOfTheFiles ==
  ASSUME UNCHANGED <<dirs, files>>
  PROVE  Walk' = Walk /\ WalkFits' = WalkFits
BY DEF Walk, WalkFits, Walked, Signature

\* What is in memory goes, and nothing else does.
LEMMA SaveDoneLeads ==
  ASSUME SaveDone
  PROVE  phase' \in {"on", "off"}
BY DEF SaveDone, MenuGone

\* Nothing is settled before the first boot.
LEMMA InitSettled == Init => SettledInv
<1> SUFFICES ASSUME Init PROVE SettledInv
  OBVIOUS
<1>1. ~ settled /\ phase = "off"
  BY Zenon DEF Init
<1>2. QED
  BY <1>1 DEF SettledInv, SettledStaysSettled, Saving

\* No step of a boot, no save of the index and no edit of the card breaks it.
LEMMA NextSettled == SettledInv /\ [Next]_vars => SettledInv'
<1> SUFFICES ASSUME SettledInv, [Next]_vars PROVE SettledInv'
  OBVIOUS
<1> USE DEF SettledInv, Saving
\* A boot, and the way to the first frame.
<1>1. ASSUME UNCHANGED <<dirs, files, settled>>, index' = index,
             phase' \in {"off", "scan", "on"} \/ (phase' \in {"save", "exit"} /\ WalkFits)
      PROVE  SettledInv'
  BY <1>1, WalkIsOfTheFiles DEF SettledStaysSettled
<1>2. ASSUME ~ settled', phase' \in {"off", "scan", "on"} PROVE SettledInv'
  BY <1>2 DEF SettledStaysSettled
<1>3. CASE LoadNothing
  <2>1. ~ settled /\ settled' = settled /\ phase' = "scan"
    BY <1>3 DEF LoadNothing, SettledStaysSettled
  <2>2. QED
    BY <1>2, <2>1
<1>4. CASE LoadAsIs
  BY <1>1, <1>4 DEF LoadAsIs, card
<1>5. CASE Repair
  BY <1>1, <1>5 DEF Repair, CanRepair, card
<1>6. CASE RepairAbandoned
  BY <1>1, <1>6 DEF RepairAbandoned, card
<1>7. CASE GiveUp
  BY <1>1, <1>7 DEF GiveUp, card
<1>8. CASE FullScanDone
  BY <1>1, <1>8 DEF FullScanDone, card
\* A save.
<1>9. CASE SaveRefused
  BY <1>1, <1>9, SaveDoneLeads DEF SaveRefused, card
<1>10. CASE SaveStarts
  <2>1. WalkFits /\ phase' \in {"write", "exitWrite"} /\ UNCHANGED <<dirs, files>>
    BY <1>10 DEF SaveStarts, card
  <2>2. ~ settled'
    BY <1>10, Zenon DEF SaveStarts
  <2>3. QED
    BY <2>1, <2>2, WalkIsOfTheFiles DEF SettledStaysSettled
<1>11. CASE SaveEnds
  <2>1. WalkFits /\ phase' \in {"on", "off"} /\ UNCHANGED <<dirs, files>>
    BY <1>11, SaveDoneLeads DEF SaveEnds, card
  <2>2. index' = Index("whole", Walk, Stored(lib))
    BY <1>11 DEF SaveEnds
  <2>3. IsWhole(index') /\ index'.sigs = Walk
    BY <2>2 DEF IsWhole, Index
  <2>4. QED
    BY <2>1, <2>3, WalkIsOfTheFiles DEF SettledStaysSettled, IsWhole
<1>12. CASE SaveFails
  BY <1>2, <1>12, SaveDoneLeads DEF SaveFails, card
\* The session.
<1>13. ASSUME NEW r \in BagToSet(lib), LookUpArt(r) PROVE SettledInv'
  BY <1>1, <1>13 DEF LookUpArt, card
<1>14. ASSUME NEW r \in BagToSet(lib), Play(r) PROVE SettledInv'
  BY <1>1, <1>14 DEF Play, MenuGone
<1>15. ASSUME NEW r \in BagToSet(lib), NEW n \in Typed \cup {NoName}, Rename(r, n) PROVE SettledInv'
  <2>1. ~ settled'
    BY <1>15, Zenon DEF Rename
  <2>2. phase' = "on"
    BY <1>15 DEF Rename
  <2>3. QED
    BY <1>2, <2>1, <2>2
<1>16. CASE PowerCut
  BY <1>1, <1>16 DEF PowerCut, MenuGone, card
\* The card in a computer.
<1>17. ASSUME Edit PROVE SettledInv'
  <2>1. ~ settled'
    BY <1>17, Zenon DEF Edit
  <2>2. phase' = "off"
    BY <1>17 DEF Edit
  <2>3. QED
    BY <1>2, <2>1, <2>2
<1>18. ASSUME NEW d \in Dirs, MakeDir(d) \/ DropDir(d) \/ \E e \in MayHold[d] : PutFile(d, e) \/ DropFile(d, e)
       PROVE  SettledInv'
  BY <1>17, <1>18 DEF MakeDir, DropDir, PutFile, DropFile
<1>19. ASSUME NEW g \in Games, InstallPack(g) PROVE SettledInv'
  BY <1>17, <1>19 DEF InstallPack
<1>20. CASE UNCHANGED vars
  BY <1>1, <1>20, WalkIsOfTheFiles DEF vars, card, SettledStaysSettled
<1>21. QED
  BY <1>3, <1>4, <1>5, <1>6, <1>7, <1>8, <1>9, <1>10, <1>11, <1>12, <1>13, <1>14, <1>15, <1>16,
     <1>18, <1>19, <1>20 DEF Next
-----------------------------------------------------------------------------
\* The inductive invariant of the index.
THEOREM SettledInvariant == Spec => []SettledInv
<1>1. Init => SettledInv
  BY InitSettled
<1>2. SettledInv /\ [Next]_vars => SettledInv'
  BY NextSettled
<1>3. QED
  BY <1>1, <1>2, PTL DEF Spec

\* Playing, looking at art, resets and power cuts never make the index that was
\* last written out of date: it has the signature of every directory walked.
THEOREM IndexHoldsUntilTheCardChanges == Spec => []SettledStaysSettled
<1>1. SettledInv => SettledStaysSettled
  BY DEF SettledInv
<1>2. QED
  BY <1>1, SettledInvariant, PTL

\* And so the boot that finds it reads it as it is: no directory is scanned
\* again and the file is not written (libindex_load()).
THEOREM SettledBootReadsTheIndex == Spec => [][settled /\ phase = "off" /\ phase' # "off" => LoadAsIs]_vars
<1>1. SettledInv /\ [Next]_vars => [settled /\ phase = "off" /\ phase' # "off" => LoadAsIs]_vars
  <2> SUFFICES ASSUME SettledInv, Next, settled, phase = "off", phase' # "off" PROVE LoadAsIs
    OBVIOUS
  <2>1. IsWhole(index) /\ index.sigs = Walk /\ WalkFits
    BY DEF SettledInv, SettledStaysSettled
  <2>2. ~ LoadNothing /\ ~ Repair /\ ~ RepairAbandoned /\ ~ GiveUp
    BY <2>1 DEF LoadNothing, Repair, RepairAbandoned, GiveUp
  <2>3. ~ FullScanDone /\ ~ SaveRefused /\ ~ SaveStarts /\ ~ SaveEnds /\ ~ SaveFails /\ ~ PowerCut
    BY DEF FullScanDone, SaveRefused, SaveStarts, SaveEnds, SaveFails, PowerCut
  <2>4. \A r : ~ LookUpArt(r) /\ ~ Play(r) /\ \A n : ~ Rename(r, n)
    BY DEF LookUpArt, Play, Rename
  <2>5. ~ Edit
    BY DEF Edit
  <2>6. QED
    BY <2>2, <2>3, <2>4, <2>5 DEF Next, MakeDir, DropDir, PutFile, DropFile, InstallPack
<1>2. QED
  BY <1>1, SettledInvariant, PTL DEF Spec

-----------------------------------------------------------------------------
(***************************************************************************)
(* Records.                                                                *)
(***************************************************************************)
\* What a directory may hold: one file of a name.
Contents ==
    {T \in SUBSET Entries : \A x, y \in T : x.kind = y.kind /\ x.game = y.game /\ x.kind # "cover" => x = y}

\* The sizes of a directory's files, summed, are those of no other files.
SizesTell == \A S, T \in Contents : SumFunctionOnSet(Size, S) = SumFunctionOnSet(Size, T) => S = T

\* A name is typed for games with an N64 header only.
NamesAreForN64 == MayName \subseteq N64 \X (Typed \cup {NoName})

RomIn(T, g, b) == [kind |-> "rom", game |-> g, is |-> b] \in T
NamesIn(T, g) == {e.is : e \in {x \in T : x.kind = "sidecar" /\ x.game = g}}
CoverIn(T, g, how) == [kind |-> "cover", game |-> g, is |-> how] \in T
CustomIn(T, g) == g \in N64 /\ NamesIn(T, g) # {}
HeaderOf(g, b) == Header[g, b]
Untyped(g, b) == IF g \in N64 /\ HeaderOf(g, b) # NoName THEN HeaderOf(g, b) ELSE g
GivenIn(T, g, b) == IF CustomIn(T, g) THEN CHOOSE n \in NamesIn(T, g) : TRUE ELSE Untyped(g, b)

\* What a record says that comes from its directory.
Core(r) == <<r.dir, r.game, r.build, r.given, r.custom>>
Cores(B) == {Core(r) : r \in DOMAIN B}

\* A game of a directory is listed once.
Single(B) ==
    /\ B \in [DOMAIN B -> {1}] /\ DOMAIN B \subseteq RecordSet
    /\ \A r, s \in DOMAIN B : r.dir = s.dir /\ r.game = s.game => r = s

\* The records are of ROMs among the files F of the directories W, named by
\* the sidecars there.
Named(r, T) == r.given = GivenIn(T, r.game, r.build) /\ r.custom = CustomIn(T, r.game)
About(B, F, W) ==
    \A r \in DOMAIN B :
        r.dir \in W /\ RomIn(F[r.dir], r.game, r.build) /\ (NamesAreForN64 => Named(r, F[r.dir]))
\* Every ROM there has its record.
Complete(B, F, W) ==
    \A d \in W, g \in Games, b \in Builds :
        RomIn(F[d], g, b) => \E r \in DOMAIN B : r.dir = d /\ r.game = g
\* Where a record has no art there is no cover.
ArtSought(B, F, W) ==
    \A r \in DOMAIN B : r.art = NoArt =>
        \A d \in W : ~ CoverIn(F[d], r.game, "name") /\ (r.game \in N64 => ~ CoverIn(F[d], r.game, "code"))
\* The titles are as library_finish() gives them to all of the records.
AllTitled(B) == \A r \in DOMAIN B : r.title = IF Collides(B, r) THEN r.game ELSE r.given

\* Among some numbers one is the least.
LEMMA LeastNumber ==
  ASSUME NEW T \in SUBSET Nat, T # {}
  PROVE  \E x \in T : \A y \in T : x <= y
<1>1. PICK x \in T : \A y \in T : ~ (<<y, x>> \in OpToRel(<, Nat))
  BY WFMin, NatLessThanWellFounded
<1>2. \A y \in T : ~ (y < x)
  BY <1>1 DEF OpToRel
<1>3. QED
  BY <1>2

\* A sum of one number.
LEMMA SumOfOne ==
  ASSUME NEW B, NEW r, B[r] \in Nat
  PROVE  SumFunctionOnSet(B, {r}) = B[r]
<1> DEFINE pick(s) == CHOOSE x \in s : TRUE
           P(iter) == iter = [s \in SUBSET {r} |-> IF s = {} THEN 0 ELSE B[pick(s)] + iter[s \ {pick(s)}]]
           h == [s \in SUBSET {r} |-> IF s = {} THEN 0 ELSE B[r]]
           g == CHOOSE iter : P(iter)
<1>1. SumFunctionOnSet(B, {r}) = g[{r}]
  BY DEF SumFunctionOnSet, FoldFunctionOnSet, MapThenFoldSet
<1>2. pick({r}) = r
  OBVIOUS
<1>3. P(h)
  <2>1. \A s \in SUBSET {r} : s = {} \/ s = {r}
    OBVIOUS
  <2>2. \A s \in SUBSET {r} : h[s] = IF s = {} THEN 0 ELSE B[pick(s)] + h[s \ {pick(s)}]
    <3> TAKE s \in SUBSET {r}
    <3>1. CASE s = {}
      BY <3>1
    <3>2. CASE s = {r}
      <4>1. h[s] = B[r] /\ h[s \ {r}] = 0
        BY <3>2
      <4>2. QED
        BY <1>2, <3>2, <4>1
    <3>3. QED
      BY <2>1, <3>1, <3>2
  <2> HIDE DEF h, pick
  <2>3. QED
    BY <2>2 DEF h
<1>4. P(g)
  BY <1>3
<1> HIDE DEF g, pick
<1>5. g[{}] = 0 /\ g[{r}] = B[r] + g[{}]
  BY <1>2, <1>4
<1>6. QED
  BY <1>1, <1>5

\* The same records with other titles, or other art, are a library of
\* single records again.
LEMMA MappedOK ==
  ASSUME NEW B, Single(B), NEW f, DOMAIN f = DOMAIN B,
         \A r \in DOMAIN B : f[r] \in RecordSet /\ f[r].dir = r.dir /\ f[r].game = r.game
  PROVE  DOMAIN Mapped(f, B) = {f[r] : r \in DOMAIN B} /\ Single(Mapped(f, B))
<1> DEFINE M == Mapped(f, B)
<1>1. DOMAIN M = {f[r] : r \in DOMAIN B}
  BY DEF Mapped, Range
<1>2. M = [x \in DOMAIN M |-> SumFunctionOnSet(B, {r \in DOMAIN B : f[r] = x})]
  BY DEF Mapped
<1>3. ASSUME NEW r \in DOMAIN B PROVE M[f[r]] = 1
  <2>1. {s \in DOMAIN B : f[s] = f[r]} = {r}
    BY DEF Single
  <2>2. B[r] = 1
    BY DEF Single
  <2>3. M[f[r]] = SumFunctionOnSet(B, {s \in DOMAIN B : f[s] = f[r]})
    <3> HIDE DEF M
    <3>1. QED
      BY <1>1, <1>2
  <2>4. M[f[r]] = SumFunctionOnSet(B, {r})
    BY <2>1, <2>3
  <2> HIDE DEF M
  <2>5. QED
    BY <2>2, <2>4, SumOfOne
<1>4. \A x \in DOMAIN M : M[x] = 1
  BY <1>1, <1>3
<1>5. \A x, y \in DOMAIN M : x.dir = y.dir /\ x.game = y.game => x = y
  BY <1>1 DEF Single
<1> HIDE DEF M
<1>6. M \in [DOMAIN M -> {1}] /\ DOMAIN M \subseteq RecordSet
  BY <1>1, <1>2, <1>4
<1>7. QED
  BY <1>1, <1>5, <1>6 DEF M, Single

\* What is said of the cores of some records is said of records with no
\* other cores.
LEMMA CoresCarry ==
  ASSUME NEW B, NEW C, NEW F, NEW W
  PROVE  /\ Cores(C) \subseteq Cores(B) /\ About(B, F, W) => About(C, F, W)
         /\ Cores(B) \subseteq Cores(C) /\ Complete(B, F, W) => Complete(C, F, W)
<1>1. ASSUME NEW r, NEW s, Core(r) = Core(s)
      PROVE  r.dir = s.dir /\ r.game = s.game /\ r.build = s.build /\ r.given = s.given /\ r.custom = s.custom
  BY <1>1 DEF Core
<1>2. ASSUME Cores(C) \subseteq Cores(B), About(B, F, W), NEW r \in DOMAIN C
      PROVE  \E s \in DOMAIN B : Core(r) = Core(s)
  BY <1>2 DEF Cores
<1>3. ASSUME Cores(B) \subseteq Cores(C), NEW r \in DOMAIN B
      PROVE  \E s \in DOMAIN C : Core(r) = Core(s)
  BY <1>3 DEF Cores
<1>4. Cores(C) \subseteq Cores(B) /\ About(B, F, W) => About(C, F, W)
  <2> SUFFICES ASSUME Cores(C) \subseteq Cores(B), About(B, F, W), NEW r \in DOMAIN C
               PROVE  r.dir \in W /\ RomIn(F[r.dir], r.game, r.build) /\ (NamesAreForN64 => Named(r, F[r.dir]))
    BY DEF About
  <2>1. PICK s \in DOMAIN B : Core(r) = Core(s)
    BY <1>2
  <2>2. QED
    BY <1>1, <2>1 DEF About, Named
<1>5. Cores(B) \subseteq Cores(C) /\ Complete(B, F, W) => Complete(C, F, W)
  <2> SUFFICES ASSUME Cores(B) \subseteq Cores(C), Complete(B, F, W),
                      NEW d \in W, NEW g \in Games, NEW b \in Builds, RomIn(F[d], g, b)
               PROVE  \E r \in DOMAIN C : r.dir = d /\ r.game = g
    BY DEF Complete
  <2>1. PICK r \in DOMAIN B : r.dir = d /\ r.game = g
    BY DEF Complete
  <2>2. PICK s \in DOMAIN C : Core(r) = Core(s)
    BY <1>3
  <2>3. QED
    BY <1>1, <2>1, <2>2
<1>6. QED
  BY <1>4, <1>5

\* Two lists of the same cores give the same titles.
LEMMA SameCollisions ==
  ASSUME NEW B, Single(B), NEW C, Single(C), Cores(B) = Cores(C),
         NEW r \in DOMAIN B, NEW s \in DOMAIN C, Core(r) = Core(s), Collides(B, r)
  PROVE  Collides(C, s)
<1>1. PICK o \in DOMAIN B : ~ o.custom /\ o.given = r.given /\ o # r
  BY DEF Collides, BagToSet, Single
<1>2. PICK p \in DOMAIN C : Core(o) = Core(p)
  BY DEF Cores
<1>3. o.dir # r.dir \/ o.game # r.game
  BY <1>1 DEF Single
<1>4. ~ p.custom /\ p.given = s.given /\ p # s
  BY <1>1, <1>2, <1>3 DEF Core
<1>5. ~ s.custom
  BY DEF Core, Collides
<1>6. QED
  BY <1>4, <1>5 DEF Collides, BagToSet

\* A record with another title, or other art, is otherwise as it was.
LEMMA Retitled ==
  ASSUME NEW r \in RecordSet, NEW x \in Typed \cup Games \cup {NoName}
  PROVE  LET s == [r EXCEPT !.title = x]
         IN  s \in RecordSet /\ Core(s) = Core(r) /\ s.dir = r.dir /\ s.game = r.game /\ s.art = r.art /\ s.title = x
BY DEF RecordSet, Core

\* Titles given to a list of single records.
LEMMA FinishOK ==
  ASSUME NEW B, Single(B)
  PROVE  /\ Single(Finish(B)) /\ Cores(Finish(B)) = Cores(B) /\ AllTitled(Finish(B))
         /\ \A F, W : ArtSought(B, F, W) => ArtSought(Finish(B), F, W)
<1> DEFINE f == [r \in BagToSet(B) |-> Titled(B, r)]
           C == Finish(B)
<1>1. \A r \in DOMAIN B : f[r] = [r EXCEPT !.title = IF Collides(B, r) THEN r.game ELSE r.given]
  BY DEF BagToSet, Titled
<1>2. ASSUME NEW r \in DOMAIN B
      PROVE  /\ f[r] \in RecordSet /\ f[r].dir = r.dir /\ f[r].game = r.game /\ Core(f[r]) = Core(r)
             /\ f[r].art = r.art /\ f[r].title = IF Collides(B, r) THEN r.game ELSE r.given
  <2>1. r \in RecordSet
    BY DEF Single
  <2> DEFINE x == IF Collides(B, r) THEN r.game ELSE r.given
  <2>2. x \in Typed \cup Games \cup {NoName}
    BY <2>1 DEF RecordSet
  <2>3. f[r] = [r EXCEPT !.title = x]
    BY <1>1
  <2> HIDE DEF f, x
  <2>4. f[r].title = x
    BY <2>1, <2>2, <2>3, Retitled
  <2>5. QED
    BY <2>1, <2>2, <2>3, <2>4, Retitled DEF x
<1>3. DOMAIN f = DOMAIN B
  BY DEF BagToSet
<1> HIDE DEF f
<1>4. C = Mapped(f, B)
  BY DEF Finish, f
<1>5. DOMAIN C = {f[r] : r \in DOMAIN B} /\ Single(C)
  BY <1>2, <1>3, <1>4, MappedOK
<1> HIDE DEF C
<1>6. Cores(C) = Cores(B)
  BY <1>2, <1>5 DEF Cores
<1>7. AllTitled(C)
  <2> SUFFICES ASSUME NEW r \in DOMAIN B
               PROVE  f[r].title = IF Collides(C, f[r]) THEN f[r].game ELSE f[r].given
    BY <1>5 DEF AllTitled
  <2>1. f[r] \in DOMAIN C /\ Core(f[r]) = Core(r)
    BY <1>2, <1>5
  <2>2. Collides(C, f[r]) <=> Collides(B, r)
    BY <1>5, <1>6, <2>1, SameCollisions
  <2>3. f[r].given = r.given
    BY <2>1 DEF Core
  <2>4. QED
    BY <1>2, <2>2, <2>3
<1>8. ASSUME NEW F, NEW W, ArtSought(B, F, W)
      PROVE  ArtSought(C, F, W)
  BY <1>2, <1>5, <1>8 DEF ArtSought
<1>9. QED
  BY <1>5, <1>6, <1>7, <1>8 DEF C

\* The first directory with a cover is one of the walk.
LEMMA FindArtOK ==
  ASSUME dirs \subseteq Dirs, NEW g
  PROVE  /\ FindArt(g) \in {NoArt, Packed} \cup [at : Dirs, is : {"code", "name"}]
         /\ FindArt(g) = NoArt <=>
               \A d \in Walked : ~ CoverIn(files[d], g, "name") /\ (g \in N64 => ~ CoverIn(files[d], g, "code"))
<1>1. Walked \subseteq Dirs /\ Dirs \subseteq Nat
  BY IndexAssumption, FS_CardinalityType DEF Walked
<1>2. ASSUME NEW how, CoverDirs(g, how) # {}
      PROVE  Min(CoverDirs(g, how)) \in Dirs
  <2>1. CoverDirs(g, how) \in SUBSET Nat /\ CoverDirs(g, how) \subseteq Dirs
    BY <1>1 DEF CoverDirs
  <2>2. \E x \in CoverDirs(g, how) : \A y \in CoverDirs(g, how) : x <= y
    BY <1>2, <2>1, LeastNumber
  <2>3. QED
    BY <2>1, <2>2 DEF Min
<1>3. \A d, how : Loose(d, how).is = how /\ NoArt.is = "none"
  BY DEF Loose, NoArt
<1>4. \A how : CoverDirs(g, how) = {} <=> \A d \in Walked : ~ CoverIn(files[d], g, how)
  BY DEF CoverDirs, CoverIn
<1>5. FindArt(g) \in {NoArt} \cup [at : Dirs, is : {"code", "name"}]
  BY <1>2 DEF FindArt, Loose
<1>6. FindArt(g) = NoArt <=> (CoverDirs(g, "name") = {} /\ (g \in N64 => CoverDirs(g, "code") = {}))
  BY <1>3 DEF FindArt
<1>7. QED
  BY <1>4, <1>5, <1>6

\* Art looked for in the whole walk.
LEMMA ResolvedOK ==
  ASSUME dirs \subseteq Dirs, NEW B, Single(B)
  PROVE  Single(Resolved(B)) /\ Cores(Resolved(B)) = Cores(B) /\ ArtSought(Resolved(B), files, Walked)
<1> DEFINE f == [r \in BagToSet(B) |-> ResolveArt(r)]
           C == Resolved(B)
<1>1. ASSUME NEW r \in DOMAIN B
      PROVE  /\ f[r] \in RecordSet /\ f[r].dir = r.dir /\ f[r].game = r.game /\ Core(f[r]) = Core(r)
             /\ f[r].art = NoArt => FindArt(r.game) = NoArt
  <2>1. r \in RecordSet
    BY DEF Single
  <2>2. f[r] = ResolveArt(r)
    BY DEF BagToSet
  <2> HIDE DEF f
  <2>3. CASE r.art = NoArt /\ FindArt(r.game) # NoArt
    <3>1. f[r] = [r EXCEPT !.art = FindArt(r.game), !.missing = FALSE]
      BY <2>2, <2>3 DEF ResolveArt
    <3> DEFINE a == FindArt(r.game)
    <3>2. a \in {NoArt, Packed} \cup [at : Dirs, is : {"code", "name"}]
      BY FindArtOK
    <3>3. f[r] = [r EXCEPT !.art = a, !.missing = FALSE] /\ a # NoArt
      BY <2>3, <3>1
    <3> HIDE DEF a
    <3>4. f[r] \in RecordSet /\ f[r].dir = r.dir /\ f[r].game = r.game /\ Core(f[r]) = Core(r) /\ f[r].art = a
      BY <2>1, <3>2, <3>3 DEF RecordSet, Core
    <3>5. QED
      BY <3>3, <3>4
  <2>4. CASE ~ (r.art = NoArt /\ FindArt(r.game) # NoArt)
    BY <2>1, <2>2, <2>4 DEF ResolveArt
  <2>5. QED
    BY <2>3, <2>4
<1>2. DOMAIN f = DOMAIN B
  BY DEF BagToSet
<1> HIDE DEF f
<1>3. C = Mapped(f, B)
  BY DEF Resolved, f
<1>4. DOMAIN C = {f[r] : r \in DOMAIN B} /\ Single(C)
  BY <1>1, <1>2, <1>3, MappedOK
<1> HIDE DEF C
<1>5. Cores(C) = Cores(B)
  BY <1>1, <1>4 DEF Cores
<1>6. ArtSought(C, files, Walked)
  BY <1>1, <1>4, FindArtOK DEF ArtSought
<1>7. QED
  BY <1>4, <1>5, <1>6 DEF C

\* The index keeps what a record is of, and the art that was found.
LEMMA StoredOK ==
  ASSUME NEW B, Single(B)
  PROVE  /\ Single(Stored(B)) /\ Cores(Stored(B)) = Cores(B)
         /\ \A F, W : ArtSought(B, F, W) => ArtSought(Stored(B), F, W)
<1> DEFINE f == [r \in BagToSet(B) |-> [r EXCEPT !.title = NoName]]
           C == Stored(B)
<1>1. ASSUME NEW r \in DOMAIN B
      PROVE  f[r] \in RecordSet /\ f[r].dir = r.dir /\ f[r].game = r.game /\ Core(f[r]) = Core(r) /\ f[r].art = r.art
  <2>1. r \in RecordSet
    BY DEF Single
  <2>2. f[r] = [r EXCEPT !.title = NoName]
    BY DEF BagToSet
  <2> HIDE DEF f
  <2>3. QED
    BY <2>1, <2>2, Retitled
<1>2. DOMAIN f = DOMAIN B
  BY DEF BagToSet
<1> HIDE DEF f
<1>3. C = Mapped(f, B)
  BY DEF Stored, f
<1>4. DOMAIN C = {f[r] : r \in DOMAIN B} /\ Single(C)
  BY <1>1, <1>2, <1>3, MappedOK
<1> HIDE DEF C
<1>5. Cores(C) = Cores(B)
  BY <1>1, <1>4 DEF Cores
<1>6. ASSUME NEW F, NEW W, ArtSought(B, F, W)
      PROVE  ArtSought(C, F, W)
  BY <1>1, <1>4, <1>6 DEF ArtSought
<1>7. QED
  BY <1>4, <1>5, <1>6 DEF C

\* Without a name typed a game is called what its header says, or its file.
LEMMA UntypedOK ==
  ASSUME NEW g \in Games, NEW b \in Builds
  PROVE  Untyped(g, b) \in Typed \cup Games
<1>1. HeaderOf(g, b) \in Typed \cup {NoName}
  BY Zenon, IndexAssumption DEF HeaderOf
<1>2. QED
  BY <1>1 DEF Untyped

\* A scan lists every game of the directories once, as they are.
LEMMA ScanOK ==
  ASSUME files \in [Dirs -> Contents], NEW S \in SUBSET Dirs
  PROVE  Single(Scan(S)) /\ About(Scan(S), files, S) /\ Complete(Scan(S), files, S)
<1>1. DOMAIN Scan(S) = UNION {ScanDir(d) : d \in S} /\ Scan(S) \in [DOMAIN Scan(S) -> {1}]
  BY DEF Scan, SetToBag
<1>2. ASSUME NEW d \in Dirs, NEW e \in files[d], e.kind = "rom"
      PROVE  LET r == NewRecord(d, e)
             IN  /\ r.dir = d /\ r.game = e.game /\ r.build = e.is /\ r.custom = CustomIn(files[d], e.game)
                 /\ r.given = GivenIn(files[d], e.game, e.is) /\ e = [kind |-> "rom", game |-> e.game, is |-> e.is]
                 /\ e.game \in Games /\ e.is \in Builds
                 /\ r \in RecordSet
  <2>1. e \in Entries /\ files[d] \in SUBSET Entries
    BY DEF Contents
  <2>2. e = [kind |-> "rom", game |-> e.game, is |-> e.is] /\ e.game \in Games /\ e.is \in Builds
    BY <1>2, <2>1 DEF Entries
  <2>3. TypedFor(d, e.game) = NamesIn(files[d], e.game)
    BY DEF TypedFor, NamesIn
  <2>4. NamesIn(files[d], e.game) \subseteq Typed
    BY <2>1 DEF NamesIn, Entries
  <2>5. GivenIn(files[d], e.game, e.is) = Given(d, e.game, e.is)
    <3>1. CASE e.game \in N64 /\ NamesIn(files[d], e.game) # {}
      BY <2>3, <3>1 DEF GivenIn, Given, CustomIn
    <3>2. CASE ~ (e.game \in N64 /\ NamesIn(files[d], e.game) # {})
      <4>1. GivenIn(files[d], e.game, e.is) = Untyped(e.game, e.is)
        BY <3>2 DEF GivenIn, CustomIn
      <4>2. Given(d, e.game, e.is) = IF e.game \in N64 /\ HeaderOf(e.game, e.is) # NoName THEN HeaderOf(e.game, e.is) ELSE e.game
        <5>1. ~ (e.game \in N64 /\ TypedFor(d, e.game) # {})
          BY <2>3, <3>2
        <5>2. QED
          BY Zenon, <5>1 DEF Given, HeaderOf
      <4>3. QED
        BY <4>1, <4>2 DEF Untyped
    <3>3. QED
      BY <3>1, <3>2
  <2>6. Untyped(e.game, e.is) \in Typed \cup Games
    BY <2>2, UntypedOK
  <2>7. GivenIn(files[d], e.game, e.is) \in Typed \cup Games
    <3>1. CASE CustomIn(files[d], e.game)
      BY <2>4, <3>1 DEF GivenIn, CustomIn
    <3>2. CASE ~ CustomIn(files[d], e.game)
      BY <2>2, <2>6, <3>2 DEF GivenIn
    <3>3. QED
      BY <3>1, <3>2
  <2>8. CustomIn(files[d], e.game) \in BOOLEAN /\ CustomIn(files[d], e.game) = (e.game \in N64 /\ TypedFor(d, e.game) # {})
    BY <2>3 DEF CustomIn
  <2>9. QED
    BY <2>2, <2>5, <2>7, <2>8 DEF NewRecord, RecordSet
<1>3. ASSUME NEW r \in DOMAIN Scan(S)
      PROVE  \E d \in S, e \in files[r.dir] : d = r.dir /\ e.kind = "rom" /\ r = NewRecord(d, e)
  <2>1. PICK d \in S : r \in ScanDir(d)
    BY <1>1
  <2>2. PICK e \in files[d] : e.kind = "rom" /\ r = NewRecord(d, e)
    BY <2>1 DEF ScanDir
  <2>3. QED
    BY <1>2, <2>2
<1>4. ASSUME NEW r \in DOMAIN Scan(S)
      PROVE  /\ r \in RecordSet /\ r.dir \in S /\ RomIn(files[r.dir], r.game, r.build)
             /\ r.given = GivenIn(files[r.dir], r.game, r.build) /\ r.custom = CustomIn(files[r.dir], r.game)
  <2>1. PICK d \in S, e \in files[r.dir] : d = r.dir /\ e.kind = "rom" /\ r = NewRecord(d, e)
    BY <1>3
  <2>2. QED
    BY <1>2, <2>1 DEF RomIn
<1>5. ASSUME NEW r \in DOMAIN Scan(S), NEW s \in DOMAIN Scan(S), r.dir = s.dir, r.game = s.game
      PROVE  r = s
  <2>1. PICK d \in S, e \in files[r.dir] : d = r.dir /\ e.kind = "rom" /\ r = NewRecord(d, e)
    BY <1>3
  <2>2. PICK c \in S, x \in files[s.dir] : c = s.dir /\ x.kind = "rom" /\ s = NewRecord(c, x)
    BY <1>3
  <2>3. e.game = r.game /\ x.game = s.game
    BY <1>2, <2>1, <2>2
  <2>4. e = x
    BY <1>5, <2>1, <2>2, <2>3 DEF Contents
  <2>5. QED
    BY <1>5, <2>1, <2>2, <2>4
<1>6. Complete(Scan(S), files, S)
  <2> SUFFICES ASSUME NEW d \in S, NEW g \in Games, NEW b \in Builds, RomIn(files[d], g, b)
               PROVE  \E r \in DOMAIN Scan(S) : r.dir = d /\ r.game = g
    BY DEF Complete
  <2> DEFINE e == [kind |-> "rom", game |-> g, is |-> b]
  <2>1. e \in files[d] /\ e.kind = "rom" /\ e.game = g
    BY DEF RomIn
  <2> HIDE DEF e
  <2>2. NewRecord(d, e) \in DOMAIN Scan(S)
    BY <1>1, <2>1 DEF ScanDir
  <2>3. QED
    BY <1>2, <2>1, <2>2
<1>7. QED
  BY <1>1, <1>4, <1>5, <1>6 DEF Single, About, Named

\* Some of the records of a list are single.
LEMMA PartOK ==
  ASSUME NEW B, Single(B), NEW C, C \in [DOMAIN C -> {1}], DOMAIN C \subseteq DOMAIN B
  PROVE  /\ Single(C) /\ Cores(C) \subseteq Cores(B)
         /\ \A F, W : ArtSought(B, F, W) => ArtSought(C, F, W)
<1>1. Single(C) /\ Cores(C) \subseteq Cores(B)
  BY DEF Single, Cores
<1>2. \A F, W : ArtSought(B, F, W) => ArtSought(C, F, W)
  BY DEF ArtSought
<1>3. QED
  BY <1>1, <1>2

\* One record less.
LEMMA LessOne ==
  ASSUME NEW B, Single(B), NEW r
  PROVE  LET C == B (-) SetToBag({r})
         IN  C \in [DOMAIN C -> {1}] /\ DOMAIN C = DOMAIN B \ {r}
<1> DEFINE D == [e \in DOMAIN B |-> IF e \in DOMAIN SetToBag({r}) THEN B[e] - SetToBag({r})[e] ELSE B[e]]
           C == B (-) SetToBag({r})
<1>1. C = [e \in {d \in DOMAIN D : D[d] > 0} |-> D[e]]
  BY DEF (-)
<1>2. DOMAIN SetToBag({r}) = {r} /\ SetToBag({r})[r] = 1
  BY DEF SetToBag
<1>3. \A e \in DOMAIN B : B[e] = 1
  BY DEF Single
<1>4. DOMAIN D = DOMAIN B /\ \A e \in DOMAIN B : D[e] = IF e = r THEN 0 ELSE 1
  BY <1>2, <1>3
<1> HIDE DEF D
<1>5. {d \in DOMAIN D : D[d] > 0} = DOMAIN B \ {r}
  BY <1>4
<1>6. C = [e \in DOMAIN B \ {r} |-> D[e]]
  BY <1>1, <1>5
<1> HIDE DEF C
<1>7. DOMAIN C = DOMAIN B \ {r} /\ \A e \in DOMAIN C : C[e] = 1
  BY <1>4, <1>6
<1>8. C \in [DOMAIN C -> {1}]
  BY <1>6, <1>7
<1>9. QED
  BY <1>7, <1>8 DEF C

\* The records of other directories come to those of some.
LEMMA PlusOK ==
  ASSUME NEW A, Single(A), NEW B, Single(B), \A r \in DOMAIN A, s \in DOMAIN B : r.dir # s.dir \/ r.game # s.game
  PROVE  Single(A (+) B) /\ DOMAIN (A (+) B) = DOMAIN A \cup DOMAIN B
<1> DEFINE C == A (+) B
<1>1. C = [e \in DOMAIN A \cup DOMAIN B |->
              (IF e \in DOMAIN A THEN A[e] ELSE 0) + (IF e \in DOMAIN B THEN B[e] ELSE 0)]
  BY DEF (+)
<1>2. \A e \in DOMAIN A \cup DOMAIN B : ~ (e \in DOMAIN A /\ e \in DOMAIN B)
  OBVIOUS
<1>3. (\A e \in DOMAIN A : A[e] = 1) /\ (\A e \in DOMAIN B : B[e] = 1)
  BY DEF Single
<1> HIDE DEF C
<1>4. DOMAIN C = DOMAIN A \cup DOMAIN B /\ \A e \in DOMAIN C : C[e] = 1
  BY <1>1, <1>2, <1>3
<1>5. C \in [DOMAIN C -> {1}]
  BY <1>1, <1>4
<1>6. \A r, s \in DOMAIN C : r.dir = s.dir /\ r.game = s.game => r = s
  BY <1>4 DEF Single
<1>7. DOMAIN C \subseteq RecordSet
  BY <1>4 DEF Single
<1>8. Single(C)
  BY <1>5, <1>6, <1>7 DEF Single
<1>9. QED
  BY <1>4, <1>8 DEF C

\* A record in the place of one of the same game.
LEMMA ReplaceOK ==
  ASSUME Single(lib), NEW r \in DOMAIN lib, NEW s \in RecordSet, s.dir = r.dir, s.game = r.game
  PROVE  Single(Replace(r, s)) /\ DOMAIN Replace(r, s) = (DOMAIN lib \ {r}) \cup {s}
<1> DEFINE A == lib (-) SetToBag({r})
           B == SetToBag({s})
<1>1. A \in [DOMAIN A -> {1}] /\ DOMAIN A = DOMAIN lib \ {r}
  BY LessOne
<1>2. DOMAIN B = {s} /\ B \in [DOMAIN B -> {1}]
  BY DEF SetToBag
<1> HIDE DEF A, B
<1>3. Single(A)
  BY <1>1, PartOK
<1>4. Single(B)
  BY <1>2 DEF Single
<1>5. \A x \in DOMAIN A, y \in DOMAIN B : x.dir # y.dir \/ x.game # y.game
  BY <1>1, <1>2 DEF Single
<1>6. Single(A (+) B) /\ DOMAIN (A (+) B) = DOMAIN A \cup DOMAIN B
  BY <1>3, <1>4, <1>5, PlusOK
<1>7. QED
  BY <1>1, <1>2, <1>6 DEF Replace, A, B

\* What was told of some files is told of the same files.
LEMMA SameFiles ==
  ASSUME NEW F, NEW G, NEW W, \A d \in W : F[d] = G[d], NEW B
  PROVE  /\ About(B, F, W) => About(B, G, W)
         /\ Complete(B, F, W) => Complete(B, G, W)
         /\ ArtSought(B, F, W) => ArtSought(B, G, W)
<1>1. About(B, F, W) => About(B, G, W)
  BY DEF About
<1>2. Complete(B, F, W) => Complete(B, G, W)
  BY DEF Complete
<1>3. ArtSought(B, F, W) => ArtSought(B, G, W)
  BY DEF ArtSought
<1>4. QED
  BY <1>1, <1>2, <1>3

\* Two lists of all the games of the same files have the same cores.
LEMMA OneCoreForAGame ==
  ASSUME NamesAreForN64, NEW F, NEW W, \A d \in W : F[d] \in Contents,
         NEW B, DOMAIN B \subseteq RecordSet, About(B, F, W),
         NEW C, DOMAIN C \subseteq RecordSet, About(C, F, W), Complete(C, F, W)
  PROVE  Cores(B) \subseteq Cores(C)
<1> SUFFICES ASSUME NEW r \in DOMAIN B PROVE \E s \in DOMAIN C : Core(r) = Core(s)
  BY DEF Cores
<1>1. r.dir \in W /\ r.game \in Games /\ r.build \in Builds /\ RomIn(F[r.dir], r.game, r.build)
  BY DEF About, RecordSet
<1>2. PICK s \in DOMAIN C : s.dir = r.dir /\ s.game = r.game
  BY <1>1 DEF Complete
<1>3. RomIn(F[r.dir], r.game, s.build)
  BY <1>2 DEF About
<1>4. r.build = s.build
  <2> DEFINE x == [kind |-> "rom", game |-> r.game, is |-> r.build]
             y == [kind |-> "rom", game |-> r.game, is |-> s.build]
  <2>1. x \in F[r.dir] /\ y \in F[r.dir]
    BY <1>1, <1>3 DEF RomIn
  <2>2. x.kind = y.kind /\ x.game = y.game /\ x.kind # "cover"
    OBVIOUS
  <2>3. x.is = r.build /\ y.is = s.build
    OBVIOUS
  <2> HIDE DEF x, y
  <2>4. x = y
    BY <1>1, <2>1, <2>2 DEF Contents
  <2>5. QED
    BY <2>3, <2>4
<1>5. QED
  BY <1>2, <1>4 DEF About, Named, Core

\* Titled lists of the same cores look the same.
LEMMA SeenAlike ==
  ASSUME NEW B, Single(B), AllTitled(B), NEW C, Single(C), AllTitled(C), Cores(B) = Cores(C)
  PROVE  Seen(B) \subseteq Seen(C)
<1> SUFFICES ASSUME NEW r \in DOMAIN B PROVE \E s \in DOMAIN C : Facts(r) = Facts(s)
  BY DEF Seen, BagToSet
<1>1. PICK s \in DOMAIN C : Core(r) = Core(s)
  BY DEF Cores
<1>2. Collides(B, r) <=> Collides(C, s)
  BY <1>1, SameCollisions
<1>3. r.title = s.title
  <2>1. r.game = s.game /\ r.given = s.given
    BY <1>1 DEF Core
  <2>2. QED
    BY <1>2, <2>1 DEF AllTitled
<1>4. QED
  BY <1>1, <1>3 DEF Facts, Core

-----------------------------------------------------------------------------
(***************************************************************************)
(* The inductive invariant.  What an index has is of the files there were  *)
(* when it was written, whichever they were (F); by their sizes it knows   *)
(* them again.                                                             *)
(***************************************************************************)
CardOK ==
    /\ dirs \subseteq Dirs /\ files \in [Dirs -> Contents]
    /\ \A d \in Dirs \ dirs : files[d] = {}
RestOK ==
    /\ saves \subseteq Dirs /\ pack \subseteq N64 /\ phase \in Phases
    /\ {dirty, writable, starved, settled} \subseteq BOOLEAN /\ edits \in 0 .. MaxEdits
ListOK(B, F, W, short) ==
    Single(B) /\ About(B, F, W) /\ (~ short => Complete(B, F, W)) /\ ArtSought(B, F, W)
Recalled(i, F) == \A d \in DOMAIN i.sigs : F[d] \in Contents /\ i.sigs[d].size = SumFunctionOnSet(Size, F[d])
IndexOK(i, short) ==
    IsWhole(i) =>
        /\ DOMAIN i.sigs \subseteq Dirs
        /\ \E F : Recalled(i, F) /\ ListOK(i.recs, F, DOMAIN i.sigs, short)
LibOK(B, F, W, short, p) ==
    IF p \in {"off", "scan"} THEN B = EmptyBag ELSE ListOK(B, F, W, short) /\ AllTitled(B)
LibraryInv == CardOK /\ RestOK /\ IndexOK(index, starved) /\ LibOK(lib, files, Walked, starved, phase)

\* What is put together and finished is a library.
LEMMA FinishedOK ==
  ASSUME NEW B, NEW F, NEW W, NEW short, ListOK(B, F, W, short)
  PROVE  ListOK(Finish(B), F, W, short) /\ AllTitled(Finish(B))
<1>1. Single(B)
  BY DEF ListOK
<1>2. Single(Finish(B)) /\ Cores(Finish(B)) = Cores(B) /\ AllTitled(Finish(B)) /\ ArtSought(Finish(B), F, W)
  BY <1>1, FinishOK DEF ListOK
<1>3. About(Finish(B), F, W) /\ (~ short => Complete(Finish(B), F, W))
  BY <1>2, CoresCarry DEF ListOK
<1>4. QED
  BY <1>2, <1>3 DEF ListOK

\* So is what was looked through for art before.
LEMMA AssembledOK ==
  ASSUME dirs \subseteq Dirs, NEW B, NEW short, Single(B), About(B, files, Walked), ~ short => Complete(B, files, Walked)
  PROVE  ListOK(Finish(Resolved(B)), files, Walked, short) /\ AllTitled(Finish(Resolved(B)))
<1>1. Single(Resolved(B)) /\ Cores(Resolved(B)) = Cores(B) /\ ArtSought(Resolved(B), files, Walked)
  BY ResolvedOK
<1>2. About(Resolved(B), files, Walked) /\ (~ short => Complete(Resolved(B), files, Walked))
  BY <1>1, CoresCarry
<1>3. ListOK(Resolved(B), files, Walked, short)
  BY <1>1, <1>2 DEF ListOK
<1>4. QED
  BY <1>3, FinishedOK

\* A scan of the whole card is the library that is meant.
LEMMA FullScanOK ==
  ASSUME CardOK
  PROVE  ListOK(FullScan, files, Walked, FALSE) /\ AllTitled(FullScan)
<1>1. Walked \subseteq Dirs
  BY DEF Walked, CardOK
<1>2. Single(Scan(Walked)) /\ About(Scan(Walked), files, Walked) /\ Complete(Scan(Walked), files, Walked)
  BY <1>1, ScanOK DEF CardOK
<1>3. QED
  BY <1>2, AssembledOK DEF FullScan, CardOK

\* The invariant says all that is claimed.
LEMMA InvariantSays ==
  ASSUME LibraryInv
  PROVE  (NamesAreForN64 => LibraryIsTheCard) /\ NoCoverOverlooked
<1>1. CardOK /\ RestOK /\ IndexOK(index, starved) /\ LibOK(lib, files, Walked, starved, phase)
  BY DEF LibraryInv
<1>2. Walked \subseteq Dirs
  BY <1>1 DEF Walked, CardOK
<1>3. IsABag(lib) /\ DOMAIN lib \subseteq {r \in RecordSet : r.title # NoName}
  <2>1. CASE lib = EmptyBag
    BY <2>1 DEF EmptyBag, SetToBag, IsABag
  <2>2. CASE Single(lib) /\ AllTitled(lib)
    <3>1. lib \in [DOMAIN lib -> {1}] /\ DOMAIN lib \subseteq RecordSet
      BY <2>2 DEF Single
    <3>2. \A r \in DOMAIN lib : r.title \in Typed \cup Games
      BY <2>2, <3>1 DEF AllTitled, RecordSet
    <3>3. QED
      BY <3>1, <3>2, IndexAssumption DEF IsABag
  <2>3. QED
    BY <1>1, <2>1, <2>2 DEF LibOK, ListOK
<1>4. TypeOK
  <2>1. \A d \in Dirs : files[d] \subseteq Entries /\ (d \notin dirs => files[d] = {})
    BY <1>1 DEF CardOK, Contents
  <2>2. IsWhole(index) => DOMAIN index.recs \subseteq RecordSet /\ DOMAIN index.sigs \subseteq Dirs
    BY <1>1 DEF IndexOK, ListOK, Single
  <2>3. QED
    BY <1>1, <1>3, <2>1, <2>2 DEF TypeOK, CardOK, RestOK
<1>5. ASSUME phase = "on" PROVE ListOK(lib, files, Walked, starved) /\ AllTitled(lib)
  BY <1>1, <1>5 DEF LibOK
<1>6. NoneTwiceNoneInvented
  BY <1>5 DEF NoneTwiceNoneInvented, ListOK, Single, About, RomIn, BagToSet
<1>7. ASSUME NamesAreForN64, phase = "on", ~ starved PROVE Seen(lib) = Seen(FullScan)
  <2>1. ListOK(lib, files, Walked, FALSE) /\ AllTitled(lib)
    BY <1>5, <1>7 DEF ListOK
  <2>2. ListOK(FullScan, files, Walked, FALSE) /\ AllTitled(FullScan)
    BY <1>1, FullScanOK
  <2>3. \A d \in Walked : files[d] \in Contents
    BY <1>1, <1>2 DEF CardOK
  <2>4. Cores(lib) \subseteq Cores(FullScan) /\ Cores(FullScan) \subseteq Cores(lib)
    BY <1>7, <2>1, <2>2, <2>3, OneCoreForAGame DEF ListOK, Single
  <2>5. Cores(lib) = Cores(FullScan)
    BY <2>4
  <2>6. QED
    BY <2>1, <2>2, <2>5, SeenAlike DEF ListOK
<1>8. NoCoverOverlooked
  <2> SUFFICES ASSUME phase = "on", NEW r \in DOMAIN lib, r.art = NoArt PROVE FindArt(r.game) = NoArt
    BY DEF NoCoverOverlooked, BagToSet
  <2>1. \A d \in Walked : ~ CoverIn(files[d], r.game, "name") /\ (r.game \in N64 => ~ CoverIn(files[d], r.game, "code"))
    BY <1>5 DEF ListOK, ArtSought
  <2>2. dirs \subseteq Dirs
    BY <1>1 DEF CardOK
  <2>3. QED
    BY <2>1, <2>2, FindArtOK
<1>9. QED
  BY <1>4, <1>6, <1>7, <1>8 DEF LibraryIsTheCard

\* A new console has no index.
LEMMA LibraryInit == Init => LibraryInv
<1> SUFFICES ASSUME Init PROVE LibraryInv
  OBVIOUS
<1>1. PICK c \in FirstCards : dirs = c.dirs /\ files = c.files
  BY DEF Init
<1>2. CardOK
  <2>1. /\ c.dirs \subseteq Dirs /\ c.files \in [Dirs -> SUBSET Entries]
        /\ \A d \in Dirs : \A x, y \in c.files[d] :
              d \in c.dirs /\ (x.kind = y.kind /\ x.game = y.game /\ x.kind # "cover" => x = y)
    BY IndexAssumption
  <2>2. \A d \in Dirs : c.files[d] \in Contents
    BY <2>1 DEF Contents
  <2>3. \A d \in Dirs \ c.dirs : c.files[d] = {}
    BY <2>1
  <2>4. QED
    BY <1>1, <2>1, <2>2, <2>3 DEF CardOK
<1>3. RestOK
  <2>1. {dirty, writable, starved, settled} \subseteq BOOLEAN
    BY Zenon DEF Init
  <2>2. saves = {} /\ pack = {} /\ phase = "off" /\ edits = 0
    BY DEF Init
  <2>3. QED
    BY <2>1, <2>2, IndexAssumption DEF RestOK, Phases
<1>4. IndexOK(index, starved)
  BY DEF Init, IndexOK, IsWhole, NoIndex, Index
<1>5. LibOK(lib, files, Walked, starved, phase)
  BY DEF Init, LibOK
<1>6. QED
  BY <1>2, <1>3, <1>4, <1>5 DEF LibraryInv

\* The menu's memory is gone.
LEMMA NothingInMemory ==
  ASSUME LibraryInv, CardOK', RestOK', IndexOK(index, starved)', phase' \in {"off", "scan"}, lib' = EmptyBag
  PROVE  LibraryInv'
BY DEF LibraryInv, LibOK

\* An index is as good as it was, and where there was none, none is better.
LEMMA IndexStays ==
  ASSUME LibraryInv, index' = index \/ ~ IsWhole(index)', starved \in BOOLEAN, starved => starved'
  PROVE  IndexOK(index, starved)'
<1>1. CASE ~ IsWhole(index)'
  BY <1>1 DEF IndexOK
<1>2. CASE index' = index
  <2> SUFFICES ASSUME IsWhole(index)
               PROVE  /\ DOMAIN index.sigs \subseteq Dirs
                      /\ \E F : Recalled(index, F) /\ ListOK(index.recs, F, DOMAIN index.sigs, starved')
    BY <1>2 DEF IndexOK
  <2>1. PICK F : Recalled(index, F) /\ ListOK(index.recs, F, DOMAIN index.sigs, starved)
    BY DEF LibraryInv, IndexOK
  <2>2. ListOK(index.recs, F, DOMAIN index.sigs, starved')
    BY <2>1 DEF ListOK
  <2>3. QED
    BY <2>1, <2>2 DEF LibraryInv, IndexOK
<1>3. QED
  BY <1>1, <1>2

\* The card in the console, the saves folders aside.
LEMMA CardStays ==
  ASSUME LibraryInv, UNCHANGED <<dirs, files>>
  PROVE  CardOK' /\ Walked' = Walked
BY DEF LibraryInv, CardOK, Walked

\* A directory is known again by the sizes of its files.
LEMMA KnownAgain ==
  ASSUME SizesTell, CardOK, NEW F, Recalled(index, F),
         NEW d \in DOMAIN index.sigs, d \in Walked, index.sigs[d] = Signature(d)
  PROVE  F[d] = files[d]
<1>1. d \in Dirs /\ files[d] \in Contents
  BY DEF CardOK, Walked
<1>2. Signature(d).size = SumFunctionOnSet(Size, files[d])
  BY DEF Signature
<1>3. SumFunctionOnSet(Size, F[d]) = SumFunctionOnSet(Size, files[d]) /\ F[d] \in Contents
  BY <1>2 DEF Recalled
<1>4. QED
  BY <1>1, <1>3 DEF SizesTell

\* A boot that reads no index, or lets go what it read.
LEMMA LoadNothingKeeps ==
  ASSUME LibraryInv, LoadNothing \/ RepairAbandoned \/ GiveUp
  PROVE  LibraryInv'
<1>1. /\ UNCHANGED card /\ phase' = "scan" /\ lib' = EmptyBag /\ dirty' = FALSE
      /\ writable' \in BOOLEAN /\ UNCHANGED <<settled, edits>>
      /\ index' = index \/ index' = NoIndex
      /\ starved' = starved \/ starved' = TRUE
  BY DEF LoadNothing, RepairAbandoned, GiveUp, SwitchOn
<1>2. starved \in BOOLEAN
  BY DEF LibraryInv, RestOK
<1>3. CardOK'
  BY <1>1, CardStays DEF card
<1>4. RestOK'
  BY <1>1 DEF LibraryInv, RestOK, card, Phases
<1>5. ~ IsWhole(NoIndex)
  BY DEF IsWhole, NoIndex, Index
<1>6. IndexOK(index, starved)'
  BY <1>1, <1>2, <1>5, IndexStays
<1>7. QED
  BY <1>1, <1>3, <1>4, <1>6, NothingInMemory

\* The console goes off, or to a game.
LEMMA MemoryGone ==
  ASSUME LibraryInv, MenuGone, UNCHANGED <<dirs, files, pack, settled, edits>>, saves' \subseteq Dirs,
         settled' \in BOOLEAN, starved' = starved, index' = index \/ ~ IsWhole(index)'
  PROVE  LibraryInv'
<1>1. CardOK'
  BY CardStays
<1>2. RestOK'
  BY DEF LibraryInv, RestOK, Phases, MenuGone
<1>3. starved \in BOOLEAN
  BY DEF LibraryInv, RestOK
<1>4. IndexOK(index, starved)'
  BY <1>3, IndexStays
<1>5. QED
  BY <1>1, <1>2, <1>4, NothingInMemory DEF MenuGone

\* What one list of records has, without some.
LEMMA BegunOK ==
  ASSUME NEW F, NEW W, ListOK(index.recs, F, W, starved), NEW B \in Begun(index.recs)
  PROVE  ListOK(B, F, W, starved \/ B # index.recs)
<1>1. CASE B = index.recs
  BY <1>1 DEF ListOK
<1>2. CASE B # index.recs
  <2> DEFINE part(S) == [r \in {x \in DOMAIN index.recs : x \in S} |-> index.recs[r]]
  <2>1. B \in {part(S) : S \in SUBSET DOMAIN index.recs}
    BY <1>2 DEF Begun, BagToSet, RestrictDomain, Restrict
  <2>2. PICK S : B = part(S)
    BY <2>1
  <2>3. Single(index.recs)
    BY DEF ListOK
  <2>4. B \in [DOMAIN B -> {1}] /\ DOMAIN B \subseteq DOMAIN index.recs
    BY <2>2, <2>3 DEF Single
  <2>5. Single(B) /\ Cores(B) \subseteq Cores(index.recs) /\ ArtSought(B, F, W)
    BY <2>3, <2>4, PartOK DEF ListOK
  <2>6. About(B, F, W)
    BY <2>5, CoresCarry DEF ListOK
  <2>7. QED
    BY <1>2, <2>5, <2>6 DEF ListOK
<1>3. QED
  BY <1>1, <1>2

\* The index of the files there are is of their library.
LEMMA LoadAsIsKeeps ==
  ASSUME SizesTell, LibraryInv, LoadAsIs
  PROVE  LibraryInv'
<1>1. /\ UNCHANGED <<card, index, settled, edits>> /\ dirty' = FALSE /\ writable' \in BOOLEAN
      /\ IsWhole(index) /\ Walk = index.sigs
  BY DEF LoadAsIs, SwitchOn
<1>2. PICK B \in Begun(index.recs) :
        /\ lib' = Finish(B) /\ starved' = (starved \/ B # index.recs)
        /\ phase' = IF B # EmptyBag THEN "on" ELSE "scan"
  BY DEF LoadAsIs
<1>3. CardOK /\ starved \in BOOLEAN /\ IndexOK(index, starved)
  BY DEF LibraryInv, RestOK
<1>4. PICK F : Recalled(index, F) /\ ListOK(index.recs, F, DOMAIN index.sigs, starved)
  BY <1>1, <1>3 DEF IndexOK
<1>5. DOMAIN index.sigs = Walked /\ \A d \in Walked : index.sigs[d] = Signature(d)
  BY <1>1 DEF Walk
<1>6. \A d \in Walked : F[d] = files[d]
  BY <1>3, <1>4, <1>5, KnownAgain
<1>7. ListOK(index.recs, files, Walked, starved)
  BY <1>4, <1>5, <1>6, SameFiles DEF ListOK
<1>8. ListOK(B, files, Walked, starved')
  BY <1>2, <1>7, BegunOK
<1>9. ListOK(lib', files, Walked, starved') /\ AllTitled(lib')
  BY <1>2, <1>8, FinishedOK
<1>10. CardOK' /\ Walked' = Walked
  BY <1>1, CardStays DEF card
<1>11. RestOK'
  <2>1. starved' \in BOOLEAN /\ phase' \in Phases
    BY <1>2 DEF Phases
  <2>2. QED
    BY <1>1, <2>1 DEF LibraryInv, RestOK, card
<1>12. starved => starved'
  BY <1>2
<1>13. IndexOK(index, starved)'
  BY <1>1, <1>3, <1>12, IndexStays
<1>14. LibOK(lib, files, Walked, starved, phase)'
  <2>1. CASE B # EmptyBag
    BY <1>1, <1>2, <1>9, <1>10, <2>1 DEF LibOK, card
  <2>2. CASE B = EmptyBag
    <3>1. DOMAIN Finish(B) = {}
      BY <2>2 DEF Finish, Mapped, Range, EmptyBag, SetToBag, BagToSet
    <3>2. lib' \in [DOMAIN lib' -> {1}]
      BY <1>9 DEF ListOK, Single
    <3>3. lib' = EmptyBag
      BY <1>2, <3>1, <3>2 DEF EmptyBag, SetToBag
    <3>4. QED
      BY <1>2, <2>2, <3>3 DEF LibOK
  <2>3. QED
    BY <2>1, <2>2
<1>15. QED
  BY <1>10, <1>11, <1>13, <1>14 DEF LibraryInv

\* A boot that goes on with a library.
LEMMA Listed ==
  ASSUME LibraryInv, UNCHANGED <<card, settled, edits>>, dirty' \in BOOLEAN, writable' \in BOOLEAN,
         index' = index, starved' \in BOOLEAN, starved => starved', phase' \in Phases,
         ListOK(lib', files, Walked, starved'), AllTitled(lib'),
         phase' \in {"off", "scan"} => lib' = EmptyBag
  PROVE  LibraryInv'
<1>1. CardOK' /\ Walked' = Walked
  BY CardStays DEF card
<1>2. RestOK'
  BY DEF LibraryInv, RestOK, card
<1>3. starved \in BOOLEAN
  BY DEF LibraryInv, RestOK
<1>4. IndexOK(index, starved)'
  BY <1>3, IndexStays
<1>5. LibOK(lib, files, Walked, starved, phase)'
  BY <1>1 DEF LibOK, card
<1>6. QED
  BY <1>1, <1>2, <1>4, <1>5 DEF LibraryInv

\* What is kept of an index, and a scan of the rest, is all there is.
LEMMA RepairKeeps ==
  ASSUME SizesTell, LibraryInv, Repair
  PROVE  LibraryInv'
<1> DEFINE U == Unchanged
           N == Scan(Walked \ U)
<1>1. /\ UNCHANGED <<card, index, starved, settled, edits>> /\ dirty' = FALSE /\ writable' \in BOOLEAN
      /\ IsWhole(index) /\ lib' = Repaired /\ phase' = IF lib' = EmptyBag THEN "scan" ELSE "save"
  BY DEF Repair, SwitchOn
<1>2. CardOK /\ starved \in BOOLEAN /\ IndexOK(index, starved)
  BY DEF LibraryInv, RestOK
<1>3. PICK F : Recalled(index, F) /\ ListOK(index.recs, F, DOMAIN index.sigs, starved)
  BY <1>1, <1>2 DEF IndexOK
<1>4. U \subseteq Walked /\ U \subseteq DOMAIN index.sigs /\ Walked \subseteq Dirs
  BY <1>2 DEF Unchanged, Walked, CardOK
<1>5. \A d \in U : F[d] = files[d]
  BY <1>2, <1>3, KnownAgain DEF Unchanged
<1>6. Kept = [r \in {x \in DOMAIN index.recs : x.dir \in U} |-> index.recs[r]]
  BY DEF Kept, RestrictDomain, Restrict
<1>7. Single(N) /\ About(N, files, Walked \ U) /\ Complete(N, files, Walked \ U)
  BY <1>2, <1>4, ScanOK DEF CardOK
<1> HIDE DEF U, N
<1>8. Single(Kept) /\ DOMAIN Kept = {x \in DOMAIN index.recs : x.dir \in U}
  <2>1. Single(index.recs)
    BY <1>3 DEF ListOK
  <2>2. Kept \in [DOMAIN Kept -> {1}] /\ DOMAIN Kept \subseteq DOMAIN index.recs
    BY <1>6, <2>1 DEF Single
  <2>3. QED
    BY <1>6, <2>1, <2>2, PartOK
<1>9. About(Kept, files, U)
  BY <1>3, <1>5, <1>8 DEF ListOK, About
<1>10. ~ starved => Complete(Kept, files, U)
  <2> SUFFICES ASSUME ~ starved, NEW d \in U, NEW g \in Games, NEW b \in Builds, RomIn(files[d], g, b)
               PROVE  \E r \in DOMAIN Kept : r.dir = d /\ r.game = g
    BY DEF Complete
  <2>1. RomIn(F[d], g, b) /\ d \in DOMAIN index.sigs
    BY <1>4, <1>5
  <2>2. PICK r \in DOMAIN index.recs : r.dir = d /\ r.game = g
    BY <1>3, <2>1 DEF ListOK, Complete
  <2>3. QED
    BY <1>8, <2>2
<1>11. \A r \in DOMAIN Kept, s \in DOMAIN N : r.dir # s.dir
  BY <1>7, <1>8 DEF About
<1>12. Single(Kept (+) N) /\ DOMAIN (Kept (+) N) = DOMAIN Kept \cup DOMAIN N
  BY <1>7, <1>8, <1>11, PlusOK
<1>13. About(Kept (+) N, files, Walked)
  BY <1>4, <1>7, <1>9, <1>12 DEF About
<1>14. ~ starved => Complete(Kept (+) N, files, Walked)
  <2> SUFFICES ASSUME ~ starved, NEW d \in Walked, NEW g \in Games, NEW b \in Builds, RomIn(files[d], g, b)
               PROVE  \E r \in DOMAIN (Kept (+) N) : r.dir = d /\ r.game = g
    BY DEF Complete
  <2>1. CASE d \in U
    BY <1>10, <1>12, <2>1 DEF Complete
  <2>2. CASE d \notin U
    BY <1>7, <1>12, <2>2 DEF Complete
  <2>3. QED
    BY <2>1, <2>2
<1>15. ListOK(lib', files, Walked, starved) /\ AllTitled(lib')
  <2>1. dirs \subseteq Dirs
    BY <1>2 DEF CardOK
  <2>2. QED
    BY <1>1, <1>12, <1>13, <1>14, <2>1, AssembledOK DEF Repaired, N, U
<1>16. QED
  BY <1>1, <1>2, <1>15, Listed DEF Phases

\* All that is scanned, or all but the one record there was no room for.
LEMMA FullScanKeeps ==
  ASSUME LibraryInv, FullScanDone
  PROVE  LibraryInv'
<1>1. PICK B \in Short(Scan(Walked)) :
        lib' = Finish(Resolved(lib (+) B)) /\ starved' = (starved \/ B # Scan(Walked))
  BY DEF FullScanDone
<1>2. UNCHANGED <<card, index, dirty, writable, settled, edits>> /\ phase = "scan" /\ phase' \in {"save", "on"}
  BY DEF FullScanDone
<1>3. CardOK /\ starved \in BOOLEAN /\ dirty \in BOOLEAN /\ writable \in BOOLEAN /\ lib = EmptyBag
  BY <1>2 DEF LibraryInv, RestOK, LibOK
<1>4. Single(Scan(Walked)) /\ About(Scan(Walked), files, Walked) /\ Complete(Scan(Walked), files, Walked)
  BY <1>3, ScanOK DEF CardOK, Walked
<1>5. Single(B) /\ About(B, files, Walked) /\ (B = Scan(Walked) => Complete(B, files, Walked))
  <2>1. CASE B = Scan(Walked)
    BY <1>4, <2>1
  <2>2. CASE B # Scan(Walked)
    <3>1. PICK r : B = Scan(Walked) (-) SetToBag({r})
      BY <2>2 DEF Short
    <3>2. B \in [DOMAIN B -> {1}] /\ DOMAIN B = DOMAIN Scan(Walked) \ {r}
      BY <1>4, <3>1, LessOne
    <3>3. Single(B) /\ Cores(B) \subseteq Cores(Scan(Walked))
      BY <1>4, <3>2, PartOK
    <3>4. QED
      BY <1>4, <2>2, <3>3, CoresCarry
  <2>3. QED
    BY <2>1, <2>2
<1>6. Single(lib (+) B) /\ DOMAIN (lib (+) B) = DOMAIN B
  <2>1. DOMAIN lib = {} /\ lib \in [DOMAIN lib -> {1}]
    BY <1>3 DEF EmptyBag, SetToBag
  <2>2. Single(lib)
    BY <2>1 DEF Single
  <2>3. Single(lib (+) B) /\ DOMAIN (lib (+) B) = DOMAIN lib \cup DOMAIN B
    BY <1>5, <2>1, <2>2, PlusOK
  <2>4. QED
    BY <2>1, <2>3
<1>7. About(lib (+) B, files, Walked) /\ (~ starved' => Complete(lib (+) B, files, Walked))
  <2>1. ~ starved' => B = Scan(Walked)
    BY <1>1
  <2>2. About(lib (+) B, files, Walked)
    BY <1>5, <1>6 DEF About
  <2>3. Complete(B, files, Walked) => Complete(lib (+) B, files, Walked)
    BY <1>6 DEF Complete
  <2>4. QED
    BY <1>5, <2>1, <2>2, <2>3
<1>8. ListOK(lib', files, Walked, starved') /\ AllTitled(lib')
  BY <1>1, <1>3, <1>6, <1>7, AssembledOK DEF CardOK
<1>9. starved' \in BOOLEAN /\ (starved => starved')
  BY <1>1
<1>10. QED
  BY <1>2, <1>3, <1>8, <1>9, Listed DEF Phases

\* The file, written, is of the files there are.
LEMMA SaveEndsKeeps ==
  ASSUME LibraryInv, SaveEnds
  PROVE  LibraryInv'
<1>1. /\ phase \in {"write", "exitWrite"} /\ index' = Index("whole", Walk, Stored(lib)) /\ settled' = TRUE
      /\ UNCHANGED <<card, starved, edits>>
      /\ \/ phase' = "on" /\ UNCHANGED <<lib, dirty, writable>>
         \/ phase' = "off" /\ lib' = EmptyBag /\ dirty' = FALSE /\ writable' = TRUE
  BY DEF SaveEnds, SaveDone, MenuGone
<1>2. ListOK(lib, files, Walked, starved) /\ AllTitled(lib) /\ CardOK
  BY <1>1 DEF LibraryInv, LibOK
<1>3. CardOK' /\ Walked' = Walked
  BY <1>1, CardStays DEF card
<1>4. RestOK'
  BY <1>1 DEF LibraryInv, RestOK, card, Phases
<1>5. ListOK(Stored(lib), files, Walked, starved)
  <2>1. Single(lib)
    BY <1>2 DEF ListOK
  <2>2. Single(Stored(lib)) /\ Cores(Stored(lib)) = Cores(lib) /\ ArtSought(Stored(lib), files, Walked)
    BY <1>2, <2>1, StoredOK DEF ListOK
  <2>3. About(Stored(lib), files, Walked) /\ (~ starved => Complete(Stored(lib), files, Walked))
    BY <1>2, <2>2, CoresCarry DEF ListOK
  <2>4. QED
    BY <2>2, <2>3 DEF ListOK
<1>6. IndexOK(index, starved)'
  <2>1. index'.recs = Stored(lib) /\ index'.sigs = Walk
    BY <1>1 DEF Index
  <2>2. DOMAIN Walk = Walked /\ \A d \in Walked : Walk[d].size = SumFunctionOnSet(Size, files[d])
    BY DEF Walk, Signature
  <2>3. Walked \subseteq Dirs /\ \A d \in Walked : files[d] \in Contents
    BY <1>2 DEF CardOK, Walked
  <2>4. Recalled(index', files)
    BY <2>1, <2>2, <2>3 DEF Recalled
  <2>5. ListOK(index'.recs, files, DOMAIN index'.sigs, starved')
    BY <1>1, <1>5, <2>1, <2>2
  <2>6. DOMAIN index'.sigs \subseteq Dirs
    BY <2>1, <2>2, <2>3
  <2>7. QED
    BY <2>4, <2>5, <2>6 DEF IndexOK
<1>7. LibOK(lib, files, Walked, starved, phase)'
  BY <1>1, <1>2, <1>3 DEF LibOK, card
<1>8. QED
  BY <1>3, <1>4, <1>6, <1>7 DEF LibraryInv

\* The other ways a save goes on, or a game is left for.
LEMMA SaveKeeps ==
  ASSUME LibraryInv, SaveRefused \/ SaveStarts \/ SaveFails
  PROVE  LibraryInv'
<1>1. /\ UNCHANGED <<card, starved, edits>> /\ settled' \in BOOLEAN /\ index' \in {index, TornIndex, NoIndex}
      /\ phase \in {"save", "exit", "write", "exitWrite"}
      /\ \/ phase' \in {"on", "write", "exitWrite"} /\ UNCHANGED <<lib, dirty, writable>>
         \/ MenuGone
  BY DEF SaveRefused, SaveStarts, SaveFails, SaveDone, LibraryInv, RestOK
<1>2. CardOK' /\ Walked' = Walked
  BY <1>1, CardStays DEF card
<1>3. RestOK'
  BY <1>1 DEF LibraryInv, RestOK, card, Phases, MenuGone
<1>4. ~ IsWhole(TornIndex) /\ ~ IsWhole(NoIndex)
  BY DEF IsWhole, TornIndex, NoIndex, Index
<1>5. IndexOK(index, starved)'
  <2>1. starved \in BOOLEAN
    BY DEF LibraryInv, RestOK
  <2>2. QED
    BY <1>1, <1>4, <2>1, IndexStays
<1>6. LibOK(lib, files, Walked, starved, phase)'
  BY <1>1, <1>2 DEF LibraryInv, LibOK, MenuGone, card
<1>7. QED
  BY <1>2, <1>3, <1>5, <1>6 DEF LibraryInv

\* A record that only got, or was denied, its art.
LEMMA LookUpArtKeeps ==
  ASSUME LibraryInv, NEW r \in DOMAIN lib, LookUpArt(r)
  PROVE  LibraryInv'
<1>1. /\ UNCHANGED <<card, index, phase, writable, starved, settled, edits>> /\ phase = "on"
      /\ dirty' = dirty \/ dirty' = TRUE
  BY DEF LookUpArt
<1>2. ListOK(lib, files, Walked, starved) /\ AllTitled(lib) /\ Single(lib)
  BY <1>1 DEF LibraryInv, LibOK, ListOK
<1>3. r \in RecordSet
  BY <1>2 DEF Single
<1>4. PICK s \in RecordSet : /\ lib' = Replace(r, s) /\ Core(s) = Core(r) /\ s.dir = r.dir /\ s.game = r.game
                             /\ s.title = r.title /\ (s.art = NoArt => r.art = NoArt)
  <2>1. CASE lib' = Replace(r, [r EXCEPT !.art = Packed])
    <3> DEFINE s == [r EXCEPT !.art = Packed]
    <3>1. s \in RecordSet /\ Core(s) = Core(r) /\ s.dir = r.dir /\ s.game = r.game /\ s.title = r.title /\ s.art = Packed
      BY <1>3 DEF RecordSet, Core
    <3>2. Packed # NoArt
      BY DEF Packed, NoArt
    <3>3. lib' = Replace(r, s)
      BY <2>1
    <3> HIDE DEF s
    <3>4. QED
      BY <3>1, <3>2, <3>3
  <2>2. CASE lib' = Replace(r, [r EXCEPT !.missing = TRUE])
    <3> DEFINE s == [r EXCEPT !.missing = TRUE]
    <3>1. s \in RecordSet /\ Core(s) = Core(r) /\ s.dir = r.dir /\ s.game = r.game /\ s.title = r.title /\ s.art = r.art
      BY <1>3 DEF RecordSet, Core
    <3>2. lib' = Replace(r, s)
      BY <2>2
    <3> HIDE DEF s
    <3>3. QED
      BY <3>1, <3>2
  <2>3. QED
    BY <2>1, <2>2 DEF LookUpArt
<1>5. Single(lib') /\ DOMAIN lib' = (DOMAIN lib \ {r}) \cup {s}
  BY <1>2, <1>4, ReplaceOK
<1>6. Cores(lib') = Cores(lib)
  BY <1>4, <1>5 DEF Cores
<1>7. About(lib', files, Walked) /\ (~ starved => Complete(lib', files, Walked))
  BY <1>2, <1>6, CoresCarry DEF ListOK
<1>8. ArtSought(lib', files, Walked)
  BY <1>2, <1>4, <1>5 DEF ListOK, ArtSought
<1>9. AllTitled(lib')
  <2> SUFFICES ASSUME NEW x \in DOMAIN lib' PROVE x.title = IF Collides(lib', x) THEN x.game ELSE x.given
    BY DEF AllTitled
  <2>1. PICK y \in DOMAIN lib : Core(y) = Core(x) /\ y.title = x.title
    BY <1>4, <1>5
  <2>2. Collides(lib', x) <=> Collides(lib, y)
    BY <1>2, <1>5, <1>6, <2>1, SameCollisions
  <2>3. y.game = x.game /\ y.given = x.given
    BY <2>1 DEF Core
  <2>4. QED
    BY <1>2, <2>1, <2>2, <2>3 DEF AllTitled
<1>10. ListOK(lib', files, Walked, starved')
  BY <1>1, <1>5, <1>7, <1>8 DEF ListOK
<1>11. dirty' \in BOOLEAN /\ writable' \in BOOLEAN /\ starved' \in BOOLEAN /\ phase' \in Phases /\ starved' = starved
  BY <1>1 DEF LibraryInv, RestOK, Phases
<1>12. QED
  BY <1>1, <1>9, <1>10, <1>11, Listed

\* A name typed: what its sidecar says is what the record says.
LEMMA RenameKeeps ==
  ASSUME LibraryInv, NEW r \in DOMAIN lib, NEW name, Rename(r, name)
  PROVE  LibraryInv'
<1> DEFINE given == IF name # NoName THEN name ELSE Untyped(r.game, r.build)
           s == [r EXCEPT !.custom = name # NoName, !.given = given]
           note == IF name = NoName THEN {} ELSE {[kind |-> "sidecar", game |-> r.game, is |-> name]}
           T == (files[r.dir] \ Sidecars(r.game)) \cup note
<1>1. /\ UNCHANGED <<dirs, saves, pack, index, phase, writable, starved, edits>> /\ phase = "on"
      /\ dirty' = TRUE /\ settled' = FALSE /\ <<r.game, name>> \in MayName
  BY DEF Rename
<1>2. files' = [files EXCEPT ![r.dir] = T] /\ lib' = Finish(Replace(r, s))
  BY Zenon DEF Rename, Untyped, HeaderOf
<1>3. ListOK(lib, files, Walked, starved) /\ AllTitled(lib) /\ Single(lib) /\ CardOK
  BY <1>1 DEF LibraryInv, LibOK, ListOK
<1>4. r \in RecordSet /\ r.dir \in Walked /\ r.dir \in Dirs /\ r.game \in Games /\ r.build \in Builds
  BY <1>3 DEF Single, ListOK, About, RecordSet
<1>5. name \in Typed \cup {NoName} /\ (NamesAreForN64 => r.game \in N64)
  BY <1>1, IndexAssumption DEF NamesAreForN64
<1>6. files[r.dir] \in Contents
  BY <1>3, <1>4 DEF CardOK
<1>7. given \in Typed \cup Games
  BY <1>4, <1>5, UntypedOK
<1>8. /\ s \in RecordSet /\ s.dir = r.dir /\ s.game = r.game /\ s.build = r.build /\ s.art = r.art
      /\ s.custom = (name # NoName) /\ s.given = given
  <2>1. (name # NoName) \in BOOLEAN
    OBVIOUS
  <2> HIDE DEF given
  <2>2. QED
    BY <1>4, <1>7, <2>1 DEF RecordSet
<1> HIDE DEF s
\* What the directory holds now.
<1>9. \A e \in note : e \in Entries /\ e.kind = "sidecar" /\ e.game = r.game /\ e.is = name
  BY <1>4, <1>5 DEF Entries
<1>10. \A e \in Entries : e \in Sidecars(r.game) <=> e.kind = "sidecar" /\ e.game = r.game
  BY DEF Sidecars
<1>11. \A e : e \in T <=> e \in note \/ (e \in files[r.dir] /\ ~ (e.kind = "sidecar" /\ e.game = r.game))
  BY <1>6, <1>10 DEF Contents
<1>12. \A x, y \in note : x = y
  OBVIOUS
<1>13. note = {} <=> name = NoName
  OBVIOUS
<1> HIDE DEF note, T
<1>14. T \in Contents
  <2>1. T \subseteq Entries
    BY <1>6, <1>9, <1>11 DEF Contents
  <2>2. ASSUME NEW x \in T, NEW y \in T, x.kind = y.kind, x.game = y.game, x.kind # "cover" PROVE x = y
    BY <1>6, <1>9, <1>11, <1>12, <2>2 DEF Contents
  <2>3. QED
    BY <2>1, <2>2 DEF Contents
<1>15. \A g, b : RomIn(T, g, b) <=> RomIn(files[r.dir], g, b)
  <2> TAKE g, b
  <2> DEFINE e == [kind |-> "rom", game |-> g, is |-> b]
  <2>1. e.kind = "rom"
    OBVIOUS
  <2> HIDE DEF e
  <2>2. e \in T <=> e \in files[r.dir]
    BY <1>9, <1>11, <2>1
  <2>3. QED
    BY <2>2 DEF RomIn, e
<1>16. \A g, how : CoverIn(T, g, how) <=> CoverIn(files[r.dir], g, how)
  <2> TAKE g, how
  <2> DEFINE e == [kind |-> "cover", game |-> g, is |-> how]
  <2>1. e.kind = "cover"
    OBVIOUS
  <2> HIDE DEF e
  <2>2. e \in T <=> e \in files[r.dir]
    BY <1>9, <1>11, <2>1
  <2>3. QED
    BY <2>2 DEF CoverIn, e
<1>17. \A g : g # r.game => NamesIn(T, g) = NamesIn(files[r.dir], g)
  BY <1>9, <1>11 DEF NamesIn
<1>18. NamesIn(T, r.game) = IF name = NoName THEN {} ELSE {name}
  BY <1>9, <1>11, <1>13 DEF NamesIn
<1>19. ASSUME NamesAreForN64
       PROVE  CustomIn(T, r.game) = (name # NoName) /\ GivenIn(T, r.game, r.build) = given
  <2>1. CASE name = NoName
    <3>1. NamesIn(T, r.game) = {}
      BY <1>18, <2>1
    <3>2. ~ CustomIn(T, r.game)
      BY <3>1 DEF CustomIn
    <3>3. GivenIn(T, r.game, r.build) = Untyped(r.game, r.build)
      BY <3>2 DEF GivenIn
    <3>4. CustomIn(T, r.game) = FALSE
      BY <3>2 DEF CustomIn
    <3>5. QED
      BY <2>1, <3>3, <3>4
  <2>2. CASE name # NoName
    <3>1. NamesIn(T, r.game) = {name}
      BY <1>18, <2>2
    <3>2. CustomIn(T, r.game)
      BY <1>5, <1>19, <3>1 DEF CustomIn
    <3>3. GivenIn(T, r.game, r.build) = CHOOSE n \in {name} : TRUE
      BY <3>1, <3>2 DEF GivenIn
    <3>4. given = name
      BY <2>2
    <3>5. QED
      BY <2>2, <3>2, <3>3, <3>4
  <2>3. QED
    BY <2>1, <2>2
<1> HIDE DEF given
\* The whole card, and the whole library.
<1>20. CardOK' /\ Walked' = Walked
  <2>1. files' \in [Dirs -> Contents]
    BY <1>2, <1>3, <1>14 DEF CardOK
  <2>2. r.dir \in dirs
    BY <1>4 DEF Walked
  <2>3. \A d \in Dirs \ dirs : files'[d] = {}
    BY <1>2, <1>3, <2>2 DEF CardOK
  <2>4. QED
    BY <1>1, <1>3, <2>1, <2>3 DEF CardOK, Walked
<1>21. \A d \in Walked : files'[d] = IF d = r.dir THEN T ELSE files[d]
  BY <1>2, <1>3 DEF CardOK, Walked
<1> DEFINE B == Replace(r, s)
<1>22. Single(B) /\ DOMAIN B = (DOMAIN lib \ {r}) \cup {s}
  BY <1>3, <1>8, ReplaceOK
<1> HIDE DEF B
<1>23. About(B, files', Walked)
  <2> SUFFICES ASSUME NEW x \in DOMAIN B
               PROVE  x.dir \in Walked /\ RomIn(files'[x.dir], x.game, x.build) /\ (NamesAreForN64 => Named(x, files'[x.dir]))
    BY DEF About
  <2>1. CASE x = s
    <3>1. RomIn(files[r.dir], r.game, r.build)
      BY <1>3 DEF ListOK, About
    <3>2. QED
      BY <1>4, <1>8, <1>15, <1>19, <1>21, <2>1, <3>1 DEF Named
  <2>2. CASE x \in DOMAIN lib \ {r}
    <3>1. x.dir \in Walked /\ RomIn(files[x.dir], x.game, x.build) /\ (NamesAreForN64 => Named(x, files[x.dir]))
      BY <1>3, <2>2 DEF ListOK, About
    <3>2. CASE x.dir # r.dir
      BY <1>21, <3>1, <3>2
    <3>3. CASE x.dir = r.dir
      <4>1. x.game # r.game
        BY <1>3, <2>2, <3>3 DEF Single
      <4>2. CustomIn(T, x.game) = CustomIn(files[r.dir], x.game)
        BY <1>17, <4>1 DEF CustomIn
      <4>3. GivenIn(T, x.game, x.build) = GivenIn(files[r.dir], x.game, x.build)
        <5>1. NamesIn(T, x.game) = NamesIn(files[r.dir], x.game)
          BY <1>17, <4>1
        <5>2. CASE x.game \in N64 /\ NamesIn(T, x.game) # {}
          BY <5>1, <5>2 DEF GivenIn, CustomIn
        <5>3. CASE ~ (x.game \in N64 /\ NamesIn(T, x.game) # {})
          BY <5>1, <5>3 DEF GivenIn, CustomIn
        <5>4. QED
          BY <5>2, <5>3
      <4>4. QED
        BY <1>15, <1>21, <3>1, <3>3, <4>2, <4>3 DEF Named
    <3>4. QED
      BY <3>2, <3>3
  <2>3. QED
    BY <1>22, <2>1, <2>2
<1>24. ~ starved => Complete(B, files', Walked)
  <2> SUFFICES ASSUME ~ starved, NEW d \in Walked, NEW g \in Games, NEW b \in Builds, RomIn(files'[d], g, b)
               PROVE  \E x \in DOMAIN B : x.dir = d /\ x.game = g
    BY DEF Complete
  <2>1. RomIn(files[d], g, b)
    BY <1>15, <1>21
  <2>2. PICK x \in DOMAIN lib : x.dir = d /\ x.game = g
    BY <1>3, <2>1 DEF ListOK, Complete
  <2>3. QED
    BY <1>8, <1>22, <2>2
<1>25. ArtSought(B, files', Walked)
  <2> SUFFICES ASSUME NEW x \in DOMAIN B, x.art = NoArt, NEW d \in Walked
               PROVE  ~ CoverIn(files'[d], x.game, "name") /\ (x.game \in N64 => ~ CoverIn(files'[d], x.game, "code"))
    BY DEF ArtSought
  <2>1. PICK y \in DOMAIN lib : y.art = NoArt /\ y.game = x.game
    BY <1>8, <1>22
  <2>2. ~ CoverIn(files[d], x.game, "name") /\ (x.game \in N64 => ~ CoverIn(files[d], x.game, "code"))
    BY <1>3, <2>1 DEF ListOK, ArtSought
  <2>3. QED
    BY <1>16, <1>21, <2>2
<1>26. ListOK(lib', files', Walked, starved) /\ AllTitled(lib')
  <2>1. ListOK(B, files', Walked, starved)
    BY <1>22, <1>23, <1>24, <1>25 DEF ListOK
  <2>2. QED
    BY <1>2, <2>1, FinishedOK DEF B
<1>27. RestOK'
  BY <1>1 DEF LibraryInv, RestOK
<1>28. IndexOK(index, starved)'
  <2>1. starved \in BOOLEAN
    BY DEF LibraryInv, RestOK
  <2>2. QED
    BY <1>1, <2>1, IndexStays
<1>29. LibOK(lib, files, Walked, starved, phase)'
  BY <1>1, <1>20, <1>26 DEF LibOK
<1>30. QED
  BY <1>20, <1>27, <1>28, <1>29 DEF LibraryInv

\* A game played, or the power gone.
LEMMA PlayKeeps ==
  ASSUME LibraryInv, NEW r \in DOMAIN lib, Play(r)
  PROVE  LibraryInv'
<1>1. /\ phase = "on" /\ saves' = saves \cup (IF writable THEN {r.dir} ELSE {})
      /\ UNCHANGED <<dirs, files, pack, index, starved, settled, edits>>
      /\ (phase' = "exit" /\ UNCHANGED <<lib, dirty, writable>>) \/ MenuGone
  BY DEF Play
<1>2. ListOK(lib, files, Walked, starved) /\ AllTitled(lib)
  BY <1>1 DEF LibraryInv, LibOK
<1>3. r.dir \in Dirs
  BY <1>2 DEF ListOK, About, LibraryInv, CardOK, Walked
<1>4. saves' \subseteq Dirs
  BY <1>1, <1>3 DEF LibraryInv, RestOK
<1>5. starved \in BOOLEAN /\ settled' \in BOOLEAN
  BY <1>1 DEF LibraryInv, RestOK
<1>6. CASE MenuGone
  BY <1>1, <1>4, <1>5, <1>6, MemoryGone
<1>7. CASE phase' = "exit" /\ UNCHANGED <<lib, dirty, writable>>
  <2>1. CardOK' /\ Walked' = Walked
    BY <1>1, CardStays
  <2>2. RestOK'
    BY <1>1, <1>4, <1>7 DEF LibraryInv, RestOK, Phases
  <2>3. IndexOK(index, starved)'
    BY <1>1, <1>5, IndexStays
  <2>4. LibOK(lib, files, Walked, starved, phase)'
    BY <1>1, <1>2, <1>7, <2>1 DEF LibOK
  <2>5. QED
    BY <2>1, <2>2, <2>3, <2>4 DEF LibraryInv
<1>8. QED
  BY <1>1, <1>6, <1>7

\* The card in a computer: the index knows nothing of it.
LEMMA EditKeeps ==
  ASSUME LibraryInv, Edit, CardOK', pack' \subseteq N64
  PROVE  LibraryInv'
<1>1. /\ phase = "off" /\ edits < MaxEdits /\ edits' = edits + 1 /\ settled' = FALSE
      /\ UNCHANGED <<index, phase, lib, dirty, writable, starved, saves>>
  BY DEF Edit
<1>2. lib = EmptyBag /\ starved \in BOOLEAN
  BY <1>1 DEF LibraryInv, LibOK, RestOK
<1>3. RestOK'
  <2>1. edits' \in 0 .. MaxEdits
    BY <1>1, IndexAssumption DEF LibraryInv, RestOK
  <2>2. QED
    BY <1>1, <2>1 DEF LibraryInv, RestOK
<1>4. IndexOK(index, starved)'
  BY <1>1, <1>2, IndexStays
<1>5. QED
  BY <1>1, <1>2, <1>3, <1>4, NothingInMemory

\* Each thing done to the card leaves one that a console may be given.
LEMMA EditsKeep ==
  ASSUME LibraryInv, NEW d \in Dirs,
         MakeDir(d) \/ DropDir(d) \/ (\E e \in MayHold[d] : PutFile(d, e) \/ DropFile(d, e)) \/ (\E g : InstallPack(g))
  PROVE  LibraryInv'
<1>1. CardOK /\ pack \subseteq N64
  BY DEF LibraryInv, RestOK
<1>2. ASSUME NEW T \in Contents, d \in dirs, files' = [files EXCEPT ![d] = T], UNCHANGED dirs PROVE CardOK'
  BY <1>1, <1>2 DEF CardOK
<1>3. CASE MakeDir(d)
  <2>1. CardOK'
    BY <1>1, <1>3 DEF MakeDir, CardOK
  <2>2. QED
    BY <1>1, <1>3, <2>1, EditKeeps DEF MakeDir
<1>4. CASE DropDir(d)
  <2>1. {} \in Contents
    BY DEF Contents
  <2>2. CardOK'
    BY <1>1, <1>4, <2>1 DEF DropDir, CardOK
  <2>3. QED
    BY <1>1, <1>4, <2>2, EditKeeps DEF DropDir
<1>5. ASSUME NEW e \in MayHold[d], PutFile(d, e) PROVE LibraryInv'
  <2> DEFINE T == {x \in files[d] : ~ (x.kind = e.kind /\ x.game = e.game /\ e.kind # "cover")} \cup {e}
  <2>1. e \in Entries
    BY IndexAssumption
  <2>2. T \in Contents
    BY <1>1, <2>1 DEF CardOK, Contents
  <2>3. d \in dirs /\ files' = [files EXCEPT ![d] = T] /\ UNCHANGED <<dirs, pack>> /\ Edit
    BY <1>5 DEF PutFile
  <2> HIDE DEF T
  <2>4. CardOK'
    BY <1>2, <2>2, <2>3
  <2>5. QED
    BY <1>1, <2>3, <2>4, EditKeeps
<1>6. ASSUME NEW e, DropFile(d, e) PROVE LibraryInv'
  <2>1. files[d] \ {e} \in Contents
    BY <1>1 DEF CardOK, Contents
  <2>2. d \in dirs /\ files' = [files EXCEPT ![d] = files[d] \ {e}] /\ UNCHANGED <<dirs, pack>> /\ Edit
    BY <1>6 DEF DropFile
  <2>3. CardOK'
    BY <1>2, <2>1, <2>2
  <2>4. QED
    BY <1>1, <2>2, <2>3, EditKeeps
<1>7. ASSUME NEW g, InstallPack(g) PROVE LibraryInv'
  <2>1. CardOK' /\ pack' \subseteq N64
    BY <1>1, <1>7 DEF InstallPack, CardOK
  <2>2. QED
    BY <1>7, <2>1, EditKeeps DEF InstallPack
<1>8. QED
  BY <1>3, <1>4, <1>5, <1>6, <1>7

\* Every step keeps the library what the card is.
LEMMA LibraryStep ==
  ASSUME SizesTell, LibraryInv, [Next]_vars
  PROVE  LibraryInv'
<1>1. CASE LoadNothing \/ RepairAbandoned \/ GiveUp
  BY <1>1, LoadNothingKeeps
<1>2. CASE LoadAsIs
  BY <1>2, LoadAsIsKeeps
<1>3. CASE Repair
  BY <1>3, RepairKeeps
<1>4. CASE FullScanDone
  BY <1>4, FullScanKeeps
<1>5. CASE SaveEnds
  BY <1>5, SaveEndsKeeps
<1>6. CASE SaveRefused \/ SaveStarts \/ SaveFails
  BY <1>6, SaveKeeps
<1>7. ASSUME NEW r \in BagToSet(lib), LookUpArt(r) \/ Play(r) \/ \E n \in Typed \cup {NoName} : Rename(r, n)
      PROVE  LibraryInv'
  <2>1. r \in DOMAIN lib
    BY DEF BagToSet
  <2>2. QED
    BY <1>7, <2>1, LookUpArtKeeps, PlayKeeps, RenameKeeps
<1>8. CASE PowerCut
  <2>1. MenuGone /\ UNCHANGED <<card, index, starved, settled, edits>>
    BY <1>8 DEF PowerCut
  <2>2. saves' \subseteq Dirs /\ settled' \in BOOLEAN
    BY <2>1 DEF LibraryInv, RestOK, card
  <2>3. QED
    BY <2>1, <2>2, MemoryGone DEF card
<1>9. ASSUME NEW d \in Dirs, MakeDir(d) \/ DropDir(d) \/ \E e \in MayHold[d] : PutFile(d, e) \/ DropFile(d, e)
      PROVE  LibraryInv'
  BY <1>9, EditsKeep
<1>10. ASSUME NEW g, InstallPack(g) PROVE LibraryInv'
  <2>1. CardOK' /\ pack' \subseteq N64
    BY <1>10 DEF InstallPack, LibraryInv, RestOK, CardOK
  <2>2. QED
    BY <1>10, <2>1, EditKeeps DEF InstallPack
<1>11. CASE UNCHANGED vars
  <2>1. UNCHANGED <<dirs, files, saves, pack, index, phase, lib, dirty, writable, starved, settled, edits>>
    BY <1>11 DEF vars, card
  <2>2. CardOK' /\ RestOK' /\ Walked' = Walked
    BY <2>1, CardStays DEF LibraryInv, RestOK
  <2>3. IndexOK(index, starved)'
    BY <2>1 DEF LibraryInv, IndexOK
  <2>4. LibOK(lib, files, Walked, starved, phase)'
    BY <2>1, <2>2 DEF LibraryInv, LibOK
  <2>5. QED
    BY <2>2, <2>3, <2>4 DEF LibraryInv
<1>12. QED
  BY <1>1, <1>2, <1>3, <1>4, <1>5, <1>6, <1>7, <1>8, <1>9, <1>10, <1>11 DEF Next

-----------------------------------------------------------------------------
\* Whatever is done to the card with the console off, however often the power
\* goes and storage refuses, and however a boot came by its library, as it
\* stood in the index, repaired directory by directory, or scanned: the
\* library has each game of the card once and under the title a scan would
\* give it (libindex.c:393, libindex.c:492, library.c:764).  That sizes tell
\* the files of a directory apart is what the index itself goes by, and all
\* it can go wrong by (deviation 2); names typed for other games than the
\* N64's are deviation 4.
THEOREM LibraryIsAlwaysTheCard ==
  ASSUME SizesTell, NamesAreForN64
  PROVE  Spec => []LibraryIsTheCard
<1>1. Init => LibraryInv
  BY LibraryInit
<1>2. LibraryInv /\ [Next]_vars => LibraryInv'
  BY LibraryStep
<1>3. LibraryInv => LibraryIsTheCard
  BY InvariantSays
<1>4. QED
  BY <1>1, <1>2, <1>3, PTL DEF Spec

\* A title without art has no picture anywhere in the walk, whichever part of
\* the library was read from the index and whichever was scanned again
\* (library_resolve_loose_art(), library.c:259).
THEOREM NoCoverIsOverlooked ==
  ASSUME SizesTell
  PROVE  Spec => []NoCoverOverlooked
<1>1. Init => LibraryInv
  BY LibraryInit
<1>2. LibraryInv /\ [Next]_vars => LibraryInv'
  BY LibraryStep
<1>3. LibraryInv => NoCoverOverlooked
  BY InvariantSays
<1>4. QED
  BY <1>1, <1>2, <1>3, PTL DEF Spec
=============================================================================
