------------------------- MODULE ThumbCache_proofs -------------------------
(***************************************************************************)
(* The art pool for every library, every set of covers, every size of pool *)
(* and atlas and every order a rename may sort the titles into: a slot     *)
(* shows the art of the title it is for, and slots, records and decoder    *)
(* agree about what is resident and what is being decoded.                 *)
(*                                                                         *)
(* That a build which calls itself complete is holds where a title's shape *)
(* is the same under all settings and the atlas has room and takes every   *)
(* tile.  That every title on screen gets its art is left to the runs.     *)
(***************************************************************************)
EXTENDS ThumbCache, FiniteSetTheorems, WellFoundedInduction, TLAPS

Usable == {g \in Games : Cover[g] \in {"cheap", "costly"}}

\* The decode in flight is the pool's exactly when there is no atlas, and its
\* slot is held empty, under the index it was started for, until it is done.
DecodeHasItsPlace ==
    /\ decodingSlot # 0 =>
          /\ ~ storeUp
          /\ ~ Filled(decodingSlot)
          /\ slots[decodingSlot].rom = job.rec
          /\ job.done = "decode_done"
    /\ buildActive => storeUp /\ job.done = "build_done"

\* Whatever is drawn, stored or being decoded comes from a cover that can be.
ArtHasCover ==
    /\ \A g \in Games : art[g] = "READY" => g \in Usable
    /\ job # NoJob => Cover[job.src] \in {"corrupt", "cheap", "costly"}
    /\ \A e \in found : e.src \in Usable

SlotsAreForTitles == \A s \in Slots : Filled(s) => slots[s].rom \in Ids

CacheInv ==
    /\ PoolConsistent
    /\ SlotShowsOwnArt
    /\ NoArtOnlyIfUnusable
    /\ DecodeHasItsPlace
    /\ ArtHasCover
    /\ SlotsAreForTitles
-----------------------------------------------------------------------------
(***************************************************************************)
(* The library's order, and the index of a game in it.                     *)
(***************************************************************************)
\* There is a first record.
LEMMA SomeTitle == N \in Nat \ {0} /\ 1 \in Ids
<1>1. N \in Nat /\ (N = 0 <=> Games = {})
  BY CacheAssumption, FS_CardinalityType, FS_EmptySet DEF CacheAssumption, N
<1>2. N \in Nat \ {0}
  BY <1>1, CacheAssumption DEF CacheAssumption
<1>3. QED
  BY <1>2 DEF Ids

\* A sort loses no title: as many places as titles, and no title twice.
LEMMA EveryTitleHasAPlace ==
  ASSUME NEW o \in Orders
  PROVE  \A g \in Games : \E i \in Ids : o[i] = g
<1>1. IsFiniteSet(Games) /\ N \in Nat
  BY CacheAssumption, SomeTitle DEF CacheAssumption
<1>2. IsFiniteSet(Ids) /\ Cardinality(Ids) = N
  BY <1>1, FS_Interval DEF Ids
<1>3. o \in Injection(Ids, Games)
  BY DEF Orders, Injection, IsInjective
<1>4. Cardinality(Ids) = Cardinality(Games)
  BY <1>2 DEF N
<1>5. o \in Surjection(Ids, Games)
  BY <1>1, <1>3, <1>4, FS_Injection
<1>6. QED
  BY <1>5 DEF Surjection

\* The index of a game leads back to the game.
LEMMA IndexLeadsBack ==
  ASSUME NEW o \in Orders, NEW g \in Games
  PROVE  Index(o, g) \in Ids /\ o[Index(o, g)] = g
BY EveryTitleHasAPlace DEF Index

\* And the game at an index to the index.
LEMMA IndexOfPlace ==
  ASSUME NEW o \in Orders, NEW i \in Ids
  PROVE  Index(o, o[i]) = i
<1>1. o[i] \in Games
  BY DEF Orders
<1>2. Index(o, o[i]) \in Ids /\ o[Index(o, o[i])] = o[i]
  BY <1>1, IndexLeadsBack
<1>3. QED
  BY <1>2 DEF Orders
-----------------------------------------------------------------------------
(***************************************************************************)
(* What the walks over the records pass and find.                          *)
(***************************************************************************)
\* Every candidate of the four passes is a record of the library.
LEMMA CandidatesAreTitles ==
  ASSUME TypeOK
  PROVE  \A k \in DOMAIN Passes : Passes[k].id \in Ids /\ Passes[k].visible \in BOOLEAN
<1>1. Turns \in Nat
  BY CacheAssumption DEF CacheAssumption, Turns
<1>2. N \in Nat
  BY SomeTitle
<1>3. DOMAIN wanted \subseteq 1 .. Turns /\ \A k \in DOMAIN wanted : wanted[k] \in Ids
  BY DEF TypeOK
<1>4. DOMAIN Passes = WantedTwice \cup AllTwice
  BY DEF Passes
<1> SUFFICES ASSUME NEW k \in WantedTwice \cup AllTwice
             PROVE  Passes[k].id \in Ids /\ Passes[k].visible \in BOOLEAN
  BY <1>4
<1>5. CASE k \in DOMAIN wanted
  <2>1. k <= Turns
    BY <1>1, <1>3, <1>5
  <2>2. QED
    BY <1>3, <1>5, <2>1 DEF Passes, Candidate
<1>6. CASE k \in {Turns + j : j \in DOMAIN wanted}
  <2>1. PICK j \in DOMAIN wanted : k = Turns + j
    BY <1>6
  <2>2. ~ (k <= Turns) /\ k <= 2 * Turns /\ k - Turns = j
    BY <1>1, <1>3, <2>1
  <2>3. QED
    BY <1>3, <2>2 DEF Passes, Candidate
<1>7. CASE k \in AllTwice
  <2>1. /\ ~ (k <= Turns) /\ ~ (k <= 2 * Turns)
        /\ k <= 2 * Turns + N => k - 2 * Turns \in Ids
        /\ ~ (k <= 2 * Turns + N) => k - 2 * Turns - N \in Ids
    BY <1>1, <1>2, <1>7 DEF AllTwice, Ids
  <2>2. QED
    BY <2>1 DEF Passes, Candidate
<1>8. QED
  BY <1>5, <1>6, <1>7 DEF WantedTwice

\* Every index asked for in a frame is a record of the library.
LEMMA AskedAreTitles ==
  ASSUME NEW c \in Ids, NEW t \in Ids
  PROVE  /\ DOMAIN Asked(c, t) \subseteq 1 .. Turns
         /\ \A k \in DOMAIN Asked(c, t) : Asked(c, t)[k] \in Ids
BY DEF Asked, At

\* The ranks of the slots stay below their number.
LEMMA RanksAreBounded ==
  ASSUME TypeOK, NEW hit \in SUBSET Slots
  PROVE  Restamped(hit) \in [Slots -> 0 .. PoolSize]
<1> DEFINE live == {s \in Slots : Filled(s) \/ s = decodingSlot} \ hit
           Below(s) == {l \in live : age[l] < age[s]}
           ranks(s) == {age[o] : o \in Below(s)}
<1>1. PoolSize \in Nat \ {0}
  BY CacheAssumption DEF CacheAssumption
<1>2. IsFiniteSet(Slots) /\ Cardinality(Slots) = PoolSize
  BY <1>1, FS_Interval DEF Slots
<1>3. ASSUME NEW s \in live PROVE 1 + Cardinality(ranks(s)) \in 0 .. PoolSize
  <2>1. age[s] \in Nat
    BY DEF TypeOK
  <2>2. s \in Slots /\ Below(s) \in SUBSET (Slots \ {s})
    BY <2>1
  <2>3. IsFiniteSet(Slots \ {s}) /\ Cardinality(Slots \ {s}) = PoolSize - 1
    BY <1>2, <2>2, FS_RemoveElement
  <2>4. IsFiniteSet(Below(s)) /\ Cardinality(Below(s)) <= PoolSize - 1
    BY <2>2, <2>3, FS_Subset
  <2> DEFINE f == [o \in Below(s) |-> age[o]]
  <2>5. f \in Surjection(Below(s), ranks(s))
    BY DEF Surjection
  <2>6. IsFiniteSet(ranks(s)) /\ Cardinality(ranks(s)) <= Cardinality(Below(s))
    BY <2>4, <2>5, FS_Surjection
  <2>7. Cardinality(ranks(s)) \in Nat /\ Cardinality(Below(s)) \in Nat
    BY <2>4, <2>6, FS_CardinalityType
  <2>8. QED
    BY <1>1, <2>4, <2>6, <2>7
<1>4. \A s \in Slots : Restamped(hit)[s] = IF s \in live THEN 1 + Cardinality(ranks(s)) ELSE 0
  BY DEF Restamped
<1>5. Restamped(hit) = [s \in Slots |-> Restamped(hit)[s]]
  BY DEF Restamped
<1> HIDE DEF live, ranks
<1>6. \A s \in Slots : Restamped(hit)[s] \in 0 .. PoolSize
  BY <1>1, <1>3, <1>4
<1>7. QED
  BY <1>5, <1>6
-----------------------------------------------------------------------------
(***************************************************************************)
(* The initial state, and the steps one by one.                            *)
(***************************************************************************)
LEMMA InitCache == Init => CacheInv
<1> SUFFICES ASSUME Init PROVE CacheInv
  OBVIOUS
<1>1. N \in Nat \ {0} /\ 1 \in Ids
  BY SomeTitle
<1>2. PoolSize \in Nat \ {0} /\ Empty \notin Atlas!Tiles
  BY CacheAssumption DEF CacheAssumption, Atlas!Tiles
<1>3. TypeOK
  <2>1. order \in Orders /\ region \in Regions /\ storeUp \in BOOLEAN
    BY CacheAssumption DEF Init, CacheAssumption
  <2>2. slots \in [Slots -> [rom : 0 .. N, tile : Atlas!Tiles \cup {Empty}]]
    BY <1>1 DEF Init
  <2>3. DOMAIN wanted \subseteq 1 .. Turns /\ wanted \in [DOMAIN wanted -> Ids]
    BY DEF Init
  <2>4. age \in [Slots -> 0 .. PoolSize] /\ decodingSlot \in 0 .. PoolSize
    BY <1>2 DEF Init
  <2>5. /\ art \in [Games -> {"PENDING", "COSTLY", "DECODING", "READY", "NONE"}]
        /\ located \in SUBSET Games
        /\ job \in Jobs \cup {NoJob} /\ cursor \in Ids /\ top \in Ids
    BY <1>1 DEF Init
  <2>6. buildNext \in 1 .. (N + 1)
    BY <1>1 DEF Init
  <2>7. buildActive \in BOOLEAN /\ buildComplete \in BOOLEAN /\ idle \in BOOLEAN
    BY Zenon DEF Init
  <2>8. QED
    BY <2>1, <2>2, <2>3, <2>4, <2>5, <2>6, <2>7, Zenon DEF TypeOK
<1>4. \A s \in Slots : ~ Filled(s)
  BY DEF Init, Filled
<1>5. \A g \in Games : art[g] = "PENDING"
  BY DEF Init
<1>6. \A i \in Ids : order[i] \in Games
  BY <1>3 DEF TypeOK, Orders
<1>7. RecordsMatchPool /\ DecoderIsAwaited /\ OneSlotPerTitle
  BY <1>4, <1>5, <1>6 DEF Init, RecordsMatchPool, Resident, DecoderIsAwaited, OneSlotPerTitle
<1>8. \A e \in found : e.src \in Usable
  BY DEF Init, Atlas!Entry, Usable
<1>9. QED
  BY <1>3, <1>4, <1>5, <1>7, <1>8
  DEF Init, CacheInv, PoolConsistent, SlotShowsOwnArt, NoArtOnlyIfUnusable,
      DecodeHasItsPlace, ArtHasCover, SlotsAreForTitles

\* The steps of the pool, as one list.
LEMMA CacheSteps ==
  ASSUME TypeOK, [Next]_vars
  PROVE  \/ \E c, t \in Ids : Frame(c, t)
         \/ Fetch
         \/ BuildStart \/ BuildFinished \/ BuildDone
         \/ RunStart \/ RunNoSlot \/ RunDry \/ DecodeDone
         \/ \E o \in Orders : Shuffle(o)
         \/ \E r \in Regions : Reshape(r)
         \/ UNCHANGED vars
<1>1. ASSUME StillFrame PROVE \E c, t \in Ids : Frame(c, t)
  BY <1>1 DEF StillFrame, TypeOK
<1>2. ASSUME MovedFrame PROVE \E c, t \in Ids : Frame(c, t)
  BY <1>2 DEF MovedFrame
<1>3. QED
  BY <1>1, <1>2 DEF Next, Build, Run, Elsewhere

\* A put leaves the atlas as it was, or with one more tile of that cover.
LEMMA PutKeeps ==
  ASSUME storeUp \in BOOLEAN, NEW g, NEW sh, Put(g, sh)
  PROVE  /\ storeUp' \in BOOLEAN
         /\ ~ storeUp => ~ storeUp'
         /\ found' = found \/ found' = found \cup {Atlas!Entry(g, sh)}
<1>1. CASE Accepts(g, sh) /\ Atlas!Store(g, sh) /\ (storeUp' = TRUE \/ storeUp' = FALSE)
  BY <1>1 DEF Accepts, Atlas!Store
<1>2. CASE UNCHANGED store
  BY <1>2 DEF store
<1>3. QED
  BY <1>1, <1>2 DEF Put

\* The variables keep their types.
LEMMA NextTypes == CacheInv /\ [Next]_vars => TypeOK'
<1> SUFFICES ASSUME CacheInv, [Next]_vars PROVE TypeOK'
  OBVIOUS
<1> USE DEF CacheInv, PoolConsistent
<1> DEFINE States == {"PENDING", "COSTLY", "DECODING", "READY", "NONE"}
           Slot == [rom : 0 .. N, tile : Atlas!Tiles \cup {Empty}]
<1>1. N \in Nat \ {0} /\ PoolSize \in Nat \ {0}
  BY SomeTitle, CacheAssumption DEF CacheAssumption
<1>2. \A i \in Ids : i \in 0 .. N /\ order[i] \in Games
  BY <1>1 DEF Ids, TypeOK, Orders
<1>3. \A g \in Games : ShapeOf(g) \in Shapes
  BY CacheAssumption DEF CacheAssumption, ShapeOf, TypeOK
<1>4. \A g \in Games : Atlas!Tile(g, ShapeOf(g)) \in Atlas!Tiles
  BY <1>3 DEF Atlas!Tile, Atlas!Tiles
<1>5. [rom |-> 0, tile |-> Empty] \in Slot
  BY <1>1
<1>6. \A s \in Slots : ArtWithout(s) \in [Games -> States]
  BY DEF ArtWithout, TypeOK
<1>7. \A s \in Slots : [age EXCEPT ![s] = 0] \in [Slots -> 0 .. PoolSize]
  BY <1>1 DEF TypeOK
<1>8. \A done \in {"decode_done", "build_done"}, i \in Ids : Decoding(done, i) \in Jobs
  BY <1>2, <1>3 DEF Decoding, Jobs
<1>9. \A passed : ArtPassed(art, passed) \in [Games -> States]
  BY DEF ArtPassed, TypeOK
<1>10. \A s \in Slots : \A passed : ArtPassed(ArtWithout(s), passed) \in [Games -> States]
  BY <1>6 DEF ArtPassed, TypeOK
<1>11. \A k : LocatedBefore(k) => located' \in SUBSET Games
  <2> SUFFICES ASSUME NEW k, LocatedBefore(k) PROVE located' \in SUBSET Games
    OBVIOUS
  <2>1. Before(k) \subseteq Games
    BY <1>2, CandidatesAreTitles DEF Before
  <2>2. QED
    BY <2>1 DEF LocatedBefore, TypeOK
<1> DEFINE Kept == /\ order' = order /\ region' = region /\ wanted' = wanted
                   /\ cursor' = cursor /\ top' = top
                   /\ buildActive' \in BOOLEAN /\ buildNext' \in 1 .. (N + 1) /\ buildComplete' \in BOOLEAN
                   /\ storeUp' \in BOOLEAN /\ idle' \in BOOLEAN
<1>12. ASSUME Kept, art' \in [Games -> States], located' \in SUBSET Games, slots' \in [Slots -> Slot],
              age' \in [Slots -> 0 .. PoolSize], decodingSlot' \in 0 .. PoolSize,
              job' \in Jobs \cup {NoJob}
       PROVE  TypeOK'
  BY <1>12 DEF TypeOK
<1>13. ASSUME NEW c \in Ids, NEW t \in Ids, Frame(c, t) PROVE TypeOK'
  <2> DEFINE hit == {s \in Slots : Filled(s) /\ slots[s].rom \in {Asked(c, t)[k] : k \in DOMAIN Asked(c, t)}}
  <2>1. age' = Restamped(hit) /\ hit \in SUBSET Slots
    BY <1>13 DEF Frame
  <2>2. age' \in [Slots -> 0 .. PoolSize]
    BY <2>1, RanksAreBounded
  <2>3. DOMAIN wanted' \subseteq 1 .. Turns /\ wanted' \in [DOMAIN wanted' -> Ids]
    BY <1>13, AskedAreTitles DEF Frame, Restrict
  <2>4. idle' \in BOOLEAN
    BY <1>13, Zenon DEF Frame, TypeOK
  <2>5. /\ UNCHANGED <<order, art, located, slots, decodingSlot, buildActive, buildNext, buildComplete>>
        /\ UNCHANGED <<job, region, storeUp>>
        /\ cursor' \in Ids /\ top' \in Ids
    BY <1>13 DEF Frame, build, store
  <2>6. QED
    BY <2>2, <2>3, <2>4, <2>5, Zenon DEF TypeOK
<1>14. CASE Fetch
  <2>1. PICK s \in Slots :
          /\ (\E k \in Fitting : Fetched(k, s)) \/ Released(s)
          /\ age' = [age EXCEPT ![s] = 0]
          /\ idle' = (idle /\ ~ Filled(s))
    BY <1>14 DEF Fetch
  <2>2. idle' \in BOOLEAN
    BY <2>1, Zenon DEF TypeOK
  <2>3. Kept /\ located' = located /\ decodingSlot' = decodingSlot /\ job' = job
    BY <1>14, <2>2 DEF Fetch, build, screen, store, TypeOK
  <2>4. ArtWithout(s) \in [Games -> States]
    BY <1>6 DEF TypeOK
  <2>5. art' \in [Games -> States] /\ slots' \in [Slots -> Slot]
    <3>1. CASE Released(s)
      BY <1>5, <2>4, <3>1 DEF Released, TypeOK
    <3>2. ASSUME NEW k \in Fitting, Fetched(k, s)
          PROVE  art' \in [Games -> States] /\ slots' \in [Slots -> Slot]
      <4>1. wanted[k] \in Ids
        BY <3>2 DEF Fitting, InAtlas, TypeOK
      <4>2. [rom |-> wanted[k], tile |-> Atlas!Tile(order[wanted[k]], ShapeOf(order[wanted[k]]))] \in Slot
        BY <1>2, <1>4, <4>1
      <4>3. QED
        BY <2>4, <3>2, <4>2 DEF Fetched, TypeOK
    <3>3. QED
      BY <2>1, <3>1, <3>2
  <2>6. QED
    BY <1>7, <1>12, <2>1, <2>3, <2>5 DEF TypeOK
<1>15. CASE BuildStart
  <2>1. PICK i \in Buildable : WalkedPast(i) /\ LocatedTo(i) /\ buildNext' = i + 1 /\ job' = Decoding("build_done", i)
    BY <1>15 DEF BuildStart
  <2>2. i \in Ids /\ buildNext' \in 1 .. (N + 1)
    BY <1>1, <2>1 DEF Buildable, ToBuild, Ahead, Ids
  <2>3. art' \in [Games -> States] /\ located' \in SUBSET Games
    BY <1>2, <2>1 DEF WalkedPast, LocatedTo, Ahead, TypeOK
  <2>4. QED
    BY <1>15, <1>8, <1>12, <2>1, <2>2, <2>3 DEF BuildStart, pool, screen, store, TypeOK
<1>16. CASE BuildFinished
  <2>1. art' \in [Games -> States] /\ located' \in SUBSET Games
    BY <1>16, <1>2 DEF BuildFinished, WalkedPast, LocatedTo, Ahead, TypeOK
  <2>2. buildNext' \in 1 .. (N + 1)
    BY <1>16, <1>1 DEF BuildFinished
  <2>3. QED
    BY <1>16, <1>12, <2>1, <2>2 DEF BuildFinished, pool, screen, store, TypeOK
<1>17. CASE BuildDone
  <2>1. storeUp' \in BOOLEAN /\ art' \in [Games -> States]
    <3>1. CASE Cover[job.src] = "corrupt"
      BY <1>17, <3>1 DEF BuildDone, store, TypeOK
    <3>2. CASE Cover[job.src] # "corrupt"
      BY <1>17, <3>2, PutKeeps DEF BuildDone, TypeOK
    <3>3. QED
      BY <3>1, <3>2
  <2>2. QED
    BY <1>17, <1>12, <2>1 DEF BuildDone, pool, screen, TypeOK
<1>18. CASE RunStart
  <2>1. PICK k \in Starters, s \in Slots :
          /\ LocatedBefore(k + 1)
          /\ slots' = [slots EXCEPT ![s] = [rom |-> Passes[k].id, tile |-> Empty]]
          /\ age' = [age EXCEPT ![s] = 0]
          /\ decodingSlot' = s
          /\ job' = Decoding("decode_done", Passes[k].id)
          /\ art' = [ArtPassed(ArtWithout(s), Before(k)) EXCEPT ![order[Passes[k].id]] = "DECODING"]
          /\ idle' = (idle /\ ~ Filled(s))
    BY <1>18 DEF RunStart
  <2>2. Passes[k].id \in Ids
    BY CandidatesAreTitles DEF Starters, Claimants
  <2>3. [rom |-> Passes[k].id, tile |-> Empty] \in Slot
    BY <1>2, <2>2
  <2>4. slots' \in [Slots -> Slot] /\ art' \in [Games -> States]
    BY <1>10, <2>1, <2>3 DEF TypeOK
  <2>5. decodingSlot' \in 0 .. PoolSize
    BY <1>1, <2>1 DEF Slots
  <2>6. idle' \in BOOLEAN
    BY <2>1, Zenon DEF TypeOK
  <2>7. Kept
    BY <1>18, <2>6 DEF RunStart, build, screen, store, TypeOK
  <2>8. located' \in SUBSET Games
    BY <1>11, <2>1
  <2>9. job' \in Jobs
    BY <1>8, <2>1, <2>2
  <2>10. QED
    BY <1>7, <1>12, <2>1, <2>4, <2>5, <2>7, <2>8, <2>9
<1>19. CASE RunNoSlot
  <2>1. PICK k \in Claimants :
          /\ LocatedBefore(k + 1)
          /\ art' = ArtPassed(art, Before(k))
          /\ idle' = (idle \/ ~ Passes[k].visible)
    BY <1>19 DEF RunNoSlot
  <2>2. idle' \in BOOLEAN
    BY <2>1, Zenon DEF TypeOK
  <2>3. Kept /\ UNCHANGED <<slots, age, decodingSlot, job>>
    BY <1>19, <2>2 DEF RunNoSlot, build, screen, store, pool, TypeOK
  <2>4. located' \in SUBSET Games /\ art' \in [Games -> States]
    BY <1>9, <1>11, <2>1
  <2>5. QED
    BY <1>12, <2>3, <2>4 DEF TypeOK
<1>20. CASE RunDry
  <2>1. Kept /\ decodingSlot' = decodingSlot /\ job' = job
    BY <1>20 DEF RunDry, build, screen, store, TypeOK
  <2>2. located' \in SUBSET Games
    BY <1>20, <1>11 DEF RunDry
  <2>3. art' \in [Games -> States] /\ slots' \in [Slots -> Slot] /\ age' \in [Slots -> 0 .. PoolSize]
    <3>1. CASE UNCHANGED <<slots, age>> /\ art' = ArtPassed(art, Range(order))
      BY <1>9, <3>1 DEF TypeOK
    <3>2. ASSUME NEW s \in Slots, slots' = [slots EXCEPT ![s] = [rom |-> 0, tile |-> Empty]],
                 age' = [age EXCEPT ![s] = 0], art' = ArtPassed(ArtWithout(s), Range(order))
          PROVE  art' \in [Games -> States] /\ slots' \in [Slots -> Slot] /\ age' \in [Slots -> 0 .. PoolSize]
      BY <1>5, <1>7, <1>10, <3>2 DEF TypeOK
    <3>3. QED
      BY <1>20, <3>1, <3>2 DEF RunDry
  <2>4. QED
    BY <1>12, <2>1, <2>2, <2>3 DEF TypeOK
<1>21. CASE DecodeDone
  <2>1. decodingSlot' \in 0 .. PoolSize
    BY <1>21, <1>1 DEF DecodeDone
  <2>2. storeUp' \in BOOLEAN /\ art' \in [Games -> States] /\ slots' \in [Slots -> Slot]
    <3>1. CASE Cover[job.src] = "corrupt"
      BY <1>21, <3>1 DEF DecodeDone, store, TypeOK
    <3>2. CASE Cover[job.src] # "corrupt"
      <4>1. job \in Jobs
        BY <1>21 DEF DecodeDone, Polled, TypeOK
      <4>2. Atlas!Tile(job.src, job.shape) \in Atlas!Tiles
        BY <4>1 DEF Jobs, Atlas!Tile, Atlas!Tiles
      <4>3. storeUp' \in BOOLEAN
        BY <1>21, <3>2, PutKeeps DEF DecodeDone, TypeOK
      <4>4. QED
        BY <1>21, <3>2, <4>2, <4>3 DEF DecodeDone, TypeOK
    <3>3. QED
      BY <3>1, <3>2
  <2>3. QED
    BY <1>21, <1>12, <2>1, <2>2 DEF DecodeDone, build, screen, TypeOK
<1>22. ASSUME NEW o \in Orders, Shuffle(o) PROVE TypeOK'
  <2>1. slots' \in [Slots -> Slot]
    <3>1. \A s \in Slots : Filled(s) => [slots[s] EXCEPT !.rom = Index(o, order[slots[s].rom])] \in Slot
      <4> SUFFICES ASSUME NEW s \in Slots, Filled(s)
                   PROVE  [slots[s] EXCEPT !.rom = Index(o, order[slots[s].rom])] \in Slot
        OBVIOUS
      <4>1. order[slots[s].rom] \in Games
        BY <1>2 DEF SlotsAreForTitles
      <4>2. Index(o, order[slots[s].rom]) \in 0 .. N
        BY <1>2, <4>1, IndexLeadsBack
      <4>3. slots[s] \in Slot
        BY DEF TypeOK
      <4>4. QED
        BY <4>2, <4>3
    <3>2. QED
      BY <1>22, <1>5, <3>1 DEF Shuffle, Rebound
  <2>2. decodingSlot' \in 0 .. PoolSize /\ buildNext' \in 1 .. (N + 1)
    BY <1>22, <1>1 DEF Shuffle, TypeOK
  <2>3. DOMAIN wanted' \subseteq 1 .. Turns /\ wanted' \in [DOMAIN wanted' -> Ids]
    BY <1>22 DEF Shuffle
  <2>4. art' \in [Games -> States] /\ job' \in Jobs \cup {NoJob}
    BY <1>22 DEF Shuffle, TypeOK
  <2>5. QED
    BY <1>22, <2>1, <2>2, <2>3, <2>4 DEF Shuffle, screen, store, TypeOK
<1>23. ASSUME NEW r \in Regions, Reshape(r) PROVE TypeOK'
  <2>1. slots' \in [Slots -> Slot]
    BY <1>23, <1>5 DEF Reshape
  <2>2. decodingSlot' \in 0 .. PoolSize /\ buildNext' \in 1 .. (N + 1)
    BY <1>23, <1>1 DEF Reshape
  <2>3. art' \in [Games -> States] /\ job' \in Jobs \cup {NoJob}
    BY <1>23 DEF Reshape, TypeOK
  <2>4. QED
    BY <1>23, <2>1, <2>2, <2>3 DEF Reshape, screen, store, TypeOK
<1>24. CASE UNCHANGED vars
  BY <1>24 DEF vars, pool, build, screen, store, TypeOK
<1>25. QED
  BY CacheSteps, <1>13, <1>14, <1>15, <1>16, <1>17, <1>18, <1>19, <1>20, <1>21, <1>22, <1>23, <1>24 DEF CacheInv, PoolConsistent

-----------------------------------------------------------------------------
(***************************************************************************)
(* What evicting, walking past and waiting do to the records.              *)
(***************************************************************************)
\* A record's place in a sorted library is its own.
LEMMA PlacesAreDistinct ==
  ASSUME TypeOK
  PROVE  /\ \A i \in Ids : order[i] \in Games
         /\ \A i, j \in Ids : order[i] = order[j] => i = j
         /\ \A g \in Games : \E i \in Ids : order[i] = g
BY EveryTitleHasAPlace DEF TypeOK, Orders

\* Slots count from one.
LEMMA NoSlotZero == 0 \notin Slots /\ \A s \in 0 .. PoolSize : s # 0 => s \in Slots
BY CacheAssumption DEF CacheAssumption, Slots

\* A tile is not an empty slot.
LEMMA TileFills == \A g \in Games, sh \in Shapes : Atlas!Tile(g, sh) # Empty
BY CacheAssumption DEF CacheAssumption, Atlas!Tile

\* When the decoder is not waited for it is free, and no record says DECODING.
LEMMA NobodyWaits ==
  ASSUME CacheInv, decodingSlot = 0, ~ buildActive
  PROVE  job = NoJob /\ \A g \in Games : art[g] # "DECODING"
BY PlacesAreDistinct DEF CacheInv, PoolConsistent, DecoderIsAwaited, RecordsMatchPool

\* Giving up a slot makes its record, and no other, not READY.
LEMMA EvictedIsPending ==
  ASSUME CacheInv, NEW s \in Slots
  PROVE  /\ \A g \in Games : ArtWithout(s)[g] # art[g] => ArtWithout(s)[g] = "PENDING"
         /\ \A g \in Games : art[g] # "READY" => ArtWithout(s)[g] = art[g]
         /\ \A i \in Ids : ArtWithout(s)[order[i]] = "READY" <=>
                \E o \in Slots \ {s} : Filled(o) /\ slots[o].rom = i
<1> USE DEF CacheInv, PoolConsistent
<1>1. \A i, j \in Ids : order[i] = order[j] => i = j
  BY PlacesAreDistinct
<1>2. CASE ~ Filled(s)
  <2>1. ArtWithout(s) = art
    BY <1>2 DEF ArtWithout
  <2>2. QED
    BY <1>2, <2>1 DEF RecordsMatchPool, Resident
<1>3. CASE Filled(s)
  <2> DEFINE j == slots[s].rom
  <2>1. j \in Ids /\ art[order[j]] = "READY"
    BY <1>3 DEF RecordsMatchPool, Resident, SlotsAreForTitles
  <2>2. \A g \in Games : ArtWithout(s)[g] = IF g = order[j] THEN "PENDING" ELSE art[g]
    BY <1>3 DEF ArtWithout, TypeOK
  <2>3. \A i \in Ids : order[i] \in Games
    BY PlacesAreDistinct
  <2>4. \A o \in Slots : Filled(o) /\ slots[o].rom = j => o = s
    BY <1>3 DEF OneSlotPerTitle
  <2>5. ASSUME NEW i \in Ids
        PROVE  ArtWithout(s)[order[i]] = "READY" <=> \E o \in Slots \ {s} : Filled(o) /\ slots[o].rom = i
    <3>1. CASE i = j
      BY <2>2, <2>3, <2>4, <3>1
    <3>2. CASE i # j
      <4>1. ArtWithout(s)[order[i]] = art[order[i]]
        BY <1>1, <2>1, <2>2, <2>3, <3>2
      <4>2. art[order[i]] = "READY" <=> \E o \in Slots : Filled(o) /\ slots[o].rom = i
        BY DEF RecordsMatchPool, Resident
      <4>3. QED
        BY <3>2, <4>1, <4>2
    <3>3. QED
      BY <3>1, <3>2
  <2>6. QED
    BY <2>1, <2>2, <2>5
<1>4. QED
  BY <1>2, <1>3

\* Walking past a record only ever moves it on from PENDING.
LEMMA PassedMovesOn ==
  ASSUME TypeOK, NEW a \in [Games -> {"PENDING", "COSTLY", "DECODING", "READY", "NONE"}],
         NEW passed, NEW g \in Games
  PROVE  /\ a[g] # "PENDING" => ArtPassed(a, passed)[g] = a[g]
         /\ ArtPassed(a, passed)[g] \notin {"READY", "DECODING"} \/ ArtPassed(a, passed)[g] = a[g]
         /\ ArtPassed(a, passed)[g] = "NONE" /\ a[g] # "NONE" /\ job = NoJob =>
                Cover[g] \in {"none", "broken", "corrupt"}
<1>1. ArtPassed(a, passed)[g] =
        IF g \notin passed \/ a[g] # "PENDING" THEN a[g]
        ELSE IF Cover[g] = "costly" THEN "COSTLY"
        ELSE IF Cover[g] = "none" \/ ~ Opens(g) THEN "NONE"
        ELSE a[g]
  BY DEF ArtPassed
<1>2. Cover[g] \in Covers
  BY CacheAssumption DEF CacheAssumption
<1>3. QED
  BY <1>1, <1>2 DEF Opens, Covers

\* Walking past a record for the build only settles one without a usable cover.
LEMMA WalkedSettles ==
  ASSUME CacheInv, job = NoJob, NEW stop, WalkedPast(stop), NEW g \in Games
  PROVE  /\ art'[g] = art[g] \/ art'[g] = "NONE"
         /\ art'[g] # art[g] => Cover[g] \in {"none", "broken"}
<1> DEFINE hopeless == {i \in Ahead : i < stop
                          /\ (Cover[order[i]] = "none" \/ i \in ToBuild \ Buildable)}
<1>1. art'[g] = IF g \in {order[i] : i \in hopeless} THEN "NONE" ELSE art[g]
  BY DEF WalkedPast
<1>2. ASSUME NEW i \in hopeless PROVE Cover[order[i]] \in {"none", "broken"}
  <2>1. order[i] \in Games
    BY PlacesAreDistinct DEF Ahead, CacheInv, PoolConsistent
  <2>2. Cover[order[i]] \in Covers
    BY <2>1, CacheAssumption DEF CacheAssumption
  <2>3. QED
    BY <2>2 DEF Buildable, ToBuild, Opens, Covers
<1>3. QED
  BY <1>1, <1>2

\* Whose decode a finished one was.
LEMMA DoneByWhom ==
  ASSUME CacheInv, job # NoJob
  PROVE  /\ job.done = "decode_done" =>
               /\ decodingSlot \in Slots /\ ~ buildActive /\ ~ storeUp
               /\ slots[decodingSlot].rom = job.rec /\ ~ Filled(decodingSlot)
         /\ job.done = "build_done" => decodingSlot = 0 /\ buildActive /\ storeUp
         /\ job \in Jobs /\ job.rec \in Ids /\ job.src \in Games /\ job.shape \in Shapes
         /\ order[job.rec] = job.src /\ job.shape = ShapeOf(job.src)
<1>1. job \in Jobs
  BY DEF CacheInv, PoolConsistent, TypeOK
<1>2. job.rec \in Ids /\ job.src \in Games /\ job.shape \in Shapes
  BY <1>1 DEF Jobs
<1>3. decodingSlot \in 0 .. PoolSize
  BY DEF CacheInv, PoolConsistent, TypeOK
<1>4. QED
  BY <1>1, <1>2, <1>3, NoSlotZero
  DEF CacheInv, PoolConsistent, DecoderIsAwaited, DecodeHasItsPlace

\* The art a visible or prefetched title is given is of a record asked for.
LEMMA FetchTakesPending ==
  ASSUME TypeOK, NEW k \in Fitting
  PROVE  /\ wanted[k] \in Ids
         /\ order[wanted[k]] \in Games
         /\ art[order[wanted[k]]] \in {"PENDING", "COSTLY"}
         /\ Atlas!Known(order[wanted[k]])
<1>1. wanted[k] \in Ids
  BY DEF TypeOK, Fitting, InAtlas
<1>2. QED
  BY <1>1, PlacesAreDistinct DEF Fitting, InAtlas

\* And so is the one a decode is started for.
LEMMA StartTakesPending ==
  ASSUME TypeOK, NEW k \in Starters
  PROVE  /\ Passes[k].id \in Ids
         /\ order[Passes[k].id] \in Games
         /\ art[order[Passes[k].id]] \in {"PENDING", "COSTLY"}
         /\ Opens(order[Passes[k].id])
<1>1. k \in DOMAIN Passes /\ Claims(Passes[k]) /\ Opens(order[Passes[k].id])
  BY DEF Starters, Claimants
<1>2. Passes[k].id \in Ids
  BY <1>1, CandidatesAreTitles
<1>3. QED
  BY <1>1, <1>2, PlacesAreDistinct DEF Claims
-----------------------------------------------------------------------------
(***************************************************************************)
(* What is in the slots.                                                   *)
(***************************************************************************)
PoolShows == SlotShowsOwnArt /\ OneSlotPerTitle /\ SlotsAreForTitles

\* What is in a slot stays right, and in one slot.
LEMMA NextShows == CacheInv /\ [Next]_vars => PoolShows'
<1> SUFFICES ASSUME CacheInv, [Next]_vars PROVE PoolShows'
  OBVIOUS
<1> USE DEF CacheInv, PoolConsistent
<1>1. \A g \in Games : ShapeOf(g) \in Shapes
  BY CacheAssumption DEF CacheAssumption, ShapeOf, TypeOK
<1>2. ASSUME slots' = slots, order' = order, region' = region PROVE PoolShows'
  BY <1>2 DEF PoolShows, SlotShowsOwnArt, OneSlotPerTitle, SlotsAreForTitles, Filled, ShapeOf
<1>3. ASSUME NEW s \in Slots, NEW i, slots' = [slots EXCEPT ![s] = [rom |-> i, tile |-> Empty]],
             order' = order, region' = region
      PROVE  PoolShows'
  <2>1. \A o \in Slots : Filled(o)' => o # s /\ Filled(o) /\ slots'[o] = slots[o]
    BY <1>3 DEF Filled, TypeOK
  <2>2. QED
    BY <1>3, <2>1 DEF PoolShows, SlotShowsOwnArt, OneSlotPerTitle, SlotsAreForTitles, ShapeOf
<1>4. ASSUME NEW s \in Slots, NEW i \in Ids, ~ Resident(i), order' = order, region' = region,
             slots' = [slots EXCEPT ![s] = [rom |-> i, tile |-> Atlas!Tile(order[i], ShapeOf(order[i]))]]
      PROVE  PoolShows'
  <2>1. /\ slots'[s].rom = i /\ slots'[s].tile = Atlas!Tile(order[i], ShapeOf(order[i]))
        /\ \A o \in Slots \ {s} : slots'[o] = slots[o]
    BY <1>4 DEF TypeOK
  <2>2. \A o \in Slots \ {s} : Filled(o)' => Filled(o) /\ slots'[o].rom # i
    BY <1>4, <2>1 DEF Filled, Resident
  <2>3. QED
    BY <1>4, <2>1, <2>2 DEF PoolShows, SlotShowsOwnArt, OneSlotPerTitle, SlotsAreForTitles, ShapeOf
<1>5. ASSUME NEW c \in Ids, NEW t \in Ids, Frame(c, t) PROVE PoolShows'
  BY <1>5, <1>2 DEF Frame
<1>6. CASE Fetch
  <2>1. PICK s \in Slots : (\E k \in Fitting : Fetched(k, s)) \/ Released(s)
    BY <1>6 DEF Fetch
  <2>2. order' = order /\ region' = region
    BY <1>6 DEF Fetch
  <2>3. CASE Released(s)
    BY <1>3, <2>2, <2>3 DEF Released
  <2>4. ASSUME NEW k \in Fitting, Fetched(k, s) PROVE PoolShows'
    <3>1. wanted[k] \in Ids /\ ~ Resident(wanted[k])
      BY FetchTakesPending DEF RecordsMatchPool
    <3>2. QED
      BY <1>4, <2>2, <2>4, <3>1 DEF Fetched
  <2>5. QED
    BY <2>1, <2>3, <2>4
<1>7. CASE BuildStart
  BY <1>7, <1>2 DEF BuildStart, pool
<1>8. CASE BuildFinished
  BY <1>8, <1>2 DEF BuildFinished, pool
<1>9. CASE BuildDone
  BY <1>9, <1>2 DEF BuildDone, pool
<1>10. CASE RunStart
  BY <1>10, <1>3 DEF RunStart
<1>11. CASE RunNoSlot
  BY <1>11, <1>2 DEF RunNoSlot, pool
<1>12. CASE RunDry
  BY <1>12, <1>2, <1>3 DEF RunDry
<1>13. CASE DecodeDone
  <2>1. job # NoJob /\ job.done = "decode_done" /\ order' = order /\ region' = region
    BY <1>13 DEF DecodeDone, Polled
  <2>2. CASE Cover[job.src] = "corrupt"
    BY <1>13, <1>2, <2>1, <2>2 DEF DecodeDone
  <2>3. CASE Cover[job.src] # "corrupt"
    <3> DEFINE d == decodingSlot
    <3>1. slots' = [slots EXCEPT ![d].tile = Atlas!Tile(job.src, job.shape)]
      BY <1>13, <2>3 DEF DecodeDone
    <3>2. /\ d \in Slots /\ slots[d].rom = job.rec /\ job.rec \in Ids
          /\ order[job.rec] = job.src /\ job.shape = ShapeOf(job.src)
      BY <2>1, DoneByWhom
    <3>3. ~ Resident(job.rec)
      <4>1. art[order[job.rec]] = "DECODING"
        BY <3>2, NoSlotZero DEF RecordsMatchPool
      <4>2. QED
        BY <3>2, <4>1 DEF RecordsMatchPool
    <3>4. slots[d] = [rom |-> job.rec, tile |-> slots[d].tile]
      BY <3>2 DEF TypeOK
    <3>5. [slots[d] EXCEPT !.tile = Atlas!Tile(job.src, job.shape)] =
            [rom |-> job.rec, tile |-> Atlas!Tile(job.src, job.shape)]
      BY <3>4
    <3>6. slots' = [slots EXCEPT ![d] =
                      [rom |-> job.rec, tile |-> Atlas!Tile(order[job.rec], ShapeOf(order[job.rec]))]]
      BY <3>1, <3>2, <3>5
    <3>7. QED
      BY <1>4, <2>1, <3>2, <3>3, <3>6
  <2>4. QED
    BY <2>2, <2>3
<1>14. ASSUME NEW o \in Orders, Shuffle(o) PROVE PoolShows'
  <2>1. \A s \in Slots : Filled(s)' => Filled(s)
    BY <1>14 DEF Shuffle, Rebound, Filled
  <2>2. ASSUME NEW s \in Slots, Filled(s)
        PROVE  /\ slots'[s].tile = slots[s].tile
               /\ slots'[s].rom \in Ids /\ o[slots'[s].rom] = order[slots[s].rom]
    <3>1. slots'[s] = [slots[s] EXCEPT !.rom = Index(o, order[slots[s].rom])]
      BY <1>14, <2>2 DEF Shuffle, Rebound
    <3>2. slots[s] \in [rom : 0 .. N, tile : Atlas!Tiles \cup {Empty}]
      BY DEF TypeOK
    <3>3. order[slots[s].rom] \in Games
      BY <2>2, PlacesAreDistinct DEF SlotsAreForTitles
    <3>4. QED
      BY <3>1, <3>2, <3>3, IndexLeadsBack
  <2>3. order' = o /\ region' = region
    BY <1>14 DEF Shuffle
  <2>4. \A g \in Games : ShapeOf(g)' = ShapeOf(g)
    BY <2>3 DEF ShapeOf
  <2>5. SlotsAreForTitles'
    BY <2>1, <2>2 DEF SlotsAreForTitles
  <2>6. SlotShowsOwnArt'
    BY <2>1, <2>2, <2>3 DEF SlotShowsOwnArt, ShapeOf
  <2>7. OneSlotPerTitle'
    BY <2>1, <2>2, <2>3, PlacesAreDistinct DEF OneSlotPerTitle, SlotsAreForTitles
  <2>8. QED
    BY <2>5, <2>6, <2>7 DEF PoolShows
<1>15. ASSUME NEW r \in Regions, Reshape(r) PROVE PoolShows'
  <2>1. \A s \in Slots : ~ Filled(s)'
    BY <1>15 DEF Reshape, Filled
  <2>2. QED
    BY <2>1 DEF PoolShows, SlotShowsOwnArt, OneSlotPerTitle, SlotsAreForTitles
<1>16. CASE UNCHANGED vars
  BY <1>16, <1>2 DEF vars, pool
<1>17. QED
  BY CacheSteps, <1>5, <1>6, <1>7, <1>8, <1>9, <1>10, <1>11, <1>12, <1>13, <1>14, <1>15, <1>16 DEF CacheInv, PoolConsistent

-----------------------------------------------------------------------------
(***************************************************************************)
(* Where art comes from.                                                   *)
(***************************************************************************)
ArtIsFromCovers == NoArtOnlyIfUnusable /\ ArtHasCover

\* Art, and its absence, stay what the covers say.
LEMMA NextCovers == CacheInv /\ [Next]_vars => ArtIsFromCovers'
<1> SUFFICES ASSUME CacheInv, [Next]_vars PROVE ArtIsFromCovers'
  OBVIOUS
<1> USE DEF CacheInv, PoolConsistent, ArtIsFromCovers
<1>1. ASSUME \A g \in Games : art'[g] \in {art[g], "PENDING", "COSTLY", "DECODING"},
             job' \in {job, NoJob}, found' = found
      PROVE  ArtIsFromCovers'
  BY <1>1 DEF NoArtOnlyIfUnusable, ArtHasCover
<1>2. NoArtOnlyIfUnusable /\ ArtHasCover
  OBVIOUS
<1>3. ASSUME job' \in {job, NoJob}, found' = found,
             \A g \in Games : \/ art'[g] = art[g]
                              \/ art'[g] \in {"PENDING", "COSTLY", "DECODING"}
                              \/ art'[g] = "NONE" /\ Cover[g] \in {"none", "broken", "corrupt"}
      PROVE  ArtIsFromCovers'
  BY <1>3 DEF NoArtOnlyIfUnusable, ArtHasCover
<1>4. \A g \in Games : Cover[g] \in Covers
  BY CacheAssumption DEF CacheAssumption
<1>5. \A s \in Slots, g \in Games : ArtWithout(s)[g] = art[g] \/ ArtWithout(s)[g] = "PENDING"
  BY EvictedIsPending
<1>6. \A s \in Slots : ArtWithout(s) \in [Games -> {"PENDING", "COSTLY", "DECODING", "READY", "NONE"}]
  BY DEF ArtWithout, TypeOK
<1>7. ASSUME job = NoJob, NEW s \in Slots, NEW passed, NEW g \in Games
      PROVE  LET b == ArtPassed(ArtWithout(s), passed)[g]
             IN  \/ b = art[g]
                 \/ b \in {"PENDING", "COSTLY", "DECODING"}
                 \/ b = "NONE" /\ Cover[g] \in {"none", "broken", "corrupt"}
  <2>1. ArtPassed(ArtWithout(s), passed)[g] \in {"PENDING", "COSTLY", "DECODING", "READY", "NONE"}
    BY <1>6 DEF ArtPassed
  <2>2. QED
    BY <1>5, <1>6, <1>7, <2>1, PassedMovesOn
<1>8. ASSUME job = NoJob, NEW passed, NEW g \in Games
      PROVE  LET b == ArtPassed(art, passed)[g]
             IN  \/ b = art[g]
                 \/ b \in {"PENDING", "COSTLY", "DECODING"}
                 \/ b = "NONE" /\ Cover[g] \in {"none", "broken", "corrupt"}
  <2>1. ArtPassed(art, passed)[g] \in {"PENDING", "COSTLY", "DECODING", "READY", "NONE"}
    BY DEF ArtPassed, TypeOK
  <2>2. QED
    BY <1>8, <2>1, PassedMovesOn DEF TypeOK
<1>9. ASSUME RunGuard PROVE job = NoJob
  BY <1>9, NobodyWaits DEF RunGuard, DecodeHasItsPlace
<1>10. ASSUME BuildGuard PROVE job = NoJob
  BY <1>10, NobodyWaits DEF BuildGuard, DecodeHasItsPlace
<1>11. ASSUME NEW g \in Usable, found' = found \/ found' = found \cup {Atlas!Entry(g, job.shape)}
       PROVE  \A e \in found' : e.src \in Usable
  BY <1>11 DEF ArtHasCover, Atlas!Entry
<1>12. ASSUME job # NoJob PROVE job.src \in Games /\ Cover[job.src] \in {"corrupt", "cheap", "costly"}
                                /\ order[job.rec] = job.src
  BY <1>12, DoneByWhom DEF ArtHasCover
<1>13. ASSUME NEW c \in Ids, NEW t \in Ids, Frame(c, t) PROVE ArtIsFromCovers'
  BY <1>13, <1>1 DEF Frame, store
<1>14. CASE Fetch
  <2>1. PICK s \in Slots : (\E k \in Fitting : Fetched(k, s)) \/ Released(s)
    BY <1>14 DEF Fetch
  <2>2. job' = job /\ found' = found
    BY <1>14 DEF Fetch, store
  <2>3. CASE Released(s)
    BY <1>1, <1>5, <2>2, <2>3 DEF Released
  <2>4. ASSUME NEW k \in Fitting, Fetched(k, s) PROVE ArtIsFromCovers'
    <3>1. order[wanted[k]] \in Usable
      BY FetchTakesPending DEF ArtHasCover, Atlas!Known
    <3>2. \A g \in Games : art'[g] = IF g = order[wanted[k]] THEN "READY" ELSE ArtWithout(s)[g]
      BY <1>6, <2>4 DEF Fetched
    <3>3. ASSUME NEW g \in Games
          PROVE  art'[g] \in {art[g], "PENDING"} \/ (art'[g] = "READY" /\ g \in Usable)
      BY <1>5, <3>1, <3>2
    <3>4. QED
      BY <2>2, <3>3 DEF NoArtOnlyIfUnusable, ArtHasCover
  <2>5. QED
    BY <2>1, <2>3, <2>4
<1>15. CASE BuildStart
  <2>1. PICK i \in Buildable : WalkedPast(i) /\ job' = Decoding("build_done", i)
    BY <1>15 DEF BuildStart
  <2>2. job = NoJob /\ found' = found
    BY <1>15, <1>10 DEF BuildStart, store
  <2>3. ASSUME NEW g \in Games
        PROVE  art'[g] = art[g] \/ (art'[g] = "NONE" /\ Cover[g] \in {"none", "broken"})
    BY <2>1, <2>2, WalkedSettles
  <2>4. job'.src = order[i] /\ Cover[order[i]] \in {"corrupt", "cheap", "costly"}
    BY <2>1 DEF Decoding, Buildable, Opens
  <2>5. QED
    BY <2>2, <2>3, <2>4 DEF NoArtOnlyIfUnusable, ArtHasCover
<1>16. CASE BuildFinished
  <2>1. job = NoJob /\ job' = job /\ found' = found
    BY <1>16, <1>10 DEF BuildFinished, store
  <2>2. ASSUME NEW g \in Games
        PROVE  art'[g] = art[g] \/ (art'[g] = "NONE" /\ Cover[g] \in {"none", "broken"})
    BY <1>16, <2>1, WalkedSettles DEF BuildFinished
  <2>3. QED
    BY <1>3, <2>1, <2>2
<1>17. CASE BuildDone
  <2>1. job # NoJob /\ job' = NoJob
    BY <1>17 DEF BuildDone, Polled
  <2>2. CASE Cover[job.src] = "corrupt"
    <3>1. art' = [art EXCEPT ![job.src] = "NONE"] /\ found' = found
      BY <1>17, <1>12, <2>1, <2>2 DEF BuildDone, store
    <3>2. ASSUME NEW g \in Games
          PROVE  art'[g] = art[g] \/ (art'[g] = "NONE" /\ Cover[g] = "corrupt")
      <4>1. art'[g] = IF g = job.src THEN "NONE" ELSE art[g]
        BY <3>1 DEF TypeOK
      <4>2. QED
        BY <2>2, <4>1
    <3>3. QED
      BY <1>3, <2>1, <3>1, <3>2
  <2>3. CASE Cover[job.src] # "corrupt"
    <3>1. job.src \in Usable
      BY <1>12, <2>1, <2>3 DEF Usable
    <3>2. art' = art /\ Put(job.src, job.shape)
      BY <1>17, <2>3 DEF BuildDone
    <3>3. \A e \in found' : e.src \in Usable
      BY <1>11, <3>1, <3>2, PutKeeps DEF TypeOK
    <3>4. QED
      BY <2>1, <3>2, <3>3 DEF NoArtOnlyIfUnusable, ArtHasCover
  <2>4. QED
    BY <2>2, <2>3
<1>18. CASE RunStart
  <2>1. PICK k \in Starters, s \in Slots :
          /\ job' = Decoding("decode_done", Passes[k].id)
          /\ art' = [ArtPassed(ArtWithout(s), Before(k)) EXCEPT ![order[Passes[k].id]] = "DECODING"]
    BY <1>18 DEF RunStart
  <2>2. job = NoJob /\ found' = found
    BY <1>18, <1>9 DEF RunStart, store
  <2>3. \A g \in Games : art'[g] = "DECODING" \/ art'[g] = ArtPassed(ArtWithout(s), Before(k))[g]
    BY <2>1 DEF ArtPassed
  <2>4. \A g \in Games : \/ art'[g] = art[g]
                         \/ art'[g] \in {"PENDING", "COSTLY", "DECODING"}
                         \/ art'[g] = "NONE" /\ Cover[g] \in {"none", "broken", "corrupt"}
    BY <1>7, <2>2, <2>3
  <2>5. job'.src = order[Passes[k].id] /\ Cover[order[Passes[k].id]] \in {"corrupt", "cheap", "costly"}
    BY <2>1, StartTakesPending DEF Decoding, Opens
  <2>6. QED
    BY <2>2, <2>4, <2>5 DEF NoArtOnlyIfUnusable, ArtHasCover
<1>19. CASE RunNoSlot
  BY <1>19, <1>3, <1>8, <1>9 DEF RunNoSlot, store
<1>20. CASE RunDry
  <2>1. job = NoJob /\ job' = job /\ found' = found
    BY <1>20, <1>9 DEF RunDry, store
  <2>2. CASE art' = ArtPassed(art, Range(order))
    BY <1>3, <1>8, <2>1, <2>2
  <2>3. ASSUME NEW s \in Slots, art' = ArtPassed(ArtWithout(s), Range(order)) PROVE ArtIsFromCovers'
    BY <1>3, <1>7, <2>1, <2>3
  <2>4. QED
    BY <1>20, <2>2, <2>3 DEF RunDry
<1>21. CASE DecodeDone
  <2>1. job # NoJob /\ job' = NoJob
    BY <1>21 DEF DecodeDone, Polled
  <2>2. CASE Cover[job.src] = "corrupt"
    <3>1. art' = [art EXCEPT ![job.src] = "NONE"] /\ found' = found
      BY <1>21, <1>12, <2>1, <2>2 DEF DecodeDone, store
    <3>2. ASSUME NEW g \in Games
          PROVE  art'[g] = art[g] \/ (art'[g] = "NONE" /\ Cover[g] = "corrupt")
      <4>1. art'[g] = IF g = job.src THEN "NONE" ELSE art[g]
        BY <3>1 DEF TypeOK
      <4>2. QED
        BY <2>2, <4>1
    <3>3. QED
      BY <1>3, <2>1, <3>1, <3>2
  <2>3. CASE Cover[job.src] # "corrupt"
    <3>1. job.src \in Usable
      BY <1>12, <2>1, <2>3 DEF Usable
    <3>2. art' = [art EXCEPT ![job.src] = "READY"] /\ Put(job.src, job.shape)
      BY <1>21, <1>12, <2>1, <2>3 DEF DecodeDone
    <3>3. \A e \in found' : e.src \in Usable
      BY <1>11, <3>1, <3>2, PutKeeps DEF TypeOK
    <3>4. ASSUME NEW g \in Games
          PROVE  art'[g] = art[g] \/ (art'[g] = "READY" /\ g \in Usable)
      <4>1. art'[g] = IF g = job.src THEN "READY" ELSE art[g]
        BY <3>2 DEF TypeOK
      <4>2. QED
        BY <3>1, <4>1
    <3>5. QED
      BY <2>1, <3>3, <3>4 DEF NoArtOnlyIfUnusable, ArtHasCover
  <2>4. QED
    BY <2>2, <2>3
<1>22. ASSUME NEW o \in Orders, Shuffle(o) PROVE ArtIsFromCovers'
  BY <1>22, <1>1 DEF Shuffle, store
<1>23. ASSUME NEW r \in Regions, Reshape(r) PROVE ArtIsFromCovers'
  BY <1>23, <1>1 DEF Reshape, store
<1>24. CASE UNCHANGED vars
  BY <1>24, <1>1 DEF vars, store
<1>25. QED
  BY CacheSteps, <1>13, <1>14, <1>15, <1>16, <1>17, <1>18, <1>19, <1>20, <1>21, <1>22, <1>23, <1>24 DEF CacheInv, PoolConsistent

-----------------------------------------------------------------------------
(***************************************************************************)
(* Who waits for the decoder.                                              *)
(***************************************************************************)
DecoderIsHeld == DecoderIsAwaited /\ DecodeHasItsPlace

\* The decoder is waited for by one of the two, on the record it decodes.
LEMMA NextHeld == CacheInv /\ [Next]_vars => DecoderIsHeld'
<1> SUFFICES ASSUME CacheInv, [Next]_vars PROVE DecoderIsHeld'
  OBVIOUS
<1> USE DEF CacheInv, PoolConsistent
<1>1. ASSUME UNCHANGED <<slots, decodingSlot, buildActive, storeUp, job, order, region>>
      PROVE  DecoderIsHeld'
  BY <1>1 DEF DecoderIsHeld, DecoderIsAwaited, DecodeHasItsPlace, Filled, ShapeOf
<1>2. ASSUME job' = NoJob, decodingSlot' = 0, ~ buildActive'
      PROVE  DecoderIsHeld'
  BY <1>2 DEF DecoderIsHeld, DecoderIsAwaited, DecodeHasItsPlace
<1>3. ASSUME decodingSlot = 0, UNCHANGED <<decodingSlot, buildActive, storeUp, job, order, region>>
      PROVE  DecoderIsHeld'
  BY <1>3 DEF DecoderIsHeld, DecoderIsAwaited, DecodeHasItsPlace, ShapeOf
<1>4. ASSUME NEW done \in {"decode_done", "build_done"}, NEW i \in Ids, order' = order, region' = region,
             job' = Decoding(done, i)
      PROVE  /\ job' # NoJob /\ job'.done = done /\ job'.rec = i
             /\ (order[job.rec] = job.src)' /\ (job.shape = ShapeOf(job.src))'
  <2>1. order[i] \in Games
    BY PlacesAreDistinct
  <2>2. ShapeOf(order[i]) \in Shapes
    BY <2>1, CacheAssumption DEF CacheAssumption, ShapeOf, TypeOK
  <2>3. job' \in Jobs
    BY <1>4, <2>1, <2>2 DEF Decoding, Jobs
  <2>4. /\ job'.done = done /\ job'.rec = i
        /\ job'.src = order[i] /\ job'.shape = ShapeOf(order[i])
    BY <1>4 DEF Decoding
  <2>5. job' # NoJob
    BY <2>3, CacheAssumption DEF CacheAssumption
  <2>6. QED
    BY <1>4, <2>4, <2>5 DEF ShapeOf
<1>5. ASSUME NEW c \in Ids, NEW t \in Ids, Frame(c, t) PROVE DecoderIsHeld'
  BY <1>5, <1>1 DEF Frame, build, store
<1>6. CASE Fetch
  BY <1>6, <1>3 DEF Fetch, build, store
<1>7. CASE BuildStart
  <2>1. PICK i \in Ids : job' = Decoding("build_done", i)
    BY <1>7 DEF BuildStart, Buildable, ToBuild, Ahead
  <2>2. decodingSlot' = 0 /\ storeUp' /\ buildActive'
    BY <1>7 DEF BuildStart, BuildGuard, DecodeHasItsPlace, pool, store
  <2>3. order' = order /\ region' = region
    BY <1>7 DEF BuildStart
  <2>4. QED
    BY <1>4, <2>1, <2>2, <2>3 DEF DecoderIsHeld, DecoderIsAwaited, DecodeHasItsPlace
<1>8. CASE BuildFinished
  BY <1>8, <1>1 DEF BuildFinished, pool, store
<1>9. CASE BuildDone
  <2>1. decodingSlot = 0
    BY <1>9, DoneByWhom DEF BuildDone, Polled
  <2>2. QED
    BY <1>9, <1>2, <2>1 DEF BuildDone, pool
<1>10. CASE RunStart
  <2>1. PICK k \in Starters, s \in Slots :
          /\ slots' = [slots EXCEPT ![s] = [rom |-> Passes[k].id, tile |-> Empty]]
          /\ decodingSlot' = s
          /\ job' = Decoding("decode_done", Passes[k].id)
    BY <1>10 DEF RunStart
  <2>2. order' = order /\ region' = region /\ ~ storeUp' /\ ~ buildActive'
    BY <1>10 DEF RunStart, RunGuard, DecodeHasItsPlace, build, store
  <2>3. Passes[k].id \in Ids
    BY StartTakesPending
  <2>4. s # 0 /\ slots'[s] = [rom |-> Passes[k].id, tile |-> Empty]
    BY <2>1, NoSlotZero DEF TypeOK
  <2>5. QED
    BY <1>4, <2>1, <2>2, <2>3, <2>4 DEF DecoderIsHeld, DecoderIsAwaited, DecodeHasItsPlace, Filled
<1>11. CASE RunNoSlot
  BY <1>11, <1>1 DEF RunNoSlot, pool, build, store
<1>12. CASE RunDry
  BY <1>12, <1>3 DEF RunDry, RunGuard, build, store
<1>13. CASE DecodeDone
  <2>1. ~ buildActive
    BY <1>13, DoneByWhom DEF DecodeDone, Polled
  <2>2. QED
    BY <1>13, <1>2, <2>1 DEF DecodeDone, build
<1>14. ASSUME NEW o \in Orders, Shuffle(o) PROVE DecoderIsHeld'
  <2>1. job' = NoJob
    BY <1>14 DEF Shuffle, InFlight, DecoderIsAwaited
  <2>2. QED
    BY <1>14, <1>2, <2>1 DEF Shuffle
<1>15. ASSUME NEW r \in Regions, Reshape(r) PROVE DecoderIsHeld'
  <2>1. job' = NoJob
    BY <1>15 DEF Reshape, InFlight, DecoderIsAwaited
  <2>2. QED
    BY <1>15, <1>2, <2>1 DEF Reshape
<1>16. CASE UNCHANGED vars
  BY <1>16, <1>1 DEF vars, pool, build, store
<1>17. QED
  BY CacheSteps, <1>5, <1>6, <1>7, <1>8, <1>9, <1>10, <1>11, <1>12, <1>13, <1>14, <1>15, <1>16 DEF CacheInv, PoolConsistent

-----------------------------------------------------------------------------
(***************************************************************************)
(* What the records say of the slots.                                      *)
(***************************************************************************)

\* READY and DECODING stay true of the slots.
LEMMA NextRecords == CacheInv /\ [Next]_vars => RecordsMatchPool'
<1> SUFFICES ASSUME CacheInv, [Next]_vars PROVE RecordsMatchPool'
  OBVIOUS
<1> USE DEF CacheInv, PoolConsistent
<1>1. ASSUME UNCHANGED <<slots, decodingSlot, order>>,
             \A g \in Games : \/ art'[g] = art[g]
                              \/ {art[g], art'[g]} \cap {"READY", "DECODING"} = {}
      PROVE  RecordsMatchPool'
  BY <1>1, PlacesAreDistinct DEF RecordsMatchPool, Resident, Filled
<1>2. \A i \in Ids : order[i] \in Games
  BY PlacesAreDistinct
<1>3. \A i, j \in Ids : order[i] = order[j] => i = j
  BY PlacesAreDistinct
<1>4. \A s \in Slots : ArtWithout(s) \in [Games -> {"PENDING", "COSTLY", "DECODING", "READY", "NONE"}]
  BY DEF ArtWithout, TypeOK
<1>5. ASSUME RunGuard PROVE job = NoJob /\ decodingSlot = 0 /\ \A g \in Games : art[g] # "DECODING"
  BY <1>5, NobodyWaits DEF RunGuard, DecodeHasItsPlace
<1>6. ASSUME BuildGuard PROVE job = NoJob
  BY <1>6, NobodyWaits DEF BuildGuard, DecodeHasItsPlace
<1>7. ASSUME NEW s \in Slots, decodingSlot = 0, decodingSlot' = 0, order' = order,
             slots' = [slots EXCEPT ![s] = [rom |-> 0, tile |-> Empty]],
             art' = ArtWithout(s) \/ \E passed : art' = ArtPassed(ArtWithout(s), passed)
      PROVE  RecordsMatchPool'
  <2>1. \A i \in Ids : Resident(i)' <=> \E o \in Slots \ {s} : Filled(o) /\ slots[o].rom = i
    BY <1>7 DEF Resident, Filled, TypeOK
  <2>2. \A i \in Ids : art'[order[i]] = "READY" <=> ArtWithout(s)[order[i]] = "READY"
    BY <1>2, <1>4, <1>7, PassedMovesOn
  <2>3. \A g \in Games : art[g] # "DECODING"
    BY <1>7, EveryTitleHasAPlace DEF RecordsMatchPool, TypeOK
  <2>4. \A g \in Games : ArtWithout(s)[g] # "DECODING"
    BY <2>3, EvictedIsPending
  <2>5. \A g \in Games : art'[g] # "DECODING"
    BY <1>4, <1>7, <2>4, PassedMovesOn
  <2>6. QED
    BY <1>2, <1>7, <2>1, <2>2, <2>5, EvictedIsPending DEF RecordsMatchPool
<1>8. \A g \in Games : \A passed :
          \/ ArtPassed(art, passed)[g] = art[g]
          \/ {art[g], ArtPassed(art, passed)[g]} \cap {"READY", "DECODING"} = {}
  BY PassedMovesOn DEF TypeOK
<1>9. ASSUME NEW c \in Ids, NEW t \in Ids, Frame(c, t) PROVE RecordsMatchPool'
  BY <1>9, <1>1 DEF Frame
<1>10. CASE Fetch
  <2>1. PICK s \in Slots : (\E k \in Fitting : Fetched(k, s)) \/ Released(s)
    BY <1>10 DEF Fetch
  <2>2. order' = order /\ decodingSlot = 0 /\ decodingSlot' = 0
    BY <1>10 DEF Fetch
  <2>3. CASE Released(s)
    BY <1>7, <2>2, <2>3 DEF Released
  <2>4. ASSUME NEW k \in Fitting, Fetched(k, s) PROVE RecordsMatchPool'
    <3> DEFINE w == wanted[k]
    <3>1. w \in Ids /\ order[w] \in Games /\ art[order[w]] \notin {"READY", "DECODING"}
      BY FetchTakesPending
    <3>2. slots' = [slots EXCEPT ![s] = [rom |-> w, tile |-> Atlas!Tile(order[w], ShapeOf(order[w]))]]
      BY <2>4 DEF Fetched
    <3>3. Atlas!Tile(order[w], ShapeOf(order[w])) # Empty
      BY <3>1, TileFills, CacheAssumption DEF CacheAssumption, ShapeOf, TypeOK
    <3>4. \A i \in Ids : Resident(i)' <=> i = w \/ \E o \in Slots \ {s} : Filled(o) /\ slots[o].rom = i
      BY <3>2, <3>3 DEF Resident, Filled, TypeOK
    <3>5. \A g \in Games : art'[g] = IF g = order[w] THEN "READY" ELSE ArtWithout(s)[g]
      BY <1>4, <2>4 DEF Fetched
    <3>6. \A g \in Games : art'[g] # "DECODING"
      BY <2>2, <3>5, EvictedIsPending, EveryTitleHasAPlace DEF RecordsMatchPool, TypeOK
    <3>7. \A i \in Ids : art'[order[i]] = "READY" <=> i = w \/ ArtWithout(s)[order[i]] = "READY"
      BY <1>2, <1>3, <3>1, <3>5
    <3>8. QED
      BY <1>2, <2>2, <3>4, <3>6, <3>7, EvictedIsPending DEF RecordsMatchPool
  <2>5. QED
    BY <2>1, <2>3, <2>4
<1>11. CASE BuildStart
  <2>1. PICK i \in Buildable : WalkedPast(i)
    BY <1>11 DEF BuildStart
  <2>2. job = NoJob /\ UNCHANGED <<slots, decodingSlot, order>>
    BY <1>11, <1>6 DEF BuildStart, pool
  <2>3. ASSUME NEW g \in Games
        PROVE  art'[g] = art[g] \/ {art[g], art'[g]} \cap {"READY", "DECODING"} = {}
    BY <1>11, <2>1, <2>2, WalkedSettles, NobodyWaits
    DEF ArtHasCover, Usable, BuildStart, BuildGuard, DecodeHasItsPlace
  <2>4. QED
    BY <1>1, <2>2, <2>3
<1>12. CASE BuildFinished
  <2>1. job = NoJob /\ UNCHANGED <<slots, decodingSlot, order>> /\ WalkedPast(N + 1)
    BY <1>12, <1>6 DEF BuildFinished, pool
  <2>2. ASSUME NEW g \in Games
        PROVE  art'[g] = art[g] \/ {art[g], art'[g]} \cap {"READY", "DECODING"} = {}
    BY <1>12, <2>1, WalkedSettles, NobodyWaits
    DEF ArtHasCover, Usable, BuildFinished, BuildGuard, DecodeHasItsPlace
  <2>3. QED
    BY <1>1, <2>1, <2>2
<1>13. CASE BuildDone
  <2>1. job # NoJob /\ job.done = "build_done" /\ UNCHANGED <<slots, decodingSlot, order>>
    BY <1>13 DEF BuildDone, Polled, pool
  <2>2. CASE Cover[job.src] = "corrupt"
    <3>1. art' = [art EXCEPT ![job.src] = "NONE"] /\ job.src \in Games
      BY <1>13, <2>1, <2>2, DoneByWhom DEF BuildDone
    <3>2. art[job.src] # "READY"
      BY <2>2, <3>1 DEF ArtHasCover, Usable
    <3>3. art[job.src] # "DECODING"
      BY <2>1, <3>1, DoneByWhom, EveryTitleHasAPlace DEF RecordsMatchPool, TypeOK
    <3>4. ASSUME NEW g \in Games
          PROVE  art'[g] = art[g] \/ {art[g], art'[g]} \cap {"READY", "DECODING"} = {}
      BY <3>1, <3>2, <3>3 DEF TypeOK
    <3>5. QED
      BY <1>1, <2>1, <3>4
  <2>3. CASE Cover[job.src] # "corrupt"
    BY <1>13, <1>1, <2>1, <2>3 DEF BuildDone
  <2>4. QED
    BY <2>2, <2>3
<1>14. CASE RunStart
  <2>1. PICK k \in Starters, s \in Slots :
          /\ slots' = [slots EXCEPT ![s] = [rom |-> Passes[k].id, tile |-> Empty]]
          /\ decodingSlot' = s
          /\ art' = [ArtPassed(ArtWithout(s), Before(k)) EXCEPT ![order[Passes[k].id]] = "DECODING"]
    BY <1>14 DEF RunStart
  <2> DEFINE w == Passes[k].id
             a == ArtPassed(ArtWithout(s), Before(k))
  <2>2. order' = order /\ decodingSlot = 0 /\ \A g \in Games : art[g] # "DECODING"
    BY <1>14, <1>5 DEF RunStart
  <2>3. w \in Ids /\ order[w] \in Games /\ art[order[w]] \notin {"READY", "DECODING"}
    BY StartTakesPending
  <2>4. \A i \in Ids : Resident(i)' <=> \E o \in Slots \ {s} : Filled(o) /\ slots[o].rom = i
    BY <2>1 DEF Resident, Filled, TypeOK
  <2>5. \A g \in Games : art'[g] = IF g = order[w] THEN "DECODING" ELSE a[g]
    BY <2>1 DEF ArtPassed
  <2>6. \A g \in Games : a[g] = "READY" <=> ArtWithout(s)[g] = "READY"
    BY <1>4, PassedMovesOn
  <2>7. \A g \in Games : a[g] # "DECODING"
    BY <1>4, <2>2, EvictedIsPending, PassedMovesOn
  <2>8. ArtWithout(s)[order[w]] # "READY"
    BY <2>3, EvictedIsPending
  <2>9. \A i \in Ids : art'[order[i]] = "READY" <=> ArtWithout(s)[order[i]] = "READY"
    BY <1>2, <2>5, <2>6, <2>8
  <2>10. \A i \in Ids : art'[order[i]] = "DECODING" <=> i = w
    BY <1>2, <1>3, <2>3, <2>5, <2>7
  <2>11. decodingSlot' # 0 /\ slots'[decodingSlot'].rom = w
    BY <2>1, NoSlotZero DEF TypeOK
  <2>12. QED
    BY <2>2, <2>4, <2>9, <2>10, <2>11, EvictedIsPending DEF RecordsMatchPool
<1>15. CASE RunNoSlot
  <2>1. PICK k \in Claimants : art' = ArtPassed(art, Before(k))
    BY <1>15 DEF RunNoSlot
  <2>2. UNCHANGED <<slots, decodingSlot, order>>
    BY <1>15 DEF RunNoSlot, pool
  <2>3. QED
    BY <1>1, <1>8, <2>1, <2>2
<1>16. CASE RunDry
  <2>1. decodingSlot = 0 /\ decodingSlot' = 0 /\ order' = order
    BY <1>16 DEF RunDry, RunGuard
  <2>2. CASE UNCHANGED <<slots, age>> /\ art' = ArtPassed(art, Range(order))
    BY <1>1, <1>8, <2>1, <2>2
  <2>3. ASSUME NEW s \in Slots, slots' = [slots EXCEPT ![s] = [rom |-> 0, tile |-> Empty]],
               art' = ArtPassed(ArtWithout(s), Range(order))
        PROVE  RecordsMatchPool'
    <3>1. \E passed : art' = ArtPassed(ArtWithout(s), passed)
      BY <2>3
    <3>2. QED
      BY <1>7, <2>1, <2>3, <3>1
  <2>4. QED
    BY <1>16, <2>2, <2>3 DEF RunDry
<1>17. CASE DecodeDone
  <2> DEFINE d == decodingSlot
             j == job.rec
  <2>1. job # NoJob /\ job.done = "decode_done" /\ order' = order /\ decodingSlot' = 0
    BY <1>17 DEF DecodeDone, Polled
  <2>2. /\ d \in Slots /\ d # 0 /\ slots[d].rom = j /\ ~ Filled(d) /\ j \in Ids
        /\ order[j] = job.src /\ job.src \in Games /\ job.shape \in Shapes
    BY <2>1, DoneByWhom, NoSlotZero
  <2>3. /\ art[order[j]] = "DECODING"
        /\ \A i \in Ids : art[order[i]] = "DECODING" => i = j
    BY <2>2 DEF RecordsMatchPool
  <2>4. CASE Cover[job.src] = "corrupt"
    <3>1. art' = [art EXCEPT ![order[j]] = "NONE"] /\ slots' = slots
      BY <1>17, <2>4 DEF DecodeDone
    <3>2. \A i \in Ids : art'[order[i]] = IF i = j THEN "NONE" ELSE art[order[i]]
      BY <1>2, <1>3, <2>2, <3>1 DEF TypeOK
    <3>3. \A i \in Ids : Resident(i)' <=> Resident(i)
      BY <3>1 DEF Resident, Filled
    <3>4. QED
      BY <2>1, <2>3, <3>2, <3>3 DEF RecordsMatchPool
  <2>5. CASE Cover[job.src] # "corrupt"
    <3>1. /\ art' = [art EXCEPT ![order[j]] = "READY"]
          /\ slots' = [slots EXCEPT ![d].tile = Atlas!Tile(job.src, job.shape)]
      BY <1>17, <2>5 DEF DecodeDone
    <3>2. \A i \in Ids : art'[order[i]] = IF i = j THEN "READY" ELSE art[order[i]]
      BY <1>2, <1>3, <2>2, <3>1 DEF TypeOK
    <3>3. /\ slots'[d].rom = j /\ slots'[d].tile # Empty
          /\ \A o \in Slots \ {d} : slots'[o] = slots[o]
      BY <2>2, <3>1, TileFills DEF TypeOK
    <3>4. \A i \in Ids : Resident(i)' <=> i = j \/ Resident(i)
      BY <2>2, <3>3 DEF Resident, Filled
    <3>5. QED
      BY <2>1, <2>3, <3>2, <3>4 DEF RecordsMatchPool
  <2>6. QED
    BY <2>4, <2>5
<1>18. ASSUME NEW o \in Orders, Shuffle(o) PROVE RecordsMatchPool'
  <2>1. order' = o /\ decodingSlot' = 0
    BY <1>18 DEF Shuffle
  <2>2. \A i \in Ids : o[i] \in Games
    BY DEF Orders
  <2>3. \A s \in Slots : Filled(s)' <=> Filled(s)
    <3>1. \A s \in Slots : slots[s] \in [rom : 0 .. N, tile : Atlas!Tiles \cup {Empty}]
      BY DEF TypeOK
    <3>2. QED
      BY <1>18, <3>1 DEF Shuffle, Rebound, Filled
  <2>4. ASSUME NEW s \in Slots, Filled(s) PROVE slots'[s].rom = Index(o, order[slots[s].rom])
    <3>1. slots'[s] = [slots[s] EXCEPT !.rom = Index(o, order[slots[s].rom])]
      BY <1>18, <2>4 DEF Shuffle, Rebound
    <3>2. slots[s] \in [rom : 0 .. N, tile : Atlas!Tiles \cup {Empty}]
      BY DEF TypeOK
    <3>3. QED
      BY <3>1, <3>2
  <2>5. ASSUME NEW g \in Games
        PROVE  /\ art'[g] # "DECODING"
               /\ art'[g] = "READY" <=> \E s \in Slots : Filled(s) /\ order[slots[s].rom] = g
    <3>1. Index(order, g) \in Ids /\ order[Index(order, g)] = g
      BY IndexLeadsBack DEF TypeOK
    <3>2. art[g] = "READY" <=> Resident(Index(order, g))
      BY <3>1 DEF RecordsMatchPool
    <3>3. art'[g] = IF Orphan(g) THEN "PENDING" ELSE art[g]
      BY <1>18 DEF Shuffle
    <3>4. Resident(Index(order, g)) <=> \E s \in Slots : Filled(s) /\ order[slots[s].rom] = g
      BY <1>3, <3>1 DEF Resident, SlotsAreForTitles
    <3>5. QED
      BY <3>2, <3>3, <3>4 DEF Orphan
  <2>6. ASSUME NEW i \in Ids PROVE Resident(i)' <=> \E s \in Slots : Filled(s) /\ order[slots[s].rom] = o[i]
    <3>1. \A g \in Games : Index(o, g) = i <=> g = o[i]
      BY IndexLeadsBack, IndexOfPlace
    <3>2. \A s \in Slots : Filled(s) => order[slots[s].rom] \in Games
      BY <1>2 DEF SlotsAreForTitles
    <3>3. \A s \in Slots : Filled(s) => (slots'[s].rom = i <=> order[slots[s].rom] = o[i])
      BY <2>4, <3>1, <3>2
    <3>4. QED
      BY <2>3, <3>3 DEF Resident
  <2>7. QED
    BY <2>1, <2>2, <2>5, <2>6 DEF RecordsMatchPool
<1>19. ASSUME NEW r \in Regions, Reshape(r) PROVE RecordsMatchPool'
  <2>1. order' = order /\ decodingSlot' = 0 /\ \A s \in Slots : ~ Filled(s)'
    BY <1>19 DEF Reshape, Filled
  <2>2. ASSUME NEW i \in Ids PROVE art'[order[i]] \notin {"READY", "DECODING"}
    <3>1. Index(order, order[i]) = i
      BY IndexOfPlace DEF TypeOK
    <3>2. art'[order[i]] = IF art[order[i]] = "DECODING" \/ Resident(i) THEN "PENDING" ELSE art[order[i]]
      BY <1>19, <1>2, <3>1 DEF Reshape
    <3>3. QED
      BY <3>2 DEF RecordsMatchPool
  <2>3. QED
    BY <2>1, <2>2 DEF RecordsMatchPool, Resident
<1>20. CASE UNCHANGED vars
  BY <1>20, <1>1 DEF vars, pool
<1>21. QED
  BY CacheSteps, <1>9, <1>10, <1>11, <1>12, <1>13, <1>14, <1>15, <1>16, <1>17, <1>18, <1>19, <1>20 DEF CacheInv, PoolConsistent

-----------------------------------------------------------------------------
\* The inductive invariant of the pool.
THEOREM CacheInvariant == Spec => []CacheInv
<1>1. Init => CacheInv
  BY InitCache
<1>2. CacheInv /\ [Next]_vars => CacheInv'
  BY NextTypes, NextRecords, NextHeld, NextShows, NextCovers
  DEF CacheInv, PoolConsistent, DecoderIsHeld, PoolShows, ArtIsFromCovers
<1>3. QED
  BY <1>1, <1>2, PTL DEF Spec

\* A slot only ever shows the tile of the title it is for, at the shape its
\* cell has, whatever is renamed, evicted or cut again.
THEOREM SlotsShowTheirOwnArt == Spec => []SlotShowsOwnArt
<1>1. CacheInv => SlotShowsOwnArt
  BY DEF CacheInv
<1>2. QED
  BY <1>1, CacheInvariant, PTL

\* Records, slots and the decoder agree in every reachable state: no record is
\* READY without a tile, none is left DECODING, and a finished decode is
\* written to the record of the game it was started for.
THEOREM PoolStaysConsistent == Spec => []PoolConsistent
<1>1. CacheInv => PoolConsistent
  BY DEF CacheInv
<1>2. QED
  BY <1>1, CacheInvariant, PTL

\* No title with art that decodes is ever settled as having none.
THEOREM UsableArtIsNotGivenUp == Spec => []NoArtOnlyIfUnusable
<1>1. CacheInv => NoArtOnlyIfUnusable
  BY DEF CacheInv
<1>2. QED
  BY <1>1, CacheInvariant, PTL

-----------------------------------------------------------------------------
(***************************************************************************)
(* When the build is complete.                                             *)
(***************************************************************************)
\* The atlas has room for every title and takes each one's tile, which no
\* setting cuts differently and no earlier boot did.
EveryTileFits ==
    /\ N <= AtlasRoom /\ "write" \notin StoreFaults
    /\ \A r, q \in Regions, g \in Games :
          ShapeIn[r][g] \in Storable /\ ShapeIn[r][g] = ShapeIn[q][g] /\ Warm \subseteq {ShapeIn[r][g]}

\* Is there a tile of the title, at whatever shape?
Held(f, g) == \E e \in f : e.src = g

\* The atlas has tiles at the shapes of their titles.  With an atlas, what the
\* walk has passed is in it, or is what the build decodes now; what was
\* complete stays so.
FoundFits == found \subseteq {Atlas!Entry(g, ShapeOf(g)) : g \in Games}
WalkedIsKnown ==
    storeUp => \A i \in Ids : i < buildNext /\ order[i] \in Usable =>
                  Held(found, order[i]) \/ (buildActive /\ job.rec = i)
CompleteIsKnown == buildComplete => \A g \in Usable : Held(found, g)

BuildInv == FoundFits /\ WalkedIsKnown /\ CompleteIsKnown

\* Then there is one tile of a title at most, at its shape.
LEMMA FoundAreOwn ==
  ASSUME FoundFits
  PROVE  /\ \A e \in found : e.src \in Games /\ e.shape = ShapeOf(e.src)
         /\ \A d, e \in found : d.src = e.src => d = e
<1>1. \A e \in found : e.src \in Games /\ e.shape = ShapeOf(e.src) /\ e = Atlas!Entry(e.src, ShapeOf(e.src))
  BY DEF FoundFits, Atlas!Entry
<1>2. QED
  BY <1>1

\* A title that is not in the atlas finds room.
LEMMA RoomForOneMore ==
  ASSUME EveryTileFits, FoundFits, TypeOK, storeUp, NEW g \in Games, ~ Held(found, g)
  PROVE  Accepts(g, ShapeOf(g))
<1> DEFINE T == Games \ {g}
           f == [e \in found |-> e.src]
<1>1. IsFiniteSet(Games) /\ N \in Nat
  BY CacheAssumption, SomeTitle DEF CacheAssumption
<1>2. IsFiniteSet(T) /\ Cardinality(T) = N - 1
  BY <1>1, FS_RemoveElement DEF N
<1>3. f \in Injection(found, T)
  <2>1. \A e \in found : e.src \in T
    BY FoundAreOwn DEF Held
  <2>2. QED
    BY <2>1, FoundAreOwn DEF Injection, IsInjective
<1>4. IsFiniteSet(found) /\ Cardinality(found) <= N - 1
  BY <1>2, <1>3, FS_Injection
<1>5. Cardinality(found) < AtlasRoom
  BY <1>1, <1>4, CacheAssumption, FS_CardinalityType DEF CacheAssumption, EveryTileFits
<1>6. ShapeOf(g) \in Storable
  BY DEF EveryTileFits, ShapeOf, TypeOK
<1>7. QED
  BY <1>5, <1>6 DEF Accepts, Held, Atlas!Known

\* No setting cuts a title differently.
LEMMA ShapesStay ==
  ASSUME EveryTileFits, TypeOK, TypeOK'
  PROVE  \A g \in Games : ShapeOf(g)' = ShapeOf(g)
BY DEF EveryTileFits, ShapeOf, TypeOK

\* A step that stores nothing, and leaves the walk and what it decodes alone.
LEMMA BuildUntouched ==
  ASSUME EveryTileFits, TypeOK, TypeOK', BuildInv, found' = found, storeUp' => storeUp, order' = order,
         buildComplete' = buildComplete,
         storeUp' => UNCHANGED <<buildNext, buildActive, job>>
  PROVE  BuildInv'
<1>1. FoundFits'
  BY ShapesStay DEF BuildInv, FoundFits
<1>2. WalkedIsKnown'
  BY DEF BuildInv, WalkedIsKnown, Held
<1>3. CompleteIsKnown'
  BY DEF BuildInv, CompleteIsKnown, Held
<1>4. QED
  BY <1>1, <1>2, <1>3 DEF BuildInv

\* The walk starts over, unless it was complete.
LEMMA WalkStartsOver ==
  ASSUME EveryTileFits, TypeOK, TypeOK', BuildInv, UNCHANGED store,
         buildComplete' => buildComplete, buildComplete' \/ buildNext' = 1
  PROVE  BuildInv'
<1>1. FoundFits'
  BY ShapesStay DEF BuildInv, FoundFits, store
<1>2. CompleteIsKnown'
  BY DEF BuildInv, CompleteIsKnown, Held, store
<1>3. WalkedIsKnown'
  <2>1. CASE buildComplete'
    <3>1. \A g \in Usable : Held(found', g)
      BY <2>1, <1>2 DEF CompleteIsKnown
    <3>2. QED
      BY <3>1 DEF WalkedIsKnown, Held
  <2>2. CASE buildNext' = 1
    BY <2>2, SomeTitle DEF WalkedIsKnown, Ids
  <2>3. QED
    BY <2>1, <2>2
<1>4. QED
  BY <1>1, <1>2, <1>3 DEF BuildInv

\* What the walk goes past is in the atlas or cannot be decoded.
LEMMA PassedIsKnown ==
  ASSUME CacheInv, BuildInv, BuildGuard, NEW i \in Ids, order[i] \in Usable, ~ Held(found, order[i])
  PROVE  i \in Buildable
<1>1. order[i] \in Games /\ Cover[order[i]] \in {"cheap", "costly"}
  BY DEF Usable
<1>2. i >= buildNext
  <2>1. storeUp /\ ~ buildActive
    BY DEF BuildGuard
  <2>2. ~ (i < buildNext)
    BY <2>1 DEF BuildInv, WalkedIsKnown
  <2>3. i \in Int /\ buildNext \in Int
    BY SomeTitle DEF CacheInv, PoolConsistent, TypeOK, Ids
  <2>4. QED
    BY <2>2, <2>3
<1>3. art[order[i]] # "NONE"
  BY <1>1 DEF CacheInv, NoArtOnlyIfUnusable
<1>4. job = NoJob
  <2>1. decodingSlot = 0
    BY DEF BuildGuard, CacheInv, DecodeHasItsPlace
  <2>2. QED
    BY <2>1, NobodyWaits DEF BuildGuard
<1>5. QED
  BY <1>1, <1>2, <1>3, <1>4 DEF Buildable, ToBuild, Ahead, Opens, Held, Atlas!Known

\* A set of numbers that is not empty has its least member.
LEMMA MinIsLeast ==
  ASSUME NEW S \in SUBSET Nat, S # {}
  PROVE  Min(S) \in S /\ \A y \in S : Min(S) <= y
<1>1. PICK x \in S : \A y \in S : ~ (<<y, x>> \in OpToRel(<, Nat))
  BY WFMin, NatLessThanWellFounded
<1>2. \A y \in S : ~ (y < x)
  BY <1>1 DEF OpToRel
<1>3. \A y \in S : x <= y
  BY <1>2
<1>4. QED
  BY <1>3 DEF Min

\* The walk only ever passes what is in the atlas.
LEMMA NextBuilt == EveryTileFits /\ CacheInv /\ CacheInv' /\ BuildInv /\ [Next]_vars => BuildInv'
<1> SUFFICES ASSUME EveryTileFits, CacheInv, CacheInv', BuildInv, [Next]_vars PROVE BuildInv'
  OBVIOUS
<1>1. TypeOK /\ TypeOK'
  BY DEF CacheInv, PoolConsistent
<1>2. ASSUME NEW c \in Ids, NEW t \in Ids, Frame(c, t) PROVE BuildInv'
  BY <1>1, <1>2, BuildUntouched DEF Frame, build, store
<1>3. CASE Fetch
  <2>1. decodingSlot = 0
    BY <1>3 DEF Fetch
  <2>2. QED
    BY <1>1, <1>3, BuildUntouched DEF Fetch, build, store
<1>4. CASE BuildStart
  <2>1. PICK i \in Buildable : i = Min(Buildable) /\ buildNext' = i + 1 /\ job' = Decoding("build_done", i)
    BY <1>4 DEF BuildStart
  <2>2. BuildGuard /\ buildActive' = TRUE /\ UNCHANGED <<order, buildComplete, region, storeUp, found>>
    BY <1>4 DEF BuildStart, store
  <2>3. Buildable \subseteq Nat /\ i \in Ids
    BY <2>1, SomeTitle DEF Buildable, ToBuild, Ahead, Ids
  <2>4. \A j \in Buildable : i <= j
    BY <2>1, <2>3, MinIsLeast
  <2>5. job'.rec = i
    BY <2>1 DEF Decoding
  <2>6. WalkedIsKnown'
    <3>1. ASSUME NEW j \in Ids, j < i + 1, order[j] \in Usable, ~ Held(found, order[j]) PROVE j = i
      <4>1. j \in Buildable
        BY <2>2, <3>1, PassedIsKnown
      <4>2. i <= j
        BY <2>4, <4>1
      <4>3. QED
        BY <3>1, <4>2, <2>3, SomeTitle DEF Ids
    <3>2. \A j \in Ids : j < buildNext' /\ order'[j] \in Usable => Held(found', order'[j]) \/ (buildActive' /\ job'.rec = j)
      BY <2>1, <2>2, <2>5, <3>1 DEF Held
    <3>3. QED
      BY <3>2 DEF WalkedIsKnown
  <2>7. FoundFits' /\ CompleteIsKnown'
    BY <1>1, <2>2, ShapesStay DEF BuildInv, FoundFits, CompleteIsKnown, Held
  <2>8. QED
    BY <2>6, <2>7 DEF BuildInv
<1>5. CASE BuildFinished
  <2>1. BuildGuard /\ Buildable = {} /\ UNCHANGED <<order, region, storeUp, found>>
    BY <1>5 DEF BuildFinished, store
  <2>2. \A i \in Ids : order[i] \in Usable => Held(found, order[i])
    BY <2>1, PassedIsKnown
  <2>3. \A g \in Usable : Held(found, g)
    BY <1>1, <2>2, PlacesAreDistinct DEF Usable
  <2>4. WalkedIsKnown' /\ CompleteIsKnown'
    BY <2>1, <2>2, <2>3 DEF WalkedIsKnown, CompleteIsKnown, Held
  <2>5. FoundFits'
    BY <1>1, <2>1, ShapesStay DEF BuildInv, FoundFits
  <2>6. QED
    BY <2>4, <2>5 DEF BuildInv
<1>6. CASE BuildDone
  <2>1. job # NoJob /\ job.done = "build_done" /\ UNCHANGED <<order, buildNext, buildComplete, region>>
    BY <1>6 DEF BuildDone, Polled
  <2>2. storeUp /\ job.rec \in Ids /\ job.src \in Games /\ order[job.rec] = job.src /\ job.shape = ShapeOf(job.src)
    BY <2>1, DoneByWhom
  <2>3. CASE Cover[job.src] = "corrupt"
    <3>1. UNCHANGED <<storeUp, found>> /\ ~ buildActive'
      BY <1>6, <2>3 DEF BuildDone, store
    <3>2. job.src \notin Usable
      BY <2>3 DEF Usable
    <3>3. WalkedIsKnown' /\ CompleteIsKnown'
      BY <2>1, <2>2, <3>1, <3>2 DEF BuildInv, WalkedIsKnown, CompleteIsKnown, Held
    <3>4. FoundFits'
      BY <1>1, <3>1, ShapesStay DEF BuildInv, FoundFits
    <3>5. QED
      BY <3>3, <3>4 DEF BuildInv
  <2>4. CASE Cover[job.src] # "corrupt"
    <3>1. Put(job.src, job.shape)
      BY <1>6, <2>4 DEF BuildDone
    <3>2. Held(found', job.src)
      <4>1. CASE Held(found, job.src)
        BY <1>1, <3>1, <4>1, PutKeeps DEF TypeOK, Held
      <4>2. CASE ~ Held(found, job.src)
        <5>1. Accepts(job.src, job.shape)
          BY <1>1, <2>2, <4>2, RoomForOneMore DEF BuildInv
        <5>2. Atlas!Store(job.src, job.shape)
          BY <3>1, <5>1 DEF Put, EveryTileFits
        <5>3. Atlas!Entry(job.src, job.shape) \in found' /\ Atlas!Entry(job.src, job.shape).src = job.src
          BY <5>2 DEF Atlas!Store, Atlas!Entry
        <5>4. QED
          BY <5>3 DEF Held
      <4>3. QED
        BY <4>1, <4>2
    <3>3. found' = found \/ found' = found \cup {Atlas!Entry(job.src, job.shape)}
      BY <1>1, <3>1, PutKeeps DEF TypeOK
    <3>4. \A g : Held(found, g) => Held(found', g)
      BY <3>3 DEF Held
    <3>5. FoundFits'
      BY <1>1, <2>2, <3>3, ShapesStay DEF BuildInv, FoundFits
    <3>6. WalkedIsKnown'
      BY <2>1, <2>2, <3>2, <3>4 DEF BuildInv, WalkedIsKnown
    <3>7. CompleteIsKnown'
      BY <2>1, <3>4 DEF BuildInv, CompleteIsKnown
    <3>8. QED
      BY <3>5, <3>6, <3>7 DEF BuildInv
  <2>5. QED
    BY <2>3, <2>4
<1>7. CASE RunStart \/ RunNoSlot \/ RunDry
  <2>1. ~ storeUp /\ UNCHANGED <<order, buildComplete, storeUp, found>>
    BY <1>7 DEF RunStart, RunNoSlot, RunDry, RunGuard, build, store
  <2>2. QED
    BY <1>1, <2>1, BuildUntouched
<1>8. CASE DecodeDone
  <2>1. job # NoJob /\ job.done = "decode_done" /\ UNCHANGED <<order, buildComplete>>
    BY <1>8 DEF DecodeDone, Polled, build
  <2>2. ~ storeUp
    BY <2>1, DoneByWhom
  <2>3. UNCHANGED <<storeUp, found>>
    BY <1>8, <2>2 DEF DecodeDone, Put, Accepts, store
  <2>4. QED
    BY <1>1, <2>1, <2>2, <2>3, BuildUntouched
<1>9. ASSUME NEW o \in Orders, Shuffle(o) PROVE BuildInv'
  BY <1>1, <1>9, WalkStartsOver DEF Shuffle
<1>10. ASSUME NEW r \in Regions, Reshape(r) PROVE BuildInv'
  BY <1>1, <1>10, WalkStartsOver DEF Reshape
<1>11. CASE UNCHANGED vars
  BY <1>1, <1>11, BuildUntouched DEF vars, build, store
<1>12. QED
  BY <1>1, CacheSteps, <1>2, <1>3, <1>4, <1>5, <1>6, <1>7, <1>8, <1>9, <1>10, <1>11

\* A build that calls itself complete is: every title whose cover decodes has
\* its tile, at the shape of its cell, whatever was renamed, cut or switched
\* meanwhile (thumbcache_build(), build_done() and prepare_shuffle()).  The
\* hypothesis leaves out an atlas that is full, takes no such width or fails
\* to write, and settings that cut a title anew.
THEOREM CompleteIsBuilt ==
  ASSUME EveryTileFits
  PROVE  Spec => []CompleteMeansBuilt
<1>1. Init => BuildInv
  <2> SUFFICES ASSUME Init PROVE BuildInv
    OBVIOUS
  <2>1. FoundFits
    <3>1. CASE ~ storeUp
      BY <3>1 DEF Init, FoundFits
    <3>2. CASE storeUp
      <4>1. PICK known \in SUBSET Games : \E cut \in [known -> Warm] : found = {Atlas!Entry(g, cut[g]) : g \in known}
        BY <3>2 DEF Init
      <4>2. PICK cut \in [known -> Warm] : found = {Atlas!Entry(g, cut[g]) : g \in known}
        BY <4>1
      <4>3. \A g \in known : cut[g] = ShapeOf(g)
        BY <4>2 DEF Init, EveryTileFits, ShapeOf
      <4>4. QED
        BY <4>2, <4>3 DEF FoundFits
    <3>3. QED
      BY <3>1, <3>2
  <2>2. WalkedIsKnown /\ CompleteIsKnown
    BY SomeTitle DEF Init, WalkedIsKnown, CompleteIsKnown, Ids
  <2>3. QED
    BY <2>1, <2>2 DEF BuildInv
<1>2. EveryTileFits
  OBVIOUS
<1>3. CacheInv /\ CacheInv' /\ BuildInv /\ [Next]_vars => BuildInv'
  BY <1>2, NextBuilt
<1>4. BuildInv => CompleteMeansBuilt
  <2> SUFFICES ASSUME BuildInv, buildComplete, NEW g \in Usable PROVE Atlas!Fits(g, ShapeOf(g))
    BY DEF CompleteMeansBuilt, Usable
  <2>1. Held(found, g)
    BY DEF BuildInv, CompleteIsKnown
  <2>2. QED
    BY <2>1, FoundAreOwn DEF BuildInv, Held, Atlas!Fits
<1>5. QED
  BY <1>1, <1>3, <1>4, CacheInvariant, PTL DEF Spec
=============================================================================
