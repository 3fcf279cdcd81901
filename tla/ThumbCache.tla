----------------------------- MODULE ThumbCache -----------------------------
(***************************************************************************)
(* The art on the grid: src/library/thumbcache.c, the image decoder it     *)
(* drives and the screens that call it.  A pool of slots holds decoded     *)
(* tiles; the atlas (TileAtlas, which ThumbStore implements) holds what    *)
(* was decoded on any boot.  With an atlas the screen fetches from it and  *)
(* a background build fills it in library order; without one the pool is   *)
(* filled by decoding on demand.                                           *)
(*                                                                         *)
(* Everything refers to a game by its index into library.records, which a  *)
(* rename sorts again, or by a pointer to that index's place.              *)
(*                                                                         *)
(* Indices and slots count from 1 here, from 0 in the code.                *)
(***************************************************************************)
EXTENDS Integers, FiniteSets, FiniteSetsExt, Functions

CONSTANTS
    Games,      \* the titles in the library, each with a cover path of its own
    Cover,      \* what is at that path: see Covers
    Shapes,     \* tile shapes
    Regions,    \* the box-art settings
    ShapeIn,    \* the shape a game's tile is cut to under a setting
    Storable,   \* the shapes thumbstore_put() accepts
    AtlasRoom,  \* MAX_SLOTS of the atlas
    StoreFaults,\* which ways of failing thumbstore_put() has
    Warm,       \* the shapes a tile may have on the card at boot
    BootOrders, \* the orders the library may be sorted into at boot
    PoolSize,   \* slot_limit
    Window,     \* titles on screen at once
    Margin,     \* titles asked for beyond the screen, either side
    MayShuffle, \* can a title be renamed?
    NoJob, Empty

\* none: no file.  broken: the decoder refuses to open it.  corrupt: it fails
\* part way.  cheap and costly: below and above THUMB_CHEAP_BYTES.
Covers == {"none", "broken", "corrupt", "cheap", "costly"}

N == Cardinality(Games)
Ids == 1 .. N
Orders == {o \in [Ids -> Games] : \A i, j \in Ids : o[i] = o[j] => i = j}
Jobs == [done : {"decode_done", "build_done"}, rec : Ids, src : Games, shape : Shapes]

ASSUME CacheAssumption ==
    /\ IsFiniteSet(Games) /\ Games # {}
    /\ Cover \in [Games -> Covers]
    /\ ShapeIn \in [Regions -> [Games -> Shapes]]
    /\ Storable \subseteq Shapes /\ Warm \subseteq Storable
    /\ AtlasRoom \in Nat
    /\ StoreFaults \subseteq {"write", "reopen"}
    /\ PoolSize \in Nat \ {0} /\ Window \in Nat \ {0} /\ Margin \in Nat
    /\ BootOrders \subseteq Orders
    /\ MayShuffle \in BOOLEAN
    /\ Empty \notin [src : Games, shape : Shapes] /\ NoJob \notin Jobs

VARIABLES
    order,          \* lib->records: which game is at each index
    art,            \* art_state of each game's record
    located,        \* games whose record has an art_file
    slots,          \* the pool: the index a slot is for, and the tile in it
    age,            \* last_wanted of each slot, as a rank: 0 is this frame
    decodingSlot,   \* decoding_slot, 0 when nothing is being decoded into one
    buildActive,    \* build_active
    buildNext,      \* build_next
    buildComplete,  \* build_complete
    idle,           \* no record is startable
    wanted,         \* indices asked for this frame and not resident, by get()'s turn
    job,            \* what the image decoder is decoding
    region,         \* the box-art setting
    storeUp,        \* thumbstore_available()
    found,          \* the atlas
    cursor, top     \* the grid's selection and first visible title

pool == <<slots, age, decodingSlot>>
build == <<buildActive, buildNext, buildComplete>>
screen == <<cursor, top>>
store == <<storeUp, found>>
vars == <<order, art, located, pool, build, idle, wanted, job, region, store, screen>>

Atlas == INSTANCE TileAtlas WITH Sources <- Games

Slots == 1 .. PoolSize

\* thumbcache_store_shape(): also the shape art_probe_shape() measured first.
ShapeOf(g) == ShapeIn[region][g]

Index(o, g) == CHOOSE i \in Ids : o[i] = g

\* find_slot(): a slot is used when there is a surface in it.
Filled(s) == slots[s].tile # Empty
Resident(i) == \E s \in Slots : Filled(s) /\ slots[s].rom = i
-----------------------------------------------------------------------------
\* A boot.  The atlas may hold tiles earlier boots decoded; library.idx may
\* have recorded where covers are, and is always right about it.
Init ==
    /\ order \in BootOrders
    /\ located \in SUBSET {g \in Games : Cover[g] # "none"}
    /\ region \in Regions
    /\ storeUp \in BOOLEAN
    /\ \E known \in SUBSET (located \cap {g \in Games : Cover[g] \in {"cheap", "costly"}}) :
          \E cut \in [known -> Warm] :
              found = IF storeUp THEN {Atlas!Entry(g, cut[g]) : g \in known} ELSE {}
    /\ art = [g \in Games |-> "PENDING"]
    /\ slots = [s \in Slots |-> [rom |-> 0, tile |-> Empty]]
    /\ age = [s \in Slots |-> 0]
    /\ decodingSlot = 0
    /\ buildActive = FALSE
    /\ buildNext = 1
    /\ buildComplete = FALSE
    /\ idle = FALSE
    /\ wanted = <<>>
    /\ job = NoJob
    /\ cursor = 1
    /\ top = 1
-----------------------------------------------------------------------------
(***************************************************************************)
(* A frame of the grid: begin_frame(), then get() for the selected title,  *)
(* then for every title from Margin before the window to Margin after it.  *)
(***************************************************************************)
Turns == 1 + Window + 2 * Margin
At(c, t, k) == IF k = 1 THEN c ELSE t - Margin + k - 2

\* get() in turn; turns beyond the library's ends, or for c again, fall away.
Asked(c, t) ==
    [k \in {k \in 1 .. Turns : k = 1 \/ At(c, t, k) \in Ids \ {c}} |-> At(c, t, k)]

\* Older stamps stay in order below the ones of this frame.
Restamped(hit) ==
    LET live == {s \in Slots : Filled(s) \/ s = decodingSlot} \ hit
    IN  [s \in Slots |->
            IF s \in live
              THEN 1 + Cardinality({age[o] : o \in {l \in live : age[l] < age[s]}})
              ELSE 0]

Frame(c, t) ==
    LET asked == Asked(c, t)
        shown == {asked[k] : k \in DOMAIN asked}
    IN  /\ cursor' = c
        /\ top' = t
        /\ age' = Restamped({s \in Slots : Filled(s) /\ slots[s].rom \in shown})
        /\ wanted' = Restrict(asked,
              {k \in DOMAIN asked : ~ Resident(asked[k]) /\ art[order[asked[k]]] # "NONE"})
        /\ idle' = (idle /\ wanted' = <<>>)
        /\ UNCHANGED <<order, art, located, slots, decodingSlot, build, job, region, store>>

\* The user leaves the grid as it is, or moves.
StillFrame == Frame(cursor, top)
MovedFrame == \E t \in Ids, c \in Ids : c \in t .. (t + Window - 1) /\ Frame(c, t)
-----------------------------------------------------------------------------
(***************************************************************************)
(* claim_slot(): a free slot, else for a visible tile the one asked for    *)
(* longest ago and not this frame; 0 when there is none.  A resident tile  *)
(* loses its slot and its record goes back to PENDING.                     *)
(***************************************************************************)
Free == {s \in Slots : ~ Filled(s)}
Stale == {s \in Slots : age[s] > 0}
Oldest == {s \in Stale : \A o \in Stale : age[o] <= age[s]}

\* Mutant: prefetches evict too.
ClaimAny(mayEvict) ==
    IF Free # {} THEN Min(Free) ELSE IF Stale # {} THEN Min(Oldest) ELSE 0
Claim(mayEvict) ==
    IF Free # {} THEN Min(Free)
    ELSE IF mayEvict /\ Stale # {} THEN Min(Oldest)
    ELSE 0

\* Mutant: the evicted record still says READY.
ArtNotTold(s) == art
ArtWithout(s) ==
    IF Filled(s) THEN [art EXCEPT ![order[slots[s].rom]] = "PENDING"] ELSE art
-----------------------------------------------------------------------------
(***************************************************************************)
(* thumbcache_fetch(), one tile of it: run_once() with cached_only.  Of    *)
(* the wanted records whose cover is located and in the atlas, the first   *)
(* one that fits gets the slot; each one before it was claimed for,        *)
(* refused by thumbstore_fetch() for its shape, and let go.                *)
(***************************************************************************)
InAtlas == {k \in DOMAIN wanted :
               LET g == order[wanted[k]]
               IN  art[g] \in {"PENDING", "COSTLY"} /\ g \in located /\ Atlas!Known(g)}
Fitting == {k \in InAtlas : Atlas!Fits(order[wanted[k]], ShapeOf(order[wanted[k]]))}

Fetched(k, s) ==
    LET g == order[wanted[k]]
    IN  /\ slots' = [slots EXCEPT
              ![s] = [rom |-> wanted[k], tile |-> Atlas!Tile(g, ShapeOf(g))]]
        /\ art' = [ArtWithout(s) EXCEPT ![g] = "READY"]

\* The slot was claimed, and whatever was in it given up, for nothing.
Released(s) ==
    /\ slots' = [slots EXCEPT ![s] = [rom |-> 0, tile |-> Empty]]
    /\ art' = ArtWithout(s)

Fetch ==
    /\ storeUp
    /\ decodingSlot = 0
    /\ InAtlas # {}
    /\ \E s \in Slots :
          /\ s = Claim(TRUE)
          /\ \/ \E k \in Fitting : k = Min(Fitting) /\ Fetched(k, s)
             \/ Fitting = {} /\ Released(s)
          /\ age' = [age EXCEPT ![s] = 0]
          /\ idle' = (idle /\ ~ Filled(s))
    /\ UNCHANGED <<order, located, decodingSlot, build, wanted, job, region, store, screen>>
-----------------------------------------------------------------------------
(***************************************************************************)
(* The image decoder: one decode at a time.  A start is refused while it   *)
(* is busy, as it is for a file it cannot read.                            *)
(***************************************************************************)
Opens(g) == job = NoJob /\ Cover[g] \in {"corrupt", "cheap", "costly"}

Decoding(done, i) == [done |-> done, rec |-> i, src |-> order[i], shape |-> ShapeOf(order[i])]

(***************************************************************************)
(* thumbstore_put(): the atlas stores the tile, or refuses it, or fails.   *)
(* The reopen after it may fail, and then there is no atlas any more.      *)
(***************************************************************************)
Accepts(g, sh) ==
    storeUp /\ sh \in Storable /\ Cardinality(found) < AtlasRoom /\ ~ Atlas!Known(g)

Put(g, sh) ==
    \/ /\ Accepts(g, sh)
       /\ Atlas!Store(g, sh)
       /\ storeUp' = TRUE \/ ("reopen" \in StoreFaults /\ storeUp' = FALSE)
    \/ /\ ~ Accepts(g, sh) \/ "write" \in StoreFaults
       /\ UNCHANGED store
-----------------------------------------------------------------------------
(***************************************************************************)
(* thumbcache_build(): walk the records from build_next to the first one   *)
(* that is not in the atlas and can be decoded.  Those passed on the way   *)
(* that have no usable cover are settled as having none.                   *)
(***************************************************************************)
\* Mutant: the walk skips the record it stopped at.
AheadButOne == {i \in Ids : i > buildNext /\ art[order[i]] # "NONE"}
Ahead == {i \in Ids : i >= buildNext /\ art[order[i]] # "NONE"}
ToBuild == {i \in Ahead : Cover[order[i]] # "none" /\ ~ Atlas!Known(order[i])}
Buildable == {i \in ToBuild : Opens(order[i])}

\* The records before index stop are walked past.
WalkedPast(stop) ==
    LET hopeless == {i \in Ahead : i < stop
                        /\ (Cover[order[i]] = "none" \/ i \in ToBuild \ Buildable)}
    IN  art' = [g \in Games |-> IF g \in {order[i] : i \in hopeless} THEN "NONE" ELSE art[g]]
LocatedTo(last) ==
    located' = located \cup {g \in {order[i] : i \in {h \in Ahead : h <= last}} : Cover[g] # "none"}

\* Mutant: the next decode is started without waiting for the last.
BuildGuardImpatient == storeUp /\ ~ buildComplete
BuildGuard == storeUp /\ ~ buildActive /\ ~ buildComplete

BuildStart ==
    /\ BuildGuard
    /\ \E i \in Buildable :
          /\ i = Min(Buildable)
          /\ WalkedPast(i)
          /\ LocatedTo(i)
          /\ buildNext' = i + 1
          /\ job' = Decoding("build_done", i)
    /\ buildActive' = TRUE
    /\ UNCHANGED <<order, pool, buildComplete, idle, wanted, region, store, screen>>

BuildFinished ==
    /\ BuildGuard
    /\ Buildable = {}
    /\ WalkedPast(N + 1)
    /\ LocatedTo(N)
    /\ buildNext' = N + 1
    /\ buildComplete' = TRUE
    /\ UNCHANGED <<order, pool, buildActive, idle, wanted, job, region, store, screen>>

\* Is the image decoder polled?  By the build with an atlas, by the pool
\* without one.
Polled == job # NoJob /\ IF storeUp THEN buildActive ELSE decodingSlot # 0

BuildDone ==
    /\ Polled
    /\ job.done = "build_done"
    /\ job' = NoJob
    /\ buildActive' = FALSE
    /\ IF Cover[job.src] = "corrupt"
         THEN art' = [art EXCEPT ![order[job.rec]] = "NONE"] /\ UNCHANGED store
         ELSE Put(job.src, job.shape) /\ UNCHANGED art
    /\ UNCHANGED <<order, located, pool, buildNext, buildComplete, idle, wanted, region, screen>>
-----------------------------------------------------------------------------
(***************************************************************************)
(* thumbcache_run(): run_once() without an atlas.  Four passes: the wanted *)
(* records and then all of them, each first for the covers not tried yet   *)
(* and then for the costly ones that first pass set aside.                 *)
(***************************************************************************)
Candidate(i, visible, costly) == [id |-> i, visible |-> visible, costly |-> costly]
WantedTwice == DOMAIN wanted \cup {Turns + k : k \in DOMAIN wanted}
AllTwice == (2 * Turns + 1) .. (2 * Turns + 2 * N)
Passes ==
    [k \in WantedTwice \cup AllTwice |->
        IF k <= Turns THEN Candidate(wanted[k], TRUE, FALSE)
        ELSE IF k <= 2 * Turns THEN Candidate(wanted[k - Turns], TRUE, TRUE)
        ELSE IF k <= 2 * Turns + N THEN Candidate(k - 2 * Turns, FALSE, FALSE)
        ELSE Candidate(k - 2 * Turns - N, FALSE, TRUE)]

\* Does the walk get as far as claim_slot() for this candidate?
Claims(c) ==
    LET g == order[c.id]
    IN  IF c.costly
          THEN Cover[g] = "costly" /\ art[g] \in {"PENDING", "COSTLY"}
          ELSE Cover[g] \in {"cheap", "corrupt", "broken"} /\ art[g] = "PENDING"

\* What the walk makes of the records of the games it has passed.
ArtPassed(a, passed) ==
    [g \in Games |->
        IF g \notin passed \/ a[g] # "PENDING" THEN a[g]
        ELSE IF Cover[g] = "costly" THEN "COSTLY"
        ELSE IF Cover[g] = "none" \/ ~ Opens(g) THEN "NONE"
        ELSE a[g]]

Claimants == {k \in DOMAIN Passes : Claims(Passes[k])}
Starters == {k \in Claimants : Opens(order[Passes[k].id])}
Before(k) == {order[Passes[j].id] : j \in {j \in DOMAIN Passes : j < k}}

\* A cover that claims a slot and does not open leaves it to the next one.
ClaimedSlot == IF Claimants = {} THEN 0 ELSE Claim(Passes[Min(Claimants)].visible)

LocatedBefore(k) ==
    located' = located \cup {g \in Before(k) : Cover[g] # "none" /\ art[g] = "PENDING"}

RunGuard == ~ storeUp /\ decodingSlot = 0 /\ (~ idle \/ wanted # <<>>)

RunStart ==
    /\ RunGuard
    /\ \E k \in Starters, s \in Slots :
          /\ k = Min(Starters)
          /\ s = ClaimedSlot
          /\ LocatedBefore(k + 1)
          /\ slots' = [slots EXCEPT ![s] = [rom |-> Passes[k].id, tile |-> Empty]]
          /\ age' = [age EXCEPT ![s] = 0]
          /\ decodingSlot' = s
          /\ job' = Decoding("decode_done", Passes[k].id)
          /\ art' = [ArtPassed(ArtWithout(s), Before(k)) EXCEPT ![order[Passes[k].id]] = "DECODING"]
          /\ idle' = (idle /\ ~ Filled(s))
    /\ UNCHANGED <<order, build, wanted, region, store, screen>>

\* no_slot(): a visible tile may find a slot next frame, a prefetch never.
RunNoSlot ==
    /\ RunGuard
    /\ ClaimedSlot = 0
    /\ \E k \in Claimants :
          /\ k = Min(Claimants)
          /\ LocatedBefore(k + 1)
          /\ art' = ArtPassed(art, Before(k))
          /\ idle' = (idle \/ ~ Passes[k].visible)
    /\ UNCHANGED <<order, pool, build, wanted, job, region, store, screen>>

\* Four full passes found nothing startable.
RunDry ==
    /\ RunGuard
    /\ Starters = {}
    /\ \/ Claimants = {} /\ UNCHANGED <<slots, age>> /\ art' = ArtPassed(art, Range(order))
       \/ \E s \in Slots :
             /\ s = ClaimedSlot
             /\ slots' = [slots EXCEPT ![s] = [rom |-> 0, tile |-> Empty]]
             /\ age' = [age EXCEPT ![s] = 0]
             /\ art' = ArtPassed(ArtWithout(s), Range(order))
    /\ LocatedBefore(2 * Turns + 2 * N + 1)
    /\ idle' = TRUE
    /\ UNCHANGED <<order, decodingSlot, build, wanted, job, region, store, screen>>

\* decode_done() writes to the record it was given at the start.
DecodeDone ==
    /\ Polled
    /\ job.done = "decode_done"
    /\ job' = NoJob
    /\ decodingSlot' = 0
    /\ IF Cover[job.src] = "corrupt"
         THEN /\ art' = [art EXCEPT ![order[job.rec]] = "NONE"]
              /\ UNCHANGED <<slots, store>>
         ELSE /\ art' = [art EXCEPT ![order[job.rec]] = "READY"]
              /\ slots' = [slots EXCEPT ![decodingSlot].tile = Atlas!Tile(job.src, job.shape)]
              /\ Put(job.src, job.shape)
    /\ UNCHANGED <<order, located, age, build, idle, wanted, region, screen>>
-----------------------------------------------------------------------------
(***************************************************************************)
(* A title is renamed: prepare_shuffle(), the sort, rebind().  A refused   *)
(* rename rebinds as well, with the records where they were.               *)
(***************************************************************************)
InFlight == decodingSlot # 0 \/ buildActive

\* Mutant: the slots keep the indices they had.
NotRebound(o) ==
    [s \in Slots |-> IF Filled(s) THEN slots[s] ELSE [rom |-> 0, tile |-> Empty]]
Rebound(o) ==
    [s \in Slots |->
        IF Filled(s) THEN [slots[s] EXCEPT !.rom = Index(o, order[slots[s].rom])]
        ELSE [rom |-> 0, tile |-> Empty]]

\* Mutant: the aborted record is left DECODING.
Stranded(g) == art[g] = "READY" /\ ~ Resident(Index(order, g))
Orphan(g) == art[g] = "DECODING" \/ (art[g] = "READY" /\ ~ Resident(Index(order, g)))

Shuffle(o) ==
    /\ order' = o
    /\ job' = IF InFlight THEN NoJob ELSE job
    /\ decodingSlot' = 0
    /\ slots' = Rebound(o)
    /\ art' = [g \in Games |-> IF Orphan(g) THEN "PENDING" ELSE art[g]]
    /\ buildActive' = FALSE
    /\ buildNext' = IF buildComplete THEN buildNext ELSE 1
    /\ wanted' = <<>>
    /\ idle' = FALSE
    /\ UNCHANGED <<located, age, buildComplete, region, store, screen>>

\* thumbcache_reshape(), when the box-art setting changes.
Reshape(r) ==
    /\ r # region
    /\ region' = r
    /\ job' = IF InFlight THEN NoJob ELSE job
    /\ decodingSlot' = 0
    /\ art' = [g \in Games |->
                  IF art[g] = "DECODING" \/ Resident(Index(order, g)) THEN "PENDING" ELSE art[g]]
    /\ slots' = [s \in Slots |-> [rom |-> 0, tile |-> Empty]]
    /\ buildActive' = FALSE
    /\ buildNext' = 1
    /\ buildComplete' = FALSE
    /\ idle' = FALSE
    /\ UNCHANGED <<order, located, age, wanted, store, screen>>
-----------------------------------------------------------------------------
Build == BuildStart \/ BuildFinished \/ BuildDone
Run == RunStart \/ RunNoSlot \/ RunDry \/ DecodeDone
Elsewhere ==
    \/ MayShuffle /\ \E o \in Orders : Shuffle(o)
    \/ \E r \in Regions : Reshape(r)

Next == StillFrame \/ MovedFrame \/ Fetch \/ Build \/ Run \/ Elsewhere

\* The main loop draws a frame and calls the screen's background, which
\* fetches and then builds, or runs.  What the user does is not fair.
Fairness == WF_vars(StillFrame) /\ WF_vars(Fetch) /\ WF_vars(Build) /\ WF_vars(Run)

Spec == Init /\ [][Next]_vars /\ Fairness
-----------------------------------------------------------------------------
TypeOK ==
    /\ order \in Orders
    /\ art \in [Games -> {"PENDING", "COSTLY", "DECODING", "READY", "NONE"}]
    /\ located \in SUBSET Games
    /\ slots \in [Slots -> [rom : 0 .. N, tile : Atlas!Tiles \cup {Empty}]]
    /\ age \in [Slots -> 0 .. PoolSize]
    /\ decodingSlot \in 0 .. PoolSize
    /\ buildActive \in BOOLEAN
    /\ buildNext \in 1 .. (N + 1)
    /\ buildComplete \in BOOLEAN
    /\ idle \in BOOLEAN
    /\ DOMAIN wanted \subseteq 1 .. Turns /\ wanted \in [DOMAIN wanted -> Ids]
    /\ job \in Jobs \cup {NoJob}
    /\ region \in Regions
    /\ storeUp \in BOOLEAN
    /\ cursor \in Ids /\ top \in Ids

\* What the grid draws for a title is that title's own tile, at the shape its
\* cell has now, through every rename and every change of setting.
SlotShowsOwnArt ==
    \A s \in Slots : Filled(s) =>
        LET g == order[slots[s].rom] IN slots[s].tile = Atlas!Tile(g, ShapeOf(g))

RecordsMatchPool ==
    \A i \in Ids :
        /\ art[order[i]] = "READY" <=> Resident(i)
        /\ art[order[i]] = "DECODING" <=> decodingSlot # 0 /\ slots[decodingSlot].rom = i

DecoderIsAwaited ==
    /\ job # NoJob <=> decodingSlot # 0 \/ buildActive
    /\ ~ (decodingSlot # 0 /\ buildActive)
    /\ job # NoJob => order[job.rec] = job.src /\ job.shape = ShapeOf(job.src)

OneSlotPerTitle ==
    \A s, o \in Slots : Filled(s) /\ Filled(o) /\ slots[s].rom = slots[o].rom => s = o

\* Slots, records and the decoder agree through every sort, eviction and
\* change of shape.  rebind()'s "blank-until-reboot case": a record says READY
\* exactly when a slot has its tile, and DECODING exactly when the pool's
\* decode is for it; the decoder only ever starts records in neither state.
\* It is busy exactly when the build or the pool is waiting for it, never
\* both, and the record its callback will write to still belongs to the game
\* whose cover is being decoded.  No title has two slots.
PoolConsistent == TypeOK /\ RecordsMatchPool /\ DecoderIsAwaited /\ OneSlotPerTitle

\* A record is settled as having no art only when it has no art the decoder
\* can use: never because the decoder was busy, or another game's cover failed.
NoArtOnlyIfUnusable ==
    \A g \in Games : art[g] = "NONE" => Cover[g] \in {"none", "broken", "corrupt"}

\* When the build says the atlas is complete, it is: every title with usable
\* art has its tile in it, at the shape its cell has now.
CompleteMeansBuilt ==
    buildComplete =>
        \A g \in Games : Cover[g] \in {"cheap", "costly"} => Atlas!Fits(g, ShapeOf(g))

-----------------------------------------------------------------------------
(***************************************************************************)
(* What must eventually happen once the user leaves the grid alone.        *)
(***************************************************************************)
UserRests == <>[][~ Elsewhere /\ UNCHANGED screen]_vars

OnScreen == {i \in Ids : i \in top .. (top + Window - 1)}

\* Every title on screen that has usable art is drawn with it.
VisibleTilesSettle ==
    UserRests => <>[](\A i \in OnScreen : Resident(i) \/ art[order[i]] = "NONE")

\* The background goes quiet: it does not decode and evict for ever.
CacheFallsSilent ==
    UserRests => <>[](job = NoJob /\ IF storeUp THEN buildComplete ELSE idle)
=============================================================================
