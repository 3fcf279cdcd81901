------------------------- MODULE ThumbStore_proofs -------------------------
(***************************************************************************)
(* What holds of the art atlas for every set of covers and shapes, every   *)
(* size of the pak and every sequence of power cuts.                       *)
(*                                                                         *)
(* The theorems come in two parts.  The first holds whatever fails.  The   *)
(* second assumes Sound: no failure that leaves a damaged pak behind, and  *)
(* no card an earlier build left damaged.  Both are needed: the README     *)
(* lists what happens without them.                                        *)
(***************************************************************************)
EXTENDS ThumbStore, TLAPS

Sound == ~ Legacy /\ Faults \cap {"open", "header", "torn"} = {}

Loading == {"off", "dropIdx", "create", "creating", "load"}

(***************************************************************************)
(* The inductive invariant of the first part.                              *)
(***************************************************************************)
NoRowsYet == pc \in Loading => rows = {}

OneIndexRowPerCover == \A r, q \in irows : r.src = q.src => r = q

MemoryInv ==
    /\ TypeOK
    /\ NoRowsYet
    /\ RowsWithinPak
    /\ OneRowPerCover
    /\ OneIndexRowPerCover

(***************************************************************************)
(* The inductive invariant of the second part: what slot_count, the header *)
(* and the two indexes have to do with each other at each file operation.  *)
(***************************************************************************)
PakFirst ==
    /\ pak # "good" => count = 0 /\ idx # "good"
    /\ handle => pak = "good"
    /\ rows # {} => pak = "good"
    /\ pc \in {"dropIdx", "create", "creating"} => pak # "good"
    /\ pc = "load" => handle
    /\ pc = "off" => ~ handle

Counts ==
    /\ pc = "off" => slotCount = 0
    /\ pc = "header" => slotCount = count + 1
    /\ pc \notin {"off", "header"} => slotCount = count

Unsynced ==
    /\ pc \in {"header", "sync", "rewrite"} => rows # {}
    /\ pc \in {"header", "sync"} /\ idx = "good" =>
           \A r \in irows : r.slot < slotCount - 1

RowsAreFilled == \A r \in rows : data[r.slot] = TileOf(r)

IndexInMemory == pc \notin Loading /\ idx = "good" => irows \subseteq rows

CardInv ==
    /\ PakFirst
    /\ Counts
    /\ Unsynced
    /\ RowsAreFilled
    /\ IndexNeverLies
    /\ IndexInMemory
-----------------------------------------------------------------------------
(***************************************************************************)
(* Part one: whatever fails.                                               *)
(***************************************************************************)
\* What every way of losing or closing the session leaves in memory.
LEMMA OffClears ==
    Off => /\ pc' = "off"
           /\ handle' \in BOOLEAN /\ ~ handle'
           /\ dirty' \in BOOLEAN
           /\ closing' \in BOOLEAN
           /\ slotCount' = 0
           /\ rows' = {}
<1> SUFFICES ASSUME Off
             PROVE  /\ pc' = "off"
                    /\ handle' \in BOOLEAN /\ ~ handle'
                    /\ dirty' \in BOOLEAN
                    /\ closing' \in BOOLEAN
                    /\ slotCount' = 0
                    /\ rows' = {}
  OBVIOUS
<1>1. handle' \in BOOLEAN /\ ~ handle'
  BY Zenon DEF Off
<1>2. dirty' \in BOOLEAN
  BY Zenon DEF Off
<1>3. closing' \in BOOLEAN
  BY Zenon DEF Off
<1>4. QED
  BY <1>1, <1>2, <1>3, Zenon DEF Off

\* There is no session yet, hence nothing in memory.
LEMMA InitMemoryInv == Init => MemoryInv
<1> SUFFICES ASSUME Init PROVE MemoryInv
  OBVIOUS
<1>1. writable \in BOOLEAN /\ handle \in BOOLEAN /\ dirty \in BOOLEAN /\ closing \in BOOLEAN
  BY Zenon DEF Init
<1>2. data \in [Slot -> Tiles \cup {Garbage}]
  BY DEF Init, Nowhere
<1>3. irows \in SUBSET Row /\ OneIndexRowPerCover
  BY DEF Init, Row, RowFor, OneIndexRowPerCover
<1>4. QED
  BY <1>1, <1>2, <1>3, StoreAssumption
  DEF StoreAssumption, Init, MemoryInv, TypeOK, NoRowsYet, RowsWithinPak,
      OneRowPerCover, Loading, Steps

\* No step of an open, a put, a flush or a close, failed or not, breaks it.
LEMMA NextMemoryInv == MemoryInv /\ [Next]_vars => MemoryInv'
<1> SUFFICES ASSUME MemoryInv, [Next]_vars PROVE MemoryInv'
  OBVIOUS
<1>1. MaxSlots \in Nat
  BY StoreAssumption DEF StoreAssumption
<1> USE <1>1 DEF MemoryInv, TypeOK, NoRowsYet, RowsWithinPak, OneRowPerCover,
                OneIndexRowPerCover, Loading, Steps, Slot, Row, card, memory
<1>2. CASE OpenPak
  BY <1>2 DEF OpenPak
<1>3. CASE RejectPak
  BY <1>3 DEF RejectPak
<1>4. CASE DropIndexToo
  BY <1>4 DEF DropIndexToo
<1>5. CASE NoPak
  BY <1>5 DEF NoPak
<1>6. CASE CreatePak
  BY <1>6 DEF CreatePak, Nowhere
<1>7. CASE PakCreated
  BY <1>7 DEF PakCreated
<1>8. CASE CreateFailed
  BY <1>8 DEF CreateFailed
<1>9. CASE LoadIndex
  BY <1>9 DEF LoadIndex
<1>10. ASSUME NEW s \in Sources, NEW sh \in Shapes, PutTile(s, sh)
     PROVE  MemoryInv'
  BY <1>10 DEF PutTile, PutGuard, RowFor, TileOf, Tiles
<1>11. ASSUME NEW s \in Sources, NEW sh \in Shapes, PutTileFailed(s, sh)
     PROVE  MemoryInv'
  BY <1>11 DEF PutTileFailed, PutGuard, Tiles
<1>12. CASE PutHeader
  BY <1>12 DEF PutHeader
<1>13. CASE PutSync
  BY <1>13 DEF PutSync
<1>14. CASE TruncateIndex
  BY <1>14 DEF TruncateIndex
<1>15. CASE EndFlush
  <2>1. dirty' \in BOOLEAN
    BY <1>15, OffClears, Zenon DEF EndFlush
  <2>2. QED
    BY <1>15, <2>1, OffClears DEF EndFlush
<1>16. CASE FlushFailed
  BY <1>16, OffClears DEF FlushFailed
<1>17. CASE Flush
  BY <1>17 DEF Flush
<1>18. CASE CloseClean
  BY <1>18, OffClears DEF CloseClean
<1>19. CASE PowerCut
  BY <1>19, OffClears DEF PowerCut, Tiles
<1>20. CASE UNCHANGED vars
  BY <1>20 DEF vars
<1>21. QED
  BY <1>2, <1>3, <1>4, <1>5, <1>6, <1>7, <1>8, <1>9, <1>10, <1>11, <1>12, <1>13, <1>14, <1>15, <1>16, <1>17, <1>18, <1>19, <1>20 DEF Next

\* What the session holds is well formed in every state.
LEMMA MemoryInvariant == Spec => []MemoryInv
  BY InitMemoryInv, NextMemoryInv, PTL DEF Spec

\* Every variable keeps its type: no put takes the pak past MAX_SLOTS, and no
\* header claims more.
THEOREM TypeCorrect == Spec => []TypeOK
  BY MemoryInvariant, PTL DEF MemoryInv

\* thumbstore_open() and thumbstore_put() never leave a row in memory that
\* points past the end of the pak, whatever the card's index said.
THEOREM RowsStayWithinPak == Spec => []RowsWithinPak
  BY MemoryInvariant, PTL DEF MemoryInv

\* thumbstore_put() never gives a cover a second row, across any number of
\* sessions.
THEOREM CoversHaveOneRow == Spec => []OneRowPerCover
  BY MemoryInvariant, PTL DEF MemoryInv

\* A slot a lookup can read is never written again.
LEMMA NextKeepsSlots ==
    MemoryInv /\ [Next]_vars =>
        [\A r \in rows : r \in rows' => data'[r.slot] = data[r.slot]]_vars
<1> SUFFICES ASSUME MemoryInv, [Next]_vars, NEW r \in rows, r \in rows'
             PROVE  data'[r.slot] = data[r.slot]
  OBVIOUS
<1>1. MaxSlots \in Nat
  BY StoreAssumption DEF StoreAssumption
<1> USE <1>1 DEF MemoryInv, TypeOK, NoRowsYet, RowsWithinPak, Loading, Slot, Row,
                card, memory
<1>2. CASE OpenPak
  BY <1>2 DEF OpenPak
<1>3. CASE RejectPak
  BY <1>3 DEF RejectPak
<1>4. CASE DropIndexToo
  BY <1>4 DEF DropIndexToo
<1>5. CASE NoPak
  BY <1>5 DEF NoPak
<1>6. CASE CreatePak
  BY <1>6 DEF CreatePak, Nowhere
<1>7. CASE PakCreated
  BY <1>7 DEF PakCreated
<1>8. CASE CreateFailed
  BY <1>8 DEF CreateFailed
<1>9. CASE LoadIndex
  BY <1>9 DEF LoadIndex
<1>10. ASSUME NEW s \in Sources, NEW sh \in Shapes, PutTile(s, sh)
     PROVE  data'[r.slot] = data[r.slot]
  BY <1>10 DEF PutTile, PutGuard, RowFor, TileOf, Tiles
<1>11. ASSUME NEW s \in Sources, NEW sh \in Shapes, PutTileFailed(s, sh)
     PROVE  data'[r.slot] = data[r.slot]
  BY <1>11 DEF PutTileFailed, PutGuard, Tiles
<1>12. CASE PutHeader
  BY <1>12 DEF PutHeader
<1>13. CASE PutSync
  BY <1>13 DEF PutSync
<1>14. CASE TruncateIndex
  BY <1>14 DEF TruncateIndex
<1>15. CASE EndFlush
  BY <1>15, OffClears DEF EndFlush
<1>16. CASE FlushFailed
  BY <1>16, OffClears DEF FlushFailed
<1>17. CASE Flush
  BY <1>17 DEF Flush
<1>18. CASE CloseClean
  BY <1>18, OffClears DEF CloseClean
<1>19. CASE PowerCut
  BY <1>19, OffClears DEF PowerCut, Tiles
<1>20. CASE UNCHANGED vars
  BY <1>20 DEF vars
<1>21. QED
  BY <1>2, <1>3, <1>4, <1>5, <1>6, <1>7, <1>8, <1>9, <1>10, <1>11, <1>12, <1>13, <1>14, <1>15, <1>16, <1>17, <1>18, <1>19, <1>20 DEF Next

\* The atlas only ever appends: a tile that can be looked up stays where it is.
THEOREM SlotsAreFinal == Spec => NamedSlotsAreFinal
  BY MemoryInvariant, NextKeepsSlots, PTL DEF Spec, NamedSlotsAreFinal
-----------------------------------------------------------------------------
(***************************************************************************)
(* Part two: on a card whose files are never left damaged.                 *)
(***************************************************************************)
\* The card starts without an index.
LEMMA InitCardInv == Sound /\ Init => CardInv
  BY DEF Sound, Init, CardInv, PakFirst, Counts, Unsynced, RowsAreFilled,
         IndexNeverLies, IndexInMemory, Loading

\* Each write keeps the order that makes the index true after a cut.
LEMMA NextCardInv == Sound /\ MemoryInv /\ CardInv /\ [Next]_vars => CardInv'
<1> SUFFICES ASSUME Sound, MemoryInv, CardInv, [Next]_vars PROVE CardInv'
  OBVIOUS
<1>1. MaxSlots \in Nat
  BY StoreAssumption DEF StoreAssumption
<1> USE <1>1 DEF Sound, MemoryInv, TypeOK, NoRowsYet, RowsWithinPak, CardInv, PakFirst,
                Counts, Unsynced, RowsAreFilled, IndexNeverLies, IndexInMemory, Loading,
                Slot, Row, TileOf, card, memory
<1>2. CASE OpenPak
  BY <1>2 DEF OpenPak
<1>3. CASE RejectPak
  BY <1>3 DEF RejectPak
<1>4. CASE DropIndexToo
  BY <1>4 DEF DropIndexToo
<1>5. CASE NoPak
  BY <1>5 DEF NoPak
<1>6. CASE CreatePak
  BY <1>6 DEF CreatePak, Nowhere
<1>7. CASE PakCreated
  BY <1>7 DEF PakCreated
<1>8. CASE CreateFailed
  BY <1>8 DEF CreateFailed
<1>9. CASE LoadIndex
  <2>1. CASE idx = "good"
    <3>1. /\ pc = "load" /\ pc' = "ready" /\ rows' = {r \in irows : r.slot < slotCount} /\ idx' = idx
          /\ UNCHANGED <<pak, count, data, irows, writable, handle, slotCount, closing>>
      BY ONLY <1>9, <2>1, Zenon DEF LoadIndex
    <3>2. slotCount = count /\ pak = "good"
      BY <2>1, <3>1
    <3>3. rows' = irows
      BY <2>1, <3>1, <3>2
    <3>4. QED
      BY <2>1, <3>1, <3>2, <3>3
  <2>2. CASE idx # "good"
    BY <1>9, <2>2 DEF LoadIndex
  <2>3. QED
    BY ONLY <2>1, <2>2
<1>10. ASSUME NEW s \in Sources, NEW sh \in Shapes, PutTile(s, sh)
     PROVE  CardInv'
  <2> DEFINE new == RowFor(s, sh, slotCount)
  <2>1. /\ pc = "ready" /\ handle /\ slotCount < MaxSlots /\ slotCount = count
        /\ new.slot = slotCount
        /\ rows' = rows \cup {new}
        /\ data' = [data EXCEPT ![slotCount] = TileOf(new)]
        /\ slotCount' = slotCount + 1 /\ pc' = "header"
        /\ UNCHANGED <<pak, count, idx, irows, handle>>
    BY <1>10 DEF PutTile, PutGuard, RowFor
  <2>2. data'[slotCount] = TileOf(new) /\ \A n \in Slot : n # slotCount => data'[n] = data[n]
    BY <2>1
  <2>3. PakFirst' /\ Counts'
    BY <2>1
  <2>4. Unsynced' /\ IndexInMemory'
    BY <2>1
  <2>5. /\ \A r \in rows : r.slot \in Slot /\ r.slot # slotCount /\ data[r.slot] = TileOf(r)
        /\ idx = "good" => \A r \in irows :
              pak = "good" /\ r.slot \in Slot /\ r.slot # slotCount /\ r.slot < count
                  /\ data[r.slot] = TileOf(r)
    BY <2>1
  <2>6. RowsAreFilled'
    BY <2>1, <2>2, <2>5
  <2>7. IndexNeverLies'
    BY <2>1, <2>2, <2>5
  <2>8. QED
    BY <2>3, <2>4, <2>6, <2>7
<1>11. ASSUME NEW s \in Sources, NEW sh \in Shapes, PutTileFailed(s, sh)
     PROVE  CardInv'
  BY <1>11 DEF PutTileFailed, PutGuard, Tiles
<1>12. CASE PutHeader
  BY <1>12 DEF PutHeader
<1>13. CASE PutSync
  BY <1>13 DEF PutSync
<1>14. CASE TruncateIndex
  BY <1>14 DEF TruncateIndex
<1>15. CASE EndFlush
  BY <1>15, OffClears DEF EndFlush
<1>16. CASE FlushFailed
  BY <1>16, OffClears DEF FlushFailed
<1>17. CASE Flush
  BY <1>17 DEF Flush
<1>18. CASE CloseClean
  BY <1>18, OffClears DEF CloseClean
<1>19. CASE PowerCut
  BY <1>19, OffClears DEF PowerCut, Tiles
<1>20. CASE UNCHANGED vars
  BY <1>20 DEF vars
<1>21. QED
  BY <1>2, <1>3, <1>4, <1>5, <1>6, <1>7, <1>8, <1>9, <1>10, <1>11, <1>12, <1>13, <1>14, <1>15, <1>16, <1>17, <1>18, <1>19, <1>20 DEF Next

\* The files are in order in every state.
LEMMA CardInvariant ==
    ASSUME Sound PROVE Spec => [](MemoryInv /\ CardInv)
<1>1. Init => MemoryInv /\ CardInv
  BY InitMemoryInv, InitCardInv
<1>2. (MemoryInv /\ CardInv) /\ [Next]_vars => (MemoryInv /\ CardInv)'
  BY NextMemoryInv, NextCardInv
<1>3. QED
  BY <1>1, <1>2, PTL DEF Spec

\* The index on the card never names a slot the pak does not fill with that
\* very tile, wherever the power goes: thumbstore_put()'s ordering.
THEOREM IndexIsTrue ==
    ASSUME Sound PROVE Spec => []IndexNeverLies
  BY CardInvariant, PTL DEF CardInv

\* thumbstore_fetch() puts on screen the tile that was cut from the cover it
\* was asked for, at the shape it was asked for.
THEOREM FetchIsTrue ==
    ASSUME Sound PROVE Spec => []FetchIsOwnTile
<1>1. CardInv => FetchIsOwnTile
  BY DEF CardInv, RowsAreFilled, FetchIsOwnTile, Fetched, Hits, TileOf
<1>2. QED
  BY <1>1, CardInvariant, PTL
-----------------------------------------------------------------------------
(***************************************************************************)
(* The store implements the atlas.                                         *)
(***************************************************************************)
\* Whatever a lookup can return is filed under its own name.
LEMMA LiveIsFilled == CardInv => \A r \in Live : data[r.slot] = TileOf(r)
  BY DEF CardInv, RowsAreFilled, IndexNeverLies, Live, OnCard

IsPut == \E s \in Sources, sh \in Shapes : PutTile(s, sh)

\* Every step but a put leaves the lookups as they were, or loses some.
LEMMA LiveShrinks ==
    Sound /\ MemoryInv /\ CardInv /\ CardInv' /\ [Next]_vars /\ ~ IsPut => Live' \subseteq Live
<1> SUFFICES ASSUME Sound, MemoryInv, CardInv, CardInv', [Next]_vars, ~ IsPut
             PROVE  Live' \subseteq Live
  OBVIOUS
<1>1. MaxSlots \in Nat
  BY StoreAssumption DEF StoreAssumption
<1> USE <1>1 DEF Sound, MemoryInv, TypeOK, NoRowsYet, CardInv, PakFirst, Counts, IndexNeverLies,
                IndexInMemory, Unsynced, Loading, Live, OnCard, card, memory
<1>2. CASE OpenPak
  BY <1>2 DEF OpenPak
<1>3. CASE RejectPak
  BY <1>3 DEF RejectPak
<1>4. CASE DropIndexToo
  BY <1>4 DEF DropIndexToo
<1>5. CASE NoPak
  BY <1>5 DEF NoPak
<1>6. CASE CreatePak
  BY <1>6 DEF CreatePak
<1>7. CASE PakCreated
  BY <1>7 DEF PakCreated
<1>8. CASE CreateFailed
  BY <1>8 DEF CreateFailed
<1>9. CASE LoadIndex
  BY <1>9 DEF LoadIndex
<1>10. ASSUME NEW s \in Sources, NEW sh \in Shapes, PutTileFailed(s, sh)
     PROVE  Live' \subseteq Live
  BY <1>10 DEF PutTileFailed, PutGuard
<1>11. CASE PutHeader
  BY <1>11 DEF PutHeader
<1>12. CASE PutSync
  BY <1>12 DEF PutSync
<1>13. CASE TruncateIndex
  BY <1>13 DEF TruncateIndex
<1>14. CASE EndFlush
  BY <1>14, OffClears DEF EndFlush
<1>15. CASE FlushFailed
  BY <1>15, OffClears DEF FlushFailed
<1>16. CASE Flush
  BY <1>16 DEF Flush
<1>17. CASE CloseClean
  BY <1>17, OffClears DEF CloseClean
<1>18. CASE PowerCut
  BY <1>18, OffClears DEF PowerCut
<1>19. CASE UNCHANGED vars
  BY <1>19 DEF vars
<1>20. QED
  BY <1>2, <1>3, <1>4, <1>5, <1>6, <1>7, <1>8, <1>9, <1>10, <1>11, <1>12, <1>13, <1>14, <1>15, <1>16, <1>17, <1>18, <1>19 DEF Next, IsPut

\* A put that got as far as counting its slot is the atlas storing one tile.
LEMMA PutStores ==
    ASSUME MemoryInv, CardInv, CardInv', NEW s \in Sources, NEW sh \in Shapes, PutTile(s, sh)
    PROVE  Atlas!Store(s, sh)
<1> DEFINE new == RowFor(s, sh, slotCount)
<1>1. /\ new.src = s /\ new.shape = sh
      /\ Live = rows /\ Live' = rows \cup {new}
      /\ \A r \in rows : r.src # s
  BY DEF PutTile, PutGuard, RowFor, Live
<1>2. /\ \A r \in Live : data[r.slot] = TileOf(r)
      /\ \A r \in Live' : data'[r.slot] = TileOf(r)
  <2>1. (\A r \in Live : data[r.slot] = TileOf(r))'
    BY LiveIsFilled DEF CardInv, PakFirst, Counts, Unsynced, RowsAreFilled, IndexNeverLies,
                        IndexInMemory, Live, OnCard
  <2>2. QED
    BY <2>1, LiveIsFilled
<1>3. ~ Atlas!Known(s)
  BY <1>1 DEF Atlas!Known, Found
<1>4. Found' = Found \cup {Atlas!Entry(s, sh)}
  <2>1. Found = {[src |-> r.src, shape |-> r.shape, tile |-> TileOf(r)] : r \in Live}
    BY <1>2 DEF Found
  <2>2. Found' = {[src |-> r.src, shape |-> r.shape, tile |-> TileOf(r)] : r \in Live'}
    BY <1>2 DEF Found
  <2>3. Atlas!Entry(s, sh) = [src |-> new.src, shape |-> new.shape, tile |-> TileOf(new)]
    BY <1>1 DEF Atlas!Entry, Atlas!Tile, TileOf
  <2>4. Live' = Live \cup {new}
    BY <1>1
  <2> HIDE DEF new
  <2>5. QED
    BY <2>1, <2>2, <2>3, <2>4
<1>5. QED
  BY <1>3, <1>4 DEF Atlas!Store

\* A put stores a tile in the abstract atlas; every other step loses some or none.
LEMMA StepRefines ==
    ASSUME Sound, MemoryInv, CardInv, CardInv', [Next]_vars
    PROVE  [Atlas!AtlasNext]_Found
<1>1. CASE IsPut
  BY <1>1, PutStores DEF IsPut, Atlas!AtlasNext
<1>2. CASE ~ IsPut
  <2>1. Live' \subseteq Live
    BY <1>2, LiveShrinks
  <2>2. /\ \A r \in Live : data[r.slot] = TileOf(r)
        /\ \A r \in Live' : data'[r.slot] = TileOf(r)
    <3>1. (\A r \in Live : data[r.slot] = TileOf(r))'
      BY LiveIsFilled DEF CardInv, PakFirst, Counts, Unsynced, RowsAreFilled, IndexNeverLies,
                          IndexInMemory, Live, OnCard
    <3>2. QED
      BY <3>1, LiveIsFilled
  <2>3. Found' \in SUBSET Found
    BY <2>1, <2>2 DEF Found
  <2>4. QED
    BY <2>3 DEF Atlas!AtlasNext, Atlas!Lose
<1>3. QED
  BY <1>1, <1>2

\* The files, slots and power cuts of the store implement the atlas: a lookup
\* answers with the tile it names, and only a put can make one appear.
THEOREM StoreImplementsAtlas ==
    ASSUME Sound PROVE Spec => ImplementsAtlas
<1>1. Init => Atlas!AtlasInit
  BY DEF Sound, Init, Atlas!AtlasInit, Found, Live, OnCard
<1>2. (MemoryInv /\ CardInv) /\ (MemoryInv /\ CardInv)' /\ [Next]_vars
        => [Atlas!AtlasNext]_Found
  BY StepRefines
<1>3. QED
  BY <1>1, <1>2, CardInvariant, PTL DEF Spec, ImplementsAtlas, Atlas!AtlasSpec
=============================================================================
