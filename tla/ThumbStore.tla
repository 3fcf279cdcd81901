----------------------------- MODULE ThumbStore -----------------------------
(***************************************************************************)
(* The decoded-art atlas of src/library/thumbstore.c, on the file layer of *)
(* src/library/cache.c: thumbs.pak, a flat array of slots with a header    *)
(* that counts them, and thumbs.idx, which says whose tile is in which     *)
(* slot.  The pak is appended to, the index rewritten whole.               *)
(*                                                                         *)
(* Every write is a step of its own, and the power may go between any two  *)
(* of them: that is how a session that never launches a game ends.         *)
(***************************************************************************)
EXTENDS Integers

CONSTANTS
    Sources,    \* covers, each a path and a file size (the atlas key)
    Shapes,     \* tile shapes
    Storable,   \* the shapes thumbstore_put() accepts
    MaxSlots,   \* MAX_SLOTS
    Garbage,    \* what a slot holds that was never completely written
    Faults,     \* the file operations that may fail
    Legacy      \* may the card start with an index beside an unreadable pak?

ASSUME StoreAssumption ==
    /\ MaxSlots \in Nat
    /\ Storable \subseteq Shapes
    /\ Faults \subseteq {"open", "create", "write", "header", "torn", "reopen", "index"}
    /\ Legacy \in BOOLEAN

VARIABLES
    (***********************************************************************)
    (* On the card.                                                        *)
    (***********************************************************************)
    pak,        \* thumbs.pak: absent, bad (unreadable header) or good
    count,      \* slot_count in the pak's header
    data,       \* the tile in each slot of the pak
    idx,        \* thumbs.idx: absent, bad (fails cache_load) or good
    irows,      \* the rows in a good index
    (***********************************************************************)
    (* In memory.                                                          *)
    (***********************************************************************)
    pc,         \* the file operation that comes next
    writable,   \* the answer cache_init()'s probe gave this boot
    handle,     \* is the pak open?
    slotCount,  \* slots this session believes the pak has
    rows,       \* the index in memory
    dirty,      \* idx_dirty
    closing     \* inside thumbstore_close()

card == <<pak, count, data, idx, irows>>
memory == <<pc, writable, handle, slotCount, rows, dirty, closing>>
vars == <<card, memory>>

Slot == 0 .. (MaxSlots - 1)
Tiles == [src : Sources, shape : Shapes]
Row == [src : Sources, shape : Shapes, slot : Slot]
Steps == {"off", "dropIdx", "create", "creating", "load", "ready",
          "header", "sync", "publish", "rewrite"}

RowFor(s, sh, n) == [src |-> s, shape |-> sh, slot |-> n]
TileOf(r) == [src |-> r.src, shape |-> r.shape]

Nowhere == [n \in Slot |-> Garbage]
-----------------------------------------------------------------------------
(***************************************************************************)
(* Lookups.                                                                *)
(***************************************************************************)

\* thumbstore_has(): the shape is not asked about.
Has(s) == handle /\ \E r \in rows : r.src = s

\* Mutant of Hits: a hit at the wrong shape is read.
HitsAnyShape(s, sh) == {r \in rows : handle /\ r.src = s}

\* thumbstore_fetch() into a surface of shape sh: the pixels it reads.
Hits(s, sh) == {r \in rows : handle /\ r.src = s /\ r.shape = sh}
Fetched(s, sh) == {data[r.slot] : r \in Hits(s, sh)}
-----------------------------------------------------------------------------
Off ==
    /\ pc' = "off"
    /\ handle' = FALSE
    /\ slotCount' = 0
    /\ rows' = {}
    /\ dirty' = FALSE
    /\ closing' = FALSE

\* A card no atlas was ever written to, or one an earlier build left: an
\* index with rows beside a pak of 0 bytes (see pak_sync()'s comment).
Init ==
    /\ \/ pak = "absent" /\ idx = "absent" /\ irows = {}
       \/ /\ Legacy
          /\ pak = "bad"
          /\ idx = "good"
          /\ \E s \in Sources, sh \in Shapes, n \in Slot : irows = {RowFor(s, sh, n)}
    /\ count = 0
    /\ data = Nowhere
    /\ pc = "off"
    /\ writable = FALSE
    /\ handle = FALSE
    /\ slotCount = 0
    /\ rows = {}
    /\ dirty = FALSE
    /\ closing = FALSE
-----------------------------------------------------------------------------
(***************************************************************************)
(* thumbstore_open().                                                      *)
(***************************************************************************)

\* The pak opens and its header is accepted.
OpenPak ==
    /\ pc = "off"
    /\ pak = "good"
    /\ writable' \in BOOLEAN
    /\ handle' = TRUE
    /\ slotCount' = count
    /\ pc' = "load"
    /\ UNCHANGED <<card, rows, dirty, closing>>

\* The header is rejected: drop the pak, then the index.  cache_drop() does
\* nothing on storage that cannot be written, and then there is no atlas.
RejectPak ==
    /\ pc = "off"
    /\ pak = "bad"
    /\ writable' \in BOOLEAN
    /\ IF writable'
         THEN pak' = "absent" /\ pc' = "dropIdx"
         ELSE pak' = pak /\ pc' = "ready"
    /\ UNCHANGED <<count, data, idx, irows, handle, slotCount, rows, dirty, closing>>

DropIndexToo ==
    /\ pc = "dropIdx"
    /\ idx' = "absent"
    /\ irows' = {}
    /\ pc' = "create"
    /\ UNCHANGED <<pak, count, data, writable, handle, slotCount, rows, dirty, closing>>

\* There is no pak to open, or it would not open for writing.
NoPak ==
    /\ pc = "off"
    /\ pak = "absent" \/ "open" \in Faults
    /\ writable' \in BOOLEAN
    /\ pc' = IF writable' THEN "create" ELSE "ready"
    /\ UNCHANGED <<card, handle, slotCount, rows, dirty, closing>>

\* pak_create() opens with "wb+", which leaves a file of 0 bytes.
CreatePak ==
    /\ pc = "create"
    /\ pak' = "bad"
    /\ count' = 0
    /\ data' = Nowhere
    /\ pc' = "creating"
    /\ UNCHANGED <<idx, irows, writable, handle, slotCount, rows, dirty, closing>>

\* The header slot is written and the file closed and reopened.
PakCreated ==
    /\ pc = "creating"
    /\ pak' = "good"
    /\ handle' = TRUE
    /\ pc' = "load"
    /\ UNCHANGED <<count, data, idx, irows, writable, slotCount, rows, dirty, closing>>

\* pak_create() failed: at the fopen, or at the write, which removes the file.
CreateFailed ==
    /\ "create" \in Faults
    /\ pc \in {"create", "creating"}
    /\ pak' = IF pc = "creating" THEN "absent" ELSE pak
    /\ pc' = "ready"
    /\ UNCHANGED <<count, data, idx, irows, writable, handle, slotCount, rows, dirty, closing>>

\* Keep the rows whose slot the pak has.  cache_load() removes a file it
\* cannot accept.
LoadIndex ==
    /\ pc = "load"
    /\ rows' = IF idx = "good" THEN {r \in irows : r.slot < slotCount} ELSE {}
    /\ dirty' = (idx = "good" /\ rows' # irows)
    /\ idx' = IF idx = "bad" /\ writable THEN "absent" ELSE idx
    /\ pc' = "ready"
    /\ UNCHANGED <<pak, count, data, irows, writable, handle, slotCount, closing>>
-----------------------------------------------------------------------------
(***************************************************************************)
(* thumbstore_put(): slot, header, close-and-reopen, index.                *)
(***************************************************************************)

\* Mutant of PutGuard: a second row for a cover.
PutGuardAgain(s, sh) ==
    pc = "ready" /\ handle /\ writable /\ slotCount < MaxSlots /\ sh \in Storable
        /\ \A r \in rows : <<r.src, r.shape>> # <<s, sh>>

PutGuard(s, sh) ==
    /\ pc = "ready"
    /\ handle
    /\ writable
    /\ slotCount < MaxSlots
    /\ sh \in Storable
    /\ \A r \in rows : r.src # s

\* Mutant of PutTile: slot_count is not advanced.
PutTileInPlace(s, sh) ==
    /\ PutGuard(s, sh)
    /\ data' = [data EXCEPT ![slotCount] = TileOf(RowFor(s, sh, slotCount))]
    /\ rows' = rows \cup {RowFor(s, sh, slotCount)}
    /\ dirty' = TRUE
    /\ pc' = "header"
    /\ UNCHANGED <<pak, count, idx, irows, writable, handle, slotCount, closing>>

PutTile(s, sh) ==
    /\ PutGuard(s, sh)
    /\ data' = [data EXCEPT ![slotCount] = TileOf(RowFor(s, sh, slotCount))]
    /\ rows' = rows \cup {RowFor(s, sh, slotCount)}
    /\ slotCount' = slotCount + 1
    /\ dirty' = TRUE
    /\ pc' = "header"
    /\ UNCHANGED <<pak, count, idx, irows, writable, handle, closing>>

\* The slot's write came up short: nothing is counted.
PutTileFailed(s, sh) ==
    /\ "write" \in Faults
    /\ PutGuard(s, sh)
    /\ data' = [data EXCEPT ![slotCount] = Garbage]
    /\ UNCHANGED <<pak, count, idx, irows, memory>>

\* Mutant of PutHeader: the header keeps the count it was created with.
PutNoHeader ==
    /\ pc = "header"
    /\ pc' = "sync"
    /\ UNCHANGED <<card, writable, handle, slotCount, rows, dirty, closing>>

\* The header is rewritten in place; a failed seek, read or write of it is
\* ignored.
PutHeader ==
    /\ pc = "header"
    /\ \/ count' = slotCount
       \/ "header" \in Faults /\ count' = count
    /\ pc' = "sync"
    /\ UNCHANGED <<pak, data, idx, irows, writable, handle, slotCount, rows, dirty, closing>>

\* pak_sync(): after the fclose() everything above is on the card.  A reopen
\* that fails leaves this session without an atlas.
PutSync ==
    /\ pc = "sync"
    /\ handle' = TRUE \/ ("reopen" \in Faults /\ handle' = FALSE)
    /\ pc' = "publish"
    /\ UNCHANGED <<card, writable, slotCount, rows, dirty, closing>>
-----------------------------------------------------------------------------
(***************************************************************************)
(* thumbstore_flush() and cache_store(): the index is truncated by the     *)
(* fopen() and complete at the fclose().                                   *)
(***************************************************************************)

\* The next step when a flush is over.
Flushed == IF closing THEN "off" ELSE "ready"

TruncateIndex ==
    /\ pc = "publish"
    /\ rows # {}
    /\ writable
    /\ idx' = "bad"
    /\ irows' = {}
    /\ pc' = "rewrite"
    /\ UNCHANGED <<pak, count, data, writable, handle, slotCount, rows, dirty, closing>>

\* The index is complete.  Dirty with no rows, every row having pointed past
\* the end of the pak, it is dropped instead.
EndFlush ==
    /\ pc = IF rows = {} THEN "publish" ELSE "rewrite"
    /\ idx' = IF rows # {} THEN "good" ELSE IF writable THEN "absent" ELSE idx
    /\ irows' = IF rows # {} THEN rows ELSE IF writable THEN {} ELSE irows
    /\ IF closing
         THEN Off
         ELSE /\ pc' = "ready"
              /\ dirty' = FALSE
              /\ UNCHANGED <<handle, slotCount, rows, closing>>
    /\ UNCHANGED <<pak, count, data, writable>>

\* The open failed, or the write did and what was written is removed.  The
\* index stays dirty.
FlushFailed ==
    /\ \/ pc = "publish" /\ (~ writable \/ "index" \in Faults) /\ rows # {}
       \/ pc = "rewrite" /\ "index" \in Faults
    /\ idx' = IF pc = "rewrite" THEN "absent" ELSE idx
    /\ IF closing
         THEN Off
         ELSE pc' = "ready" /\ UNCHANGED <<handle, slotCount, rows, dirty, closing>>
    /\ UNCHANGED <<pak, count, data, irows, writable>>

\* thumbstore_flush() from the end of the background build, or the one
\* thumbstore_close() starts with when a game is launched.
Flush ==
    /\ pc = "ready"
    /\ dirty
    /\ pc' = "publish"
    /\ closing' \in BOOLEAN
    /\ UNCHANGED <<card, writable, handle, slotCount, rows, dirty>>

CloseClean ==
    /\ pc = "ready"
    /\ ~ dirty
    /\ Off
    /\ UNCHANGED <<card, writable>>
-----------------------------------------------------------------------------
(***************************************************************************)
(* Power off, at any moment.  A slot that was not synced may come back     *)
(* with anything in it, and an in-place header rewrite that was cut short  *)
(* may leave a header nobody can read.  (Losing a header write that was    *)
(* not synced is the same as power going before it.)                       *)
(***************************************************************************)
PowerCut ==
    /\ pc # "off"
    /\ Off
    /\ data' \in {data} \cup
          (IF pc \in {"header", "sync"}
             THEN {[data EXCEPT ![slotCount - 1] = Garbage]} ELSE {})
    /\ pak' \in {pak} \cup (IF pc = "sync" /\ "torn" \in Faults THEN {"bad"} ELSE {})
    /\ UNCHANGED <<count, idx, irows, writable>>

Next ==
    \/ OpenPak \/ RejectPak \/ DropIndexToo \/ NoPak
    \/ CreatePak \/ PakCreated \/ CreateFailed \/ LoadIndex
    \/ \E s \in Sources, sh \in Shapes : PutTile(s, sh) \/ PutTileFailed(s, sh)
    \/ PutHeader \/ PutSync
    \/ TruncateIndex \/ EndFlush \/ FlushFailed
    \/ Flush \/ CloseClean
    \/ PowerCut

Spec == Init /\ [][Next]_vars
-----------------------------------------------------------------------------
TypeOK ==
    /\ pak \in {"absent", "bad", "good"}
    /\ count \in 0 .. MaxSlots
    /\ data \in [Slot -> Tiles \cup {Garbage}]
    /\ idx \in {"absent", "bad", "good"}
    /\ irows \in SUBSET Row
    /\ pc \in Steps
    /\ writable \in BOOLEAN
    /\ handle \in BOOLEAN
    /\ slotCount \in 0 .. MaxSlots
    /\ rows \in SUBSET Row
    /\ dirty \in BOOLEAN
    /\ closing \in BOOLEAN

\* A fetch reads the tile cut from the cover it was asked for, at the shape
\* it was asked for: what thumbstore_fetch() puts on screen is never another
\* game's box, nor this one's sheared, whatever was interrupted before.
FetchIsOwnTile ==
    \A s \in Sources, sh \in Shapes :
        \A t \in Fetched(s, sh) : t = [src |-> s, shape |-> sh]

\* The index on the card never names a slot the pak beside it does not fill
\* with that very tile: thumbstore_put()'s "pak first, then the index that
\* names it", at every moment the power can go.
IndexNeverLies ==
    idx = "good" =>
        \A r \in irows :
            /\ pak = "good"
            /\ r.slot < count
            /\ data[r.slot] = TileOf(r)

\* One row per cover: find_row() takes the first it meets, so a second row
\* would be a tile nobody can ever reach.
OneRowPerCover == \A r, q \in rows : r.src = q.src => r = q

\* Whatever the index on the card claims, no row in memory points past the
\* slots the accepted pak has: thumbstore_open() drops such rows "rather than
\* read uninitialised space".
RowsWithinPak == \A r \in rows : r.slot < slotCount

\* No step writes a slot a lookup can read: slots are never reused.
NamedSlotsAreFinal ==
    [][\A r \in rows : r \in rows' => data'[r.slot] = data[r.slot]]_vars
-----------------------------------------------------------------------------
(***************************************************************************)
(* The detailed store implements the atlas.  While the power is off, and   *)
(* until the index is loaded, a lookup can return what the card would      *)
(* answer with; from then on, what memory would.                           *)
(***************************************************************************)
OnCard == {r \in irows : idx = "good" /\ pak = "good" /\ r.slot < count}
Live == IF pc \in {"off", "dropIdx", "create", "creating", "load"} THEN OnCard ELSE rows

Found == {[src |-> r.src, shape |-> r.shape, tile |-> data[r.slot]] : r \in Live}

Atlas == INSTANCE TileAtlas WITH found <- Found

ImplementsAtlas == Atlas!AtlasSpec
=============================================================================
