----------------------------- MODULE PlayerData -----------------------------
(***************************************************************************)
(* What the menu remembers about its players: the roster (menu/profile.c), *)
(* favourites and play history (library/playstate.c), ticked cheats        *)
(* (cheats/cheatstate.c), the padlocks everyone shares (library/locks.c)   *)
(* and the game saves a profile's folder holds.                            *)
(*                                                                         *)
(* A handler changes memory at once and writes files one after the other.  *)
(* Nobody looks at memory in between, so the writes are queued in todo and *)
(* done one at a time, and the power may go between any two of them.       *)
(*                                                                         *)
(* Slots count from 0, as in the code; slot 0 owns the unsuffixed paths.   *)
(* play_count is kept as whether it is above zero.                         *)
(***************************************************************************)
EXTENDS Integers, Sequences, FiniteSets, FiniteSetsExt, SequencesExt

CONSTANTS
    Games,      \* the titles, in library order
    Key,        \* playstate_key() of each
    Folder,     \* the directory each ROM is in
    Slots,      \* 0 .. PROFILE_MAX - 1
    MaxStamp,   \* the largest timestamp, 2^32 - 1 in the code
    Clock,      \* what play_timestamp() may say; 1 without a clock
    MaxNewest,  \* bound: no game is started once a timestamp is past this
    Liked, Ticked, Locked, \* bounds: the titles favourited, given cheats, locked
    OldRows,    \* playstate.dat as an earlier build left it
    OldRoster,  \* the slots in use when the model starts
    Libraries,  \* the sets of titles that may be on the card at a boot
    Writable,   \* what cache_writable() may say at boot
    Torn,       \* the kinds of file a power cut may catch half written
    Deletable   \* which players are deleted: the "active" one, the "other",
                \* and whether also on storage that refuses writes, "refused"

Stamps == 0 .. MaxStamp
Keys == {Key[g] : g \in Games}
Rows == [key : Keys, fav : BOOLEAN, stamp : Stamps, played : BOOLEAN, locked : BOOLEAN]

ASSUME DataAssumption ==
    /\ Games \subseteq Nat /\ IsFiniteSet(Games)
    /\ Slots \subseteq Nat /\ 0 \in Slots /\ IsFiniteSet(Slots)
    /\ MaxStamp \in Nat
    /\ Clock \subseteq 1 .. MaxStamp /\ MaxNewest \in 0 .. MaxStamp
    /\ OldRows \subseteq Rows /\ OldRoster \subseteq Slots /\ 0 \in OldRoster
    /\ Libraries \subseteq SUBSET Games /\ Writable \subseteq BOOLEAN
    /\ Torn \subseteq {"ini", "locks", "play", "cheat", "saves"}
    /\ Deletable \subseteq {"active", "other", "refused"}

VARIABLES
    on,         \* is the menu running?
    present,    \* the titles in the library this boot
    writable,   \* cache_writable()
    rec,        \* what each record says of its game
    newest,     \* newest_stamp
    dirty,      \* playstate_dirty()
    locksDirty, \* locks_dirty()
    cheats,     \* cheatstate's rows: the games with cheats ticked
    cheatsDirty,\* cheatstate_dirty()
    used,       \* the roster's used slots
    active,     \* the active one
    leaving,    \* app_run() has been told to stop
    todo,       \* the file writes the handler still has to do
    disk,       \* the files, by place
    touched     \* history: the games each slot's player ever did something to

ram == <<present, writable, rec, newest, dirty, locksDirty, cheats, cheatsDirty, used, active, leaving>>
vars == <<on, ram, todo, disk, touched>>

Ini == <<"ini", 0>>
Locks == <<"locks", 0>>
Play(p) == <<"play", p>>
Cheat(p) == <<"cheat", p>>
Saves(p) == <<"saves", p>>
Places == {Ini, Locks} \cup {<<kind, p>> : kind \in {"play", "cheat", "saves"}, p \in Slots}

Blank == [fav |-> FALSE, stamp |-> 0, played |-> FALSE, locked |-> FALSE]
Unread == [g \in Games |-> Blank]
-----------------------------------------------------------------------------
(***************************************************************************)
(* The files.  Each holds a set: a file with nothing in it is dropped, and *)
(* one that was half written is discarded by cache_load(), so both read    *)
(* as the empty set.                                                       *)
(***************************************************************************)
Write(at, to) == [at |-> at, to |-> to]

\* The files once the writes of a script are done.
After(script) ==
    [f \in Places |->
        LET hits == {k \in DOMAIN script : script[k].at = f}
        IN  IF hits = {} THEN disk[f] ELSE script[Max(hits)].to]

\* What a file may hold if the power goes while it is being written.  The
\* roster is read back as far as it was written.
Halves(w) ==
    IF w.at = Ini THEN
        {[used |-> {0} \cup {p \in w.to.used : p < k}, active |-> a] :
            k \in Slots, a \in {0, w.to.active}}
    ELSE IF w.at \in {Saves(p) : p \in Slots} THEN
        {s \in SUBSET disk[w.at] : w.to \subseteq s}
    ELSE {{}}

(***************************************************************************)
(* playstate_load(): the first row with a record's key is applied to it.   *)
(* Flags are added, the rest is assigned.                                  *)
(***************************************************************************)
Applied(rows, games, base) ==
    [g \in Games |->
        LET mine == {r \in rows : r.key = Key[g]}
        IN  IF g \notin games \/ mine = {} THEN base[g]
            ELSE LET r == CHOOSE r \in mine : TRUE
                 IN  [fav |-> base[g].fav \/ r.fav, stamp |-> r.stamp,
                      played |-> r.played, locked |-> base[g].locked \/ r.locked]]
\* Mutant: the load does not seed newest_stamp.
NewestUnseeded(rows, games, base) == base
NewestOf(rows, games, base) ==
    Max({base} \cup {r.stamp : r \in {q \in rows : q.key \in {Key[g] : g \in games}}})

\* playstate_save(): the records worth a row.  Of several rows with one key the
\* first is the one that is ever read.
Worth(r, g) == g \in present /\ (r[g].fav \/ r[g].stamp # 0 \/ r[g].played)
RowsOf(r) ==
    {[key |-> Key[g], fav |-> r[g].fav, stamp |-> r[g].stamp, played |-> r[g].played,
      locked |-> FALSE] :
        g \in {w \in Games : Worth(r, w) /\ ~ \E v \in Games : Worth(r, v) /\ Key[v] = Key[w] /\ v < w}}

\* What each file is written as; nothing is written to storage that refuses.
Script(writes) == IF writable THEN writes ELSE <<>>
SavePlay(r, p) == Write(Play(p), RowsOf(r))
SaveCheats(c, p) == Write(Cheat(p), c)
SaveLocks == Write(Locks, {Key[g] : g \in {h \in present : rec[h].locked}})
\* The roster's file has a section of its own and then one for each slot, as far
\* as there is room: the players in the slots after that are not in it.
IniSections == 8
SaveRoster(u, a) == Write(Ini, [used |-> {p \in u : p + 2 <= IniSections}, active |-> a])
When(needed, write) == IF needed THEN <<write>> ELSE <<>>
-----------------------------------------------------------------------------
Init ==
    /\ on = FALSE
    /\ present = {} /\ writable = FALSE
    /\ rec = Unread /\ newest = 0 /\ dirty = FALSE
    /\ locksDirty = FALSE
    /\ cheats = {} /\ cheatsDirty = FALSE
    /\ used = {} /\ active = 0
    /\ leaving = FALSE
    /\ todo = <<>>
    /\ disk = [f \in Places |->
                  IF f = Ini THEN [used |-> OldRoster, active |-> 0]
                  ELSE IF f = Play(0) THEN OldRows ELSE {}]
    /\ touched = [p \in Slots |-> IF p = 0 THEN {r.key : r \in OldRows} ELSE {}]

\* One of the handler's writes.
WriteFile ==
    /\ todo # <<>>
    /\ disk' = [disk EXCEPT ![Head(todo).at] = Head(todo).to]
    /\ todo' = Tail(todo)
    /\ UNCHANGED <<on, ram, touched>>

\* The power goes, or a game is running and the console is reset.
PowerOff ==
    /\ on
    /\ on' = FALSE
    /\ \/ UNCHANGED disk
       \/ /\ todo # <<>> /\ Head(todo).at[1] \in Torn
          /\ \E half \in Halves(Head(todo)) : disk' = [disk EXCEPT ![Head(todo).at] = half]
    /\ todo' = <<>>
    /\ present' = {} /\ writable' = FALSE
    /\ rec' = Unread /\ newest' = 0 /\ dirty' = FALSE
    /\ locksDirty' = FALSE
    /\ cheats' = {} /\ cheatsDirty' = FALSE
    /\ used' = {} /\ active' = 0
    /\ leaving' = FALSE
    /\ UNCHANGED touched

(***************************************************************************)
(* app_init(): profile_load(), the library, playstate_load(), locks_load() *)
(* and cheatstate_load(), in that order.                                   *)
(***************************************************************************)
BootAs == IF disk[Ini].active \in disk[Ini].used THEN disk[Ini].active ELSE 0

Boot ==
    /\ ~ on
    /\ on' = TRUE
    /\ present' \in Libraries
    /\ writable' \in Writable
    /\ active' = BootAs
    /\ used' = disk[Ini].used \cup {0}
    /\ LET played == Applied(disk[Play(BootAs)], present', Unread)
       IN  /\ rec' = [g \in Games |->
                         [played[g] EXCEPT !.locked = @ \/ (g \in present' /\ Key[g] \in disk[Locks])]]
           /\ locksDirty' = (disk[Locks] = {} /\ \E g \in Games : played[g].locked)
    /\ newest' = NewestOf(disk[Play(BootAs)], present', 0)
    /\ cheats' = disk[Cheat(BootAs)]
    /\ UNCHANGED <<dirty, cheatsDirty, leaving, todo, disk, touched>>
-----------------------------------------------------------------------------
\* The menu runs and the last handler is done.
Idle == on /\ todo = <<>> /\ ~ leaving

Touch(k) == touched' = [touched EXCEPT ![active] = @ \cup {k}]

\* C-right on the grid or on a game's sheet: marked dirty, not written.
Favourite(g) ==
    /\ Idle /\ g \in present \cap Liked
    /\ rec' = [rec EXCEPT ![g].fav = ~ @]
    /\ dirty' = TRUE
    /\ Touch(Key[g])
    /\ UNCHANGED <<on, present, writable, newest, locksDirty, cheats, cheatsDirty, used, active,
                   leaving, todo, disk>>

\* The parent locks or unlocks a game: marked dirty, not written.
ToggleLock(g) ==
    /\ Idle /\ g \in present \cap Locked
    /\ rec' = [rec EXCEPT ![g].locked = ~ @]
    /\ locksDirty' = TRUE
    /\ UNCHANGED <<on, present, writable, newest, dirty, cheats, cheatsDirty, used, active,
                   leaving, todo, disk, touched>>

(***************************************************************************)
(* cheatstate_capture(): a game's ticks replace what was ticked before.    *)
(* Nothing ticked before or now changes nothing.                           *)
(***************************************************************************)
Captured(k, ticked) == IF ticked THEN cheats \cup {k} ELSE cheats \ {k}
\* Mutant: taking the last tick off is no change.
MovedByTicking(k, ticked) == cheatsDirty \/ ticked
CheatsMoved(k, ticked) == cheatsDirty \/ ticked \/ k \in cheats

\* Backing out of a game's sheet captures and saves.
LeaveSheet(g, ticked) ==
    /\ Idle /\ g \in present \cap Ticked
    /\ CheatsMoved(Key[g], ticked)
    /\ cheats' = Captured(Key[g], ticked)
    /\ cheatsDirty' = ~ writable
    /\ todo' = Script(<<SaveCheats(cheats', active)>>)
    /\ Touch(Key[g])
    /\ UNCHANGED <<on, present, writable, rec, newest, dirty, locksDirty, used, active, leaving,
                   disk>>

(***************************************************************************)
(* do_load(): cart_load puts a save file beside the ROM, then the play is  *)
(* counted and written with the cheats.  A launch that gets as far as      *)
(* boot() runs app_deinit(), which writes the padlocks too; a diagnostic   *)
(* one stays.                                                              *)
(***************************************************************************)
\* playstate_played() makes the timestamp beat every other, in 32 bits.
Stamped(t) == IF t <= newest THEN (newest + 1) % (MaxStamp + 1) ELSE t

Launch(g, ticked, t, boots) ==
    LET cheatsMoved == CheatsMoved(Key[g], ticked)
    IN  /\ Idle /\ g \in present
        /\ newest <= MaxNewest /\ (ticked => g \in Ticked)
        /\ rec' = [rec EXCEPT ![g].stamp = Stamped(t), ![g].played = TRUE]
        /\ newest' = Stamped(t)
        /\ cheats' = Captured(Key[g], ticked)
        /\ todo' = Script(<<Write(Saves(active), disk[Saves(active)] \cup {g}),
                            SavePlay(rec', active)>>
                          \o When(cheatsMoved, SaveCheats(cheats', active))
                          \o When(boots /\ locksDirty, SaveLocks))
        /\ dirty' = ~ writable
        /\ cheatsDirty' = (cheatsMoved /\ ~ writable)
        /\ locksDirty' = (locksDirty /\ ~ (boots /\ writable))
        /\ leaving' = boots
        /\ Touch(Key[g])
        /\ UNCHANGED <<on, present, writable, used, active, disk>>
-----------------------------------------------------------------------------
(***************************************************************************)
(* profile_activate(p): flush what is unwritten for the slot that is       *)
(* active, then load the other one over it.  begun is what the handler     *)
(* has written before.                                                     *)
(***************************************************************************)
\* Mutant: the flags are cleared, not the favourite alone.
ClearedOfAll == Unread
Cleared == [g \in Games |-> [rec[g] EXCEPT !.fav = FALSE, !.stamp = 0, !.played = FALSE]]

\* Mutant: switch first, flush afterwards.
FlushAsNew(from, p) == p
FlushAs(from, p) == from

Activate(begun, from, p, roster) ==
    LET script == Script(begun
                         \o When(dirty, SavePlay(rec, FlushAs(from, p)))
                         \o When(cheatsDirty, SaveCheats(cheats, FlushAs(from, p)))
                         \o <<SaveRoster(roster, p)>>)
        rows == After(script)[Play(p)]
    IN  /\ todo' = script
        /\ active' = p
        /\ used' = roster
        /\ rec' = Applied(rows, present, Cleared)
        /\ newest' = NewestOf(rows, present, newest)
        /\ dirty' = (dirty /\ ~ writable /\ rows = {})
        /\ cheats' = After(script)[Cheat(p)]
        /\ cheatsDirty' = FALSE
        /\ UNCHANGED <<on, present, writable, locksDirty, leaving, disk, touched>>

\* A on somebody else's card.
Choose(p) ==
    /\ Idle /\ p \in used \ {active}
    /\ Activate(<<>>, active, p, used)

\* profile_add_at(), from A on an empty card, or START for the lowest one.
AddProfile(p) ==
    /\ Idle /\ p \in Slots \ used
    /\ used' = used \cup {p}
    /\ todo' = Script(<<SaveRoster(used', active)>>)
    /\ touched' = [touched EXCEPT ![p] = {}]
    /\ UNCHANGED <<on, present, writable, rec, newest, dirty, locksDirty, cheats, cheatsDirty,
                   active, leaving, disk>>

(***************************************************************************)
(* run_delete(): profile_erase_saves() looks beside the ROMs the library   *)
(* has, profile_remove() drops the slot's files and clears it, and the     *)
(* profile that is active then is activated, the same one or slot 0.       *)
(***************************************************************************)
Reachable == {g \in Games : Folder[g] \in {Folder[h] : h \in present}}

\* Mutant: the slot is cleared before its files are gone.
RemovedSlotFirst(p, next) ==
    <<SaveRoster(used \ {p}, next), Write(Saves(p), disk[Saves(p)] \ Reachable),
      Write(Play(p), {}), Write(Cheat(p), {})>>
Removed(p, next) ==
    <<Write(Saves(p), disk[Saves(p)] \ Reachable), Write(Play(p), {}), Write(Cheat(p), {}),
      SaveRoster(used \ {p}, next)>>

Delete(p) ==
    LET next == IF p = active THEN 0 ELSE active
    IN  /\ Idle /\ p \in used \ {0}
        /\ (IF p = active THEN "active" ELSE "other") \in Deletable
        /\ writable \/ "refused" \in Deletable
        /\ Activate(Removed(p, next), next, next, used \ {p})
-----------------------------------------------------------------------------
Handler ==
    \/ \E g \in Games : Favourite(g) \/ ToggleLock(g)
    \/ \E g \in Games, ticked \in BOOLEAN :
          LeaveSheet(g, ticked) \/ \E t \in Clock, boots \in BOOLEAN : Launch(g, ticked, t, boots)
    \/ \E p \in Slots : Choose(p) \/ AddProfile(p) \/ Delete(p)

Next == WriteFile \/ PowerOff \/ Boot \/ Handler

Spec == Init /\ [][Next]_vars
-----------------------------------------------------------------------------
\* What may be written, and where to.
Writes ==
    [at : {Ini}, to : [used : SUBSET Slots, active : Slots]]
    \cup [at : {Locks} \cup {Cheat(p) : p \in Slots}, to : SUBSET Keys]
    \cup [at : {Play(p) : p \in Slots}, to : SUBSET Rows]
    \cup [at : {Saves(p) : p \in Slots}, to : SUBSET Games]

TypeOK ==
    /\ on \in BOOLEAN /\ writable \in BOOLEAN /\ leaving \in BOOLEAN
    /\ dirty \in BOOLEAN /\ locksDirty \in BOOLEAN /\ cheatsDirty \in BOOLEAN
    /\ present \in SUBSET Games
    /\ rec \in [Games -> [fav : BOOLEAN, stamp : Stamps, played : BOOLEAN, locked : BOOLEAN]]
    /\ newest \in Stamps
    /\ cheats \in SUBSET Keys
    /\ used \in SUBSET Slots /\ active \in Slots
    /\ todo \in Seq(Writes)
    /\ DOMAIN disk = Places /\ \A f \in Places : Write(f, disk[f]) \in Writes
    /\ touched \in [Slots -> SUBSET Keys]

\* "Not dirty" means written: with every flag clear, booting again with the same
\* games would bring back exactly what is in memory for the active player, and on
\* storage that can be written the same players with the same one active.
CleanMeansSaved ==
    /\ TypeOK
    /\ Idle =>
        /\ writable => (disk[Ini].used = used /\ BootAs = active)
        /\ ~ dirty =>
              \A g \in present :
                  LET again == Applied(disk[Play(active)], present, Unread)[g]
                  IN  again.fav = rec[g].fav /\ again.stamp = rec[g].stamp
        /\ ~ cheatsDirty => cheats = disk[Cheat(active)]
        /\ ~ locksDirty => \A g \in present : rec[g].locked <=> Key[g] \in disk[Locks]

\* playstate_played(): "the game just played outranks everything played before
\* it", whatever the clock says, across boots and players.
PlayedIsNewest ==
    [][on /\ on' /\ active' = active /\ used' = used =>
          \A g \in Games :
              rec'[g].played /\ <<rec'[g].played, rec'[g].stamp>> # <<rec[g].played, rec[g].stamp>>
                  => \A h \in Games \ {g} : rec'[h].stamp < rec'[g].stamp]_vars

\* Whatever a slot's files remember, or the records say while it is active, its
\* own player did: nobody's favourites, history or cheats become another's.
OwnHistoryOnly ==
    /\ \A p \in Slots :
          {r.key : r \in disk[Play(p)]} \cup disk[Cheat(p)] \subseteq touched[p]
    /\ on => cheats \cup {Key[g] : g \in {h \in present : rec[h].fav \/ rec[h].played}}
                 \subseteq touched[active]

\* profile.h: the next player to fill a slot "gets an empty folder".  A slot the
\* roster has free has no files, whenever the power went.
FreeSlotIsEmpty ==
    \A p \in Slots \ disk[Ini].used :
        disk[Play(p)] = {} /\ disk[Cheat(p)] = {} /\ disk[Saves(p)] = {}

\* locks.h: "Switching profile changes what you like.  It changes nothing about
\* what you are allowed to play."  Only the parent moves a padlock.
OnlyTheParentMovesLocks ==
    [][on /\ on' => \A g \in Games :
          rec'[g].locked # rec[g].locked => locksDirty' /\ todo' = todo /\ active' = active]_vars
=============================================================================
