---------------------------- MODULE Launch_proofs ----------------------------
(***************************************************************************)
(* What holds of every launch, for any games, players and bounds: the      *)
(* cartridge serves the player's own save, nothing made in a game is lost  *)
(* but to the power switch, plays are counted once, and what the console   *)
(* is handed is whole.                                                     *)
(***************************************************************************)
EXTENDS Launch, TLAPS

-----------------------------------------------------------------------------
(* The inductive invariant, in parts.                                      *)

\* Phases in which the game is on the cartridge, and those in which the play
\* is still to be counted.
Served == {"record", "patch", "hook", "header", "hand", "game"}
Uncounted == Steps \cup {"record"}

\* Only a cartridge is loaded, and what is started lies with the launch.
CartInv == phase \in Steps \cup {"hook", "header", "hand", "game"} => cart = "sc64"

\* No count runs ahead of the launches, and while storage has taken every
\* write the counts on the card - and, once read, in memory - are the launches.
CountInv ==
    /\ \A g \in Games : plays[g] <= loaded[g] /\ recorded[g] <= loaded[g]
    /\ phase \in Uncounted => loaded[game] < MaxPlays
    /\ ~ refused => /\ recorded = loaded
                    /\ phase \notin {"off", "init", "fault"} => plays = loaded

\* The cartridge owes the card one save at most, the last one made in the file
\* it has been told; every other file holds the last save made in it, and no
\* one else's.
SaveInv ==
    /\ pending => /\ phase \in {"game", "init", "fault"}
                  /\ target \in Places /\ save.by = target /\ save.n = saved[target]
    /\ \A f \in Places : /\ files[f].by \in {Nobody, f}
                         /\ files[f].n = saved[f] \/ (pending /\ f = target)

\* How far the save memory is ready, step by step.
ReadyInv ==
    /\ phase = "create" => files[SaveOf] = NoFile
    /\ phase = "fill" => files[SaveOf] = Junk
    /\ phase \in {"create", "fill", "save", "writeback"} => game \in Saving /\ config.type
    /\ phase = "writeback" => save = files[SaveOf]
    /\ phase \in Served /\ cart = "sc64" =>
        /\ config.type <=> game \in Saving
        /\ config.type => /\ target = SaveOf
                          /\ save.by \in {Nobody, SaveOf}
                          /\ pending \/ save = files[SaveOf]
    /\ phase = "game" => ~ config.writable

\* What stands in the image, step by step; the classic engine and one in the
\* image exclude each other.
ImageInv ==
    /\ phase = "emulated" => image = Image(game, FALSE)
    /\ phase \in (Steps \ {"rom", "emulated"}) => image = Image(game, TRUE)
    /\ phase \in Served /\ cart = "sc64" =>
        /\ image.of = game /\ image.whole
        /\ phase \in {"record", "patch"} => image = Image(game, TRUE)
        /\ phase = "hook" => image.engine /\ ~ image.hook
        /\ phase = "header" => image.engine /\ image.hook
        /\ phase \in {"hand", "game"} => image.header /\ (image.hook <=> image.engine)
    /\ cheats => phase \in {"hand", "game"} /\ cart = "sc64" /\ ~ image.engine

LaunchInv == TypeOK /\ CartInv /\ CountInv /\ SaveInv /\ ReadyInv /\ ImageInv

-----------------------------------------------------------------------------
\* No step takes a variable out of its type: a count stays within its bound
\* because it never runs ahead of the launches, which are bounded.
LEMMA NextTypes ==
  ASSUME TypeOK, CountInv, SaveInv, [Next]_vars
  PROVE  TypeOK'
<1>0. {dirty, refused, cheats} \subseteq BOOLEAN /\ pending \in BOOLEAN
  BY Zenon DEF TypeOK
<1>. USE LaunchAssumption DEF CountInv, SaveInv, Uncounted, TypeOK, Phases, Steps, Places, Contents, Content, NoFile, ShortFile, Junk, Erased, Image, NoImage, Defaults, AfterRom, SaveOf
<1>1. CASE PowerOn
  BY <1>1 DEF PowerOn, cartVars, menuVars, counts
<1>2. CASE InitCart
  <2>1. {dirty', refused', cheats'} \subseteq BOOLEAN /\ pending' \in BOOLEAN
    <3>1. dirty' = FALSE /\ refused' = refused /\ cheats' = cheats /\ pending' = pending
      BY ONLY <1>2, Zenon DEF InitCart, counts, menuVars
    <3>2. QED
      BY ONLY <1>0, <3>1, Zenon
  <2>2. {loaded', plays', recorded'} \subseteq [Games -> 0 .. MaxPlays]
    BY <1>2 DEF InitCart, cartVars, menuVars, counts
  <2>3. QED
    BY <1>2, <2>1, <2>2 DEF InitCart, cartVars, menuVars, counts
<1>3. CASE InitFails
  BY <1>3 DEF InitFails, cartVars, menuVars, counts, Fault
<1>4. CASE Writeback
  <2>1. /\ UNCHANGED <<cart, phase, game, player, saved>> /\ UNCHANGED cartVars
        /\ UNCHANGED menuVars /\ UNCHANGED counts /\ UNCHANGED cheats
        /\ pending' = FALSE /\ files' = [files EXCEPT ![target] = save]
    BY ONLY <1>4, Zenon DEF Writeback
  <2>2. files' \in [Places -> Contents]
    <3>1. files \in [Places -> Contents] /\ save \in Contents
      BY ONLY TypeOK, Zenon DEF TypeOK
    <3>2. QED
      BY ONLY <2>1, <3>1
  <2>3. {dirty', refused', cheats'} \subseteq BOOLEAN /\ pending' \in BOOLEAN
    <3>1. dirty' = dirty /\ refused' = refused /\ cheats' = cheats /\ pending' = FALSE
      BY ONLY <2>1, Zenon DEF menuVars, counts
    <3>2. QED
      BY ONLY <1>0, <3>1, Zenon
  <2>4. {loaded', plays', recorded'} \subseteq [Games -> 0 .. MaxPlays]
    BY <2>1 DEF menuVars, counts
  <2>5. QED
    BY <2>1, <2>2, <2>3, <2>4 DEF cartVars
<1>5. CASE Reset
  <2>1. {dirty', refused', cheats'} \subseteq BOOLEAN /\ pending' \in BOOLEAN
    <3>1. dirty' = FALSE /\ refused' = refused /\ cheats' = FALSE /\ pending' = pending
      BY ONLY <1>5, Zenon DEF Reset, counts, menuVars
    <3>2. QED
      BY ONLY <1>0, <3>1, Zenon
  <2>2. {loaded', plays', recorded'} \subseteq [Games -> 0 .. MaxPlays]
    BY <1>5 DEF Reset, cartVars, menuVars, counts
  <2>3. QED
    BY <1>5, <2>1, <2>2 DEF Reset, cartVars, menuVars, counts
<1>6. CASE PowerOff
  <2>1. {dirty', refused', cheats'} \subseteq BOOLEAN /\ pending' \in BOOLEAN
    <3>1. dirty' = FALSE /\ refused' = refused /\ cheats' = FALSE /\ pending' = FALSE
      BY ONLY <1>6, Zenon DEF PowerOff, counts, menuVars
    <3>2. QED
      BY ONLY <1>0, <3>1, Zenon
  <2>2. {loaded', plays', recorded'} \subseteq [Games -> 0 .. MaxPlays]
    BY <1>6 DEF PowerOff, cartVars, menuVars, counts
  <2>3. QED
    BY <1>6, <2>1, <2>2 DEF PowerOff, cartVars, menuVars, counts
<1>7. ASSUME NEW g \in Games, NEW p \in Players, Choose(g, p) PROVE TypeOK'
  BY <1>7 DEF Choose, cartVars, menuVars, counts
<1>8. CASE LoadRom
  BY <1>8 DEF LoadRom, cartVars, menuVars, counts
<1>9. CASE CoreMissing
  BY <1>9 DEF CoreMissing, cartVars, menuVars, counts, Fault
<1>10. CASE LoadEmulated
  BY <1>10 DEF LoadEmulated, cartVars, menuVars, counts
<1>11. CASE MakeDirectory
  BY <1>11 DEF MakeDirectory, cartVars, menuVars, counts
<1>12. CASE SetType
  <2>1. {dirty', refused', cheats'} \subseteq BOOLEAN /\ pending' \in BOOLEAN
    BY <1>12, Zenon DEF SetType, cartVars, menuVars, counts
  <2>2. {loaded', plays', recorded'} \subseteq [Games -> 0 .. MaxPlays]
    BY <1>12 DEF SetType, cartVars, menuVars, counts
  <2>3. CASE game \in Saving
    BY <1>12, <2>1, <2>2, <2>3 DEF SetType, cartVars, menuVars, counts
  <2>4. CASE game \notin Saving
    BY <1>12, <2>1, <2>2, <2>4 DEF SetType, cartVars, menuVars, counts
  <2>5. QED
    BY <2>3, <2>4
<1>13. CASE CreateSave
  BY <1>13 DEF CreateSave, cartVars, menuVars, counts
<1>14. CASE CardFull
  BY <1>14 DEF CardFull, cartVars, menuVars, counts, Fault
<1>15. CASE FillSave
  BY <1>15 DEF FillSave, cartVars, menuVars, counts
<1>16. CASE LoadSave
  BY <1>16 DEF LoadSave, cartVars, menuVars, counts, Fault
<1>17. CASE EnableWriteback
  BY <1>17 DEF EnableWriteback, cartVars, menuVars, counts
<1>18. CASE LoadFails
  BY <1>18 DEF LoadFails, cartVars, menuVars, counts, Fault
<1>19. CASE Record
  <2>1. {dirty', refused', cheats'} \subseteq BOOLEAN /\ pending' \in BOOLEAN
    BY <1>19, Zenon DEF Record, cartVars, menuVars, counts, Keep
  <2>2. {loaded', plays', recorded'} \subseteq [Games -> 0 .. MaxPlays]
    BY <1>19 DEF Record, cartVars, menuVars, counts, Keep
  <2>3. QED
    BY <1>19, <2>1, <2>2 DEF Record, cartVars, menuVars, counts, Keep
<1>20. CASE NoPatch
  <2>1. {dirty', refused', cheats'} \subseteq BOOLEAN /\ pending' \in BOOLEAN
    BY <1>20, Zenon DEF NoPatch, cartVars, menuVars, counts, Cheated
  <2>2. {loaded', plays', recorded'} \subseteq [Games -> 0 .. MaxPlays]
    BY <1>20 DEF NoPatch, cartVars, menuVars, counts, Cheated
  <2>3. QED
    BY <1>20, <2>1, <2>2 DEF NoPatch, cartVars, menuVars, counts, Cheated
<1>21. CASE WriteEngine
  BY <1>21 DEF WriteEngine, cartVars, menuVars, counts, Cheated
<1>22. CASE WriteHook
  BY <1>22 DEF WriteHook, cartVars, menuVars, counts
<1>23. CASE WriteHeader
  BY <1>23 DEF WriteHeader, cartVars, menuVars, counts
<1>24. CASE HandOff
  <2>1. {dirty', refused', cheats'} \subseteq BOOLEAN /\ pending' \in BOOLEAN
    BY <1>24, Zenon DEF HandOff, cartVars, menuVars, counts, Keep
  <2>2. {loaded', plays', recorded'} \subseteq [Games -> 0 .. MaxPlays]
    BY <1>24 DEF HandOff, cartVars, menuVars, counts, Keep
  <2>3. QED
    BY <1>24, <2>1, <2>2 DEF HandOff, cartVars, menuVars, counts, Keep
<1>25. CASE GameSaves
  BY <1>25 DEF GameSaves, cartVars, menuVars, counts
<1>26. CASE UNCHANGED vars
  BY <1>26 DEF vars, cartVars, menuVars, counts
<1>. QED
  BY <1>1, <1>2, <1>3, <1>4, <1>5, <1>6, <1>7, <1>8, <1>9, <1>10, <1>11, <1>12, <1>13, <1>14, <1>15, <1>16, <1>17, <1>18, <1>19, <1>20, <1>21, <1>22, <1>23, <1>24, <1>25, <1>26 DEF Next

\* A console that is off satisfies every part.
LEMMA InitLaunch == Init => LaunchInv
<1> SUFFICES ASSUME Init PROVE LaunchInv
  OBVIOUS
<1>. USE LaunchAssumption DEF Init, NoImage, Defaults, Image, Junk, NoFile, Content
<1>1. game \in Games /\ player \in Players
  OBVIOUS
<1>2. {dirty, refused, cheats} \subseteq BOOLEAN /\ pending \in BOOLEAN
  BY Zenon
<1>3. TypeOK
  BY <1>1, <1>2 DEF TypeOK, Phases, Contents, Places
<1>4. CartInv /\ CountInv /\ SaveInv /\ ReadyInv /\ ImageInv
  BY <1>1 DEF CartInv, CountInv, SaveInv, ReadyInv, ImageInv, Uncounted, Served, Steps, Places
<1>5. QED
  BY <1>3, <1>4 DEF LaunchInv

\* Without a cartridge nothing is loaded and no image is edited.
LEMMA NextCart ==
  ASSUME TypeOK, CartInv, [Next]_vars
  PROVE  CartInv'
<1>. USE LaunchAssumption DEF CartInv, TypeOK, Phases, Steps, Places
<1>1. CASE PowerOn
  BY <1>1 DEF PowerOn, cartVars, menuVars, counts
<1>2. CASE InitCart
  BY <1>2 DEF InitCart, cartVars, menuVars, counts
<1>3. CASE InitFails
  BY <1>3 DEF InitFails, cartVars, menuVars, counts, Fault
<1>4. CASE Writeback
  BY <1>4 DEF Writeback, cartVars, menuVars, counts
<1>5. CASE Reset
  BY <1>5 DEF Reset, cartVars, menuVars, counts
<1>6. CASE PowerOff
  BY <1>6 DEF PowerOff, cartVars, menuVars, counts
<1>7. ASSUME NEW g \in Games, NEW p \in Players, Choose(g, p) PROVE CartInv'
  BY <1>7 DEF Choose, cartVars, menuVars, counts
<1>8. CASE LoadRom
  BY <1>8 DEF LoadRom, cartVars, menuVars, counts
<1>9. CASE CoreMissing
  BY <1>9 DEF CoreMissing, cartVars, menuVars, counts, Fault
<1>10. CASE LoadEmulated
  BY <1>10 DEF LoadEmulated, cartVars, menuVars, counts
<1>11. CASE MakeDirectory
  BY <1>11 DEF MakeDirectory, cartVars, menuVars, counts
<1>12. CASE SetType
  BY <1>12 DEF SetType, cartVars, menuVars, counts
<1>13. CASE CreateSave
  BY <1>13 DEF CreateSave, cartVars, menuVars, counts
<1>14. CASE CardFull
  BY <1>14 DEF CardFull, cartVars, menuVars, counts, Fault
<1>15. CASE FillSave
  BY <1>15 DEF FillSave, cartVars, menuVars, counts
<1>16. CASE LoadSave
  BY <1>16 DEF LoadSave, cartVars, menuVars, counts, Fault
<1>17. CASE EnableWriteback
  BY <1>17 DEF EnableWriteback, cartVars, menuVars, counts
<1>18. CASE LoadFails
  BY <1>18 DEF LoadFails, cartVars, menuVars, counts, Fault
<1>19. CASE Record
  BY <1>19 DEF Record, cartVars, menuVars, counts, Keep
<1>20. CASE NoPatch
  BY <1>20 DEF NoPatch, cartVars, menuVars, counts, Cheated
<1>21. CASE WriteEngine
  BY <1>21 DEF WriteEngine, cartVars, menuVars, counts, Cheated
<1>22. CASE WriteHook
  BY <1>22 DEF WriteHook, cartVars, menuVars, counts
<1>23. CASE WriteHeader
  BY <1>23 DEF WriteHeader, cartVars, menuVars, counts
<1>24. CASE HandOff
  BY <1>24 DEF HandOff, cartVars, menuVars, counts, Keep
<1>25. CASE GameSaves
  BY <1>25 DEF GameSaves, cartVars, menuVars, counts
<1>26. CASE UNCHANGED vars
  BY <1>26 DEF vars, cartVars, menuVars, counts
<1>. QED
  BY <1>1, <1>2, <1>3, <1>4, <1>5, <1>6, <1>7, <1>8, <1>9, <1>10, <1>11, <1>12, <1>13, <1>14, <1>15, <1>16, <1>17, <1>18, <1>19, <1>20, <1>21, <1>22, <1>23, <1>24, <1>25, <1>26 DEF Next

\* A launch counts its play once, in memory and then on the card.
LEMMA NextCount ==
  ASSUME TypeOK, CountInv, [Next]_vars
  PROVE  CountInv'
<1>. USE LaunchAssumption DEF CountInv, TypeOK, Uncounted, AfterRom, Phases, Steps, Places
<1>1. CASE PowerOn
  BY <1>1 DEF PowerOn, cartVars, menuVars, counts
<1>2. CASE InitCart
  BY <1>2 DEF InitCart, cartVars, menuVars, counts
<1>3. CASE InitFails
  BY <1>3 DEF InitFails, cartVars, menuVars, counts, Fault
<1>4. CASE Writeback
  BY <1>4 DEF Writeback, cartVars, menuVars, counts
<1>5. CASE Reset
  BY <1>5 DEF Reset, cartVars, menuVars, counts
<1>6. CASE PowerOff
  BY <1>6 DEF PowerOff, cartVars, menuVars, counts
<1>7. ASSUME NEW g \in Games, NEW p \in Players, Choose(g, p) PROVE CountInv'
  BY <1>7 DEF Choose, cartVars, menuVars, counts
<1>8. CASE LoadRom
  BY <1>8 DEF LoadRom, cartVars, menuVars, counts
<1>9. CASE CoreMissing
  BY <1>9 DEF CoreMissing, cartVars, menuVars, counts, Fault
<1>10. CASE LoadEmulated
  BY <1>10 DEF LoadEmulated, cartVars, menuVars, counts
<1>11. CASE MakeDirectory
  BY <1>11 DEF MakeDirectory, cartVars, menuVars, counts
<1>12. CASE SetType
  BY <1>12 DEF SetType, cartVars, menuVars, counts
<1>13. CASE CreateSave
  BY <1>13 DEF CreateSave, cartVars, menuVars, counts
<1>14. CASE CardFull
  BY <1>14 DEF CardFull, cartVars, menuVars, counts, Fault
<1>15. CASE FillSave
  BY <1>15 DEF FillSave, cartVars, menuVars, counts
<1>16. CASE LoadSave
  BY <1>16 DEF LoadSave, cartVars, menuVars, counts, Fault
<1>17. CASE EnableWriteback
  BY <1>17 DEF EnableWriteback, cartVars, menuVars, counts
<1>18. CASE LoadFails
  BY <1>18 DEF LoadFails, cartVars, menuVars, counts, Fault
<1>19. CASE Record
  <2>1. /\ loaded' = [loaded EXCEPT ![game] = @ + 1] /\ plays' = [plays EXCEPT ![game] = @ + 1]
        /\ phase' = "patch" /\ game' = game
    BY <1>19, Zenon DEF Record
  <2>2. \/ recorded' = plays' /\ refused' = refused
        \/ recorded' = recorded /\ refused' = TRUE
    BY <1>19, Zenon DEF Record, Keep
  <2>a. loaded \in [Games -> Nat] /\ plays \in [Games -> Nat] /\ recorded \in [Games -> Nat]
    OBVIOUS
  <2>3. ASSUME NEW g \in Games PROVE plays'[g] <= loaded'[g] /\ recorded'[g] <= loaded'[g]
    BY <2>1, <2>2, <2>a
  <2>4. ~ refused' => recorded' = loaded' /\ plays' = loaded'
    BY <1>19, <2>1, <2>2 DEF Record
  <2>5. QED
    BY <2>1, <2>3, <2>4
<1>20. CASE NoPatch
  BY <1>20 DEF NoPatch, cartVars, menuVars, counts, Cheated
<1>21. CASE WriteEngine
  BY <1>21 DEF WriteEngine, cartVars, menuVars, counts, Cheated
<1>22. CASE WriteHook
  BY <1>22 DEF WriteHook, cartVars, menuVars, counts
<1>23. CASE WriteHeader
  BY <1>23 DEF WriteHeader, cartVars, menuVars, counts
<1>24. CASE HandOff
  BY <1>24 DEF HandOff, cartVars, menuVars, counts, Keep
<1>25. CASE GameSaves
  BY <1>25 DEF GameSaves, cartVars, menuVars, counts
<1>26. CASE UNCHANGED vars
  BY <1>26 DEF vars, cartVars, menuVars, counts
<1>. QED
  BY <1>1, <1>2, <1>3, <1>4, <1>5, <1>6, <1>7, <1>8, <1>9, <1>10, <1>11, <1>12, <1>13, <1>14, <1>15, <1>16, <1>17, <1>18, <1>19, <1>20, <1>21, <1>22, <1>23, <1>24, <1>25, <1>26 DEF Next

\* What a game saved reaches its own file, or is still owed to it.
LEMMA NextSave ==
  ASSUME LaunchInv, [Next]_vars
  PROVE  SaveInv'
<1>. USE LaunchAssumption DEF SaveInv, LaunchInv, CartInv, ReadyInv, Served, TypeOK, SaveOf, Contents, Content, NoFile, ShortFile, Junk, Erased, Phases, Steps, Places
<1>1. CASE PowerOn
  BY <1>1 DEF PowerOn, cartVars, menuVars, counts
<1>2. CASE InitCart
  BY <1>2 DEF InitCart, cartVars, menuVars, counts
<1>3. CASE InitFails
  BY <1>3 DEF InitFails, cartVars, menuVars, counts, Fault
<1>4. CASE Writeback
  BY <1>4 DEF Writeback, cartVars, menuVars, counts
<1>5. CASE Reset
  BY <1>5 DEF Reset, cartVars, menuVars, counts
<1>6. CASE PowerOff
  BY <1>6 DEF PowerOff, cartVars, menuVars, counts
<1>7. ASSUME NEW g \in Games, NEW p \in Players, Choose(g, p) PROVE SaveInv'
  BY <1>7 DEF Choose, cartVars, menuVars, counts
<1>8. CASE LoadRom
  BY <1>8 DEF LoadRom, cartVars, menuVars, counts
<1>9. CASE CoreMissing
  BY <1>9 DEF CoreMissing, cartVars, menuVars, counts, Fault
<1>10. CASE LoadEmulated
  BY <1>10 DEF LoadEmulated, cartVars, menuVars, counts
<1>11. CASE MakeDirectory
  BY <1>11 DEF MakeDirectory, cartVars, menuVars, counts
<1>12. CASE SetType
  BY <1>12 DEF SetType, cartVars, menuVars, counts
<1>13. CASE CreateSave
  BY <1>13 DEF CreateSave, cartVars, menuVars, counts
<1>14. CASE CardFull
  <2>1. SaveOf \in Places /\ ~ pending /\ saved[SaveOf] = 0
    BY <1>14 DEF CardFull
  <2>2. files' = [files EXCEPT ![SaveOf] = ShortFile]
    BY <1>14 DEF CardFull
  <2>3. QED
    BY <1>14, <2>1, <2>2 DEF CardFull, cartVars, menuVars, counts, Fault
<1>15. CASE FillSave
  <2>1. SaveOf \in Places /\ ~ pending /\ saved[SaveOf] = 0
    BY <1>15 DEF FillSave
  <2>2. files' = [files EXCEPT ![SaveOf] = Erased]
    BY <1>15 DEF FillSave
  <2>3. QED
    BY <1>15, <2>1, <2>2 DEF FillSave, cartVars, menuVars, counts
<1>16. CASE LoadSave
  BY <1>16 DEF LoadSave, cartVars, menuVars, counts, Fault
<1>17. CASE EnableWriteback
  BY <1>17 DEF EnableWriteback, cartVars, menuVars, counts
<1>18. CASE LoadFails
  BY <1>18 DEF LoadFails, cartVars, menuVars, counts, Fault
<1>19. CASE Record
  BY <1>19 DEF Record, cartVars, menuVars, counts, Keep
<1>20. CASE NoPatch
  BY <1>20 DEF NoPatch, cartVars, menuVars, counts, Cheated
<1>21. CASE WriteEngine
  BY <1>21 DEF WriteEngine, cartVars, menuVars, counts, Cheated
<1>22. CASE WriteHook
  BY <1>22 DEF WriteHook, cartVars, menuVars, counts
<1>23. CASE WriteHeader
  BY <1>23 DEF WriteHeader, cartVars, menuVars, counts
<1>24. CASE HandOff
  BY <1>24 DEF HandOff, cartVars, menuVars, counts, Keep
<1>25. CASE GameSaves
  BY <1>25 DEF GameSaves, cartVars, menuVars, counts
<1>26. CASE UNCHANGED vars
  BY <1>26 DEF vars, cartVars, menuVars, counts
<1>. QED
  BY <1>1, <1>2, <1>3, <1>4, <1>5, <1>6, <1>7, <1>8, <1>9, <1>10, <1>11, <1>12, <1>13, <1>14, <1>15, <1>16, <1>17, <1>18, <1>19, <1>20, <1>21, <1>22, <1>23, <1>24, <1>25, <1>26 DEF Next

\* The steps of flashcart_load_save() follow one another to the end before a
\* game is handed the console.
LEMMA NextReady ==
  ASSUME LaunchInv, [Next]_vars
  PROVE  ReadyInv'
<1>. USE LaunchAssumption DEF SaveInv, LaunchInv, CartInv, ReadyInv, Served, TypeOK, AfterRom, SaveOf, Contents, Content, NoFile, ShortFile, Junk, Erased, Defaults, Phases, Steps, Places
<1>1. CASE PowerOn
  BY <1>1 DEF PowerOn, cartVars, menuVars, counts
<1>2. CASE InitCart
  BY <1>2 DEF InitCart, cartVars, menuVars, counts
<1>3. CASE InitFails
  BY <1>3 DEF InitFails, cartVars, menuVars, counts, Fault
<1>4. CASE Writeback
  BY <1>4 DEF Writeback, cartVars, menuVars, counts
<1>5. CASE Reset
  BY <1>5 DEF Reset, cartVars, menuVars, counts
<1>6. CASE PowerOff
  BY <1>6 DEF PowerOff, cartVars, menuVars, counts
<1>7. ASSUME NEW g \in Games, NEW p \in Players, Choose(g, p) PROVE ReadyInv'
  BY <1>7 DEF Choose, cartVars, menuVars, counts
<1>8. CASE LoadRom
  BY <1>8 DEF LoadRom, cartVars, menuVars, counts
<1>9. CASE CoreMissing
  BY <1>9 DEF CoreMissing, cartVars, menuVars, counts, Fault
<1>10. CASE LoadEmulated
  BY <1>10 DEF LoadEmulated, cartVars, menuVars, counts
<1>11. CASE MakeDirectory
  BY <1>11 DEF MakeDirectory, cartVars, menuVars, counts
<1>12. CASE SetType
  BY <1>12 DEF SetType, cartVars, menuVars, counts
<1>13. CASE CreateSave
  BY <1>13 DEF CreateSave, cartVars, menuVars, counts
<1>14. CASE CardFull
  BY <1>14 DEF CardFull, cartVars, menuVars, counts, Fault
<1>15. CASE FillSave
  BY <1>15 DEF FillSave, cartVars, menuVars, counts
<1>16. CASE LoadSave
  BY <1>16 DEF LoadSave, cartVars, menuVars, counts, Fault
<1>17. CASE EnableWriteback
  BY <1>17 DEF EnableWriteback, cartVars, menuVars, counts
<1>18. CASE LoadFails
  BY <1>18 DEF LoadFails, cartVars, menuVars, counts, Fault
<1>19. CASE Record
  BY <1>19 DEF Record, cartVars, menuVars, counts, Keep
<1>20. CASE NoPatch
  BY <1>20 DEF NoPatch, cartVars, menuVars, counts, Cheated
<1>21. CASE WriteEngine
  BY <1>21 DEF WriteEngine, cartVars, menuVars, counts, Cheated
<1>22. CASE WriteHook
  BY <1>22 DEF WriteHook, cartVars, menuVars, counts
<1>23. CASE WriteHeader
  BY <1>23 DEF WriteHeader, cartVars, menuVars, counts
<1>24. CASE HandOff
  BY <1>24 DEF HandOff, cartVars, menuVars, counts, Keep
<1>25. CASE GameSaves
  BY <1>25 DEF GameSaves, cartVars, menuVars, counts
<1>26. CASE UNCHANGED vars
  BY <1>26 DEF vars, cartVars, menuVars, counts
<1>. QED
  BY <1>1, <1>2, <1>3, <1>4, <1>5, <1>6, <1>7, <1>8, <1>9, <1>10, <1>11, <1>12, <1>13, <1>14, <1>15, <1>16, <1>17, <1>18, <1>19, <1>20, <1>21, <1>22, <1>23, <1>24, <1>25, <1>26 DEF Next

\* The image is whole before it is edited, and its header is written last.
LEMMA NextImage ==
  ASSUME LaunchInv, [Next]_vars
  PROVE  ImageInv'
<1>. USE LaunchAssumption DEF LaunchInv, CartInv, ImageInv, Served, TypeOK, AfterRom, Image, NoImage, Phases, Steps, Places
<1>1. CASE PowerOn
  BY <1>1 DEF PowerOn, cartVars, menuVars, counts
<1>2. CASE InitCart
  BY <1>2 DEF InitCart, cartVars, menuVars, counts
<1>3. CASE InitFails
  BY <1>3 DEF InitFails, cartVars, menuVars, counts, Fault
<1>4. CASE Writeback
  BY <1>4 DEF Writeback, cartVars, menuVars, counts
<1>5. CASE Reset
  BY <1>5 DEF Reset, cartVars, menuVars, counts
<1>6. CASE PowerOff
  BY <1>6 DEF PowerOff, cartVars, menuVars, counts
<1>7. ASSUME NEW g \in Games, NEW p \in Players, Choose(g, p) PROVE ImageInv'
  BY <1>7 DEF Choose, cartVars, menuVars, counts
<1>8. CASE LoadRom
  BY <1>8 DEF LoadRom, cartVars, menuVars, counts
<1>9. CASE CoreMissing
  BY <1>9 DEF CoreMissing, cartVars, menuVars, counts, Fault
<1>10. CASE LoadEmulated
  <2>1. image' = [image EXCEPT !.whole = TRUE] /\ image = Image(game, FALSE)
    BY <1>10 DEF LoadEmulated
  <2>2. image' = Image(game, TRUE)
    BY <2>1
  <2>3. QED
    BY <1>10, <2>2 DEF LoadEmulated
<1>11. CASE MakeDirectory
  BY <1>11 DEF MakeDirectory, cartVars, menuVars, counts
<1>12. CASE SetType
  BY <1>12 DEF SetType, cartVars, menuVars, counts
<1>13. CASE CreateSave
  BY <1>13 DEF CreateSave, cartVars, menuVars, counts
<1>14. CASE CardFull
  BY <1>14 DEF CardFull, cartVars, menuVars, counts, Fault
<1>15. CASE FillSave
  BY <1>15 DEF FillSave, cartVars, menuVars, counts
<1>16. CASE LoadSave
  BY <1>16 DEF LoadSave, cartVars, menuVars, counts, Fault
<1>17. CASE EnableWriteback
  BY <1>17 DEF EnableWriteback, cartVars, menuVars, counts
<1>18. CASE LoadFails
  BY <1>18 DEF LoadFails, cartVars, menuVars, counts, Fault
<1>19. CASE Record
  BY <1>19 DEF Record, cartVars, menuVars, counts, Keep
<1>20. CASE NoPatch
  <2>1. image = Image(game, TRUE) \/ cart = "none"
    BY <1>20 DEF NoPatch
  <2>2. cheats' => cart = "sc64"
    BY <1>20 DEF NoPatch, Cheated
  <2>3. QED
    BY <1>20, <2>1, <2>2 DEF NoPatch, cartVars
<1>21. CASE WriteEngine
  BY <1>21 DEF WriteEngine, cartVars, menuVars, counts, Cheated
<1>22. CASE WriteHook
  BY <1>22 DEF WriteHook, cartVars, menuVars, counts
<1>23. CASE WriteHeader
  BY <1>23 DEF WriteHeader, cartVars, menuVars, counts
<1>24. CASE HandOff
  BY <1>24 DEF HandOff, cartVars, menuVars, counts, Keep
<1>25. CASE GameSaves
  BY <1>25 DEF GameSaves, cartVars, menuVars, counts
<1>26. CASE UNCHANGED vars
  BY <1>26 DEF vars, cartVars, menuVars, counts
<1>. QED
  BY <1>1, <1>2, <1>3, <1>4, <1>5, <1>6, <1>7, <1>8, <1>9, <1>10, <1>11, <1>12, <1>13, <1>14, <1>15, <1>16, <1>17, <1>18, <1>19, <1>20, <1>21, <1>22, <1>23, <1>24, <1>25, <1>26 DEF Next

-----------------------------------------------------------------------------
(* The theorems.                                                           *)

\* The parts are one invariant together, none is by itself.
THEOREM LaunchInvariant == Spec => []LaunchInv
<1>1. LaunchInv /\ [Next]_vars => LaunchInv'
  BY NextTypes, NextCart, NextCount, NextSave, NextReady, NextImage DEF LaunchInv
<1>2. QED
  BY InitLaunch, <1>1, PTL DEF Spec

\* Every variable has its type, the counts their bound.
THEOREM TypeCorrect == Spec => []TypeOK
<1>1. LaunchInv => TypeOK
  BY DEF LaunchInv
<1>2. QED
  BY LaunchInvariant, <1>1, PTL

\* A game that runs has its own player's save before it, and what it saves
\* goes to that player's file (flashcart_load_save()).
THEOREM GameHasItsOwnSave == Spec => []OwnSave
<1>1. LaunchInv => OwnSave
  BY DEF LaunchInv, ReadyInv, CartInv, Served, OwnSave
<1>2. QED
  BY LaunchInvariant, <1>1, PTL

\* Once the menu is up, every save ever made is on the card, but for what the
\* power switch took (sc64_init(), flashcart_load_save()).
THEOREM NothingSavedIsLost == Spec => []ProgressKept
<1>1. LaunchInv => ProgressKept
  BY DEF LaunchInv, SaveInv, ProgressKept, Steps
<1>2. QED
  BY LaunchInvariant, <1>1, PTL

\* A play is counted when the game got onto the cartridge, once, and is on the
\* card before anything the console may not come back from (do_load()).
THEOREM PlaysAreCountedOnce == Spec => []CountedOnce
<1>1. LaunchInv => CountedOnce
  BY DEF LaunchInv, CountInv, CountedOnce
<1>2. QED
  BY LaunchInvariant, <1>1, PTL

\* The console is handed a whole image its header describes, closed to writes,
\* whose hook has an engine behind it, and one engine at most.
THEOREM ImageIsBootable == Spec => []BootableImage
<1>1. LaunchInv => BootableImage
  BY DEF LaunchInv, CartInv, ReadyInv, ImageInv, Served, BootableImage
<1>2. QED
  BY LaunchInvariant, <1>1, PTL
=============================================================================
