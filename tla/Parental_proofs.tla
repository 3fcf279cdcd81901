-------------------------- MODULE Parental_proofs --------------------------
(***************************************************************************)
(* Parental for every alphabet, length of code, ceiling, day and set of    *)
(* games: the types; that no wait is ever shorter than what was earned;    *)
(* that the guarded screens are come to with the code; that a boot brings  *)
(* back what is enforced; that a new code was keyed in twice; and that the *)
(* opening time which is promised is the first.                            *)
(***************************************************************************)
EXTENDS Parental, TLAPS, SequenceTheorems, WellFoundedInduction

\* An entry that is full is one the pad can compare.
LEMMA FullEntry ==
  ASSUME NEW s \in Seq(Buttons), NEW b \in Buttons, Len(s) + 1 = CodeLen
  PROVE  /\ Append(s, b) \in Entries
         /\ Append(s, b) \in Seq(Buttons)
         /\ Len(Append(s, b)) = CodeLen
<1>1. Append(s, b) \in Seq(Buttons) /\ Len(Append(s, b)) = CodeLen
  OBVIOUS
<1>2. Append(s, b) \in [1 .. Len(Append(s, b)) -> Buttons]
  BY <1>1, ElementOfSeq, LenProperties
<1>3. QED
  BY <1>1, <1>2 DEF Entries

\* B takes the last press off a sequence that has one.
LEMMA Shorter ==
  ASSUME NEW s \in Seq(Buttons), s # <<>>
  PROVE  /\ SubSeq(s, 1, Len(s) - 1) \in Seq(Buttons)
         /\ Len(SubSeq(s, 1, Len(s) - 1)) = Len(s) - 1
<1>1. Len(s) \in Nat \ {0}
  BY LenProperties, EmptySeq
<1>2. QED
  BY <1>1, SubSeqProperties

\* The ceiling.
LEMMA PenaltyRange ==
  ASSUME NEW n \in Nat
  PROVE  Penalty(n) \in 0 .. PenaltyMax /\ Penalty(n) <= n
  BY PadAssumption DEF Penalty, AtMost


\* parental_save() of a well-formed record leaves a well-formed memory.
LEMMA SaveKeepsTypes ==
  ASSUME PolicyOK, NEW m \in Files, Save(m)
  PROVE  /\ mem' \in Files /\ file' \in Files
         /\ saving' \in BOOLEAN /\ writable' \in BOOLEAN
<1>1. saving' \in BOOLEAN /\ writable' \in BOOLEAN
  BY Zenon DEF PolicyOK, Save
<1>2. QED
  BY <1>1 DEF PolicyOK, Save

\* The records that the operations write.
LEMMA RecordTypes ==
  ASSUME PolicyOK
  PROVE  /\ [mem EXCEPT !.failures = @ + 1] \in Files
         /\ [mem EXCEPT !.failures = 0] \in Files
         /\ \A c \in Entries \cup {NoCode} : Stored(c) \in Files
         /\ Absent \in Files
         /\ \A f \in Files : Loaded(f) \in Files
<1>a. mem \in [code : Entries \cup {NoCode}, failures : Nat, sched : Schedules]
  BY DEF PolicyOK, Files
<1>b. [mem EXCEPT !.failures = @ + 1] \in Files
  BY <1>a DEF Files
<1>c. [mem EXCEPT !.failures = 0] \in Files
  BY <1>a DEF Files
<1>1. \A c \in Entries \cup {NoCode} : Stored(c) \in Files
  BY <1>a DEF Files, Stored
<1>2. FromDefault \in Hours /\ ToDefault \in Hours
  BY ClockAssumption
<1>3. Absent \in Files
  BY <1>2 DEF Absent, Files, Schedules
<1>4. \A f \in Files : Loaded(f) \in Files
  BY PadAssumption DEF Loaded, Files, AtMost
<1>5. QED
  BY <1>b, <1>c, <1>1, <1>3, <1>4

\* The first boot finds a file of its type, or none.
LEMMA InitTypes == Init => TypeOK
<1> SUFFICES ASSUME Init PROVE TypeOK
  OBVIOUS
<1>1. file \in Files
  BY FilesAssumption DEF Init
<1>2. mem \in Files
  BY <1>1, PadAssumption DEF Init, Loaded, Files, AtMost
<1>3. writable \in BOOLEAN /\ saving \in BOOLEAN
  BY Zenon DEF Init
<1>4. PolicyOK
  BY <1>1, <1>2, <1>3, PenaltyRange, PadAssumption DEF Init, PolicyOK, Files
<1>a. <<>> \in Seq(Buttons) /\ Len(<<>>) = 0
  OBVIOUS
<1>b. confirming \in BOOLEAN /\ flash \in BOOLEAN /\ ~confirming
  BY Zenon DEF Init
<1>5. PadOK
  BY <1>a, <1>b, PadAssumption DEF Init, PadOK
<1>c. proved \in BOOLEAN
  BY Zenon DEF Init
<1>6. PlaceOK
  BY <1>c DEF Init, PlaceOK, Asked, Open
<1>7. QED
  BY <1>4, <1>5, <1>6 DEF TypeOK

\* No operation takes the policy out of its types.
LEMMA NextPolicyOK == TypeOK /\ [Next]_vars => PolicyOK'
<1> SUFFICES ASSUME TypeOK, [Next]_vars PROVE PolicyOK'
  OBVIOUS
<1> USE DEF TypeOK, PolicyOK, Still
<1>1. CASE Browse
  BY <1>1 DEF Browse
<1>2. CASE StartGame
  BY <1>2 DEF StartGame
<1>3. CASE LaunchFails
  BY <1>3 DEF LaunchFails
<1>4. CASE ToggleLock
  BY <1>4 DEF ToggleLock
<1>5. CASE OpenGuarded
  BY <1>5 DEF OpenGuarded
<1>6. CASE SetClock
  BY <1>6 DEF SetClock
<1>7. CASE LocksList
  BY <1>7 DEF LocksList
<1>8. CASE PanelCode
  BY <1>8 DEF PanelCode
<1>9. CASE PanelLocks
  BY <1>9 DEF PanelLocks
<1>10. CASE PanelEdit
  <2>1. PICK sched : /\ mem' = [mem EXCEPT !.sched = sched]
                     /\ \/ sched = [mem.sched EXCEPT !.hours = ~@]
                        \/ \E h \in EditHours : sched = [mem.sched EXCEPT !.from = h]
                        \/ \E h \in EditHours : sched = [mem.sched EXCEPT !.to = h]
    BY <1>10 DEF PanelEdit
  <2>2. mem.sched \in [hours : BOOLEAN, from : Hours, to : Hours]
    BY DEF Files, Schedules
  <2>3. sched \in Schedules
    <3>1. CASE sched = [mem.sched EXCEPT !.hours = ~@]
      BY <2>2, <3>1 DEF Schedules
    <3>2. CASE \E h \in EditHours : sched = [mem.sched EXCEPT !.from = h]
      BY <2>2, <3>2, ClockAssumption DEF Schedules
    <3>3. CASE \E h \in EditHours : sched = [mem.sched EXCEPT !.to = h]
      BY <2>2, <3>3, ClockAssumption DEF Schedules
    <3>4. QED
      BY <2>1, <3>1, <3>2, <3>3
  <2>4. mem' \in Files
    BY <2>1, <2>3 DEF Files
  <2>5. QED
    BY <1>10, <2>4 DEF PanelEdit
<1>11. CASE PanelBack
  <2>1. mem \in Files
    BY DEF PolicyOK
  <2>2. mem' \in Files /\ file' \in Files /\ saving' \in BOOLEAN /\ writable' \in BOOLEAN
    BY <1>11, <2>1, SaveKeepsTypes DEF PanelBack
  <2>3. QED
    BY <1>11, <2>2, PenaltyRange, PadAssumption DEF PanelBack
<1>12. CASE FlashEnds
  BY <1>12 DEF FlashEnds
<1>13. CASE PressB
  BY <1>13 DEF PressB
<1>14. CASE WaitTicks
  <2>1. served' \in 0 .. PenaltyMax
    BY <1>14, PenaltyRange DEF WaitTicks
  <2>2. wait' \in 0 .. PenaltyMax
    BY <1>14, PadAssumption DEF WaitTicks, Elapsed
  <2>3. QED
    BY <1>14, <2>1, <2>2 DEF WaitTicks
<1>15. ASSUME NEW b \in Buttons, Press(b)
      PROVE  PolicyOK'
  BY <1>15 DEF Press
<1>16. ASSUME NEW b \in Buttons, Guess(b)
      PROVE  PolicyOK'
  <2>1. [mem EXCEPT !.failures = @ + 1] \in Files
    BY RecordTypes
  <2>2. mem' \in Files /\ file' \in Files /\ saving' \in BOOLEAN /\ writable' \in BOOLEAN
    BY <1>16, <2>1, SaveKeepsTypes DEF Guess
  <2>3. Penalty(mem.failures + 1) \in 0 .. PenaltyMax
    BY PenaltyRange DEF Files
  <2>4. QED
    BY <1>16, <2>2, <2>3, PadAssumption DEF Guess
<1>17. ASSUME NEW b \in Buttons, ChooseOnce(b)
      PROVE  PolicyOK'
  BY <1>17 DEF ChooseOnce
<1>18. ASSUME NEW b \in Buttons, ChooseTwice(b)
      PROVE  PolicyOK'
  <2>1. Stored(first) \in Files
    BY <1>18, RecordTypes, FullEntry DEF ChooseTwice, LastPress, Ready, PadOK
  <2>2. mem' \in Files /\ file' \in Files /\ saving' \in BOOLEAN /\ writable' \in BOOLEAN
    BY <1>18, <2>1, SaveKeepsTypes DEF ChooseTwice, StoreCode
  <2>3. QED
    BY <1>18, <2>2, PadAssumption DEF ChooseTwice, StoreCode
<1>19. ASSUME NEW b \in Buttons, ChooseAgain(b)
      PROVE  PolicyOK'
  BY <1>19 DEF ChooseAgain
<1>20. CASE Refuse
  <2>1. wrongs' \in 0 .. PenaltyMax
    BY <1>20, PenaltyRange DEF Refuse
  <2>2. QED
    BY <1>20, <2>1 DEF Refuse
<1>21. CASE Accept
  <2>1. [mem EXCEPT !.failures = 0] \in Files
    BY RecordTypes
  <2>2. mem' \in Files /\ file' \in Files /\ saving' \in BOOLEAN /\ writable' \in BOOLEAN
    BY <1>21, <2>1, SaveKeepsTypes DEF Accept
  <2>3. QED
    BY <1>21, <2>2, PenaltyRange, PadAssumption DEF Accept
<1>22. CASE Deed
  <2>1. locked' \subseteq Games
    BY <1>22 DEF Deed, PlaceOK
  <2>2. CASE ask.what = "CLEAR"
    <3>1. Stored(NoCode) \in Files
      BY RecordTypes
    <3>2. mem' \in Files /\ file' \in Files /\ saving' \in BOOLEAN /\ writable' \in BOOLEAN
      BY <1>22, <2>2, <3>1, SaveKeepsTypes DEF Deed, StoreCode
    <3>3. QED
      BY <1>22, <2>1, <2>2, <3>2, PadAssumption DEF Deed, StoreCode
  <2>3. CASE ask.what # "CLEAR"
    BY <1>22, <2>1, <2>3 DEF Deed
  <2>4. QED
    BY <2>2, <2>3
<1>23. CASE WriteOut
  <2>1. saving' \in BOOLEAN
    BY <1>23, Zenon DEF WriteOut
  <2>2. QED
    BY <1>23, <2>1 DEF WriteOut
<1>24. CASE TimePasses
  BY <1>24 DEF TimePasses
<1>25. CASE Restart
  <2>1. file' \in Files
    BY <1>25, RecordTypes DEF Restart
  <2>2. mem' \in Files
    BY <1>25, <2>1, RecordTypes DEF Restart
  <2>3. saving' \in BOOLEAN
    BY <1>25, Zenon DEF Restart
  <2>4. wait' \in 0 .. PenaltyMax
    BY <1>25, <2>2, PenaltyRange DEF Restart, Files
  <2>5. QED
    BY <1>25, <2>1, <2>2, <2>3, <2>4, PadAssumption DEF Restart
<1>26. CASE UNCHANGED vars
  BY <1>26 DEF vars
<1>27. QED
  BY <1>1, <1>2, <1>3, <1>4, <1>5, <1>6, <1>7, <1>8, <1>9, <1>10, <1>11, <1>12,
     <1>13, <1>14, <1>15, <1>16, <1>17, <1>18, <1>19, <1>20, <1>21, <1>22,
     <1>23, <1>24, <1>25, <1>26
  DEF Next

\* A sequence of presses takes one more.
LEMMA OnePress ==
  ASSUME NEW s \in Seq(Buttons), NEW b \in Buttons
  PROVE  Append(s, b) \in Seq(Buttons) /\ Len(Append(s, b)) = Len(s) + 1
  OBVIOUS

\* An entry that is emptied is an entry.
LEMMA NoPresses == <<>> \in Seq(Buttons) /\ Len(<<>>) = 0 /\ 0 <= CodeLen
  BY PadAssumption

\* Nor the pad out of its types.
LEMMA NextPadOK == TypeOK /\ [Next]_vars => PadOK'
<1> SUFFICES ASSUME TypeOK, [Next]_vars PROVE PadOK'
  OBVIOUS
<1> USE NoPresses DEF TypeOK, PadOK, Still, AskCode, FreshPad, pad
<1>1. CASE Browse
  BY <1>1 DEF Browse
<1>2. CASE StartGame
  BY <1>2 DEF StartGame
<1>3. CASE LaunchFails
  BY <1>3 DEF LaunchFails
<1>4. CASE ToggleLock
  BY <1>4 DEF ToggleLock
<1>5. CASE OpenGuarded
  BY <1>5 DEF OpenGuarded
<1>6. CASE SetClock
  BY <1>6 DEF SetClock
<1>7. CASE LocksList
  BY <1>7 DEF LocksList
<1>8. CASE PanelCode
  BY <1>8 DEF PanelCode
<1>9. CASE PanelLocks
  BY <1>9 DEF PanelLocks
<1>10. CASE PanelEdit
  BY <1>10 DEF PanelEdit
<1>11. CASE PanelBack
  BY <1>11 DEF PanelBack
<1>12. CASE FlashEnds
  BY <1>12 DEF FlashEnds
<1>13. CASE PressB
  <2>1. CASE entry # <<>>
    <3>1. typed' \in Seq(Buttons)
      BY <1>13, <2>1, Shorter, NoPresses DEF PressB
    <3>a. entry' \in Seq(Buttons) /\ Len(entry') = Len(entry) - 1
      BY <1>13, <2>1, Shorter DEF PressB
    <3>b. Len(entry) \in Nat
      BY LenProperties
    <3>2. entry' \in Seq(Buttons) /\ Len(entry') <= CodeLen
      BY <3>a, <3>b, PadAssumption
    <3>3. QED
      BY <1>13, <2>1, <3>1, <3>2 DEF PressB
  <2>2. CASE entry = <<>>
    BY <1>13, <2>2, NoPresses DEF PressB, FreshPad
  <2>3. QED
    BY <2>1, <2>2
<1>14. CASE WaitTicks
  BY <1>14 DEF WaitTicks
<1>15. ASSUME NEW b \in Buttons, Press(b)
      PROVE  PadOK'
  <2>1. entry' \in Seq(Buttons) /\ Len(entry') = Len(entry) + 1
    BY <1>15, OnePress DEF Press
  <2>2. typed' \in Seq(Buttons)
    BY <1>15, OnePress DEF Press
  <2>3. Len(entry) \in Nat /\ Len(entry) + 1 < CodeLen
    BY <1>15, LenProperties DEF Press
  <2>4. Len(entry') <= CodeLen
    BY <2>1, <2>3, PadAssumption
  <2>5. QED
    BY <1>15, <2>1, <2>2, <2>4 DEF Press
<1>16. ASSUME NEW b \in Buttons, Guess(b)
      PROVE  PadOK'
  <2>1. entry' \in Seq(Buttons) /\ Len(entry') <= CodeLen
    BY <1>16, FullEntry DEF Guess, LastPress, Ready
  <2>2. QED
    BY <1>16, <2>1 DEF Guess
<1>17. ASSUME NEW b \in Buttons, ChooseOnce(b)
      PROVE  PadOK'
  <2>1. first' \in Entries /\ typed' \in Seq(Buttons)
    BY <1>17, FullEntry, OnePress DEF ChooseOnce, LastPress, Ready
  <2>2. QED
    BY <1>17, <2>1, NoPresses DEF ChooseOnce
<1>18. ASSUME NEW b \in Buttons, ChooseTwice(b)
      PROVE  PadOK'
  BY <1>18, NoPresses, OnePress DEF ChooseTwice, FreshPad
<1>19. ASSUME NEW b \in Buttons, ChooseAgain(b)
      PROVE  PadOK'
  BY <1>19, NoPresses DEF ChooseAgain
<1>20. CASE Refuse
  BY <1>20, NoPresses DEF Refuse
<1>21. CASE Accept
  BY <1>21 DEF Accept
<1>22. CASE Deed
  BY <1>22 DEF Deed
<1>23. CASE WriteOut
  BY <1>23 DEF WriteOut
<1>24. CASE TimePasses
  BY <1>24 DEF TimePasses
<1>25. CASE Restart
  BY <1>25 DEF Restart
<1>26. CASE UNCHANGED vars
  BY <1>26 DEF vars
<1>27. QED
  BY <1>1, <1>2, <1>3, <1>4, <1>5, <1>6, <1>7, <1>8, <1>9, <1>10, <1>11, <1>12,
     <1>13, <1>14, <1>15, <1>16, <1>17, <1>18, <1>19, <1>20, <1>21, <1>22,
     <1>23, <1>24, <1>25, <1>26
  DEF Next

\* Nor the user to a screen that is not there.
LEMMA NextPlaceOK == TypeOK /\ [Next]_vars => PlaceOK'
<1> SUFFICES ASSUME TypeOK, [Next]_vars PROVE PlaceOK'
  OBVIOUS
<1>0. PlaceOK
  BY Zenon DEF TypeOK
<1> USE DEF TypeOK, PlaceOK, Still, AskCode, Goto, Asked, Open, where
<1>1. CASE Browse
  BY <1>1 DEF Browse
<1>2. CASE StartGame
  BY <1>2 DEF StartGame
<1>3. CASE LaunchFails
  BY <1>3 DEF LaunchFails
<1>4. CASE ToggleLock
  BY <1>4 DEF ToggleLock
<1>5. CASE OpenGuarded
  BY <1>5 DEF OpenGuarded
<1>6. CASE SetClock
  BY <1>6 DEF SetClock
<1>7. CASE LocksList
  BY <1>7 DEF LocksList
<1>8. CASE PanelCode
  BY <1>8 DEF PanelCode
<1>9. CASE PanelLocks
  BY <1>9 DEF PanelLocks
<1>10. CASE PanelEdit
  BY <1>10 DEF PanelEdit
<1>11. CASE PanelBack
  BY <1>11 DEF PanelBack
<1>12. CASE FlashEnds
  BY <1>12 DEF FlashEnds
<1>13. CASE PressB
  <2>1. ask' = ask /\ game' = game
    BY ONLY <1>13, Zenon DEF PressB
  <2>2. CASE entry # <<>>
    <3>1. screen' = screen /\ proved' = proved
      BY ONLY <1>13, <2>2, Zenon DEF PressB
    <3>2. QED
      BY ONLY <1>0, <2>1, <3>1 DEF PlaceOK
  <2>3. CASE entry = <<>>
    <3>1. screen' = ask.cancel /\ proved' = (proved /\ ask.cancel \notin Open)
      BY ONLY <1>13, <2>3, Zenon DEF PressB, Goto
    <3>2. QED
      BY ONLY <1>0, <2>1, <3>1 DEF PlaceOK
  <2>4. QED
    BY ONLY <2>2, <2>3
<1>14. CASE WaitTicks
  BY <1>14 DEF WaitTicks
<1>15. ASSUME NEW b \in Buttons, Press(b)
      PROVE  PlaceOK'
  BY <1>15 DEF Press
<1>16. ASSUME NEW b \in Buttons, Guess(b)
      PROVE  PlaceOK'
  BY <1>16 DEF Guess
<1>17. ASSUME NEW b \in Buttons, ChooseOnce(b)
      PROVE  PlaceOK'
  BY <1>17 DEF ChooseOnce
<1>18. ASSUME NEW b \in Buttons, ChooseTwice(b)
      PROVE  PlaceOK'
  BY <1>18 DEF ChooseTwice
<1>19. ASSUME NEW b \in Buttons, ChooseAgain(b)
      PROVE  PlaceOK'
  BY <1>19 DEF ChooseAgain
<1>20. CASE Refuse
  BY <1>20 DEF Refuse
<1>21. CASE Accept
  BY <1>21 DEF Accept
<1>22. CASE Deed
  BY <1>22 DEF Deed
<1>23. CASE WriteOut
  BY <1>23 DEF WriteOut
<1>24. CASE TimePasses
  BY <1>24 DEF TimePasses
<1>25. CASE Restart
  BY <1>25 DEF Restart
<1>26. CASE UNCHANGED vars
  BY <1>26 DEF vars
<1>27. QED
  BY <1>1, <1>2, <1>3, <1>4, <1>5, <1>6, <1>7, <1>8, <1>9, <1>10, <1>11, <1>12,
     <1>13, <1>14, <1>15, <1>16, <1>17, <1>18, <1>19, <1>20, <1>21, <1>22,
     <1>23, <1>24, <1>25, <1>26
  DEF Next

\* The variables keep their types: the pad, the policy and the way between
\* the screens, for every alphabet, length of code and ceiling.
THEOREM TypeCorrect == Spec => []TypeOK
<1>1. TypeOK /\ [Next]_vars => TypeOK'
  BY NextPolicyOK, NextPadOK, NextPlaceOK DEF TypeOK
<1>2. QED
  BY InitTypes, <1>1, PTL DEF Spec

-----------------------------------------------------------------------------
(***************************************************************************)
(* The wait.  What the pad still holds back and what was sat through since *)
(* it was armed make up what the count costs; the count in memory, and on  *)
(* a card that is written the one in the file, is at least the number of   *)
(* wrong answers given, and ahead of it while an answer is being worked    *)
(* out.  The last clause is the order of the save and the comparison.      *)
(***************************************************************************)
WaitInv ==
  /\ Penalty(mem.failures) <= wait + served
  /\ wrongs <= Penalty(mem.failures)
  /\ todo = "judge" => Penalty(wrongs + 1) <= Penalty(mem.failures)
  /\ writable => wrongs <= Penalty(file.failures)
  /\ writable /\ todo = "judge" /\ ~saving => Penalty(wrongs + 1) <= Penalty(file.failures)


\* A boot holds back what the file's count costs.
LEMMA InitWait == Init => WaitInv
<1> SUFFICES ASSUME Init PROVE WaitInv
  OBVIOUS
<1>1. file \in Files /\ mem.failures = Penalty(file.failures)
  BY FilesAssumption DEF Init, Loaded, Files, Penalty
<1>2. /\ file.failures \in Nat
      /\ Penalty(file.failures) \in Nat
      /\ Penalty(Penalty(file.failures)) = Penalty(file.failures)
  BY <1>1, PadAssumption DEF Files, Penalty, AtMost
<1>3. QED
  BY <1>1, <1>2 DEF Init, WaitInv

\* No answer, wait, save, cut or boot makes the wait shorter than its count.
LEMMA NextWait == TypeOK /\ WaitInv /\ [Next]_vars => WaitInv'
<1> SUFFICES ASSUME TypeOK /\ WaitInv, [Next]_vars PROVE WaitInv'
  OBVIOUS
<1>1. mem \in [code : Entries \cup {NoCode}, failures : Nat, sched : Schedules]
  BY DEF TypeOK, PolicyOK, Files
<1>2. /\ mem.failures \in Nat /\ file.failures \in Nat
      /\ wait \in Nat /\ wrongs \in Nat /\ served \in Nat
      /\ wrongs <= PenaltyMax /\ served <= PenaltyMax
  BY PadAssumption DEF TypeOK, PolicyOK, Files
<1>3. PenaltyMax \in Nat
  BY PadAssumption
<1> USE DEF WaitInv, Still
<1>10. CASE Browse
  BY <1>10 DEF Browse
<1>11. CASE StartGame
  BY <1>11 DEF StartGame
<1>12. CASE LaunchFails
  BY <1>12 DEF LaunchFails
<1>13. CASE ToggleLock
  BY <1>13 DEF ToggleLock
<1>14. CASE OpenGuarded
  BY <1>14 DEF OpenGuarded
<1>15. CASE SetClock
  BY <1>15 DEF SetClock
<1>16. CASE LocksList
  BY <1>16 DEF LocksList
<1>17. CASE PanelCode
  BY <1>17 DEF PanelCode
<1>18. CASE PanelLocks
  BY <1>18 DEF PanelLocks
<1>19. CASE PanelEdit
  <2>1. mem'.failures = mem.failures
    BY <1>19, <1>1 DEF PanelEdit
  <2>2. QED
    BY <1>19, <2>1 DEF PanelEdit
<1>20. CASE PanelBack
  BY <1>20 DEF PanelBack, Save
<1>21. CASE FlashEnds
  BY <1>21 DEF FlashEnds
<1>22. CASE PressB
  BY <1>22 DEF PressB
<1>23. CASE WaitTicks
  <2>1. /\ wait' = wait - 1 /\ wait > 0 /\ served' = Penalty(served + 1)
        /\ UNCHANGED <<file, writable, saving, mem, wrongs, todo>>
    BY <1>23 DEF WaitTicks, Elapsed
  <2>2. Penalty(mem.failures) <= wait' + served'
    BY <2>1, <1>2, <1>3 DEF Penalty, AtMost
  <2>3. QED
    BY <2>1, <2>2
<1>24. ASSUME NEW b \in Buttons, Press(b)
      PROVE  WaitInv'
  BY <1>24 DEF Press
<1>25. ASSUME NEW b \in Buttons, Guess(b)
      PROVE  WaitInv'
  <2>1. /\ mem'.failures = mem.failures + 1
        /\ wait' = Penalty(mem.failures + 1) /\ served' = 0
        /\ saving' = writable /\ UNCHANGED <<file, writable, wrongs>>
    BY <1>25, <1>1 DEF Guess, Save
  <2>2. Penalty(wrongs + 1) <= Penalty(mem.failures + 1)
    BY <1>2, <1>3 DEF Penalty, AtMost
  <2>3. wrongs <= Penalty(mem.failures + 1)
    BY <1>2, <1>3 DEF Penalty, AtMost
  <2>4. Penalty(mem.failures + 1) \in Nat
    BY <1>2, PenaltyRange
  <2>5. QED
    BY <2>1, <2>2, <2>3, <2>4
<1>26. ASSUME NEW b \in Buttons, ChooseOnce(b)
      PROVE  WaitInv'
  BY <1>26 DEF ChooseOnce
<1>27. ASSUME NEW b \in Buttons, ChooseTwice(b)
      PROVE  WaitInv'
  <2>1. mem'.failures = 0 /\ wait' = 0 /\ wrongs' = 0 /\ UNCHANGED <<file, writable, served, todo>>
    BY <1>27, <1>1 DEF ChooseTwice, StoreCode, Save, Stored
  <2>2. todo = "none"
    BY <1>27 DEF ChooseTwice, LastPress, Ready, OnPad
  <2>3. QED
    BY <2>1, <2>2, <1>2, <1>3 DEF Penalty, AtMost
<1>28. ASSUME NEW b \in Buttons, ChooseAgain(b)
      PROVE  WaitInv'
  BY <1>28 DEF ChooseAgain
<1>29. CASE Refuse
  <2>1. /\ wrongs' = Penalty(wrongs + 1) /\ todo' = "none" /\ todo = "judge" /\ ~saving
        /\ UNCHANGED <<file, writable, saving, mem, wait, served>>
    BY <1>29 DEF Refuse
  <2>2. QED
    BY <2>1
<1>30. CASE Accept
  <2>1. mem'.failures = 0 /\ wait' = 0 /\ wrongs' = 0 /\ todo' = "deed" /\ UNCHANGED <<file, served>>
    BY <1>30, <1>1 DEF Accept, Save
  <2>2. QED
    BY <2>1, <1>2, <1>3 DEF Penalty, AtMost
<1>31. CASE Deed
  <2>1. CASE ask.what = "CLEAR"
    <3>1. mem'.failures = 0 /\ wait' = 0 /\ wrongs' = 0 /\ todo' = "none" /\ UNCHANGED <<file, served>>
      BY <1>31, <2>1, <1>1 DEF Deed, StoreCode, Save, Stored
    <3>2. QED
      BY <3>1, <1>2, <1>3 DEF Penalty, AtMost
  <2>2. CASE ask.what # "CLEAR"
    BY <1>31, <2>2 DEF Deed
  <2>3. QED
    BY <2>1, <2>2
<1>32. CASE WriteOut
  BY <1>32 DEF WriteOut
<1>33. CASE TimePasses
  BY <1>33 DEF TimePasses
<1>34. CASE Restart
  <2>1. /\ file' \in {file, Absent}
        /\ mem' = Loaded(file') /\ wait' = Penalty(mem'.failures)
        /\ wrongs' = IF writable /\ file'.code # NoCode THEN wrongs ELSE 0
        /\ served' = 0 /\ todo' = "none" /\ writable' = writable
    BY <1>34 DEF Restart
  <2>a. file' \in Files
    BY <2>1, RecordTypes DEF TypeOK, PolicyOK
  <2>b. mem'.failures = Penalty(file'.failures)
    BY <2>1, <2>a DEF Loaded, Files, Penalty
  <2>2. file' \in Files /\ mem'.failures = Penalty(file'.failures)
    BY <2>a, <2>b
  <2>3. /\ file'.failures \in Nat
        /\ Penalty(file'.failures) \in Nat
        /\ Penalty(Penalty(file'.failures)) = Penalty(file'.failures)
    BY <2>2, <1>3 DEF Files, Penalty, AtMost
  <2>4. wrongs' <= Penalty(file'.failures)
    <3>1. CASE writable /\ file'.code # NoCode
      BY <2>1, <3>1 DEF Absent
    <3>2. CASE ~(writable /\ file'.code # NoCode)
      BY <2>1, <2>3, <3>2
    <3>3. QED
      BY <3>1, <3>2
  <2>5. QED
    BY <2>1, <2>2, <2>3, <2>4
<1>35. CASE UNCHANGED vars
  BY <1>35 DEF vars
<1>36. QED
  BY <1>10, <1>11, <1>12, <1>13, <1>14, <1>15, <1>16, <1>17, <1>18, <1>19,
     <1>20, <1>21, <1>22, <1>23, <1>24, <1>25, <1>26, <1>27, <1>28, <1>29,
     <1>30, <1>31, <1>32, <1>33, <1>34, <1>35
  DEF Next

\* The wait and its count agree in every state.
LEMMA WaitInvariant == Spec => [](TypeOK /\ WaitInv)
<1>1. TypeOK /\ [Next]_vars => TypeOK'
  BY NextPolicyOK, NextPadOK, NextPlaceOK DEF TypeOK
<1>2. QED
  BY InitTypes, InitWait, NextWait, <1>1, PTL DEF Spec

\* An entry is taken for judging only where the pad has nothing left to wait.
LEMMA GuessIsReady ==
  ASSUME [Next]_vars, todo = "none", todo' = "judge"
  PROVE  wait = 0
<1>1. PICK b \in Buttons : Guess(b)
  <2> USE DEF Still
  <2>1. \A b \in Buttons : ~Press(b) /\ ~ChooseOnce(b) /\ ~ChooseTwice(b) /\ ~ChooseAgain(b)
    BY DEF Press, ChooseOnce, ChooseTwice, ChooseAgain
  <2>2. /\ ~Browse /\ ~StartGame /\ ~LaunchFails /\ ~ToggleLock /\ ~OpenGuarded /\ ~SetClock
        /\ ~LocksList /\ ~PanelCode /\ ~PanelLocks
    BY DEF Browse, StartGame, LaunchFails, ToggleLock, OpenGuarded, SetClock, LocksList,
           PanelCode, PanelLocks
  <2>3. ~PanelEdit /\ ~PanelBack /\ ~FlashEnds /\ ~PressB /\ ~WaitTicks
    BY DEF PanelEdit, PanelBack, FlashEnds, PressB, WaitTicks
  <2>4. ~Refuse /\ ~Accept /\ ~Deed /\ ~WriteOut /\ ~TimePasses /\ ~Restart
    BY DEF Refuse, Accept, Deed, WriteOut, TimePasses, Restart
  <2>5. ~UNCHANGED vars
    BY DEF vars
  <2>6. QED
    BY <2>1, <2>2, <2>3, <2>4, <2>5 DEF Next
<1>2. QED
  BY <1>1 DEF Guess, LastPress, Ready

\* No entry is judged before the pad was sat out for what the wrong ones
\* before it cost: whatever the code, the ceiling, and the moments at which
\* the console is reset or loses power.
THEOREM WaitCannotBeSkipped == Spec => WaitIsEarned
<1>1. TypeOK /\ WaitInv /\ [Next]_vars
        => [todo = "none" /\ todo' = "judge" => served >= Penalty(wrongs)]_vars
  <2> SUFFICES ASSUME TypeOK, WaitInv, [Next]_vars, todo = "none", todo' = "judge"
               PROVE  served >= Penalty(wrongs)
    OBVIOUS
  <2>1. wait = 0
    BY GuessIsReady
  <2>2. wrongs \in Nat /\ served \in Nat /\ wrongs <= served
    BY <2>1, PenaltyRange, PadAssumption DEF TypeOK, PolicyOK, WaitInv, Files
  <2>3. Penalty(wrongs) <= wrongs /\ Penalty(wrongs) \in Nat
    BY <2>2, PenaltyRange
  <2>4. QED
    BY <2>2, <2>3
<1>2. QED
  BY WaitInvariant, <1>1, PTL DEF WaitIsEarned, Spec

-----------------------------------------------------------------------------
(***************************************************************************)
(* The way to the screens behind the code.  Inside the panel the code was  *)
(* keyed in or there is none; the pad the panel asked for leads back to    *)
(* it; an answer is worked out on the pad and acted upon once it was right.*)
(***************************************************************************)
GuardInv ==
  /\ Inside => proved \/ mem.code = NoCode
  /\ screen = "code" /\ ask.cancel = "parental" => ask.ok = "parental"
  /\ todo # "none" => screen = "code" /\ ask.what # "SET"
  /\ todo = "deed" => proved

\* The menu starts outside the panel, with nothing asked of the pad.
LEMMA InitGuard == Init => GuardInv
BY DEF Init, GuardInv, Inside, Asked

\* No button, answer or boot leads into the panel around the code.
LEMMA NextGuard == TypeOK /\ GuardInv /\ [Next]_vars => GuardInv'
<1> SUFFICES ASSUME TypeOK, GuardInv, [Next]_vars PROVE GuardInv'
  OBVIOUS
<1>a. mem \in [code : Entries \cup {NoCode}, failures : Nat, sched : Schedules] /\ PlaceOK
  BY DEF TypeOK, PolicyOK, Files
<1> USE <1>a DEF GuardInv, Inside, Still, Goto, AskCode, Asked, FreshPad, Open, where, pad, PlaceOK, OnPad, Ready, LastPress, Save, StoreCode, Stored
<1>1. CASE Browse
  BY <1>1 DEF Browse
<1>2. CASE StartGame
  BY <1>2 DEF StartGame
<1>3. CASE LaunchFails
  BY <1>3 DEF LaunchFails
<1>4. CASE ToggleLock
  BY <1>4 DEF ToggleLock
<1>5. CASE OpenGuarded
  BY <1>5 DEF OpenGuarded
<1>6. CASE SetClock
  BY <1>6 DEF SetClock
<1>7. CASE LocksList
  BY <1>7 DEF LocksList
<1>8. CASE PanelCode
  BY <1>8 DEF PanelCode
<1>9. CASE PanelLocks
  BY <1>9 DEF PanelLocks
<1>10. CASE PanelEdit
  BY <1>10 DEF PanelEdit
<1>11. CASE PanelBack
  BY <1>11 DEF PanelBack
<1>12. CASE FlashEnds
  BY <1>12 DEF FlashEnds
<1>13. CASE PressB
  BY <1>13 DEF PressB
<1>14. CASE WaitTicks
  BY <1>14 DEF WaitTicks
<1>15. ASSUME NEW b \in Buttons, Press(b)
      PROVE  GuardInv'
  BY <1>15 DEF Press
<1>16. ASSUME NEW b \in Buttons, Guess(b)
      PROVE  GuardInv'
  BY <1>16 DEF Guess
<1>17. ASSUME NEW b \in Buttons, ChooseOnce(b)
      PROVE  GuardInv'
  BY <1>17 DEF ChooseOnce
<1>18. ASSUME NEW b \in Buttons, ChooseTwice(b)
      PROVE  GuardInv'
  BY <1>18 DEF ChooseTwice
<1>19. ASSUME NEW b \in Buttons, ChooseAgain(b)
      PROVE  GuardInv'
  BY <1>19 DEF ChooseAgain
<1>20. CASE Refuse
  BY <1>20 DEF Refuse
<1>21. CASE Accept
  BY <1>21 DEF Accept
<1>22. CASE Deed
  BY <1>22 DEF Deed
<1>23. CASE WriteOut
  BY <1>23 DEF WriteOut
<1>24. CASE TimePasses
  BY <1>24 DEF TimePasses
<1>25. CASE Restart
  BY <1>25 DEF Restart
<1>26. CASE UNCHANGED vars
  BY <1>26 DEF vars
<1>27. QED
  BY <1>1, <1>2, <1>3, <1>4, <1>5, <1>6, <1>7, <1>8, <1>9, <1>10, <1>11, <1>12,
     <1>13, <1>14, <1>15, <1>16, <1>17, <1>18, <1>19, <1>20, <1>21, <1>22,
     <1>23, <1>24, <1>25, <1>26
  DEF Next

\* Only a new code keyed in twice, or the card at a restart, sets a code.
LEMMA CodeIsKept ==
  ASSUME TypeOK, [Next]_vars
  PROVE  \/ mem'.code \in {mem.code, NoCode}
         \/ screen' = "grid"
         \/ \E b \in Buttons : ChooseTwice(b)
<1>a. mem \in [code : Entries \cup {NoCode}, failures : Nat, sched : Schedules]
  BY DEF TypeOK, PolicyOK, Files
<1> USE <1>a DEF Still, Goto, Save, StoreCode, Stored
<1> DEFINE Kept == \/ mem'.code \in {mem.code, NoCode}
                  \/ screen' = "grid"
                  \/ \E b \in Buttons : ChooseTwice(b)
<1>1. CASE Browse
  BY <1>1 DEF Browse
<1>2. CASE StartGame
  BY <1>2 DEF StartGame
<1>3. CASE LaunchFails
  BY <1>3 DEF LaunchFails
<1>4. CASE ToggleLock
  BY <1>4 DEF ToggleLock
<1>5. CASE OpenGuarded
  BY <1>5 DEF OpenGuarded
<1>6. CASE SetClock
  BY <1>6 DEF SetClock
<1>7. CASE LocksList
  BY <1>7 DEF LocksList
<1>8. CASE PanelCode
  BY <1>8 DEF PanelCode
<1>9. CASE PanelLocks
  BY <1>9 DEF PanelLocks
<1>10. CASE PanelEdit
  BY <1>10 DEF PanelEdit
<1>11. CASE PanelBack
  BY <1>11 DEF PanelBack
<1>12. CASE FlashEnds
  BY <1>12 DEF FlashEnds
<1>13. CASE PressB
  BY <1>13 DEF PressB
<1>14. CASE WaitTicks
  BY <1>14 DEF WaitTicks
<1>15. ASSUME NEW b \in Buttons, Press(b)
      PROVE  Kept
  BY <1>15 DEF Press
<1>16. ASSUME NEW b \in Buttons, Guess(b)
      PROVE  Kept
  BY <1>16 DEF Guess
<1>17. ASSUME NEW b \in Buttons, ChooseOnce(b)
      PROVE  Kept
  BY <1>17 DEF ChooseOnce
<1>18. ASSUME NEW b \in Buttons, ChooseTwice(b)
      PROVE  Kept
  BY <1>18
<1>19. ASSUME NEW b \in Buttons, ChooseAgain(b)
      PROVE  Kept
  BY <1>19 DEF ChooseAgain
<1>20. CASE Refuse
  BY <1>20 DEF Refuse
<1>21. CASE Accept
  BY <1>21 DEF Accept
<1>22. CASE Deed
  BY <1>22 DEF Deed
<1>23. CASE WriteOut
  BY <1>23 DEF WriteOut
<1>24. CASE TimePasses
  BY <1>24 DEF TimePasses
<1>25. CASE Restart
  BY <1>25 DEF Restart
<1>26. CASE UNCHANGED vars
  BY <1>26 DEF vars
<1>27. QED
  BY <1>1, <1>2, <1>3, <1>4, <1>5, <1>6, <1>7, <1>8, <1>9, <1>10, <1>11, <1>12,
     <1>13, <1>14, <1>15, <1>16, <1>17, <1>18, <1>19, <1>20, <1>21, <1>22,
     <1>23, <1>24, <1>25, <1>26
  DEF Next

\* The way in is guarded in every state.
LEMMA GuardInvariant == Spec => [](TypeOK /\ GuardInv)
<1>1. TypeOK /\ [Next]_vars => TypeOK'
  BY NextPolicyOK, NextPadOK, NextPlaceOK DEF TypeOK
<1>2. QED
  BY InitTypes, InitGuard, NextGuard, <1>1, PTL DEF Spec

\* With a code set, nobody comes to the clock, the panel or the list of
\* padlocks, and no game that may not start now is started, but by the code:
\* the five places that ask for it, and every way out of the pad.
THEOREM CodeGuardsTheScreens == Spec => GuardedScreens
<1> DEFINE Guarded == screen' # screen =>
             /\ screen' \in {"clock", "parental", "locks"} => proved' \/ mem'.code = NoCode
             /\ screen' = "launch" => proved' \/ Verdict(game) = "allow"
<1>a. ASSUME TypeOK, GuardInv, Next PROVE Guarded
  <2>a. mem \in [code : Entries \cup {NoCode}, failures : Nat, sched : Schedules] /\ PlaceOK
    BY <1>a DEF TypeOK, PolicyOK, Files
  <2> USE <1>a, <2>a DEF GuardInv, Inside, Still, Goto, AskCode, Asked, FreshPad, Open, where, pad, Save, StoreCode, Stored, PlaceOK, OnPad
  <2>1. CASE Browse
    BY <2>1 DEF Browse
  <2>2. CASE StartGame
    BY <2>2 DEF StartGame
  <2>3. CASE LaunchFails
    BY <2>3 DEF LaunchFails
  <2>4. CASE ToggleLock
    BY <2>4 DEF ToggleLock
  <2>5. CASE OpenGuarded
    BY <2>5 DEF OpenGuarded
  <2>6. CASE SetClock
    BY <2>6 DEF SetClock
  <2>7. CASE LocksList
    BY <2>7 DEF LocksList
  <2>8. CASE PanelCode
    BY <2>8 DEF PanelCode
  <2>9. CASE PanelLocks
    BY <2>9 DEF PanelLocks
  <2>10. CASE PanelEdit
    BY <2>10 DEF PanelEdit
  <2>11. CASE PanelBack
    BY <2>11 DEF PanelBack
  <2>12. CASE FlashEnds
    BY <2>12 DEF FlashEnds
  <2>13. CASE PressB
    BY <2>13 DEF PressB
  <2>14. CASE WaitTicks
    BY <2>14 DEF WaitTicks
  <2>15. ASSUME NEW b \in Buttons, Press(b)
        PROVE  Guarded
    BY <2>15 DEF Press
  <2>16. ASSUME NEW b \in Buttons, Guess(b)
        PROVE  Guarded
    BY <2>16 DEF Guess
  <2>17. ASSUME NEW b \in Buttons, ChooseOnce(b)
        PROVE  Guarded
    BY <2>17 DEF ChooseOnce
  <2>18. ASSUME NEW b \in Buttons, ChooseTwice(b)
        PROVE  Guarded
    BY <2>18 DEF ChooseTwice
  <2>19. ASSUME NEW b \in Buttons, ChooseAgain(b)
        PROVE  Guarded
    BY <2>19 DEF ChooseAgain
  <2>20. CASE Refuse
    BY <2>20 DEF Refuse
  <2>21. CASE Accept
    BY <2>21 DEF Accept
  <2>22. CASE Deed
    BY <2>22 DEF Deed
  <2>23. CASE WriteOut
    BY <2>23 DEF WriteOut
  <2>24. CASE TimePasses
    BY <2>24 DEF TimePasses
  <2>25. CASE Restart
    BY <2>25 DEF Restart
  <2>26. CASE UNCHANGED vars
    BY <2>26 DEF vars
  <2>27. QED
    BY <2>1, <2>2, <2>3, <2>4, <2>5, <2>6, <2>7, <2>8, <2>9, <2>10, <2>11, <2>12,
       <2>13, <2>14, <2>15, <2>16, <2>17, <2>18, <2>19, <2>20, <2>21, <2>22,
       <2>23, <2>24, <2>25, <2>26
    DEF Next
<1>b. TypeOK /\ GuardInv /\ [Next]_vars => [Guarded]_vars
  BY <1>a
<1>c. QED
  BY GuardInvariant, <1>b, PTL DEF GuardedScreens, Spec

-----------------------------------------------------------------------------
(* The card.  Away from the panel, and with nothing half written, the file *)
(* is what a boot would make of what the menu holds.                       *)
SyncInv == writable /\ ~saving /\ ~Inside => Loaded(file) = Loaded(mem)

\* Loading what was loaded changes nothing.
LEMMA LoadedTwice ==
  ASSUME NEW f \in Files
  PROVE  Loaded(Loaded(f)) = Loaded(f)
<1>1. f \in [code : Entries \cup {NoCode}, failures : Nat, sched : Schedules]
  BY DEF Files
<1>2. AtMost(AtMost(f.failures, PenaltyMax), PenaltyMax) = AtMost(f.failures, PenaltyMax)
  BY <1>1, PadAssumption DEF AtMost
<1>3. Loaded(f) \in [code : Entries \cup {NoCode}, failures : Nat, sched : Schedules]
  BY <1>1, PadAssumption DEF Loaded, AtMost
<1>4. QED
  BY <1>1, <1>2 DEF Loaded

\* The first boot holds what it loaded.
LEMMA InitSync == Init => SyncInv
BY LoadedTwice, FilesAssumption DEF Init, SyncInv

\* What changes the policy in memory saves it before the panel is left.
LEMMA NextSync == TypeOK /\ GuardInv /\ SyncInv /\ [Next]_vars => SyncInv'
<1> SUFFICES ASSUME TypeOK, GuardInv, SyncInv, [Next]_vars PROVE SyncInv'
  OBVIOUS
<1>a. file \in Files /\ mem \in Files
  BY DEF TypeOK, PolicyOK
<1>b. {writable, saving} \subseteq BOOLEAN
  BY DEF TypeOK, PolicyOK
<1> USE <1>a, <1>b DEF SyncInv, GuardInv, Inside, Still, Goto, AskCode, Asked, FreshPad, Open, where, pad, OnPad, Ready, LastPress, Save, StoreCode
<1>1. CASE Browse
  BY <1>1 DEF Browse
<1>2. CASE StartGame
  BY <1>2 DEF StartGame
<1>3. CASE LaunchFails
  BY <1>3 DEF LaunchFails
<1>4. CASE ToggleLock
  BY <1>4 DEF ToggleLock
<1>5. CASE OpenGuarded
  BY <1>5 DEF OpenGuarded
<1>6. CASE SetClock
  BY <1>6 DEF SetClock
<1>7. CASE LocksList
  BY <1>7 DEF LocksList
<1>8. CASE PanelCode
  BY <1>8 DEF PanelCode
<1>9. CASE PanelLocks
  BY <1>9 DEF PanelLocks
<1>10. CASE PanelEdit
  BY <1>10 DEF PanelEdit
<1>11. CASE PanelBack
  BY <1>11 DEF PanelBack
<1>12. CASE FlashEnds
  BY <1>12 DEF FlashEnds
<1>13. CASE PressB
  BY <1>13 DEF PressB
<1>14. CASE WaitTicks
  BY <1>14 DEF WaitTicks
<1>15. ASSUME NEW b \in Buttons, Press(b)
      PROVE  SyncInv'
  BY <1>15 DEF Press
<1>16. ASSUME NEW b \in Buttons, Guess(b)
      PROVE  SyncInv'
  BY <1>16 DEF Guess
<1>17. ASSUME NEW b \in Buttons, ChooseOnce(b)
      PROVE  SyncInv'
  BY <1>17 DEF ChooseOnce
<1>18. ASSUME NEW b \in Buttons, ChooseTwice(b)
      PROVE  SyncInv'
  BY <1>18 DEF ChooseTwice
<1>19. ASSUME NEW b \in Buttons, ChooseAgain(b)
      PROVE  SyncInv'
  BY <1>19 DEF ChooseAgain
<1>20. CASE Refuse
  BY <1>20 DEF Refuse
<1>21. CASE Accept
  BY <1>21 DEF Accept
<1>22. CASE Deed
  BY <1>22 DEF Deed
<1>23. CASE WriteOut
  BY <1>23 DEF WriteOut
<1>24. CASE TimePasses
  BY <1>24 DEF TimePasses
<1>25. CASE Restart
  <2>1. file' \in Files /\ mem' = Loaded(file')
    BY <1>25, RecordTypes DEF Restart, TypeOK
  <2>2. QED
    BY <2>1, LoadedTwice
<1>26. CASE UNCHANGED vars
  BY <1>26 DEF vars
<1>27. QED
  BY <1>1, <1>2, <1>3, <1>4, <1>5, <1>6, <1>7, <1>8, <1>9, <1>10, <1>11, <1>12,
     <1>13, <1>14, <1>15, <1>16, <1>17, <1>18, <1>19, <1>20, <1>21, <1>22,
     <1>23, <1>24, <1>25, <1>26
  DEF Next

\* Outside the panel, and with nothing half written, a boot would bring back
\* what the menu is enforcing: code, count and schedule (parental_save()).
THEOREM CardHoldsThePolicy == Spec => []CardAgrees
<1>1. TypeOK /\ SyncInv => CardAgrees
  BY DEF CardAgrees, SyncInv
<1>2. QED
  BY GuardInvariant, InitSync, NextSync, <1>1, PTL DEF Spec

-----------------------------------------------------------------------------
(* A new code.  While one is chosen, the presses that were not taken back  *)
(* are the first entry, once it is full, and then the one in progress.     *)
TypedInv ==
  screen = "code" /\ ask.what = "SET" => typed = IF confirming THEN first \o entry ELSE entry

\* A full entry is a sequence of presses.
LEMMA EntryIsSeq == Entries \subseteq Seq(Buttons)
BY SeqDef, PadAssumption DEF Entries

\* A press, and B, do to the presses what they do to the entry.
LEMMA PressOnBoth ==
  ASSUME NEW s \in Seq(Buttons), NEW t \in Seq(Buttons), NEW b \in Buttons
  PROVE  Append(s \o t, b) = s \o Append(t, b)
  OBVIOUS

\* B takes the last press back.
LEMMA ButLast ==
  ASSUME NEW s \in Seq(Buttons), NEW b \in Buttons
  PROVE  SubSeq(Append(s, b), 1, Len(Append(s, b)) - 1) = s
  OBVIOUS

\* B does to the presses what it does to the entry, unless that is empty.
LEMMA BackOnBoth ==
  ASSUME NEW s \in Seq(Buttons), NEW t \in Seq(Buttons), t # <<>>
  PROVE  /\ s \o t # <<>>
         /\ SubSeq(s \o t, 1, Len(s \o t) - 1) = s \o SubSeq(t, 1, Len(t) - 1)
<1>1. PICK u \in Seq(Buttons), b \in Buttons : t = Append(u, b)
  BY SequenceEmptyOrAppend
<1>2. SubSeq(t, 1, Len(t) - 1) = u
  BY <1>1, ButLast
<1>3. s \o u \in Seq(Buttons) /\ s \o t = Append(s \o u, b)
  BY <1>1, PressOnBoth, ConcatProperties
<1>4. s \o t # <<>>
  BY <1>3, AppendProperties
<1>5. SubSeq(s \o t, 1, Len(s \o t) - 1) = s \o u
  BY <1>3, ButLast
<1>6. QED
  BY <1>2, <1>4, <1>5

\* No code is being set at boot.
LEMMA InitTyped == Init => TypedInv
BY DEF Init, TypedInv

\* The presses that count stay the two entries, whatever is pressed or asked.
LEMMA NextTyped == TypeOK /\ GuardInv /\ TypedInv /\ [Next]_vars => TypedInv'
<1> SUFFICES ASSUME TypeOK, GuardInv, TypedInv, [Next]_vars PROVE TypedInv'
  OBVIOUS
<1>a. /\ entry \in Seq(Buttons) /\ typed \in Seq(Buttons)
      /\ confirming => first \in Seq(Buttons)
      /\ PlaceOK
  BY EntryIsSeq DEF TypeOK, PadOK
<1> USE <1>a DEF TypedInv, GuardInv, Still, Goto, AskCode, Asked, FreshPad, Open, where, pad, OnPad, Ready, LastPress, PlaceOK
<1>1. CASE Browse
  BY <1>1 DEF Browse
<1>2. CASE StartGame
  BY <1>2 DEF StartGame
<1>3. CASE LaunchFails
  BY <1>3 DEF LaunchFails
<1>4. CASE ToggleLock
  BY <1>4 DEF ToggleLock
<1>5. CASE OpenGuarded
  BY <1>5 DEF OpenGuarded
<1>6. CASE SetClock
  BY <1>6 DEF SetClock
<1>7. CASE LocksList
  BY <1>7 DEF LocksList
<1>8. CASE PanelCode
  BY <1>8 DEF PanelCode
<1>9. CASE PanelLocks
  BY <1>9 DEF PanelLocks
<1>10. CASE PanelEdit
  BY <1>10 DEF PanelEdit
<1>11. CASE PanelBack
  BY <1>11 DEF PanelBack
<1>12. CASE FlashEnds
  BY <1>12 DEF FlashEnds
<1>13. CASE PressB
  <2>1. CASE entry # <<>>
    <3>1. CASE ask.what = "SET" /\ confirming
      <4>1. typed = first \o entry /\ first \in Seq(Buttons) /\ UNCHANGED <<first, confirming>>
        BY <1>13, <2>1, <3>1 DEF PressB
      <4>2. typed' = SubSeq(typed, 1, Len(typed) - 1) /\ entry' = SubSeq(entry, 1, Len(entry) - 1)
        BY <1>13, <2>1, <4>1, BackOnBoth DEF PressB
      <4>3. typed' = first' \o entry'
        BY <2>1, <4>1, <4>2, BackOnBoth
      <4>4. QED
        BY <3>1, <4>1, <4>3
    <3>2. CASE ~ (ask.what = "SET" /\ confirming)
      BY <1>13, <2>1, <3>2 DEF PressB
    <3>3. QED
      BY <3>1, <3>2
  <2>2. CASE entry = <<>>
    BY <1>13, <2>2 DEF PressB
  <2>3. QED
    BY <2>1, <2>2
<1>14. CASE WaitTicks
  BY <1>14 DEF WaitTicks
<1>15. ASSUME NEW b \in Buttons, Press(b)
      PROVE  TypedInv'
  <2>1. CASE ask.what = "SET" /\ screen = "code" /\ confirming
    <3>1. typed = first \o entry /\ first \in Seq(Buttons) /\ UNCHANGED <<first, confirming>>
      BY <1>15, <2>1 DEF Press
    <3>2. typed' = Append(typed, b) /\ entry' = Append(entry, b)
      BY <1>15, <2>1 DEF Press
    <3>3. typed' = first' \o entry'
      BY <3>1, <3>2, PressOnBoth
    <3>4. QED
      BY <2>1, <3>1, <3>3
  <2>2. CASE ~ (ask.what = "SET" /\ screen = "code" /\ confirming)
    BY <1>15, <2>2 DEF Press
  <2>3. QED
    BY <2>1, <2>2
<1>16. ASSUME NEW b \in Buttons, Guess(b)
      PROVE  TypedInv'
  BY <1>16 DEF Guess
<1>17. ASSUME NEW b \in Buttons, ChooseOnce(b)
      PROVE  TypedInv'
  BY <1>17 DEF ChooseOnce
<1>18. ASSUME NEW b \in Buttons, ChooseTwice(b)
      PROVE  TypedInv'
  BY <1>18 DEF ChooseTwice
<1>19. ASSUME NEW b \in Buttons, ChooseAgain(b)
      PROVE  TypedInv'
  BY <1>19 DEF ChooseAgain
<1>20. CASE Refuse
  BY <1>20 DEF Refuse
<1>21. CASE Accept
  BY <1>21 DEF Accept
<1>22. CASE Deed
  BY <1>22 DEF Deed
<1>23. CASE WriteOut
  BY <1>23 DEF WriteOut
<1>24. CASE TimePasses
  BY <1>24 DEF TimePasses
<1>25. CASE Restart
  BY <1>25 DEF Restart
<1>26. CASE UNCHANGED vars
  BY <1>26 DEF vars
<1>27. QED
  BY <1>1, <1>2, <1>3, <1>4, <1>5, <1>6, <1>7, <1>8, <1>9, <1>10, <1>11, <1>12,
     <1>13, <1>14, <1>15, <1>16, <1>17, <1>18, <1>19, <1>20, <1>21, <1>22,
     <1>23, <1>24, <1>25, <1>26
  DEF Next

\* A code that is stored is one the user keyed in twice over, deletions and
\* failed confirmations taken into account: submit() and the pad's B.
THEOREM NewCodeWasTypedTwice == Spec => CodeIsWhatWasTypedTwice
<1> DEFINE Twice == mem'.code \notin {mem.code, NoCode} /\ screen' # "grid" => typed' = mem'.code \o mem'.code
<1>1. ASSUME TypeOK, TypedInv, [Next]_vars, mem'.code \notin {mem.code, NoCode}, screen' # "grid"
      PROVE  typed' = mem'.code \o mem'.code
  <2>1. PICK b \in Buttons : ChooseTwice(b)
    BY <1>1, CodeIsKept
  <2>2. /\ entry \in Seq(Buttons) /\ first \in Seq(Buttons)
        /\ mem \in [code : Entries \cup {NoCode}, failures : Nat, sched : Schedules]
    BY <1>1, <2>1, EntryIsSeq DEF TypeOK, PadOK, PolicyOK, Files, ChooseTwice, LastPress, Ready
  <2>3. mem'.code = first /\ first = Append(entry, b) /\ typed' = Append(typed, b)
    BY <2>1, <2>2 DEF ChooseTwice, StoreCode, Save, Stored
  <2>4. typed = first \o entry
    BY <1>1, <2>1 DEF ChooseTwice, LastPress, Ready, OnPad, TypedInv
  <2>5. Append(first \o entry, b) = first \o Append(entry, b)
    BY <2>2, PressOnBoth
  <2>6. QED
    BY <2>3, <2>4, <2>5, Zenon
<1>2. TypeOK /\ TypedInv /\ [Next]_vars => [Twice]_vars
  BY <1>1
<1>3. QED
  BY GuardInvariant, InitTyped, NextTyped, <1>2, PTL DEF CodeIsWhatWasTypedTwice, Spec

-----------------------------------------------------------------------------
(***************************************************************************)
(* The promised opening time, for a day of any length and hours of any.    *)
(***************************************************************************)
\* A product is at least the factor it has once.
LEMMA AtLeastOnce ==
  ASSUME NEW b \in Nat \ {0}, NEW x \in Int, x >= 1
  PROVE  b * x >= b
<1>1. b * (x - 1) >= 0
  OBVIOUS
<1>2. b * x = b * (x - 1) + b
  OBVIOUS
<1>3. b * x \in Int /\ b * (x - 1) \in Int
  OBVIOUS
<1>4. QED
  BY <1>1, <1>2, <1>3

\* Quotient and remainder are what they say.
LEMMA Division ==
  ASSUME NEW a \in Nat, NEW b \in Nat \ {0}
  PROVE  /\ a \div b \in Nat /\ a % b \in 0 .. b - 1
         /\ a = b * (a \div b) + (a % b)
OBVIOUS

\* There is one way to write a number as a multiple and a rest.
LEMMA OneDivision ==
  ASSUME NEW b \in Nat \ {0}, NEW m \in Nat, NEW c \in 0 .. b - 1
  PROVE  (b * m + c) \div b = m /\ (b * m + c) % b = c
<1> DEFINE a == b * m + c
           q == a \div b
           r == a % b
<1>1. a \in Nat /\ b * m \in Nat
  OBVIOUS
<1>2. q \in Nat /\ r \in 0 .. b - 1 /\ a = b * q + r
  BY <1>1, Division
<1>3. b * m + c = b * q + r /\ b * q \in Nat
  BY <1>2
<1> HIDE DEF q, r
<1>4. b * (m - q) = b * m - b * q /\ b * (q - m) = b * q - b * m
  BY <1>2
<1>5. ~ (m - q >= 1)
  <2> SUFFICES ASSUME m - q >= 1 PROVE FALSE
    OBVIOUS
  <2>1. b * (m - q) >= b
    BY <1>2, AtLeastOnce
  <2>2. b * m - b * q >= b
    BY <1>4, <2>1
  <2>3. QED
    BY <1>1, <1>2, <1>3, <2>2
<1>6. ~ (q - m >= 1)
  <2> SUFFICES ASSUME q - m >= 1 PROVE FALSE
    OBVIOUS
  <2>1. b * (q - m) >= b
    BY <1>2, AtLeastOnce
  <2>2. b * q - b * m >= b
    BY <1>4, <2>1
  <2>3. QED
    BY <1>1, <1>2, <1>3, <2>2
<1>7. q = m
  BY <1>2, <1>5, <1>6
<1>8. r = c
  BY <1>1, <1>2, <1>3, <1>7
<1>9. QED
  BY <1>7, <1>8 DEF q, r

\* Hours from the start of the one it is, and the hour it is then: the day is
\* HoursPerDay of them.
LEMMA HourAfter ==
  ASSUME NEW t \in 0 .. DaySteps - 1, NEW e \in Nat
  PROVE  LET k == ((t % StepsPerHour) + e) \div StepsPerHour
         IN  /\ k \in Nat /\ HourOf(t) \in Hours
             /\ HourOf((t + e) % DaySteps) = (HourOf(t) + k) % HoursPerDay
<1> DEFINE S == StepsPerHour
           H == HoursPerDay
           q == t \div S
           r == t % S
           k == (r + e) \div S
           c == (r + e) % S
           m == (q + k) \div H
           j == (q + k) % H
<1>1. S \in Nat \ {0} /\ H \in Nat \ {0} /\ DaySteps = H * S
  BY ClockAssumption DEF DaySteps
<1>2. H * S \in Nat
  BY <1>1
<1> HIDE DEF S, H
<1>3. t \in Nat
  BY <1>1, <1>2
<1>4. q \in Nat /\ r \in 0 .. S - 1 /\ t = S * q + r
  BY <1>1, <1>3, Division
<1>5. r + e \in Nat
  BY <1>1, <1>4
<1> HIDE DEF q, r
<1>6. k \in Nat /\ c \in 0 .. S - 1 /\ r + e = S * k + c
  BY <1>1, <1>5, Division
<1> HIDE DEF k, c
<1>7. m \in Nat /\ j \in 0 .. H - 1 /\ q + k = H * m + j
  <2>1. q + k \in Nat
    BY <1>4, <1>6
  <2>2. QED
    BY <1>1, <2>1, Division
<1> HIDE DEF m, j
<1>8. q \in 0 .. H - 1
  <2>1. SUFFICES ASSUME q >= H PROVE FALSE
    BY <1>1, <1>4
  <2>2. S * (q - H) >= 0 /\ S * (q - H) = S * q - H * S
    BY <1>1, <1>4, <2>1
  <2>3. t >= H * S
    BY <1>1, <1>2, <1>4, <2>2
  <2>4. QED
    BY <1>1, <1>2, <2>3
<1>9. t + e = (H * S) * m + (S * j + c)
  <2>1. t + e = S * q + S * k + c
    BY <1>1, <1>4, <1>6
  <2>2. S * q + S * k = S * (q + k)
    BY <1>1, <1>4, <1>6
  <2>3. S * (H * m + j) = (H * S) * m + S * j
    BY <1>1, <1>7
  <2>4. QED
    BY <1>1, <1>4, <1>6, <1>7, <2>1, <2>2, <2>3
<1>10. S * j + c \in 0 .. H * S - 1
  <2>1. S * ((H - 1) - j) >= 0 /\ S * ((H - 1) - j) = H * S - S - S * j
    BY <1>1, <1>7
  <2>2. S * j >= 0 /\ S * j \in Int
    BY <1>1, <1>7
  <2>3. QED
    BY <1>1, <1>2, <1>6, <2>1, <2>2
<1>11. H * S \in Nat \ {0}
  BY <1>1
<1>12. (t + e) % (H * S) = S * j + c
  BY <1>7, <1>9, <1>10, <1>11, OneDivision
<1>13. (S * j + c) \div S = j
  <2>1. j \in Nat
    BY <1>1, <1>7
  <2>2. QED
    BY <1>1, <1>6, <2>1, OneDivision
<1>14. HourOf((t + e) % DaySteps) = j /\ HourOf(t) = q
  BY <1>1, <1>12, <1>13 DEF HourOf, S, q
<1>15. q \in Hours /\ j = (HourOf(t) + k) % HoursPerDay
  BY <1>8, <1>14 DEF Hours, j, H
<1>16. k = ((t % StepsPerHour) + e) \div StepsPerHour
  BY DEF k, r, S
<1>17. QED
  BY <1>6, <1>14, <1>15, <1>16

\* The least of some natural numbers is there, and one of them.
LEMMA MinIsLeast ==
  ASSUME NEW T \in SUBSET Nat, T # {}
  PROVE  Min(T) \in T /\ \A y \in T : Min(T) <= y
<1> DEFINE R == OpToRel(<, Nat)
<1>1. IsWellFoundedOn(R, Nat)
  BY NatLessThanWellFounded
<1>2. \A x, y \in Nat : y < x => <<y, x>> \in R
  BY DEF OpToRel
<1> HIDE DEF R
<1>3. PICK x \in T : \A y \in T : ~ (<<y, x>> \in R)
  BY <1>1, WFMin
<1>4. \A y \in T : x <= y
  <2> TAKE y \in T
  <2>1. x \in Nat /\ y \in Nat /\ ~ (y < x)
    BY <1>2, <1>3
  <2>2. QED
    BY <2>1
<1>5. QED
  BY <1>4 DEF Min

\* Hours that shut at some time of day open at another.
LEMMA OpensAgain ==
  ASSUME NEW hour \in Hours, NEW from \in Hours, NEW to \in Hours, ~ HourAllowed(hour, from, to)
  PROVE  \E h \in 1 .. HoursPerDay - 1 : HourAllowed((hour + h) % HoursPerDay, from, to)
<1> DEFINE h == IF from > hour THEN from - hour ELSE HoursPerDay - hour + from
<1>1. HoursPerDay \in Nat \ {0} /\ hour \in Nat /\ from \in Nat /\ to \in Nat
      /\ hour < HoursPerDay /\ from < HoursPerDay
  BY ClockAssumption DEF Hours
<1>2. from # hour /\ HourAllowed(from, from, to)
  BY <1>1 DEF HourAllowed
<1>3. h \in 1 .. HoursPerDay - 1
  BY <1>1, <1>2
<1>4. (hour + h) % HoursPerDay = from
  <2>1. CASE from > hour
    <3>1. hour + h = HoursPerDay * 0 + from
      BY <1>1, <2>1
    <3>2. QED
      BY <1>1, <3>1, OneDivision
  <2>2. CASE ~ (from > hour)
    <3>1. hour + h = HoursPerDay * 1 + from /\ 1 \in Nat /\ from \in 0 .. HoursPerDay - 1
      BY <1>1, <2>2
    <3>2. (HoursPerDay * 1 + from) % HoursPerDay = from
      BY <1>1, <3>1, OneDivision
    <3>3. QED
      BY <3>1, <3>2
  <2>3. QED
    BY <2>1, <2>2
<1> HIDE DEF h
<1>5. QED
  BY <1>2, <1>3, <1>4

\* parental_seconds_until_open() is exact: the time it gives is open, and no
\* moment before it is.
LEMMA UntilOpenIsExact ==
  ASSUME NEW t \in 0 .. DaySteps - 1, NEW from \in Hours, NEW to \in Hours
  PROVE  LET d == UntilOpen(t, from, to)
         IN  /\ HourAllowed(HourOf((t + d) % DaySteps), from, to)
             /\ \A e \in 0 .. d - 1 : ~ HourAllowed(HourOf((t + e) % DaySteps), from, to)
<1> DEFINE S == StepsPerHour
           hour == HourOf(t)
           r == t % S
           ahead == {h \in 1 .. HoursPerDay - 1 : HourAllowed((hour + h) % HoursPerDay, from, to)}
           d == UntilOpen(t, from, to)
<1>1. S \in Nat \ {0} /\ HoursPerDay \in Nat \ {0} /\ DaySteps \in Nat
  BY ClockAssumption DEF DaySteps
<1>2. t \in Nat
  BY <1>1
<1>3. r \in 0 .. S - 1
  BY <1>1, <1>2, Division
<1>4. hour \in Hours /\ hour \in Nat /\ hour < HoursPerDay
  <2>1. 0 \in Nat
    OBVIOUS
  <2>2. hour \in Hours
    BY <2>1, HourAfter
  <2>3. QED
    BY <1>1, <2>2 DEF Hours
<1>5. \A e \in Nat : HourOf((t + e) % DaySteps) = (hour + ((r + e) \div S)) % HoursPerDay
  BY HourAfter
<1>6. hour % HoursPerDay = hour
  <2>1. hour = HoursPerDay * 0 + hour /\ hour \in 0 .. HoursPerDay - 1
    BY <1>1, <1>4
  <2>2. QED
    BY <1>1, <2>1, OneDivision
<1>7. d = IF HourAllowed(hour, from, to) \/ ahead = {}
            THEN 0 ELSE (S - r) + S * (Min(ahead) - 1)
  BY DEF UntilOpen
<1> HIDE DEF S, hour, r, d
<1>8. CASE HourAllowed(hour, from, to)
  <2>1. r \div S = 0
    <3>1. r = S * 0 + r
      BY <1>1, <1>3
    <3>2. QED
      BY <1>1, <1>3, <3>1, OneDivision
  <2>2. d = 0
    BY <1>7, <1>8
  <2>3. HourOf((t + 0) % DaySteps) = hour
    <3>1. 0 \in Nat /\ r + 0 = r /\ hour + 0 = hour
      BY <1>3, <1>4
    <3>2. HourOf((t + 0) % DaySteps) = (hour + ((r + 0) \div S)) % HoursPerDay
      BY <1>5, <3>1
    <3>3. QED
      BY <1>6, <2>1, <3>1, <3>2
  <2>4. QED
    BY <1>8, <2>2, <2>3 DEF d
<1>9. CASE ~ HourAllowed(hour, from, to)
  <2>1. ahead \in SUBSET Nat /\ ahead # {}
    <3>1. \E h \in 1 .. HoursPerDay - 1 : HourAllowed((hour + h) % HoursPerDay, from, to)
      BY <1>4, <1>9, OpensAgain
    <3>2. QED
      BY <1>1, <3>1
  <2> DEFINE m == Min(ahead)
  <2>2. m \in ahead /\ \A y \in ahead : m <= y
    <3> HIDE DEF ahead
    <3>1. QED
      BY <2>1, MinIsLeast
  <2>3. m \in Nat /\ m >= 1 /\ m <= HoursPerDay - 1 /\ HourAllowed((hour + m) % HoursPerDay, from, to)
    BY <1>1, <2>2
  <2>4. \A h \in 1 .. m - 1 : ~ HourAllowed((hour + h) % HoursPerDay, from, to)
    <3> SUFFICES ASSUME NEW h \in 1 .. m - 1, HourAllowed((hour + h) % HoursPerDay, from, to) PROVE FALSE
      OBVIOUS
    <3>1. h \in ahead
      BY <1>1, <2>3
    <3>2. QED
      BY <2>2, <2>3, <3>1
  <2>5. d = (S - r) + S * (m - 1)
    BY <1>7, <1>9, <2>1
  <2> HIDE DEF m, ahead
  <2>6. S * (m - 1) = S * m - S /\ S * m \in Int /\ S * (m - 1) >= 0
    BY <1>1, <2>3
  <2>7. d \in Nat /\ r + d = S * m + 0
    BY <1>1, <1>3, <2>5, <2>6
  <2>8. (r + d) \div S = m
    <3>1. 0 \in 0 .. S - 1
      BY <1>1
    <3>2. QED
      BY <1>1, <2>3, <2>7, <3>1, OneDivision
  <2>9. HourAllowed(HourOf((t + d) % DaySteps), from, to)
    BY <1>5, <2>3, <2>7, <2>8
  <2>10. ASSUME NEW e \in 0 .. d - 1 PROVE ~ HourAllowed(HourOf((t + e) % DaySteps), from, to)
    <3> DEFINE k == (r + e) \div S
               c == (r + e) % S
    <3>1. e \in Nat /\ r + e \in Nat /\ r + e < S * m
      BY <1>3, <2>6, <2>7
    <3>2. k \in Nat /\ c \in 0 .. S - 1 /\ r + e = S * k + c
      BY <1>1, <3>1, Division
    <3>3. HourOf((t + e) % DaySteps) = (hour + k) % HoursPerDay
      BY <1>5, <3>1
    <3> HIDE DEF k, c
    <3>4. k < m
      <4>1. SUFFICES ASSUME k >= m PROVE FALSE
        BY <2>3, <3>2
      <4>2. S * (k - m) >= 0 /\ S * (k - m) = S * k - S * m /\ S * k \in Int
        BY <1>1, <2>3, <3>2, <4>1
      <4>3. QED
        BY <1>1, <2>6, <3>1, <3>2, <4>2
    <3>5. CASE k = 0
      BY <1>4, <1>6, <1>9, <3>3, <3>5
    <3>6. CASE k # 0
      <4>1. k \in 1 .. m - 1
        BY <2>3, <3>2, <3>4, <3>6
      <4>2. QED
        BY <2>4, <3>3, <4>1
    <3>7. QED
      BY <3>5, <3>6
  <2>11. QED
    BY <2>9, <2>10 DEF d
<1>10. QED
  BY <1>8, <1>9

\* The opening time the clock page and the refusal promise is the first moment
\* that is open, for a day of any number of hours of any length, any window
\* and any moment.
THEOREM PromisedTimeIsTheFirst == Spec => []OpeningTimeIsExact
<1>1. TypeOK => OpeningTimeIsExact
  <2> SUFFICES ASSUME TypeOK, now # NoClock, NEW from \in Hours, NEW to \in Hours
               PROVE  LET d == UntilOpen(now, from, to)
                      IN  /\ HourAllowed(HourOf((now + d) % DaySteps), from, to)
                          /\ \A e \in 0 .. d - 1 : ~ HourAllowed(HourOf((now + e) % DaySteps), from, to)
    BY DEF OpeningTimeIsExact
  <2>1. now \in 0 .. DaySteps - 1
    BY ClockAssumption DEF TypeOK, PolicyOK
  <2>2. QED
    BY <2>1, UntilOpenIsExact
<1>2. QED
  BY <1>1, TypeCorrect, PTL
=============================================================================
