SPECIFICATION Spec
CONSTANTS
  Games = {g1}
  Buttons = {"cup", "cdown"}
  CodeLen = 2
  PenaltyMax = 2
  HoursPerDay = 6
  FromDefault = 2
  ToDefault = 4
  StepsPerHour = 2
  Times = {3, 4, 11}
  EditHours = {1, 2}
  MaxFailures = 3
  NoCode = NoCode
  NoClock = NoClock
  NoGame = NoGame
  InitialFiles <- FileSet
INVARIANTS CardAgrees OpeningTimeIsExact
PROPERTIES WaitIsEarned GuardedScreens CodeIsWhatWasTypedTwice PadReopens
