---------------------------- MODULE CheatEngine ----------------------------
(* What a launch does with the cheats that are ticked, and what the console   *)
(* then does with the result: the edit of the image on the cartridge, the     *)
(* boot, libultra copying its preamble onto the exception vector, and every   *)
(* exception from there, one instruction at a time.  The classic engine of    *)
(* boot/cheats.c is beside it, as it is built.                                *)
EXTENDS RomPatch

CONSTANTS Games,         \* [name -> [words, dead, pre, exc, cic, known, sum]]
          Ticked,        \* [list, engine]: the lines that are ticked, and the setting
          HeaderEntry, Vector, ClassicAt,          \* addresses
          Memories,      \* the game's data bytes, as it may have left them
          Borrowed,      \* what the game may keep in t0
          MaxExceptions

VARIABLES name,          \* of the game
          list, engine,  \* what is ticked, "cartridge" or "classic"
          patch, header, \* the cartridge: the words written, and whose checksum it bears
          work,          \* what install() has in hand
          phase,         \* how far the launch is, or whether the game is in an exception
          m,             \* the processor
          before,        \* [bytes, t0] when the exception was raised
          taken          \* how many were

vars == <<name, list, engine, patch, header, work, phase, m, before, taken>>

\* The game as it is on the card: its words, those of them that nothing reads or runs, where its
\* preamble is and where that leads, the chip, whether the code that loads it
\* is libultra's, and whether its checksum is right.
game == Games[name]
Entry == EntryFor(game.cic, HeaderEntry)
Ram(i) == AddrOf(Entry, i)
Handler == Ram(game.exc)
ImageWord(i) == IF i \in DOMAIN patch THEN patch[i] ELSE game.words[i]
Image == [i \in DOMAIN game.words |-> ImageWord(i)]
PakWords == {PakAt, PakAt + WordBytes}

NoWork == [site |-> 0, runs |-> <<>>, engine |-> <<>>, segs |-> <<>>]
Idle == [r \in Registers |-> 0]
Init ==
    /\ name \in DOMAIN Games
    /\ \E s \in Ticked : list = s.list /\ engine = s.engine
    /\ patch = <<>> /\ work = NoWork
    /\ header = IF game.sum THEN "own" ELSE "wrong"
    /\ phase = "menu" /\ taken = 0
    /\ before = [bytes |-> CHOOSE b \in Memories : TRUE, t0 |-> 0]
    /\ m = [pc |-> 0, next |-> 0, reg |-> Idle, ram |-> <<>>, bytes |-> before.bytes, fault |-> FALSE]

SumIsRight == header = (IF patch = <<>> THEN "own" ELSE "patched")

\* Only the cartridge's own engine touches the cartridge, and only if every
\* line can be carried and the checksum already describes the image.
Launch ==
    /\ phase = "menu"
    /\ phase' = IF engine = "cartridge" /\ list # <<>> /\ CheatsFit(list) /\ SumIsRight THEN "find" ELSE "ipl3"
    /\ UNCHANGED <<name, list, engine, patch, header, work, m, before, taken>>

FindSite ==
    /\ phase = "find"
    /\ LET site == Find(game.words, Entry) IN
         /\ work' = [work EXCEPT !.site = site]
         /\ phase' = IF site = 0 THEN "ipl3" ELSE "emit"
    /\ UNCHANGED <<name, list, engine, patch, header, m, before, taken>>

\* Assembled and placed before a single word is written.
Emit ==
    /\ phase = "emit"
    /\ \E spare \in {IF HasRepeater(list) THEN Reserve(PaddingRuns(game.words))
                     ELSE [runs |-> PaddingRuns(game.words), cell |-> 0]} :
         LET scratch == IF spare.cell = 0 THEN 0 ELSE Ram(spare.cell)
             displaced == SubSeq(game.words, work.site, work.site + 1)
         IN  work' = [work EXCEPT !.runs = spare.runs, !.engine = EmitEngine(list, displaced, scratch)]
    /\ phase' = IF work'.engine = <<>> THEN "ipl3" ELSE "place"
    /\ UNCHANGED <<name, list, engine, patch, header, m, before, taken>>

Place ==
    /\ phase = "place"
    /\ work' = [work EXCEPT !.segs = PlaceEngine(work.runs, work.engine)]
    /\ phase' = IF work'.segs = <<>> THEN "ipl3" ELSE "write"
    /\ UNCHANGED <<name, list, engine, patch, header, m, before, taken>>

\* The engine, then the hook, then the checksum over both.
Write ==
    /\ phase = "write" /\ phase' = "ipl3"
    /\ patch' = EngineWords(work.engine, work.segs, Entry) @@ At(HookWords(Ram(work.segs[1].at)), work.site)
    /\ header' = "patched"
    /\ UNCHANGED <<name, list, engine, work, m, before, taken>>

\* What memory holds when IPL3 is done: the image, and what was there.
InImage(a) == (a - Entry) % WordBytes = 0 /\ IndexOf(Entry, a) \in DOMAIN game.words
Loaded == [a \in {n \in Nat : InImage(n)} \cup PakWords |->
              IF InImage(a) THEN ImageWord(IndexOf(Entry, a)) ELSE Data(0)]

\* The classic engine's patcher, run at the end of IPL3.  As it is built the
\* engine is its tail alone: no line of the list becomes code.  The first
\* preamble that leads into memory is made to lead to it.
ClassicSites ==
    {i \in DOMAIN Image : IsPreamble(Image, i) /\ Image[i].imm >= 0 /\ Image[i].imm * Half < RamTop}
ClassicHook == LET i == Min(ClassicSites) IN
    (Ram(i) :> LUI("k0", Base(ClassicAt))) @@ (Ram(i + 1) :> ADDIU("k0", "k0", Offset(ClassicAt)))
\* Mutant: the tail goes where it would after a watch exception.
ClassicTailRelocated ==
    (ClassicAt :> LUI("k0", Base(Vector))) @@ (ClassicAt + 4 :> ADDIU("k0", "k0", Offset(Vector)))
    @@ (ClassicAt + 8 :> JR("k0")) @@ (ClassicAt + 12 :> NOP)
ClassicTail == LET i == Min(ClassicSites) IN
    (ClassicAt :> Image[i]) @@ (ClassicAt + 4 :> Image[i + 1]) @@ (ClassicAt + 8 :> JR("k0")) @@ (ClassicAt + 12 :> NOP)

\* What the patcher leaves: the engine copied to its place and the preamble
\* hooked.  Where there is none it relies on the watch exception, which this
\* console does not have, and nothing leads to the engine.
ClassicPatcher == IF ClassicSites = {} THEN <<>> ELSE ClassicHook @@ ClassicTail

\* boot() and IPL3.  The console stops when the checksum is not the image's.
ClassicRuns == engine = "classic" /\ list # <<>> /\ game.known
Boot ==
    /\ phase = "ipl3" /\ work' = NoWork
    /\ IF ~SumIsRight /\ ~(ClassicRuns /\ game.cic = "x105")
       THEN phase' = "stopped" /\ UNCHANGED m
       ELSE /\ phase' = "start"
            /\ m' = [m EXCEPT !.ram = IF ClassicRuns THEN ClassicPatcher ELSE <<>>]
    /\ UNCHANGED <<name, list, engine, patch, header, before, taken>>

\* osInitialize(): the game copies its preamble onto the vector.
InstallHandlers ==
    /\ phase = "start" /\ phase' = "game"
    /\ m' = [m EXCEPT !.ram = [a \in {Vector + WordBytes * k : k \in 0 .. 3} |->
                                 LET from == Ram(game.pre) + a - Vector
                                 IN  IF from \in DOMAIN m.ram THEN m.ram[from] ELSE Loaded[from]] @@ m.ram]
    /\ UNCHANGED <<name, list, engine, patch, header, work, before, taken>>

\* The game has run for a while, and is interrupted.
Raise ==
    /\ phase = "game" /\ taken < MaxExceptions
    /\ \E b \in Memories, t \in Borrowed :
         /\ before' = [bytes |-> b, t0 |-> t]
         /\ m' = [m EXCEPT !.pc = Vector, !.next = Vector + WordBytes, !.bytes = b,
                           !.reg = [Idle EXCEPT !["t0"] = t], !.ram = [a \in PakWords |-> Data(0)] @@ @]
    /\ phase' = "exception" /\ taken' = taken + 1
    /\ UNCHANGED <<name, list, engine, patch, header, work>>

Execute ==
    /\ phase = "exception" /\ m.pc # Handler /\ ~m.fault
    /\ m' = Exec(m, Loaded)
    /\ UNCHANGED <<name, list, engine, patch, header, work, phase, before, taken>>

\* The game's own handler, which the engine has to reach.
Handle ==
    /\ phase = "exception" /\ m.pc = Handler
    /\ phase' = "game"
    /\ UNCHANGED <<name, list, engine, patch, header, work, m, before, taken>>

Next == Launch \/ FindSite \/ Emit \/ Place \/ Write \/ Boot \/ InstallHandlers \/ Raise \/ Execute \/ Handle
Spec == Init /\ [][Next]_vars /\ WF_vars(Execute) /\ WF_vars(Handle)
-----------------------------------------------------------------------------
\* What a list means, line by line, with nothing of how it is carried out: a
\* line takes effect when the conditionals right before it hold, a repeater
\* is the line after it over and over.
Tests(i) == {j \in 1 .. i - 1 : \A k \in j .. i - 1 : list[k].kind = "test"}
IsOperand(i) == i > 1 /\ list[i - 1].kind = "repeat"
Writes(i) ==
    LET l == list[i]
        n == IF l.kind = "repeat" THEN l.count ELSE 1
        w == IF l.kind = "repeat" THEN list[i + 1] ELSE l
    IN  [k \in 1 .. n |-> [addr |-> w.addr + (k - 1) * l.step, wide |-> w.wide, value |-> w.value + (k - 1) * l.incr]]
After(memory, i) ==
    LET l == list[i]
        Holds(j) == (Get(memory.bytes, list[j].addr, list[j].wide)
                     = list[j].value % (IF list[j].wide THEN Half ELSE Byte)) # list[j].ne
        Store(bytes, w) == Put(bytes, w.addr, w.wide, w.value)
    IN  IF l.kind = "test" \/ IsOperand(i) \/ \E j \in Tests(i) : ~Holds(j) THEN memory
        ELSE IF l.kind = "pak" THEN [memory EXCEPT !.pak = PakOff]
        ELSE [memory EXCEPT !.bytes = FoldLeft(Store, @, Writes(i))]
Meaning == FoldLeft(After, [bytes |-> before.bytes, pak |-> 0], [i \in DOMAIN list |-> i])

Arrived == phase = "exception" /\ m.pc = Handler
Patched == patch # <<>>
Memory == [bytes |-> m.bytes, pak |-> m.ram[PakAt].imm]

TypeOK ==
    /\ name \in DOMAIN Games /\ [list |-> list, engine |-> engine] \in Ticked
    /\ header \in {"own", "patched", "wrong"}
    /\ phase \in {"menu", "find", "emit", "place", "write", "ipl3", "start", "game", "exception", "stopped"}
    /\ DOMAIN patch \subseteq DOMAIN game.words /\ taken \in 0 .. MaxExceptions
    /\ m.bytes \in [DOMAIN before.bytes -> 0 .. Byte - 1] /\ DOMAIN m.reg = Registers

\* An exception ends where the game's own handler begins, with the handler's
\* address in k0 and t0 given back, and a game that carries cheats has had
\* exactly those applied: conditionals, repeaters and all, however the engine
\* was cut up (emit_engine(), place_engine()).
EngineDoesWhatTheCheatsSay ==
    Arrived => /\ m.reg["t0"] = before.t0
               /\ IsPreamble(game.words, game.pre) => m.reg["k0"] = Handler
               /\ Patched => (m.ram[PakAt] = m.ram[PakAt + WordBytes] /\ Memory = Meaning)
               /\ ~Patched => Memory = [bytes |-> before.bytes, pak |-> 0]

\* Nothing runs inside an exception that would raise another one: no store to
\* an odd address, no jump to what is not code (halfword_misaligned()).
NeverNests == TypeOK /\ ~m.fault

\* Of the game, only padding that is really dead and the two words of its
\* preamble are written over, and a game that booted before still boots
\* (find_padding_runs(), install()).
GameIsKept ==
    /\ DOMAIN patch \subseteq game.dead \cup {game.pre, game.pre + 1}
    /\ (phase \in {"menu", "ipl3"} /\ game.sum) => SumIsRight

\* Every exception is handled by the game in the end: the engine terminates.
EveryExceptionEnds == phase = "exception" ~> phase = "game"

\* docs/CARD.md:102 on the classic engine: "try it on a title Cartridge cannot hook".
TickedCheatsApply ==
    (Arrived /\ ClassicRuns /\ CheatsFit(list)) => Memory = Meaning
=============================================================================
