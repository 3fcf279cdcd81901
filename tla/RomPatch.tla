------------------------------ MODULE RomPatch ------------------------------
(* menu/rompatch_find.c and menu/rompatch.c: what the engine can carry, the   *)
(* code it becomes, the padding of the game it goes into, and the two words   *)
(* of the game that are made to lead there.  An image is the part of a ROM    *)
(* that IPL3 copies into memory, a sequence of words; where it starts in the  *)
(* ROM does not matter to anything here.                                      *)
EXTENDS Vr4300, Sequences, SequencesExt, FiniteSetsExt

CONSTANTS Shift,         \* [CIC -> bytes by which IPL3 loads below the header's entry]
          RamTop,        \* one past the last address of memory
          PakAt,         \* where libultra keeps the size of memory, twice
          GapMin, GapMax, GuardWords,             \* in words
          MaxSegments, MaxRuns, MaxWords, MaxAtoms

HopWords == 2
TailWords == 4
TestWords == 4
PakOff == 64 * Half      \* four megabytes

\* A line of a cheat, as its type byte is read.  A line of kind "other" is one
\* that Datel's engine takes and does nothing for.
Line == [kind : {"write", "boot", "test", "repeat", "pak", "other"}, wide : BOOLEAN, ne : BOOLEAN,
         gs : BOOLEAN, addr : Nat, value : Nat, count : Nat, step : Nat, incr : Int]

Misaligned(l) == l.wide /\ l.addr % 2 = 1

\* The cost of the body at line i, and how many lines it is; zero is a refusal.
BodyWords(list, i) ==
    IF i > Len(list) THEN 0
    ELSE LET l == list[i] IN
         CASE l.kind = "write" -> IF l.gs \/ Misaligned(l) THEN 0 ELSE 3
           [] l.kind = "boot" -> IF Misaligned(l) THEN 0 ELSE 3
           [] l.kind = "pak" -> 4
           [] l.kind = "repeat" ->
                IF \/ l.count = 0 \/ i = Len(list)
                   \/ list[i + 1].kind # "write" \/ list[i + 1].gs \/ Misaligned(list[i + 1])
                   \/ (list[i + 1].wide /\ l.step % 2 = 1)
                THEN 0 ELSE IF l.incr # 0 THEN 13 ELSE 12
           [] OTHER -> 0
BodyLines(l) == IF l.kind = "repeat" THEN 2 ELSE 1

\* How many conditionals stand in front of the body that starts at line i.
TestsAt(list, i) ==
    CHOOSE n \in 0 .. Len(list) - i + 1 :
        LET IsTest(j) == list[j].kind = "test" /\ ~list[j].gs /\ ~Misaligned(list[j])
        IN  /\ \A j \in i .. i + n - 1 : IsTest(j)
            /\ i + n > Len(list) \/ ~IsTest(i + n)

\* A run of conditionals and what they guard: never to be cut in two.
AtomAt(list, i) ==
    LET tests == TestsAt(list, i)
        body == BodyWords(list, i + tests)
    IN  IF body = 0 THEN [words |-> 0, lines |-> 1, tests |-> 0]
        ELSE [words |-> TestWords * tests + body,
              lines |-> tests + BodyLines(list[i + tests]), tests |-> tests]

\* Mutant: as it would be with a nop in the delay slot.
TestBranchWithNop(tests, k, body) == TestWords * (tests - k - 1) + body + 1
TestBranch(tests, k, body) == TestWords * (tests - k - 1) + body

\* The lines at which the atoms of a list start, in order.
AtomStarts(list) ==
    LET from[i \in 1 .. Len(list) + 1] ==
            IF i = Len(list) + 1 THEN <<>> ELSE <<i>> \o from[i + AtomAt(list, i).lines]
    IN  from[1]

Sum(s) == FoldLeft(+, 0, s)
CheatsFit(list) ==
    LET words == [a \in DOMAIN AtomStarts(list) |-> AtomAt(list, AtomStarts(list)[a]).words]
    IN  list # <<>> /\ 0 \notin ToSet(words) /\ Sum(words) + TailWords <= MaxWords

Width(l, op8, op16) == IF l.wide THEN op16 ELSE op8

PassesLeft(l) == l.count - 1

\* The repeater is a loop, and borrows t0 for its counter.
EmitBody(list, i, scratch) ==
    LET l == list[i] IN
    CASE l.kind = "pak" -> <<LUI("k0", Base(PakAt)), LUI("k1", PakOff \div Half),
                             Ins("sw", "k1", "k0", Offset(PakAt)), Ins("sw", "k1", "k0", Offset(PakAt) + WordBytes)>>
      [] l.kind = "repeat" ->
            IF scratch = 0 THEN <<>>
            ELSE LET w == list[i + 1] IN
              <<LUI("k0", Base(scratch)), Ins("sw", "t0", "k0", Offset(scratch)),
                LUI("k0", w.addr \div Half), ORI("k0", "k0", w.addr % Half),
                ORI("k1", "zero", w.value), ORI("t0", "zero", PassesLeft(l)),
                Ins(Width(w, "sb", "sh"), "k1", "k0", 0), ADDIU("k0", "k0", l.step)>>
              \o (IF l.incr = 0 THEN <<>> ELSE <<ADDIU("k1", "k1", l.incr)>>)
              \o <<BNE("t0", "zero", IF l.incr = 0 THEN -3 ELSE -4), ADDIU("t0", "t0", -1),
                   LUI("k0", Base(scratch)), Ins("lw", "t0", "k0", Offset(scratch))>>
      [] OTHER -> <<LUI("k0", Base(l.addr)), ORI("k1", "zero", l.value % (IF l.wide THEN Half ELSE Byte)),
                    Ins(Width(l, "sb", "sh"), "k1", "k0", Offset(l.addr))>>

EmitTest(l, branch) ==
    <<LUI("k0", Base(l.addr)), Ins(Width(l, "lbu", "lhu"), "k0", "k0", Offset(l.addr)),
      ORI("k1", "zero", l.value % (IF l.wide THEN Half ELSE Byte)),
      IF l.ne THEN BEQ("k0", "k1", branch) ELSE BNE("k0", "k1", branch)>>

EmitAtom(list, i, scratch) ==
    LET a == AtomAt(list, i)
        test(k) == EmitTest(list[i + k], TestBranch(a.tests, k, a.words - TestWords * a.tests))
    IN  FlattenSeq([k \in 1 .. a.tests |-> test(k - 1)]) \o EmitBody(list, i + a.tests, scratch)

\* The engine as a sequence of atoms, the last of which replays the two words
\* the hook displaced and goes where they led; empty when it cannot be made.
EmitEngine(list, displaced, scratch) ==
    LET starts == AtomStarts(list)
        atoms == [a \in DOMAIN starts |-> EmitAtom(list, starts[a], scratch)]
        price == [a \in DOMAIN starts |-> AtomAt(list, starts[a]).words]
        whole == Append(atoms, displaced \o <<JR("k0"), NOP>>)
    IN  IF \/ \E a \in DOMAIN starts : price[a] = 0 \/ Len(atoms[a]) # price[a]
           \/ Len(whole) > MaxAtoms \/ Sum([a \in DOMAIN whole |-> Len(whole[a])]) > MaxWords
        THEN <<>> ELSE whole

\* Mutant: the word 8, which is data, for a return.
IsReturnOrData(w) == w.op = "jr" \/ (w.op = "j" /\ w.imm # 0)
\* How a function ends: what stands before real padding, with or without the
\* instruction in its delay slot.
IsReturn(w) == (w.op = "jr" /\ w.rs # "zero") \/ (w.op = "j" /\ w.imm # 0)

IsPadding(before2, before1, len) ==
    /\ len >= GapMin /\ len <= GapMax
    /\ IsReturn(before1) \/ IsReturn(before2)

\* What of a run may be written: all but the guards.
Interior(start, len) == [at |-> start + GuardWords, words |-> len - 2 * GuardWords]

\* The runs of zeros that are padding, lowest first.
PaddingRuns(image) ==
    LET zero(i) == i \in DOMAIN image /\ image[i] = NOP
        word(i) == IF i < 1 THEN NOP ELSE image[i]
        starts == {i \in DOMAIN image : zero(i) /\ ~zero(i - 1)}
        len(i) == CHOOSE n \in 1 .. Len(image) : (\A j \in i .. i + n - 1 : zero(j)) /\ ~zero(i + n)
        found == {i \in starts : i + len(i) <= Len(image) /\ IsPadding(word(i - 2), word(i - 1), len(i))}
        all == [k \in 1 .. Cardinality(found) |->
                  LET i == SetToSortSeq(found, <)[k] IN Interior(i, len(i))]
    IN  SubSeq(all, 1, Min({Len(all), MaxRuns}))

\* One word of the last run that has one to spare is kept for a repeater.
HasRepeater(list) == \E i \in DOMAIN list : list[i].kind = "repeat"
Reserve(runs) ==
    LET able == {r \in DOMAIN runs : runs[r].words > 1}
    IN  IF able = {} THEN [runs |-> runs, cell |-> 0]
        ELSE LET r == Max(able) IN
             [runs |-> [runs EXCEPT ![r].words = @ - 1], cell |-> runs[r].at + runs[r].words - 1]

Budget(rest, run) == IF rest <= run.words THEN run.words ELSE IF run.words >= 3 THEN run.words - HopWords ELSE 0

\* The atoms into the runs, lowest first, none of them cut; empty when they do
\* not all fit.
PlaceEngine(runs, atoms) ==
    LET upTo(a, b) == Sum([k \in 1 .. b - a |-> Len(atoms[a + k])])
        Step(done, run) ==
            LET budget == Budget(upTo(done.a, Len(atoms)), run)
                b == Max({k \in done.a .. Len(atoms) : upTo(done.a, k) <= budget})
            IN  IF done.a = Len(atoms) \/ Len(done.segs) = MaxSegments \/ b = done.a THEN done
                ELSE [a |-> b, segs |-> Append(done.segs, [at |-> run.at, from |-> done.a + 1, to |-> b])]
        end == FoldLeft(Step, [a |-> 0, segs |-> <<>>], runs)
    IN  IF end.a = Len(atoms) THEN end.segs ELSE <<>>

AddrOf(entry, i) == entry + WordBytes * (i - 1)
IndexOf(entry, a) == (a - entry) \div WordBytes + 1

\* Where a word of the image and the one after it lead, if they and the two
\* after them are libultra's preamble.
IsPreamble(image, i) ==
    /\ i + 3 \in DOMAIN image
    /\ image[i].op = "lui" /\ image[i].rt = "k0"
    /\ image[i + 1].op = "addiu" /\ image[i + 1].rt = "k0" /\ image[i + 1].rs = "k0"
    /\ image[i + 2] = JR("k0") /\ image[i + 3] = NOP
Target(image, i) == image[i].imm * Half + image[i + 1].imm

\* Only what IPL3 copies is read, and the cartridge only word by word.
InWindow(image, entry, t) == t >= entry /\ t - entry + 16 <= WordBytes * Len(image)
IsReadable(entry, t) == (t - entry) % WordBytes = 0

IsException(image, entry, t) ==
    LET i == IndexOf(entry, t) IN
    /\ InWindow(image, entry, t) /\ IsReadable(entry, t)
    /\ image[i].op = "lui" /\ image[i].rt = "k0" /\ image[i + 1].op = "addiu" /\ image[i + 1].rt = "k0"
    /\ image[i + 2].op = "sd_at" /\ image[i + 3].op = "mfc0_k1"

\* Mutant: the rule before: whatever leads to the word after it.
RankByDistance(image, entry, i) == IF Target(image, i) = AddrOf(entry, i) + 16 THEN 2 ELSE -1
\* How sure it is that a preamble is the one the game installs.
Rank(image, entry, i) ==
    LET t == Target(image, i)
        next == t = AddrOf(entry, i) + 16
    IN  IF t < 0 \/ t >= RamTop THEN -1
        ELSE IF IsException(image, entry, t) THEN (IF next THEN 2 ELSE 1) ELSE (IF next THEN 0 ELSE -1)

\* The preamble of the highest rank, and the first of those; zero if there is
\* none.  The search ends at one that nothing can beat; before that, one whose
\* target is loaded but cannot be read makes it give up all it has found.
Find(image, entry) ==
    LET rank(i) == Rank(image, entry, i)
        preambles == {i \in DOMAIN image : IsPreamble(image, i)}
        candidates == {i \in preambles : rank(i) >= 0}
        best == {i \in candidates : \A j \in candidates : rank(j) <= rank(i)}
        unread == {i \in preambles : LET t == Target(image, i) IN
                      t >= 0 /\ t < RamTop /\ InWindow(image, entry, t) /\ ~IsReadable(entry, t)}
        sure == {i \in candidates : rank(i) = 2}
        givesUp == \E i \in unread : \A j \in sure : i < j
    IN  IF best = {} \/ givesUp THEN 0 ELSE Min(best)

EntryFor(cic, header) == header - Shift[cic]

\* What one run of padding gets: its share of the engine, and the way to the next.
SegmentWords(engine, segs, s, entry) ==
    FlattenSeq(SubSeq(engine, segs[s].from, segs[s].to))
    \o (IF s = Len(segs) THEN <<>> ELSE <<J(AddrOf(entry, segs[s + 1].at)), NOP>>)
At(words, i) == [k \in i .. i + Len(words) - 1 |-> words[k - i + 1]]
HookWords(a) == <<LUI("k0", Base(a)), ADDIU("k0", "k0", Offset(a))>>
EngineWords(engine, segs, entry) ==
    FoldLeft(LAMBDA words, s : words @@ At(SegmentWords(engine, segs, s, entry), segs[s].at),
             <<>>, [s \in DOMAIN segs |-> s])
=============================================================================
