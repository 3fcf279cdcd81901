--------------------------- MODULE MCCheatEngine ---------------------------
(* A byte has four values here, so a halfword has sixteen and the lower half  *)
(* of an address is negative from eight on.                                   *)
EXTENDS CheatEngine

Code == Ins("game", "zero", "zero", 0)
Return == JR("ra")
Eight == JR("zero")                       \* the word 8, as data
Zeros(n) == [i \in 1 .. n |-> NOP]
Codes(n) == [i \in 1 .. n |-> Code]
MCShift == [x102 |-> 0, x103 |-> 32, x105 |-> 0]

Base0(cic) == HeaderEntry - MCShift[cic]
LeadsTo(a) == <<LUI("k0", Base(a)), ADDIU("k0", "k0", Offset(a)), JR("k0"), NOP>>
Leads(cic, i) == LeadsTo(AddrOf(Base0(cic), i))
\* Data that looks like a preamble and leads between two words.
Between(cic, i) == LeadsTo(AddrOf(Base0(cic), i) + 1)
Nowhere == <<LUI("k0", 900), ADDIU("k0", "k0", 1), JR("k0"), NOP>>
ExceptionCode == <<LUI("k0", 5), ADDIU("k0", "k0", 3), Ins("sd_at", "zero", "k0", 2), Ins("mfc0_k1", "k1", "zero", 0)>>

\* One long run behind a preamble that leads to the next word; what comes after
\* that one is not looked at.
Plain == [words |-> Leads("x103", 5) \o ExceptionCode \o <<Code, Return, NOP>> \o Zeros(25) \o <<Code>>
                    \o Between("x103", 5),
          dead |-> 12 .. 36, pre |-> 1, exc |-> 5, cic |-> "x103", known |-> TRUE, sum |-> TRUE]
\* Short runs, one after a full delay slot, one that is a table of the game's.
Scattered == [words |-> <<Code, Return, Code>> \o Zeros(9) \o <<Eight>> \o Zeros(9) \o <<Code, Code>>
                        \o Leads("x102", 29) \o ExceptionCode \o <<Return, NOP>> \o Zeros(9)
                        \o <<J(128), Code>> \o Zeros(12) \o <<Code>>,
              dead |-> (4 .. 12) \cup (35 .. 43) \cup (46 .. 57), pre |-> 25, exc |-> 29,
              cic |-> "x102", known |-> TRUE, sum |-> TRUE]
\* A dispatcher that leads to the next word, and data that leads nowhere,
\* before the preamble that the game installs; a void too long to be padding.
Decoys == [words |-> Nowhere \o Leads("x105", 9) \o <<Code>> \o Leads("x105", 15) \o <<Return>>
                     \o ExceptionCode \o <<Return>> \o Zeros(32) \o <<Code, Return, NOP>> \o Zeros(18) \o <<Code>>,
           dead |-> 55 .. 72, pre |-> 10, exc |-> 15, cic |-> "x105", known |-> TRUE, sum |-> TRUE]
\* A checksum that never was right, and a game that is not libultra's.
Broken == [Plain EXCEPT !.sum = FALSE]
Foreign == LET w == Plain.words IN
    [Plain EXCEPT !.words = [i \in DOMAIN w |-> IF i \in 1 .. 3
        THEN Ins(w[i].op, IF i = 3 THEN "zero" ELSE "k1", IF i = 1 THEN "zero" ELSE "k1", w[i].imm) ELSE w[i]],
                  !.known = FALSE]
\* The same where it comes before: the search ends there.
Astray == [words |-> Between("x103", 9) \o Leads("x103", 9) \o ExceptionCode \o <<Code, Return, NOP>>
                     \o Zeros(25) \o <<Code>>,
           dead |-> 16 .. 40, pre |-> 5, exc |-> 9, cic |-> "x103", known |-> TRUE, sum |-> TRUE]
MCGames == [plain |-> Plain, astray |-> Astray, scattered |-> Scattered, decoys |-> Decoys, broken |-> Broken, foreign |-> Foreign]

A == 91                                   \* 5 * 16 + 11: the upper half is one more
MCMemories == {[a \in A .. A + 7 |-> 0], [a \in A .. A + 7 |-> IF a = A THEN 1 ELSE 3]}
Store(w, a, v) == [kind |-> "write", wide |-> w, ne |-> FALSE, gs |-> FALSE, addr |-> a, value |-> v,
                   count |-> 0, step |-> 0, incr |-> 0]
If(w, ne, a, v) == [Store(w, a, v) EXCEPT !.kind = "test", !.ne = ne]
Repeat(n, step, incr) == [Store(FALSE, 0, 0) EXCEPT !.kind = "repeat", !.count = n, !.step = step, !.incr = incr]
Lines == {Store(FALSE, A, 6), Store(TRUE, A + 1, 9), Store(TRUE, A, 1),
          [Store(FALSE, A, 2) EXCEPT !.gs = TRUE], [Store(TRUE, A + 5, 11) EXCEPT !.kind = "boot"],
          If(FALSE, FALSE, A, 5), If(TRUE, TRUE, A + 1, 15), If(TRUE, FALSE, A, 0),
          Repeat(3, 2, 0), Repeat(2, 4, 5), Repeat(0, 1, 1), Repeat(2, 3, 0),
          [Store(FALSE, 0, 0) EXCEPT !.kind = "pak"], [Store(FALSE, 0, 0) EXCEPT !.kind = "other"]}
Lists(n) == UNION {[1 .. k -> Lines] : k \in 0 .. n}
MCTicked == [list : Lists(3), engine : {"cartridge"}] \cup [list : Lists(1), engine : {"classic"}]
=============================================================================
