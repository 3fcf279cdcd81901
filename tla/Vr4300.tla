------------------------------- MODULE Vr4300 -------------------------------
(* The console's processor, as far as boot/vr4300_asm.h assembles for it: a   *)
(* word is a record, a branch has a delay slot, and an address is built from  *)
(* two halves of which the lower one is sign-extended.  The scale is a        *)
(* parameter: a byte has Byte values, a halfword Byte * Byte of them.         *)
EXTENDS Integers, TLC

CONSTANT Byte
ASSUME ByteAssumption == Byte \in Nat /\ Byte > 1

Half == Byte * Byte
WordBytes == 4
Registers == {"zero", "k0", "k1", "t0", "ra"}

\* What addiu, and every load and store, makes of the low half of an address,
\* and the upper half that makes up for it (A_OFFSET and A_BASE).
Offset(a) == IF a % Half >= Half \div 2 THEN (a % Half) - Half ELSE a % Half
Base(a) == a \div Half + (IF Offset(a) < 0 THEN 1 ELSE 0)

Ins(op, rt, rs, imm) == [op |-> op, rt |-> rt, rs |-> rs, imm |-> imm]
LUI(rt, imm) == Ins("lui", rt, "zero", imm)
ORI(rt, rs, imm) == Ins("ori", rt, rs, imm)
ADDIU(rt, rs, imm) == Ins("addiu", rt, rs, imm)
BNE(rt, rs, imm) == Ins("bne", rt, rs, imm)
BEQ(rt, rs, imm) == Ins("beq", rt, rs, imm)
J(target) == Ins("j", "zero", "zero", target)
JR(rs) == Ins("jr", "zero", rs, 0)
NOP == Ins("nop", "zero", "zero", 0)
Data(v) == Ins("data", "zero", "zero", v)

Put(bytes, a, wide, v) ==
    IF wide THEN [bytes EXCEPT ![a] = (v % Half) \div Byte, ![a + 1] = v % Byte]
            ELSE [bytes EXCEPT ![a] = v % Byte]
Get(bytes, a, wide) == IF wide THEN bytes[a] * Byte + bytes[a + 1] ELSE bytes[a]

\* One instruction.  "next" is where the processor goes after the one at "pc",
\* so that a branch is felt one instruction late.  An access that is out of
\* place, and a word that is no instruction, raises a second exception inside
\* the first.  Memory is what was loaded, and over it what has been stored.
Exec(m, loaded) ==
    LET In(a) == a \in DOMAIN m.ram \/ a \in DOMAIN loaded
        Word(a) == IF a \in DOMAIN m.ram THEN m.ram[a] ELSE loaded[a]
        w == Word(m.pc)
        r == m.reg
        ea == r[w.rs] + w.imm
        Goto(target) == [m EXCEPT !.pc = m.next, !.next = target]
        On == Goto(m.next + WordBytes)
        Set(v) == [On EXCEPT !.reg[w.rt] = v]
        Fault == [m EXCEPT !.fault = TRUE]
        Wide == w.op \in {"sh", "lhu"}
        Reach == ea \in DOMAIN m.bytes /\ (Wide => (ea % 2 = 0 /\ ea + 1 \in DOMAIN m.bytes))
        Branch == m.next + WordBytes * w.imm
    IN  IF ~In(m.pc) THEN Fault
        ELSE CASE w.op = "lui" -> Set(w.imm * Half)
               [] w.op = "ori" /\ r[w.rs] % Half = 0 -> Set(r[w.rs] + w.imm)
               [] w.op = "addiu" -> Set(r[w.rs] + w.imm)
               [] w.op \in {"lbu", "lhu"} /\ Reach -> Set(Get(m.bytes, ea, Wide))
               [] w.op \in {"sb", "sh"} /\ Reach -> [On EXCEPT !.bytes = Put(@, ea, Wide, r[w.rt])]
               [] w.op = "lw" /\ In(ea) /\ Word(ea).op = "data" -> Set(Word(ea).imm)
               [] w.op = "sw" /\ In(ea) -> [On EXCEPT !.ram = (ea :> Data(r[w.rt])) @@ @]
               [] w.op = "bne" -> IF r[w.rt] # r[w.rs] THEN Goto(Branch) ELSE On
               [] w.op = "beq" -> IF r[w.rt] = r[w.rs] THEN Goto(Branch) ELSE On
               [] w.op = "j" -> Goto(w.imm)
               [] w.op = "jr" /\ w.rs # "ra" -> Goto(r[w.rs])
               [] w.op = "nop" -> On
               [] OTHER -> Fault
=============================================================================
