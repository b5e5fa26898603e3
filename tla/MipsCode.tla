----------------------------- MODULE MipsCode ------------------------------
(* Machine code: the numbers of bin/encode.h, which what assembles the     *)
(* programs uses.  An instruction of a program is a record with the name   *)
(* op, registers rs, rt, rd and the number extra (immediate operand, shift *)
(* amount or target); Encode gives the fields of its machine word.         *)
EXTENDS Integers

(* The fields of a word that op, rs, rt, rd and extra leave alone are 0.   *)
Instr(op, rs, rt, rd, extra) ==
    [op |-> op, rs |-> rs, rt |-> rt, rd |-> rd, extra |-> extra]

Normal ==
    [J |-> \o02, JAL |-> \o03, BEQ |-> \o04, BNE |-> \o05, BLEZ |-> \o06, BGTZ |-> \o07,
     ADDI |-> \o10, ADDIU |-> \o11, SLTI |-> \o12, SLTIU |-> \o13, ANDI |-> \o14,
     ORI |-> \o15, XORI |-> \o16, LUI |-> \o17, COP0 |-> \o20,
     LB |-> \o40, LH |-> \o41, LWL |-> \o42, LW |-> \o43, LBU |-> \o44, LHU |-> \o45,
     LWR |-> \o46, SB |-> \o50, SH |-> \o51, SWL |-> \o52, SW |-> \o53, SWR |-> \o56,
     LWC1 |-> \o61, SWC1 |-> \o71]

Special ==
    [SLL |-> \o00, SRL |-> \o02, SRA |-> \o03, SLLV |-> \o04, SRLV |-> \o06, SRAV |-> \o07,
     JR |-> \o10, JALR |-> \o11, SYSCALL |-> \o14, BREAK |-> \o15,
     MFHI |-> \o20, MTHI |-> \o21, MFLO |-> \o22, MTLO |-> \o23,
     MULT |-> \o30, MULTU |-> \o31, DIV |-> \o32, DIVU |-> \o33,
     ADD |-> \o40, ADDU |-> \o41, SUB |-> \o42, SUBU |-> \o43, AND |-> \o44, OR |-> \o45,
     XOR |-> \o46, NOR |-> \o47, SLT |-> \o52, SLTU |-> \o53]

BCond == [BLTZ |-> \o00, BGEZ |-> \o01, BLTZAL |-> \o20, BGEZAL |-> \o21]

I_SPECIAL == \o00
I_BCOND == \o01

(* The word as fields: bits 31:26, 25:21, 20:16, 15:11, 10:6 and 5:0 are   *)
(* code, rs, rt, rd, shamt and funct; imm is 15:0 (25:0 in a jump).        *)
Encode(i) ==
    LET word == [code |-> I_SPECIAL, rs |-> i.rs, rt |-> i.rt, rd |-> i.rd,
                 shamt |-> 0, funct |-> 0, imm |-> 0]
    IN  IF i.op \in DOMAIN Special
        THEN [word EXCEPT !.funct = Special[i.op], !.shamt = i.extra]
        ELSE IF i.op \in DOMAIN BCond
        THEN [word EXCEPT !.code = I_BCOND, !.rt = BCond[i.op], !.imm = i.extra]
        ELSE [word EXCEPT !.code = Normal[i.op], !.imm = i.extra]
=============================================================================
