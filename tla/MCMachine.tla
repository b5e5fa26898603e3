----------------------------- MODULE MCMachine -----------------------------
(* Machine for TLC: bytes of two bits, words of eight, four instructions   *)
(* on two text pages, sixteen bytes of data on two pages.                  *)
EXTENDS Machine

CONSTANTS P, Q

(* A program ends with an instruction that is illegal.                     *)
End == Instr("BREAK", 0, 0, 0, 0)
Nop == Instr("ADDU", 0, 0, 0, 0)
TextOf(code) == [a \in {0, 4, 8, 12} |-> IF a \div 4 < Len(code) THEN code[a \div 4 + 1] ELSE End]
Prog(code, r2, r3) ==
    [text |-> TextOf(code), data |-> [a \in Data |-> (a \div 4 + a) % 4],
     regs |-> [r \in GPR |-> CASE r = 2 -> r2 [] r = 3 -> r3 [] OTHER -> 0]]

Edge == {0, 1, 2, 3, 7, 85, 126, 127, 128, 129, 170, 253, 254, 255}
Few == {0, 1, 127, 128, 255}

(* One instruction with operands at the edges of their range.              *)
Alu ==
    {Prog(<<Instr(op, 2, 3, 1, 0)>>, a, b) :
        op \in {"ADD", "ADDU", "SUB", "SUBU", "AND", "OR", "XOR", "NOR", "SLT", "SLTU",
                "SLLV", "SRLV", "SRAV"}, a \in Edge, b \in Edge}
    \cup {Prog(<<Instr(op, 2, 3, 0, 0)>>, a, b) :
        op \in {"MULT", "MULTU", "DIV", "DIVU"}, a \in Edge, b \in Edge}
    \cup {Prog(<<Instr(op, 2, 1, 0, x)>>, a, 0) :
        op \in {"ADDI", "ADDIU", "ANDI", "ORI", "XORI", "SLTI", "SLTIU", "LUI"},
        a \in Edge, x \in {-8, -1, 0, 5}}
    \cup {Prog(<<Instr(op, 0, 3, 1, n)>>, 0, b) :
        op \in {"SLL", "SRL", "SRA"}, b \in Edge, n \in {0, 1, 7}}
    \cup {Prog(<<Instr(op, 0, 0, 0, 0)>>, 0, 0) : op \in {"COP0", "LWC1", "SWC1", "BREAK"}}
    \cup {Prog(<<Instr("MTHI", 2, 0, 0, 0), Instr("MTLO", 3, 0, 0, 0),
                 Instr(op, 0, 0, 1, 0)>>, 170, 85) : op \in {"MFHI", "MFLO"}}

(* Branches and jumps: forwards, backwards and out of the text.            *)
Control ==
    {Prog(<<Instr(op, 2, 3, 0, x), Instr("ADDIU", 0, 1, 0, 1)>>, a, b) :
        op \in {"BEQ", "BNE"}, x \in {2, -1}, a \in Few, b \in Few}
    \cup {Prog(<<Instr(op, 2, 0, 0, x), Instr("ADDIU", 0, 1, 0, 1)>>, a, 0) :
        op \in {"BLEZ", "BGTZ", "BLTZ", "BGEZ", "BLTZAL", "BGEZAL"}, x \in {2, -1, -2}, a \in Few}
    \cup {Prog(<<Instr(op, 0, 0, 0, x)>>, 0, 0) : op \in {"J", "JAL"}, x \in {3, 9}}
    \cup {Prog(<<Instr(op, 2, 0, rd, 0), Nop>>, a, 0) :
        op \in {"JR", "JALR"}, rd \in {0, 31}, a \in {12, 3, 40, 128}}

(* An access, and one to the same register that follows at once.           *)
Loading == {"LB", "LBU", "LH", "LHU", "LW", "LWL", "LWR"}
Access ==
    {Prog(<<Instr(op, 3, 2, 0, x), Nop, Instr("ADDU", 2, 2, 1, 0)>>, 201, base) :
        op \in Loading, x \in -8..7, base \in {24, 38}}
    \cup {Prog(<<Instr("LW", 3, r, 0, 0), Instr(op, 3, r, 0, 4), Nop>>, 201, 24) :
        op \in {"LW", "LWR", "LB"}, r \in {0, 2}}
    \cup {Prog(<<Instr(op, 3, 2, 0, x), Instr("LW", 3, 1, 0, 0)>>, 201, base) :
        op \in {"SB", "SH", "SW", "SWL", "SWR"}, x \in -8..7, base \in {8, 24, 38}}

(* Programs for two processes that compete for frames.  The second has a   *)
(* branch on the last word of a page and its delay slot on the next.       *)
Pager ==
    {Prog(<<Instr("LW", 3, 2, 0, -8), Instr("ADDIU", 0, 1, 0, 3), Instr("SW", 3, 2, 0, 0)>>, 0, 24),
     Prog(<<Instr("ADDIU", 0, 1, 0, 5), Instr("BNE", 1, 0, 0, 1), Instr("SB", 3, 1, 0, 1)>>, 0, 24)}
Caller == Prog(<<Instr("SB", 3, 3, 0, 0), Instr("SYSCALL", 0, 0, 0, 0), Instr("LBU", 3, 1, 0, 0)>>, 0, 24)

Alone(S, tlbs) == {<<[p \in {P} |-> x], t>> : x \in S, t \in tlbs}
Programs == Alone(Alu, {FALSE}) \cup Alone(Control \cup Access, BOOLEAN)
    \cup {<<[p \in {P, Q} |-> IF p = P THEN x ELSE Caller], t>> : x \in Pager, t \in BOOLEAN}
=============================================================================
