----------------------------- MODULE FlatMips ------------------------------
(* What the simulated machine promises to user programs (machine.h:96-103): *)
(* the processor of a MIPS with a memory of its own for each process.  No   *)
(* page is ever missing, no load is delayed, and arithmetic is that of      *)
(* numbers.  A program that does what a trap reports is killed.             *)
EXTENDS Words, MipsCode

CONSTANTS
    GPR,            \* general purpose registers programs use
    PageSize,       \* bytes in a page
    TextPages, DataPages    \* pages of a program, text first

VARIABLES
    program,        \* what a process runs: [text, data, regs]
    cpu,            \* a process's registers, seen without delay
    mem,            \* its data, byte by byte
    alive           \* it has not been killed

vars == <<program, cpu, mem, alive>>

Procs == DOMAIN program

Half == W \div 2
Data == (TextPages * PageSize)..((TextPages + DataPages) * PageSize - 1)
Text == {a \in 0..(TextPages * PageSize - 1) : a % 4 = 0}
SignedWord == -(2^(W - 1))..(2^(W - 1) - 1)

Init ==
    /\ cpu = [p \in Procs |-> [gpr |-> program[p].regs, hi |-> 0, lo |-> 0,
                               pc |-> 0, next |-> 4]]
    /\ mem = [p \in Procs |-> program[p].data]
    /\ alive = [p \in Procs |-> TRUE]
-----------------------------------------------------------------------------
(* The instruction a process is at, and its operands.                       *)
At(p) == program[p].text[cpu[p].pc]
Rs(p) == cpu[p].gpr[At(p).rs]
Rt(p) == cpu[p].gpr[At(p).rt]
Address(p) == Wrap(Rs(p) + At(p).extra)
Fetches(p) == alive[p] /\ cpu[p].pc \in Text

Set(p, r, v) == [cpu[p].gpr EXCEPT ![r] = IF r = 0 THEN 0 ELSE v]
Advance(p, c, target) ==
    /\ cpu' = [cpu EXCEPT ![p] = [c EXCEPT !.pc = cpu[p].next, !.next = target]]
    /\ UNCHANGED <<program, alive>>
Continue(p, c) == Advance(p, c, Wrap(cpu[p].next + 4))

Immediates == {"ADDI", "ADDIU", "ANDI", "ORI", "XORI", "LUI", "SLTI", "SLTIU"}
Truth(b) == IF b THEN 1 ELSE 0

(* Results that are exact, or trap.                                         *)
Exact(p) ==
    LET a == Signed(Rs(p))
    IN  [ADD |-> a + Signed(Rt(p)), ADDI |-> a + At(p).extra, SUB |-> a - Signed(Rt(p))]
Overflows(p) == At(p).op \in DOMAIN Exact(p) /\ Exact(p)[At(p).op] \notin SignedWord

Results(p) ==
    LET a == Rs(p)  b == Rt(p)  x == At(p).extra  low == x % 2^Half
    IN  [ADD |-> Wrap(a + b), ADDU |-> Wrap(a + b), ADDI |-> Wrap(a + x),
         ADDIU |-> Wrap(a + x), SUB |-> Wrap(a - b), SUBU |-> Wrap(a - b),
         AND |-> And(a, b), ANDI |-> And(a, low), OR |-> Or(a, b), ORI |-> Or(a, low),
         XOR |-> Xor(a, b), XORI |-> Xor(a, low), NOR |-> Not(Or(a, b)),
         SLT |-> Truth(Signed(a) < Signed(b)), SLTI |-> Truth(Signed(a) < x),
         SLTU |-> Truth(a < b), SLTIU |-> Truth(a < Wrap(x)),
         LUI |-> low * 2^Half,
         SLLV |-> Wrap(b * 2^(a % W)), SRLV |-> b \div 2^(a % W),
         SRAV |-> Wrap(Signed(b) \div 2^(a % W)),
         MFHI |-> cpu[p].hi, MFLO |-> cpu[p].lo]
Shifts(p) ==
    LET b == Rt(p)  n == At(p).extra
    IN  [SLL |-> Wrap(b * 2^n), SRL |-> b \div 2^n, SRA |-> Wrap(Signed(b) \div 2^n)]

Compute(p) ==
    /\ Fetches(p)
    /\ ~Overflows(p)
    /\ LET r == IF At(p).op \in Immediates THEN At(p).rt ELSE At(p).rd
       IN  \/ /\ At(p).op \in DOMAIN Results(p)
              /\ Continue(p, [cpu[p] EXCEPT !.gpr = Set(p, r, Results(p)[At(p).op])])
           \/ /\ At(p).op \in {"SLL", "SRL", "SRA"}
              /\ Continue(p, [cpu[p] EXCEPT !.gpr = Set(p, r, Shifts(p)[At(p).op])])
    /\ UNCHANGED mem

(* What Hi and Lo may be after an instruction that sets them: a product, a  *)
(* remainder and quotient (any, if the divisor is 0), or a move.            *)
Double(d) == {<<d \div 2^W, d % 2^W>>}
Divided(a, b) ==
    LET Abs(n) == IF n < 0 THEN -n ELSE n
        Fits(q) == Abs(a - q * b) < Abs(b) /\ (a - q * b) * a >= 0
    IN  IF b = 0 THEN Word \X Word
        ELSE {<<Wrap(a - q * b), Wrap(q)>> : q \in {n \in SignedWord \cup Word : Fits(n)}}
HiLo(p) ==
    LET a == Rs(p)  b == Rt(p)
    IN  CASE At(p).op = "MULT"  -> Double((Signed(a) * Signed(b)) % 2^(2 * W))
          [] At(p).op = "MULTU" -> Double(a * b)
          [] At(p).op = "DIV"   -> Divided(Signed(a), Signed(b))
          [] At(p).op = "DIVU"  -> Divided(a, b)
          [] At(p).op = "MTHI"  -> {<<a, cpu[p].lo>>}
          [] At(p).op = "MTLO"  -> {<<cpu[p].hi, a>>}
          [] OTHER -> {}

SetHiLo(p) ==
    /\ Fetches(p)
    /\ <<cpu'[p].hi, cpu'[p].lo>> \in HiLo(p)
    /\ Continue(p, [cpu[p] EXCEPT !.hi = cpu'[p].hi, !.lo = cpu'[p].lo])
    /\ UNCHANGED mem
-----------------------------------------------------------------------------
(* Branches and jumps take effect after the next instruction.               *)
Taken(p) ==
    LET a == Signed(Rs(p))
    IN  [BEQ |-> Rs(p) = Rt(p), BNE |-> Rs(p) # Rt(p), BLEZ |-> a <= 0, BGTZ |-> a > 0,
         BLTZ |-> a < 0, BGEZ |-> a >= 0, BLTZAL |-> a < 0, BGEZAL |-> a >= 0]
Linking == {"BLTZAL", "BGEZAL", "JAL"}

(* A jump stays in its region of 2^(W - W/8) bytes.                         *)
Region == 2^(W - W \div 8)
Jumps(p) ==
    [J |-> (cpu[p].next \div Region) * Region + 4 * At(p).extra,
     JAL |-> (cpu[p].next \div Region) * Region + 4 * At(p).extra,
     JR |-> Rs(p), JALR |-> Rs(p)]

Linked(p) ==
    LET back == Wrap(cpu[p].next + 4)
    IN  IF At(p).op \in Linking THEN Set(p, 31, back)
        ELSE IF At(p).op = "JALR" THEN Set(p, At(p).rd, back) ELSE cpu[p].gpr

Branch(p) ==
    /\ Fetches(p)
    /\ LET c == [cpu[p] EXCEPT !.gpr = Linked(p)]
       IN  \/ /\ At(p).op \in DOMAIN Taken(p)
              /\ IF Taken(p)[At(p).op]
                 THEN Advance(p, c, Wrap(cpu[p].next + 4 * At(p).extra))
                 ELSE Continue(p, c)
           \/ /\ At(p).op \in DOMAIN Jumps(p)
              /\ Advance(p, c, Jumps(p)[At(p).op])
    /\ UNCHANGED mem
-----------------------------------------------------------------------------
(* Loads and stores.                                                        *)
Size == [LB |-> 1, LBU |-> 1, LH |-> 2, LHU |-> 2, LW |-> 4, LWL |-> 4, LWR |-> 4,
         SB |-> 1, SH |-> 2, SW |-> 4, SWL |-> 4, SWR |-> 4]
Loads == {"LB", "LBU", "LH", "LHU", "LW", "LWL", "LWR"}
Stores == DOMAIN Size \ Loads

Allowed(p) == Address(p) % Size[At(p).op] = 0 /\ Address(p) \in Data
In(p) == FromBytes(Size[At(p).op], [k \in 0..3 |-> mem[p][Address(p) + k]])

(* LWL, LWR, SWL, SWR: the word's bytes from an address on are the left,   *)
(* those up to it the right part of a word in memory order.                *)
Loaded(p) ==
    CASE At(p).op \in {"LW", "LWL", "LBU", "LHU"} -> In(p)
      [] At(p).op = "LB"  -> Extend(In(p), ByteBits)
      [] At(p).op = "LH"  -> Extend(In(p), 2 * ByteBits)
      [] At(p).op = "LWR" -> Rt(p) - Low(Rt(p), ByteBits) + mem[p][Address(p) + 3]

Load(p) ==
    /\ Fetches(p)
    /\ At(p).op \in Loads /\ Allowed(p)
    /\ Continue(p, [cpu[p] EXCEPT !.gpr = Set(p, At(p).rt, Loaded(p))])
    /\ UNCHANGED mem

Store(p) ==
    /\ Fetches(p)
    /\ At(p).op \in Stores /\ Allowed(p)
    /\ LET at == Address(p)
           Stored(a) == IF At(p).op = "SWR" THEN (IF a = at + 3 THEN ByteOf(Rt(p), 0) ELSE mem[p][a])
                        ELSE IF a \in at..(at + Size[At(p).op] - 1) THEN ByteOf(Rt(p), a - at)
                        ELSE mem[p][a]
       IN  mem' = [mem EXCEPT ![p] = [a \in Data |-> Stored(a)]]
    /\ Continue(p, cpu[p])

(* A call of the kernel, which changes nothing of the program's.            *)
Syscall(p) ==
    /\ Fetches(p)
    /\ At(p).op = "SYSCALL"
    /\ Continue(p, cpu[p])
    /\ UNCHANGED mem

(* The program did what it may not, or what the simulator cannot do.       *)
Illegal(p) ==
    \/ cpu[p].pc \notin Text
    \/ Overflows(p)
    \/ At(p).op \in DOMAIN Size /\ ~Allowed(p)
    \/ At(p).op \in {"COP0", "BREAK", "LWC1", "SWC1"}

Kill(p) ==
    /\ alive[p]
    /\ Illegal(p)
    /\ alive' = [alive EXCEPT ![p] = FALSE]
    /\ UNCHANGED <<program, cpu, mem>>

Next ==
    \E p \in Procs :
        Compute(p) \/ SetHiLo(p) \/ Branch(p) \/ Load(p) \/ Store(p) \/ Syscall(p) \/ Kill(p)

Spec == Init /\ [][Next]_vars
=============================================================================
