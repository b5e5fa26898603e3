------------------------------ MODULE Machine ------------------------------
(* The simulated machine: machine.cc, mipssim.cc, translate.cc.            *)
(*                                                                         *)
(* A step executes one instruction, or traps to the kernel, which serves   *)
(* the trap in a step of its own.  Loads are delayed by one instruction,   *)
(* addresses are translated by a page table or a TLB, and an instruction   *)
(* that traps starts again.  The kernel is not in the repository: it is    *)
(* one that pages on demand, and switches processes between instructions.  *)
(* Text pages hold machine words as Encode gives them, data pages bytes.   *)
EXTENDS Words, MipsCode, SequencesExt

CONSTANTS
    GPR,                    \* the general purpose registers programs use
    PageSize, TextPages, DataPages,
    NumPhysPages, TLBSize,
    Workloads               \* pairs: the programs of the processes, and whether there is a TLB

ASSUME MachineAssumption ==
    /\ {0, 31} \subseteq GPR /\ GPR \subseteq 0..31
    /\ PageSize \in Nat \ {0} /\ PageSize % 4 = 0
    /\ TextPages \in Nat \ {0} /\ DataPages \in Nat
    /\ NumPhysPages \in Nat \ {0} /\ TLBSize \in Nat \ {0}

(* Register 0 of a program starts, as the constructor leaves it, with 0.   *)
ASSUME WorkloadAssumption ==
    \A w \in Workloads : \A p \in DOMAIN w[1] : w[1][p].regs[0] = 0

HiReg == 32
LoReg == 33
PCReg == 34
NextPCReg == 35
PrevPCReg == 36
LoadReg == 37
LoadValueReg == 38
BadVAddrReg == 39
R31 == 31
Registers == GPR \cup (HiReg..BadVAddrReg)

VirtualPages == 0..(TextPages + DataPages - 1)
Frames == 0..(NumPhysPages - 1)
Slots == 0..(TLBSize - 1)
Offsets == 0..(PageSize - 1)

VARIABLES
    program,        \* what each process executes: [text, data, regs]
    useTLB,         \* USE_TLB: translation by the TLB, not by page tables
    running,        \* the process whose registers are in the machine
    registers,      \* registers of each process
    mainMemory,     \* contents of the frames
    tlb, pageTable, \* translation entries, the kernel's tables of each process
    trap,           \* the exception the kernel has to serve
    swap,           \* pages as they are in the backing store
    alive,          \* processes that have not been killed
    crashed         \* an ASSERT failed, or the host killed Nachos

Procs == DOMAIN program

tables == <<tlb, pageTable>>
vars == <<program, useTLB, running, registers, mainMemory, tables, trap, swap, alive, crashed>>

(* A process's memory when it starts, page by page.                        *)
Image(p, v) ==
    IF v < TextPages
    THEN [o \in {x \in Offsets : x % 4 = 0} |-> Encode(program[p].text[v * PageSize + o])]
    ELSE [o \in Offsets |-> program[p].data[v * PageSize + o]]

NoEntry(v) ==
    [virtualPage |-> v, physicalPage |-> 0, valid |-> FALSE, readOnly |-> v < TextPages,
     use |-> FALSE, dirty |-> FALSE]

Init ==
    /\ \E w \in Workloads : program = w[1] /\ useTLB = w[2]
    /\ running \in Procs
    /\ registers = [p \in Procs |->
           [r \in Registers |-> IF r \in GPR THEN program[p].regs[r]
                                ELSE IF r = NextPCReg THEN 4 ELSE 0]]
    /\ mainMemory = [f \in Frames |-> [o \in Offsets |-> 0]]
    /\ tlb = [s \in Slots |-> NoEntry(0)]
    /\ pageTable = [p \in Procs |-> [v \in VirtualPages |-> NoEntry(v)]]
    /\ trap = "NoException"
    /\ swap = [p \in Procs |-> [v \in VirtualPages |-> Image(p, v)]]
    /\ alive = [p \in Procs |-> TRUE]
    /\ crashed = FALSE
-----------------------------------------------------------------------------
(* translate.cc.  The table that translates, the entries of it that may be *)
(* used for a page, and the one that is: the first.                        *)
Table == IF useTLB THEN tlb ELSE pageTable[running]
Found(vpn) == {i \in DOMAIN Table : Table[i].valid /\ Table[i].virtualPage = vpn}
Entry(addr) == Min(Found(addr \div PageSize))

Translate(addr, size, writing) ==
    LET vpn == addr \div PageSize
        entry == Table[Entry(addr)]
    IN  IF addr % size # 0 \/ (~useTLB /\ vpn \notin VirtualPages) THEN "AddressErrorException"
        ELSE IF Found(vpn) = {} THEN "PageFaultException"
        ELSE IF entry.readOnly /\ writing THEN "ReadOnlyException"
        ELSE IF entry.physicalPage \notin Frames THEN "BusErrorException"
        ELSE "NoException"

(* Where the k-th byte from an address on is, once it is translated.       *)
Frame(addr) == Table[Entry(addr)].physicalPage
Cell(addr) == mainMemory[Frame(addr)][addr % PageSize]

(* Mutant: a read clears the dirty bit.                                    *)
TouchedClean(t, accesses) ==
    [i \in DOMAIN t |->
        IF i \notin {Entry(a.addr) : a \in accesses} THEN t[i]
        ELSE [t[i] EXCEPT !.use = TRUE, !.dirty = \E a \in accesses : Entry(a.addr) = i /\ a.writing]]

(* The translations of an instruction set use and dirty bits.              *)
Touched(t, accesses) ==
    [i \in DOMAIN t |->
        [t[i] EXCEPT !.use = @ \/ i \in {Entry(a.addr) : a \in accesses},
                     !.dirty = @ \/ i \in {Entry(a.addr) : a \in {b \in accesses : b.writing}}]]
Touch(accesses) ==
    IF useTLB THEN tlb' = Touched(tlb, accesses) /\ UNCHANGED pageTable
    ELSE /\ pageTable' = [pageTable EXCEPT ![running] = Touched(@, accesses)]
         /\ UNCHANGED tlb
Reading(addr) == [addr |-> addr, writing |-> FALSE]
Writing(addr) == [addr |-> addr, writing |-> TRUE]

(* ReadMem sign-extends a byte, which is a char, and nothing else.         *)
ReadMem(addr, size) ==
    IF size = 1 THEN Extend(Cell(addr), ByteBits)
    ELSE FromBytes(size, [k \in 0..(size - 1) |-> Cell(addr + k)])

(* Mutant: the size of an access is not looked at, a word is written.      *)
WriteMemWord(addr, size, value) ==
    LET first == addr % PageSize
    IN  mainMemory' = [mainMemory EXCEPT ![Frame(addr)] =
            [o \in Offsets |-> IF o \in first..(first + 3) THEN ByteOf(value, o - first) ELSE @[o]]]

WriteMem(addr, size, value) ==
    LET first == addr % PageSize
    IN  mainMemory' = [mainMemory EXCEPT ![Frame(addr)] =
            [o \in Offsets |->
                IF o \in first..(first + size - 1) THEN ByteOf(value, o - first) ELSE @[o]]]
-----------------------------------------------------------------------------
(* Instruction::Decode.                                                    *)
opTable ==
    <<"SPECIAL", "BCOND", "J", "JAL", "BEQ", "BNE", "BLEZ", "BGTZ",
      "ADDI", "ADDIU", "SLTI", "SLTIU", "ANDI", "ORI", "XORI", "LUI",
      "UNIMP", "UNIMP", "UNIMP", "UNIMP", "RES", "RES", "RES", "RES",
      "RES", "RES", "RES", "RES", "RES", "RES", "RES", "RES",
      "LB", "LH", "LWL", "LW", "LBU", "LHU", "LWR", "RES",
      "SB", "SH", "SWL", "SW", "RES", "RES", "SWR", "RES",
      "UNIMP", "UNIMP", "UNIMP", "UNIMP", "RES", "RES", "RES", "RES",
      "UNIMP", "UNIMP", "UNIMP", "UNIMP", "RES", "RES", "RES", "RES">>

Format(code) == IF code = 0 THEN "RFMT" ELSE IF code \in {2, 3} THEN "JFMT" ELSE "IFMT"

specialTable ==
    <<"SLL", "RES", "SRL", "SRA", "SLLV", "RES", "SRLV", "SRAV",
      "JR", "JALR", "RES", "RES", "SYSCALL", "UNIMP", "RES", "RES",
      "MFHI", "MTHI", "MFLO", "MTLO", "RES", "RES", "RES", "RES",
      "MULT", "MULTU", "DIV", "DIVU", "RES", "RES", "RES", "RES",
      "ADD", "ADDU", "SUB", "SUBU", "AND", "OR", "XOR", "NOR",
      "RES", "RES", "SLT", "SLTU", "RES", "RES", "RES", "RES",
      "RES", "RES", "RES", "RES", "RES", "RES", "RES", "RES",
      "RES", "RES", "RES", "RES", "RES", "RES", "RES", "RES">>

BCondOp(rt) ==
    CASE rt = 0 -> "BLTZ" [] rt = 1 -> "BGEZ" [] rt = 16 -> "BLTZAL" [] rt = 17 -> "BGEZAL"
      [] OTHER -> "UNIMP"

Decode(word) ==
    LET op == opTable[word.code + 1]
    IN  [op |-> IF op = "SPECIAL" THEN specialTable[word.funct + 1]
                ELSE IF op = "BCOND" THEN BCondOp(word.rt) ELSE op,
         rs |-> word.rs, rt |-> word.rt, rd |-> word.rd,
         extra |-> CASE Format(word.code) = "IFMT" -> Extend(word.imm, W \div 2)
                     [] Format(word.code) = "RFMT" -> word.shamt
                     [] OTHER -> word.imm]
-----------------------------------------------------------------------------
(* Machine::OneInstruction.                                                *)
R == registers[running]
PC == R[PCReg]
Running == ~crashed /\ alive[running] /\ trap = "NoException"
Fetches == Running /\ Translate(PC, 4, FALSE) = "NoException"
Instruction == Decode(Cell(PC))
Op == Instruction.op
Extra == Instruction.extra
Rs == R[Instruction.rs]
Rt == R[Instruction.rt]
Address == Wrap(Rs + Extra)
PCAfter == Wrap(R[NextPCReg] + 4)

DelayedLoad(r, nextReg, nextValue) ==
    [r EXCEPT ![r[LoadReg]] = r[LoadValueReg],
              ![LoadReg] = nextReg, ![LoadValueReg] = nextValue, ![0] = 0]

(* Mutant: a trap forgets the load that is under way.                      *)
RaiseExceptionForgets(which, badVAddr) ==
    /\ registers' = [registers EXCEPT ![running] =
                        [@ EXCEPT ![BadVAddrReg] = badVAddr, ![LoadReg] = 0, ![LoadValueReg] = 0]]
    /\ trap' = which
    /\ UNCHANGED <<program, useTLB, running, mainMemory, swap, alive, crashed>>

(* Machine::RaiseException, up to the call of the kernel.                  *)
RaiseException(which, badVAddr) ==
    /\ registers' = [registers EXCEPT ![running] =
                        DelayedLoad([@ EXCEPT ![BadVAddrReg] = badVAddr], 0, 0)]
    /\ trap' = which
    /\ UNCHANGED <<program, useTLB, running, mainMemory, swap, alive, crashed>>

(* The end of an instruction that has set r and is done.                   *)
Advanced(r, pcAfter) ==
    [r EXCEPT ![PrevPCReg] = r[PCReg], ![PCReg] = r[NextPCReg], ![NextPCReg] = pcAfter]
CompleteLoad(r, pcAfter, nextReg, nextValue) ==
    /\ registers' = [registers EXCEPT ![running] =
           Advanced(DelayedLoad(r, nextReg, nextValue), pcAfter)]
    /\ UNCHANGED <<program, useTLB, running, trap, swap, alive, crashed>>
Complete(r, pcAfter) == CompleteLoad(r, pcAfter, 0, 0) /\ Touch({Reading(PC)})

FetchFails ==
    /\ Running
    /\ Translate(PC, 4, FALSE) # "NoException"
    /\ RaiseException(Translate(PC, 4, FALSE), PC)
    /\ UNCHANGED tables

(* Instructions with one result: of signed and unsigned arithmetic, of     *)
(* logic, comparisons and shifts.                                          *)
Truth(b) == IF b THEN 1 ELSE 0
Immediate == {"ADDI", "ADDIU", "ANDI", "ORI", "XORI", "LUI", "SLTI", "SLTIU"}
Operand == IF Op \in Immediate THEN Extra ELSE Rt
Mask == Low(Operand, IF Op \in Immediate THEN W \div 2 ELSE W)
Amount == IF Op \in {"SLLV", "SRAV", "SRLV"} THEN Rs % W ELSE Extra

Sum == Wrap(Rs + Operand)
Difference == Wrap(Rs - Rt)
Conjunction == And(Rs, Mask)
Disjunction == IF Op = "NOR" THEN Not(Or(Rs, Rt)) ELSE Or(Rs, Mask)
Exclusive == Xor(Rs, Mask)
Less == Truth(Signed(Rs) < Signed(Operand))
LessUnsigned == Truth(Rs < Operand)
Upper == Wrap(Extra * 2^(W \div 2))
ShiftedLeft == Wrap(Rt * 2^Amount)
ShiftedArithmetic == Wrap(Signed(Rt) \div 2^Amount)
ShiftedLogical == Rt \div 2^Amount
Moved == IF Op = "MFHI" THEN R[HiReg] ELSE R[LoReg]

NoResult == -1
Result ==
    CASE Op \in {"ADD", "ADDU", "ADDI", "ADDIU"} -> Sum
      [] Op \in {"SUB", "SUBU"}      -> Difference
      [] Op \in {"AND", "ANDI"}      -> Conjunction
      [] Op \in {"OR", "ORI", "NOR"} -> Disjunction
      [] Op \in {"XOR", "XORI"}      -> Exclusive
      [] Op \in {"SLT", "SLTI"}      -> Less
      [] Op \in {"SLTU", "SLTIU"}    -> LessUnsigned
      [] Op = "LUI"                  -> Upper
      [] Op \in {"SLL", "SLLV"}      -> ShiftedLeft
      [] Op \in {"SRA", "SRAV"}      -> ShiftedArithmetic
      [] Op \in {"SRL", "SRLV"}      -> ShiftedLogical
      [] Op \in {"MFHI", "MFLO"}     -> Moved
      [] OTHER -> NoResult

Overflow ==
    \/ Op \in {"ADD", "ADDI"} /\ SignBit(Rs) = SignBit(Operand) /\ SignBit(Rs) # SignBit(Sum)
    \/ Op = "SUB" /\ SignBit(Rs) # SignBit(Rt) /\ SignBit(Rs) # SignBit(Difference)

ComputeResult ==
    /\ Fetches
    /\ ~Overflow
    /\ Result # NoResult
    /\ LET dest == IF Op \in Immediate THEN Instruction.rt ELSE Instruction.rd
       IN  Complete([R EXCEPT ![dest] = Result], PCAfter)
    /\ UNCHANGED mainMemory

(* Mult: one bit of a at a time, b shifted into bHi and bLo.  When no bit  *)
(* of a is left the code stops; the steps that remain here change nothing. *)
MultStep(s, i) ==
    LET lo == Wrap(s.lo + s.bLo)
        hi == Wrap(s.hi + s.bHi + Truth(lo < s.bLo))
        odd == s.a % 2 = 1
    IN  [a |-> s.a \div 2, bLo |-> Wrap(2 * s.bLo), bHi |-> Wrap(2 * s.bHi + Truth(SignBit(s.bLo))),
         lo |-> IF odd THEN lo ELSE s.lo, hi |-> IF odd THEN hi ELSE s.hi]

Mult(a, b, signedArith) ==
    LET negative == signedArith /\ SignBit(a) # SignBit(b)
        Positive(w) == IF signedArith /\ SignBit(w) THEN Wrap(-w) ELSE w
        s == FoldLeft(MultStep, [a |-> Signed(Positive(a)), bLo |-> Positive(b), bHi |-> 0,
                                 lo |-> 0, hi |-> 0], [n \in 1..W |-> n])
        lo == Wrap(Not(s.lo) + 1)
    IN  IF a = 0 \/ b = 0 THEN <<0, 0>>
        ELSE IF negative THEN <<Wrap(Not(s.hi) + Truth(lo = 0)), lo>>
        ELSE <<s.hi, s.lo>>

(* Division of C: towards 0.  The result that is not an int stops the host. *)
Quotient(a, b) ==
    LET Abs(n) == IF n < 0 THEN -n ELSE n
    IN  IF (a < 0) = (b < 0) THEN Abs(a) \div Abs(b) ELSE -(Abs(a) \div Abs(b))
DivideTraps == Op = "DIV" /\ Rs = 2^(W - 1) /\ Rt = 2^W - 1
Divide(a, b) ==
    IF b = 0 THEN <<0, 0>> ELSE <<Wrap(a - Quotient(a, b) * b), Wrap(Quotient(a, b))>>

HiLo ==
    CASE Op = "MULT"  -> Mult(Rs, Rt, TRUE)
      [] Op = "MULTU" -> Mult(Rs, Rt, FALSE)
      [] Op = "DIV"   -> Divide(Signed(Rs), Signed(Rt))
      [] Op = "DIVU"  -> Divide(Rs, Rt)
      [] Op = "MTHI"  -> <<Rs, R[LoReg]>>
      [] Op = "MTLO"  -> <<R[HiReg], Rs>>

SetHiLo ==
    /\ Fetches
    /\ Op \in {"MULT", "MULTU", "DIV", "DIVU", "MTHI", "MTLO"}
    /\ ~DivideTraps
    /\ Complete([R EXCEPT ![HiReg] = HiLo[1], ![LoReg] = HiLo[2]], PCAfter)
    /\ UNCHANGED mainMemory

(* Branches and jumps.  Those that link do so before they look at rs.      *)
IndexToAddr(x) == 4 * x
Linked ==
    IF Op \in {"BGEZAL", "BLTZAL", "JAL"} THEN [R EXCEPT ![R31] = PCAfter]
    ELSE IF Op = "JALR" THEN [R EXCEPT ![Instruction.rd] = PCAfter] ELSE R
Condition ==
    LET rs == Linked[Instruction.rs]
    IN  CASE Op = "BEQ" -> Rs = Rt
          [] Op = "BNE" -> Rs # Rt
          [] Op \in {"BGEZ", "BGEZAL"} -> ~SignBit(rs)
          [] Op \in {"BLTZ", "BLTZAL"} -> SignBit(rs)
          [] Op = "BGTZ" -> Signed(rs) > 0
          [] Op = "BLEZ" -> Signed(rs) <= 0

Branch ==
    /\ Fetches
    /\ Op \in {"BEQ", "BNE", "BGEZ", "BGEZAL", "BLTZ", "BLTZAL", "BGTZ", "BLEZ"}
    /\ Complete(Linked, IF Condition THEN Wrap(R[NextPCReg] + IndexToAddr(Extra)) ELSE PCAfter)
    /\ UNCHANGED mainMemory

Jump ==
    /\ Fetches
    /\ LET region == 2^(W - W \div 8)
       IN  \/ /\ Op \in {"J", "JAL"}
              /\ Complete(Linked, (PCAfter \div region) * region + IndexToAddr(Extra))
           \/ /\ Op \in {"JR", "JALR"}
              /\ Complete(Linked, Linked[Instruction.rs])
    /\ UNCHANGED mainMemory

(* Loads: the register gets its value at the end of the next instruction.  *)
LoadSize(op) ==
    CASE op \in {"LB", "LBU"} -> 1 [] op \in {"LH", "LHU"} -> 2
      [] op \in {"LW", "LWL", "LWR"} -> 4 [] OTHER -> 0
Merged ==
    LET old == IF R[LoadReg] = Instruction.rt THEN R[LoadValueReg] ELSE Rt
        value == ReadMem(Address, 4)
    IN  IF Op = "LWL" THEN value
        ELSE old - Low(old, ByteBits) + ByteOf(value, 3)
LoadValue ==
    LET value == ReadMem(Address, LoadSize(Op))
    IN  CASE Op = "LB"  -> Extend(value, ByteBits)
          [] Op = "LBU" -> Low(value, ByteBits)
          [] Op = "LH"  -> Extend(value, 2 * ByteBits)
          [] Op = "LHU" -> Low(value, 2 * ByteBits)
          [] Op = "LW"  -> value
          [] Op \in {"LWL", "LWR"} -> Merged

Load ==
    /\ Fetches
    /\ LoadSize(Op) > 0
    /\ Translate(Address, LoadSize(Op), FALSE) = "NoException"
    /\ CompleteLoad(R, PCAfter, Instruction.rt, LoadValue)
    /\ Touch({Reading(PC), Reading(Address)})
    /\ UNCHANGED mainMemory

StoreSize(op) ==
    CASE op = "SB" -> 1 [] op = "SH" -> 2 [] op \in {"SW", "SWL", "SWR"} -> 4 [] OTHER -> 0
StoreValue ==
    IF Op = "SWR"
    THEN Low(ReadMem(Address, 4), 3 * ByteBits) + Low(Rt, ByteBits) * 2^(3 * ByteBits)
    ELSE Rt

Store ==
    /\ Fetches
    /\ StoreSize(Op) > 0
    /\ Translate(Address, StoreSize(Op), TRUE) = "NoException"
    /\ WriteMem(Address, StoreSize(Op), StoreValue)
    /\ CompleteLoad(R, PCAfter, 0, 0)
    /\ Touch({Reading(PC), Writing(Address)})

(* LWL, LWR, SWL and SWR assert that the address is that of a word; ints    *)
(* have one quotient that is none.                                          *)
Merging == {"LWL", "LWR", "SWL", "SWR"}
HostStops ==
    /\ Fetches
    /\ (Op \in Merging /\ Address % 4 # 0) \/ DivideTraps
    /\ crashed' = TRUE
    /\ Touch({Reading(PC)})
    /\ UNCHANGED <<program, useTLB, running, registers, mainMemory, trap, swap, alive>>

(* An access that fails, after SWL and SWR have read the word.             *)
AccessFails ==
    /\ Fetches
    /\ LoadSize(Op) > 0 \/ StoreSize(Op) > 0
    /\ ~(Op \in Merging /\ Address % 4 # 0)
    /\ LET which == Translate(Address, LoadSize(Op) + StoreSize(Op), StoreSize(Op) > 0)
       IN  /\ which # "NoException"
           /\ RaiseException(which, Address)
           /\ IF which = "ReadOnlyException" /\ Op \in Merging
              THEN Touch({Reading(PC), Reading(Address)}) ELSE Touch({Reading(PC)})

Traps ==
    /\ Fetches
    /\ \/ Overflow /\ RaiseException("OverflowException", 0)
       \/ Op = "SYSCALL" /\ RaiseException("SyscallException", 0)
       \/ Op \in {"RES", "UNIMP"} /\ RaiseException("IllegalInstrException", 0)
    /\ Touch({Reading(PC)})
-----------------------------------------------------------------------------
(* The kernel.  Before it looks at its tables it puts the TLB's bits there. *)
WithBits(row) ==
    [v \in VirtualPages |->
        [row[v] EXCEPT !.use = @ \/ \E i \in Found(v) : tlb[i].use,
                       !.dirty = @ \/ \E i \in Found(v) : tlb[i].dirty]]
Synchronized ==
    IF ~useTLB THEN pageTable ELSE [pageTable EXCEPT ![running] = WithBits(@)]
FlushTLB == tlb' = [s \in Slots |-> NoEntry(0)]

BadPage == R[BadVAddrReg] \div PageSize
PagesIn(f) ==
    {x \in Procs \X VirtualPages :
        pageTable[x[1]][x[2]].valid /\ pageTable[x[1]][x[2]].physicalPage = f}
Victims == LET free == {f \in Frames : PagesIn(f) = {}}
           IN  IF free # {} THEN {Min(free)} ELSE Frames

(* The missing page is in memory and not in the TLB, or it is brought in.  *)
LoadTLB(entry, gone) ==
    IF ~useTLB THEN UNCHANGED tlb
    ELSE \E s \in Slots : tlb' = [i \in Slots |->
            IF i = s THEN entry
            ELSE IF tlb[i].physicalPage = gone THEN NoEntry(0) ELSE tlb[i]]

HandlePageFault ==
    /\ trap = "PageFaultException"
    /\ BadPage \in VirtualPages
    /\ IF pageTable[running][BadPage].valid
       THEN /\ LoadTLB(Synchronized[running][BadPage], NumPhysPages)
            /\ pageTable' = Synchronized
            /\ UNCHANGED <<mainMemory, swap>>
       ELSE \E f \in Victims :
            LET old == Synchronized
                out == PagesIn(f)
                new == [NoEntry(BadPage) EXCEPT !.valid = TRUE, !.physicalPage = f]
            IN  /\ swap' = [p \in Procs |-> [v \in VirtualPages |->
                       IF <<p, v>> \in out /\ old[p][v].dirty THEN mainMemory[f] ELSE swap[p][v]]]
                /\ mainMemory' = [mainMemory EXCEPT ![f] = swap[running][BadPage]]
                /\ pageTable' = [p \in Procs |-> [v \in VirtualPages |->
                       IF p = running /\ v = BadPage THEN new
                       ELSE IF <<p, v>> \in out THEN NoEntry(v) ELSE old[p][v]]]
                /\ LoadTLB(new, f)
    /\ trap' = "NoException"
    /\ UNCHANGED <<program, useTLB, running, registers, alive, crashed>>

(* The kernel advances the program counters after a system call.           *)
HandleSyscall ==
    /\ trap = "SyscallException"
    /\ registers' = [registers EXCEPT ![running] = Advanced(R, PCAfter)]
    /\ trap' = "NoException"
    /\ UNCHANGED <<program, useTLB, running, mainMemory, tables, swap, alive, crashed>>

SwitchTo(q) ==
    /\ running' = q
    /\ pageTable' = Synchronized
    /\ FlushTLB

(* Whatever else a program does, it is killed.                             *)
Kill ==
    /\ trap \notin {"NoException", "SyscallException"}
    /\ trap = "PageFaultException" => BadPage \notin VirtualPages
    /\ alive' = [alive EXCEPT ![running] = FALSE]
    /\ SwitchTo(IF \E q \in Procs : alive'[q] THEN CHOOSE q \in Procs : alive'[q] ELSE running)
    /\ trap' = "NoException"
    /\ UNCHANGED <<program, useTLB, registers, mainMemory, swap, crashed>>

(* An interrupt comes between two instructions: a load that is under way   *)
(* is done, and the handler may ask for a switch.                          *)
CheckIfDue ==
    /\ Running
    /\ registers' = [registers EXCEPT ![running] = DelayedLoad(@, 0, 0)]
    /\ \/ UNCHANGED <<running, tables>>
       \/ \E q \in Procs \ {running} : alive[q] /\ SwitchTo(q)
    /\ UNCHANGED <<program, useTLB, mainMemory, trap, swap, alive, crashed>>

Stopped == (crashed \/ ~\E p \in Procs : alive[p]) /\ UNCHANGED vars

OneInstruction ==
    \/ FetchFails \/ ComputeResult \/ SetHiLo \/ Branch \/ Jump \/ Load \/ Store
    \/ AccessFails \/ Traps \/ HostStops
Kernel == HandlePageFault \/ HandleSyscall \/ Kill \/ CheckIfDue

Next == OneInstruction \/ Kernel \/ Stopped

Spec == Init /\ [][Next]_vars
-----------------------------------------------------------------------------
(* PROPERTIES.                                                             *)

(* A page that differs from its copy in the backing store has its dirty    *)
(* bit set, in the TLB or in the kernel's table: the kernel relies on the  *)
(* bit that Translate sets when it decides what to write back.             *)
DirtyTracked ==
    \A p \in Procs, v \in VirtualPages :
        LET entry == pageTable[p][v]
        IN  entry.valid /\ mainMemory[entry.physicalPage] # swap[p][v]
            => \/ entry.dirty
               \/ p = running /\ \E s \in Slots :
                      tlb[s].valid /\ tlb[s].virtualPage = v /\ tlb[s].dirty

(* What a program sees: a load that is under way is done, and pages are    *)
(* where they are.                                                         *)
Seen(p) ==
    LET r == registers[p]
    IN  [gpr |-> [x \in GPR |-> IF x # 0 /\ x = r[LoadReg] THEN r[LoadValueReg] ELSE r[x]],
         hi |-> r[HiReg], lo |-> r[LoReg], pc |-> r[PCReg], next |-> r[NextPCReg]]
Memory(p, a) ==
    LET entry == pageTable[p][a \div PageSize]
    IN  IF entry.valid THEN mainMemory[entry.physicalPage][a % PageSize]
        ELSE swap[p][a \div PageSize][a % PageSize]
Data == (TextPages * PageSize)..((TextPages + DataPages) * PageSize - 1)
Addresses == Data \cup {a \in 0..(TextPages * PageSize - 1) : a % 4 = 0}

(* The bytes a store goes to.                                              *)
StoresAt(a) ==
    LET first == Address % PageSize
    IN  /\ a \div PageSize = Address \div PageSize
        /\ a % PageSize \in first..(first + StoreSize(Op) - 1)

(* The memory of a process changes where the process itself stores, and    *)
(* nowhere else: not when its page is thrown out or brought in, not with   *)
(* the frames, entries and bits of other processes.                        *)
OwnMemory ==
    [][\A p \in Procs, a \in Addresses :
          Memory(p, a)' # Memory(p, a) => p = running /\ Store /\ StoresAt(a)]_vars

Flat == INSTANCE FlatMips WITH
    cpu <- [p \in Procs |-> Seen(p)],
    mem <- [p \in Procs |-> [a \in Data |-> Memory(p, a)]]

(* Delayed loads, branches whose delay slot traps, instructions that start *)
(* again, paging, the TLB, the decoding tables and the arithmetic of ints  *)
(* together give programs the processor and the memory they expect.        *)
FlatMipsSpec == Flat!Spec
=============================================================================
