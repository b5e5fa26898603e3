---------------------------- MODULE MachineProofs ---------------------------
(***************************************************************************)
(* For any programs, pages, frames and TLB: a page that differs from its   *)
(* copy in the backing store is marked dirty (DirtyTracked), and so memory *)
(* belongs to its process, whatever is paged (OwnMemory).                  *)
(*                                                                         *)
(* Both rest on the inductive invariant IInv: a frame has one owner, and   *)
(* what the TLB says of a page the kernel's table says too.                *)
(*                                                                         *)
(* And an instruction that traps has not changed what its program sees of  *)
(* the registers (Restart).                                                *)
(***************************************************************************)
EXTENDS Machine, TLAPS, WellFoundedInduction

-----------------------------------------------------------------------------
(* The inductive invariant.                                                *)

Entries ==
    [virtualPage : VirtualPages, physicalPage : Frames, valid : BOOLEAN,
     readOnly : BOOLEAN, use : BOOLEAN, dirty : BOOLEAN]

Types ==
    /\ running \in Procs
    /\ tlb \in [Slots -> Entries]
    /\ pageTable \in [Procs -> [VirtualPages -> Entries]]
    /\ DOMAIN mainMemory = Frames

(* Entry v of a table is about page v.                                     *)
Named == \A p \in Procs, v \in VirtualPages : pageTable[p][v].virtualPage = v

(* No two pages are in one frame.                                          *)
OneOwner ==
    \A p, q \in Procs, u, v \in VirtualPages :
        /\ pageTable[p][u].valid /\ pageTable[q][v].valid
        /\ pageTable[p][u].physicalPage = pageTable[q][v].physicalPage
        => p = q /\ u = v

(* What the TLB says of a page, the running process's table says.          *)
Cached ==
    \A s \in Slots : tlb[s].valid =>
        /\ useTLB
        /\ pageTable[running][tlb[s].virtualPage].valid
        /\ pageTable[running][tlb[s].virtualPage].physicalPage = tlb[s].physicalPage

IInv == Types /\ Named /\ OneOwner /\ Cached /\ DirtyTracked

-----------------------------------------------------------------------------
(* Numbers, pages and entries.                                             *)

(* A set of naturals has a smallest element.                               *)
LEMMA Smallest ==
  ASSUME NEW T \in SUBSET Nat, T # {}
  PROVE  Min(T) \in T
<1> DEFINE below == OpToRel(<, Nat)
<1>1. PICK x \in T : \A y \in T : ~ (<<y, x>> \in below)
  BY NatLessThanWellFounded, WFMin, Zenon
<1>2. \A y, z \in Nat : y < z => <<y, z>> \in below
  BY DEF OpToRel
<1> HIDE DEF below
<1>3. ASSUME NEW y \in T PROVE x <= y
  <2>1. y \in Nat /\ x \in Nat
    OBVIOUS
  <2>2. <<y, x>> \notin below
    BY <1>1
  <2>3. ~(y < x)
    BY <1>2, <2>1, <2>2
  <2> QED
    BY <2>1, <2>3
<1>4. \E z \in T : \A y \in T : z <= y
  BY <1>3
<1> QED
  BY <1>4, Zenon DEF Min

(* There are a page and a frame 0, and pages and slots are naturals.       *)
LEMMA Sizing ==
  /\ 0 \in VirtualPages /\ VirtualPages \subseteq Nat
  /\ 0 \in Frames /\ Frames \subseteq Nat /\ NumPhysPages \notin Frames
  /\ Slots \subseteq Nat
BY MachineAssumption DEF VirtualPages, Frames, Slots

(* An entry that says nothing.                                             *)
LEMMA NoEntryIs ==
  ASSUME NEW v \in VirtualPages
  PROVE  /\ NoEntry(v) \in Entries /\ ~NoEntry(v).valid /\ NoEntry(v).virtualPage = v
         /\ ~NoEntry(v).dirty
BY Sizing DEF NoEntry, Entries

(* The constructor and the kernel start with nothing in memory.            *)
LEMMA InitInv == Init => IInv
<1> SUFFICES ASSUME Init PROVE IInv
  OBVIOUS
<1>1. /\ running \in Procs /\ mainMemory = [f \in Frames |-> [o \in Offsets |-> 0]]
      /\ tlb = [s \in Slots |-> NoEntry(0)]
      /\ pageTable = [p \in Procs |-> [v \in VirtualPages |-> NoEntry(v)]]
  BY DEF Init
<1>2. NoEntry(0) \in Entries /\ ~NoEntry(0).valid
  BY Sizing, NoEntryIs
<1>3. \A v \in VirtualPages : NoEntry(v) \in Entries /\ ~NoEntry(v).valid /\ NoEntry(v).virtualPage = v
  BY NoEntryIs
<1>4. /\ \A s \in Slots : ~tlb[s].valid
      /\ \A p \in Procs, v \in VirtualPages :
            ~pageTable[p][v].valid /\ pageTable[p][v].virtualPage = v
  BY <1>1, <1>2, <1>3
<1>5. Types
  BY <1>1, <1>2, <1>3 DEF Types
<1> QED
  BY <1>4, <1>5 DEF IInv, Named, OneOwner, Cached, DirtyTracked

-----------------------------------------------------------------------------
(* Instructions set bits of entries, and change nothing else in them.      *)

Grows(e, f) ==
    /\ f.virtualPage = e.virtualPage /\ f.physicalPage = e.physicalPage
    /\ f.valid = e.valid /\ f.readOnly = e.readOnly
    /\ e.dirty => f.dirty

(* The entries after an instruction of the running process.                *)
Grown ==
    /\ Types' /\ Procs' = Procs /\ running' = running /\ useTLB' = useTLB
    /\ \A s \in Slots : Grows(tlb[s], tlb'[s])
    /\ \A p \in Procs, v \in VirtualPages : Grows(pageTable[p][v], pageTable'[p][v])

(* A table whose entries have been used.                                   *)
LEMMA TouchedGrows ==
  ASSUME NEW I, NEW t \in [I -> Entries], NEW accesses
  PROVE  /\ Touched(t, accesses) \in [I -> Entries]
         /\ \A i \in I : Grows(t[i], Touched(t, accesses)[i])
         /\ \A i \in I, a \in accesses : a.writing /\ Entry(a.addr) = i => Touched(t, accesses)[i].dirty
<1> DEFINE used(i) == i \in {Entry(a.addr) : a \in accesses}
           written(i) == i \in {Entry(a.addr) : a \in {b \in accesses : b.writing}}
           new(i) == [t[i] EXCEPT !.use = @ \/ used(i), !.dirty = @ \/ written(i)]
<1>1. Touched(t, accesses) = [i \in I |-> new(i)]
  BY DEF Touched
<1>2. \A i \in I, a \in accesses : a.writing /\ Entry(a.addr) = i => written(i)
  OBVIOUS
<1> HIDE DEF used, written
<1>3. ASSUME NEW i \in I
      PROVE  new(i) \in Entries /\ Grows(t[i], new(i)) /\ (written(i) => new(i).dirty)
  <2>1. t[i] \in Entries
    OBVIOUS
  <2>2. (t[i].use \/ used(i)) \in BOOLEAN /\ (t[i].dirty \/ written(i)) \in BOOLEAN
    OBVIOUS
  <2> QED
    BY <2>1, <2>2 DEF Entries, Grows
<1> HIDE DEF new
<1> QED
  BY <1>1, <1>2, <1>3

(* Touch sets the bits, and those of what is written.                      *)
LEMMA TouchGrows ==
  ASSUME Types, NEW accesses, Touch(accesses), UNCHANGED <<program, useTLB, running>>,
         DOMAIN mainMemory' = DOMAIN mainMemory
  PROVE  /\ Grown
         /\ \A a \in accesses : a.writing /\ Entry(a.addr) \in DOMAIN Table =>
               IF useTLB THEN tlb'[Entry(a.addr)].dirty ELSE pageTable'[running][Entry(a.addr)].dirty
<1>1. Procs' = Procs
  BY DEF Procs
<1>2. CASE useTLB
  <2>1. tlb' = Touched(tlb, accesses) /\ pageTable' = pageTable /\ Table = tlb
    BY <1>2 DEF Touch, Table
  <2>2. tlb \in [Slots -> Entries]
    BY DEF Types
  <2>3. /\ tlb' \in [Slots -> Entries] /\ \A s \in Slots : Grows(tlb[s], tlb'[s])
        /\ \A s \in Slots, a \in accesses : a.writing /\ Entry(a.addr) = s => tlb'[s].dirty
    BY <2>1, <2>2, TouchedGrows
  <2>4. \A p \in Procs, v \in VirtualPages : Grows(pageTable[p][v], pageTable'[p][v])
    BY <2>1 DEF Grows
  <2>5. Types'
    BY <1>1, <2>1, <2>3 DEF Types
  <2> QED
    BY <1>1, <1>2, <2>1, <2>2, <2>3, <2>4, <2>5 DEF Grown
<1>3. CASE ~useTLB
  <2>1. /\ pageTable' = [pageTable EXCEPT ![running] = Touched(pageTable[running], accesses)]
        /\ tlb' = tlb /\ Table = pageTable[running]
    BY <1>3 DEF Touch, Table
  <2>2. pageTable[running] \in [VirtualPages -> Entries] /\ running \in Procs
    BY DEF Types
  <2>3. PICK t : t = Touched(pageTable[running], accesses)
    OBVIOUS
  <2>4. /\ t \in [VirtualPages -> Entries] /\ \A v \in VirtualPages : Grows(pageTable[running][v], t[v])
        /\ \A v \in VirtualPages, a \in accesses : a.writing /\ Entry(a.addr) = v => t[v].dirty
    BY <2>2, <2>3, TouchedGrows
  <2>5. /\ pageTable' \in [Procs -> [VirtualPages -> Entries]] /\ pageTable'[running] = t
        /\ \A p \in Procs : p # running => pageTable'[p] = pageTable[p]
    BY <2>1, <2>2, <2>3, <2>4 DEF Types
  <2>6. \A s \in Slots : Grows(tlb[s], tlb'[s])
    BY <2>1 DEF Grows
  <2>7. \A p \in Procs, v \in VirtualPages : Grows(pageTable[p][v], pageTable'[p][v])
    <3> SUFFICES ASSUME NEW p \in Procs, NEW v \in VirtualPages
                 PROVE  Grows(pageTable[p][v], pageTable'[p][v])
      OBVIOUS
    <3>1. CASE p = running
      BY <2>4, <2>5, <3>1
    <3>2. CASE p # running
      BY <2>5, <3>2 DEF Grows
    <3> QED
      BY <3>1, <3>2
  <2>8. Types'
    BY <1>1, <2>1, <2>5 DEF Types
  <2> QED
    BY <1>1, <1>3, <2>1, <2>2, <2>4, <2>5, <2>6, <2>7, <2>8 DEF Grown
<1> QED
  BY <1>2, <1>3

-----------------------------------------------------------------------------
(* Memory, page by page.                                                   *)

Content(p, v) ==
    IF pageTable[p][v].valid THEN mainMemory[pageTable[p][v].physicalPage] ELSE swap[p][v]

Kept == \A p \in Procs, v \in VirtualPages : Content(p, v)' = Content(p, v)

(* An address of a program is on one of its pages.                         *)
LEMMA PageOf ==
  ASSUME NEW a \in Addresses
  PROVE  a \div PageSize \in VirtualPages /\ a % PageSize \in Offsets
<1>1. PICK n, k : n = PageSize /\ k = TextPages + DataPages
  OBVIOUS
<1>2. n \in Nat \ {0} /\ k \in Nat \ {0} /\ TextPages \in Nat /\ DataPages \in Nat
  BY <1>1, MachineAssumption
<1>3. a \in Nat /\ a < k * n
  <2>1. /\ TextPages * n \in Nat /\ DataPages * n \in Nat
        /\ k * n = (TextPages * n) + (DataPages * n)
    BY <1>1, <1>2
  <2> QED
    BY <1>1, <2>1 DEF Addresses, Data
<1>4. PICK q, r : q = a \div n /\ r = a % n
  OBVIOUS
<1>5. q \in Nat /\ r \in 0 .. n - 1 /\ a = (q * n) + r
  BY <1>2, <1>3, <1>4
<1>6. q < k
  <2> SUFFICES ASSUME k <= q PROVE FALSE
    BY <1>2, <1>5
  <2>1. PICK d \in Nat : q = k + d
    <3>1. q - k \in Nat /\ q = k + (q - k)
      BY <1>2, <1>5
    <3> QED
      BY <3>1
  <2>2. q * n = (k * n) + (d * n) /\ d * n \in Nat /\ k * n \in Nat
    BY <1>2, <2>1
  <2> QED
    BY <1>3, <1>5, <2>2
<1> QED
  BY <1>1, <1>2, <1>4, <1>5, <1>6 DEF VirtualPages, Offsets

(* A byte of a program is a byte of one of its pages.                      *)
LEMMA MemoryIs ==
  \A p, a : /\ Memory(p, a) = Content(p, a \div PageSize)[a % PageSize]
            /\ Memory(p, a)' = (Content(p, a \div PageSize)')[a % PageSize]
BY DEF Memory, Content

(* It stays if the pages do.                                               *)
LEMMA KeptMemory ==
  ASSUME Kept, NEW p \in Procs, NEW a \in Addresses
  PROVE  Memory(p, a)' = Memory(p, a)
<1>1. a \div PageSize \in VirtualPages
  BY PageOf
<1>2. Content(p, a \div PageSize)' = Content(p, a \div PageSize)
  BY <1>1 DEF Kept
<1> QED
  BY <1>2, MemoryIs

(* Bits alone disturb neither the tables nor what is in memory.            *)
LEMMA GrownTables ==
  ASSUME IInv, Grown
  PROVE  Types' /\ Named' /\ OneOwner' /\ Cached'
<1>1. Types' /\ Procs' = Procs /\ running' = running /\ useTLB' = useTLB /\ running \in Procs
  BY DEF Grown, IInv, Types
<1>2. \A p \in Procs, v \in VirtualPages :
         /\ pageTable'[p][v].virtualPage = pageTable[p][v].virtualPage
         /\ pageTable'[p][v].physicalPage = pageTable[p][v].physicalPage
         /\ pageTable'[p][v].valid = pageTable[p][v].valid
  BY DEF Grown, Grows
<1>3. \A s \in Slots :
         /\ tlb'[s].virtualPage = tlb[s].virtualPage
         /\ tlb'[s].physicalPage = tlb[s].physicalPage
         /\ tlb'[s].valid = tlb[s].valid
         /\ tlb[s].virtualPage \in VirtualPages
  BY DEF Grown, Grows, IInv, Types, Entries
<1>4. Named'
  BY <1>1, <1>2 DEF IInv, Named
<1>5. OneOwner'
  BY <1>1, <1>2 DEF IInv, OneOwner
<1>6. Cached'
  BY <1>1, <1>2, <1>3 DEF IInv, Cached
<1> QED
  BY <1>1, <1>4, <1>5, <1>6

(* A page that is marked stays marked.                                     *)
LEMMA GrownMarks ==
  ASSUME Grown, NEW p \in Procs, NEW v \in VirtualPages,
         \/ pageTable[p][v].dirty
         \/ p = running /\ \E s \in Slots :
                tlb[s].valid /\ tlb[s].virtualPage = v /\ tlb[s].dirty
  PROVE  \/ pageTable'[p][v].dirty
         \/ p = running' /\ \E s \in Slots :
                tlb'[s].valid /\ tlb'[s].virtualPage = v /\ tlb'[s].dirty
BY DEF Grown, Grows

(* So a step that sets bits only preserves the invariant.                  *)
LEMMA GrownInv ==
  ASSUME IInv, Grown, mainMemory' = mainMemory, swap' = swap
  PROVE  IInv' /\ Kept
<1>1. Types' /\ Named' /\ OneOwner' /\ Cached'
  BY GrownTables
<1>2. \A p \in Procs, v \in VirtualPages :
         /\ pageTable'[p][v].physicalPage = pageTable[p][v].physicalPage
         /\ pageTable'[p][v].valid = pageTable[p][v].valid
  BY DEF Grown, Grows
<1>3. Procs' = Procs
  BY DEF Grown
<1>4. Kept
  BY <1>2 DEF Kept, Content
<1>5. DirtyTracked'
  <2> SUFFICES ASSUME NEW p \in Procs, NEW v \in VirtualPages,
                      pageTable'[p][v].valid,
                      mainMemory'[pageTable'[p][v].physicalPage] # swap'[p][v]
               PROVE  \/ pageTable'[p][v].dirty
                      \/ p = running' /\ \E s \in Slots :
                             tlb'[s].valid /\ tlb'[s].virtualPage = v /\ tlb'[s].dirty
    BY <1>3 DEF DirtyTracked
  <2>1. pageTable[p][v].valid /\ mainMemory[pageTable[p][v].physicalPage] # swap[p][v]
    BY <1>2
  <2>2. \/ pageTable[p][v].dirty
        \/ p = running /\ \E s \in Slots :
               tlb[s].valid /\ tlb[s].virtualPage = v /\ tlb[s].dirty
    BY <2>1 DEF IInv, DirtyTracked
  <2> QED
    BY <2>2, GrownMarks
<1> QED
  BY <1>1, <1>4, <1>5 DEF IInv

(* Every instruction but a store is such a step.                           *)
LEMMA InstructionInv ==
  ASSUME IInv,
         \/ FetchFails \/ ComputeResult \/ SetHiLo \/ Branch \/ Jump \/ Load
         \/ AccessFails \/ Traps \/ HostStops
  PROVE  IInv' /\ Kept
<1> DEFINE steady == UNCHANGED <<program, useTLB, running, mainMemory, swap>>
<1>1. ASSUME NEW accesses, Touch(accesses), steady PROVE IInv' /\ Kept
  BY <1>1, TouchGrows, GrownInv DEF IInv
<1>2. ASSUME UNCHANGED tables, steady PROVE IInv' /\ Kept
  <2>1. Procs' = Procs
    BY <1>2 DEF Procs
  <2>2. Grown
    BY <1>2, <2>1 DEF tables, IInv, Types, Grown, Grows
  <2> QED
    BY <1>2, <2>2, GrownInv
<1>3. CASE FetchFails
  BY <1>2, <1>3 DEF FetchFails, RaiseException
<1>4. CASE ComputeResult
  BY <1>1, <1>4 DEF ComputeResult, Complete, CompleteLoad
<1>5. CASE SetHiLo
  BY <1>1, <1>5 DEF SetHiLo, Complete, CompleteLoad
<1>6. CASE Branch
  BY <1>1, <1>6 DEF Branch, Complete, CompleteLoad
<1>7. CASE Jump
  BY <1>1, <1>7 DEF Jump, Complete, CompleteLoad
<1>8. CASE Load
  BY <1>1, <1>8 DEF Load, CompleteLoad
<1>9. CASE AccessFails
  BY <1>1, <1>9 DEF AccessFails, RaiseException
<1>10. CASE Traps
  BY <1>1, <1>10 DEF Traps, RaiseException
<1>11. CASE HostStops
  BY <1>1, <1>11 DEF HostStops
<1> QED
  BY <1>3, <1>4, <1>5, <1>6, <1>7, <1>8, <1>9, <1>10, <1>11

-----------------------------------------------------------------------------
(* What Translate finds.                                                   *)

(* A translation that succeeds has an entry for the page.                  *)
LEMMA TranslateFinds ==
  ASSUME Types, NEW addr, NEW size, NEW writing, Translate(addr, size, writing) = "NoException"
  PROVE  LET i == Entry(addr) IN
         /\ i \in DOMAIN Table /\ Table[i].valid /\ Table[i].virtualPage = addr \div PageSize
         /\ Frame(addr) = Table[i].physicalPage /\ Frame(addr) \in Frames
<1> DEFINE vpn == addr \div PageSize
<1>1. DOMAIN Table \subseteq Nat
  BY Sizing DEF Types, Table
<1>2. Found(vpn) # {} /\ Table[Entry(addr)].physicalPage \in Frames
  BY DEF Translate
<1>3. Found(vpn) \in SUBSET Nat
  BY <1>1 DEF Found
<1>4. Entry(addr) \in Found(vpn)
  BY <1>2, <1>3, Smallest DEF Entry
<1> QED
  BY <1>2, <1>4 DEF Found, Frame

(* The page is one of the running process, and in the frame it says.       *)
LEMMA TranslateOwns ==
  ASSUME IInv, NEW addr, NEW size, NEW writing, Translate(addr, size, writing) = "NoException"
  PROVE  LET v == addr \div PageSize IN
         /\ v \in VirtualPages /\ running \in Procs
         /\ pageTable[running][v].valid /\ pageTable[running][v].physicalPage = Frame(addr)
<1> DEFINE v == addr \div PageSize
           i == Entry(addr)
<1>1. /\ i \in DOMAIN Table /\ Table[i].valid /\ Table[i].virtualPage = v
      /\ Frame(addr) = Table[i].physicalPage
  BY TranslateFinds DEF IInv
<1> HIDE DEF v, i
<1>2. CASE useTLB
  <2>1. Table = tlb /\ i \in Slots
    BY <1>1, <1>2 DEF Table, IInv, Types
  <2>2. tlb[i].virtualPage \in VirtualPages
    BY <2>1 DEF IInv, Types, Entries
  <2> QED
    BY <1>1, <2>1, <2>2 DEF IInv, Types, Cached, v
<1>3. CASE ~useTLB
  <2>1. Table = pageTable[running] /\ i \in VirtualPages /\ running \in Procs
    BY <1>1, <1>3 DEF Table, IInv, Types
  <2>2. pageTable[running][i].virtualPage = i
    BY <2>1 DEF IInv, Named
  <2> QED
    BY <1>1, <2>1, <2>2 DEF v
<1> QED
  BY <1>2, <1>3

(* A store changes its own bytes of a page of the running process, and     *)
(* marks that page.                                                        *)
LEMMA StoreIs ==
  ASSUME IInv, Store
  PROVE  LET v == Address \div PageSize
             f == Frame(Address)
             first == Address % PageSize
         IN  /\ Grown /\ swap' = swap /\ v \in VirtualPages /\ running \in Procs
             /\ pageTable[running][v].valid /\ pageTable[running][v].physicalPage = f
             /\ \A g \in Frames : g # f => mainMemory'[g] = mainMemory[g]
             /\ \A o \in Offsets : o \notin first .. (first + StoreSize(Op) - 1) =>
                   mainMemory'[f][o] = mainMemory[f][o]
             /\ \/ pageTable'[running][v].dirty
                \/ \E s \in Slots : tlb'[s].valid /\ tlb'[s].virtualPage = v /\ tlb'[s].dirty
<1> DEFINE v == Address \div PageSize
           f == Frame(Address)
           first == Address % PageSize
           bytes == [o \in Offsets |->
                       IF o \in first .. (first + StoreSize(Op) - 1)
                       THEN ByteOf(StoreValue, o - first) ELSE mainMemory[f][o]]
<1>1. /\ Translate(Address, StoreSize(Op), TRUE) = "NoException"
      /\ WriteMem(Address, StoreSize(Op), StoreValue)
      /\ Touch({Reading(PC), Writing(Address)})
      /\ UNCHANGED <<program, useTLB, running, swap>>
  BY DEF Store, CompleteLoad
<1>2. /\ Entry(Address) \in DOMAIN Table /\ Table[Entry(Address)].valid
      /\ Table[Entry(Address)].virtualPage = v /\ f \in Frames
  BY <1>1, TranslateFinds DEF IInv
<1>3. /\ v \in VirtualPages /\ running \in Procs
      /\ pageTable[running][v].valid /\ pageTable[running][v].physicalPage = f
  BY <1>1, TranslateOwns
<1>4. mainMemory' = [mainMemory EXCEPT ![f] = bytes]
  BY <1>1 DEF WriteMem
<1>5. DOMAIN mainMemory = Frames
  BY DEF IInv, Types
<1>6. /\ DOMAIN mainMemory' = DOMAIN mainMemory
      /\ \A g \in Frames : g # f => mainMemory'[g] = mainMemory[g]
      /\ mainMemory'[f] = bytes
  <2> HIDE DEF bytes
  <2> QED
    BY <1>2, <1>4, <1>5
<1>7. \A o \in Offsets : o \notin first .. (first + StoreSize(Op) - 1) => bytes[o] = mainMemory[f][o]
  OBVIOUS
<1>8. /\ Writing(Address).writing /\ Writing(Address).addr = Address
      /\ Writing(Address) \in {Reading(PC), Writing(Address)}
  BY DEF Writing
<1> HIDE DEF v, f, first, bytes
<1>9. /\ Grown
      /\ IF useTLB THEN tlb'[Entry(Address)].dirty ELSE pageTable'[running][Entry(Address)].dirty
  BY <1>1, <1>2, <1>6, <1>8, TouchGrows DEF IInv
<1>10. CASE useTLB
  <2>1. Table = tlb /\ Entry(Address) \in Slots
    BY <1>2, <1>10 DEF Table, IInv, Types
  <2>2. /\ tlb'[Entry(Address)].valid = tlb[Entry(Address)].valid
        /\ tlb'[Entry(Address)].virtualPage = tlb[Entry(Address)].virtualPage
    BY <1>9, <2>1 DEF Grown, Grows
  <2>3. \E s \in Slots : tlb'[s].valid /\ tlb'[s].virtualPage = v /\ tlb'[s].dirty
    BY <1>2, <1>9, <1>10, <2>1, <2>2
  <2> QED
    BY <1>1, <1>3, <1>6, <1>7, <1>9, <2>3 DEF v, f, first
<1>11. CASE ~useTLB
  <2>1. Table = pageTable[running] /\ Entry(Address) \in VirtualPages
    BY <1>2, <1>3, <1>11 DEF Table, IInv, Types
  <2>2. Entry(Address) = v
    BY <1>2, <1>3, <2>1 DEF IInv, Named
  <2>3. pageTable'[running][v].dirty
    BY <1>9, <1>11, <2>2
  <2> QED
    BY <1>1, <1>3, <1>6, <1>7, <1>9, <2>3 DEF v, f, first
<1> QED
  BY <1>10, <1>11

(* Nobody else has a page in that frame.                                   *)
LEMMA StoreInv ==
  ASSUME IInv, Store
  PROVE  /\ IInv'
         /\ \A p \in Procs, a \in Addresses :
               Memory(p, a)' # Memory(p, a) => p = running /\ StoresAt(a)
<1>1. PICK w, f, first : w = Address \div PageSize /\ f = Frame(Address) /\ first = Address % PageSize
  OBVIOUS
<1>2. /\ Grown /\ swap' = swap /\ w \in VirtualPages /\ running \in Procs
      /\ pageTable[running][w].valid /\ pageTable[running][w].physicalPage = f
      /\ \A g \in Frames : g # f => mainMemory'[g] = mainMemory[g]
      /\ \A o \in Offsets : o \notin first .. (first + StoreSize(Op) - 1) =>
            mainMemory'[f][o] = mainMemory[f][o]
      /\ \/ pageTable'[running][w].dirty
         \/ \E s \in Slots : tlb'[s].valid /\ tlb'[s].virtualPage = w /\ tlb'[s].dirty
  BY <1>1, StoreIs
<1>3. Types' /\ Named' /\ OneOwner' /\ Cached'
  BY <1>2, GrownTables
<1>4. /\ Procs' = Procs /\ running' = running
      /\ \A p \in Procs, v \in VirtualPages :
            /\ pageTable'[p][v].physicalPage = pageTable[p][v].physicalPage
            /\ pageTable'[p][v].valid = pageTable[p][v].valid
            /\ pageTable[p][v].physicalPage \in Frames
  BY <1>2 DEF Grown, Grows, IInv, Types, Entries
<1>5. \A p \in Procs, v \in VirtualPages :
         pageTable[p][v].valid /\ ~(p = running /\ v = w) => pageTable[p][v].physicalPage # f
  BY <1>2 DEF IInv, OneOwner
<1>6. DirtyTracked'
  <2> SUFFICES ASSUME NEW p \in Procs, NEW v \in VirtualPages,
                      pageTable'[p][v].valid,
                      mainMemory'[pageTable'[p][v].physicalPage] # swap'[p][v]
               PROVE  \/ pageTable'[p][v].dirty
                      \/ p = running' /\ \E s \in Slots :
                             tlb'[s].valid /\ tlb'[s].virtualPage = v /\ tlb'[s].dirty
    BY <1>4 DEF DirtyTracked
  <2>1. CASE p = running /\ v = w
    BY <1>2, <1>4, <2>1
  <2>2. CASE ~(p = running /\ v = w)
    <3>1. pageTable[p][v].valid /\ mainMemory[pageTable[p][v].physicalPage] # swap[p][v]
      BY <1>2, <1>4, <1>5, <2>2
    <3>2. \/ pageTable[p][v].dirty
          \/ p = running /\ \E s \in Slots :
                 tlb[s].valid /\ tlb[s].virtualPage = v /\ tlb[s].dirty
      BY <3>1 DEF IInv, DirtyTracked
    <3> QED
      BY <1>2, <3>2, GrownMarks
  <2> QED
    BY <2>1, <2>2
<1>7. ASSUME NEW p \in Procs, NEW a \in Addresses, Memory(p, a)' # Memory(p, a)
      PROVE  p = running /\ StoresAt(a)
  <2>1. PICK v, o : v = a \div PageSize /\ o = a % PageSize
    OBVIOUS
  <2>2. v \in VirtualPages /\ o \in Offsets
    BY <2>1, PageOf
  <2>3. (Content(p, v)')[o] # Content(p, v)[o]
    BY <1>7, <2>1, MemoryIs
  <2>4. /\ pageTable[p][v].valid
        /\ mainMemory'[pageTable[p][v].physicalPage][o] # mainMemory[pageTable[p][v].physicalPage][o]
    BY <1>2, <1>4, <2>2, <2>3 DEF Content
  <2>5. p = running /\ v = w
    BY <1>2, <1>4, <1>5, <2>2, <2>4
  <2>6. o \in first .. (first + StoreSize(Op) - 1)
    BY <1>2, <2>2, <2>4, <2>5
  <2> QED
    BY <1>1, <2>1, <2>5, <2>6 DEF StoresAt
<1> QED
  BY <1>3, <1>6, <1>7 DEF IInv

-----------------------------------------------------------------------------
(* The kernel's tables, once it has fetched the bits of the TLB: every     *)
(* page that differs from its copy is marked there.                        *)
LEMMA SynchronizedIs ==
  ASSUME IInv
  PROVE  /\ Synchronized \in [Procs -> [VirtualPages -> Entries]]
         /\ \A p \in Procs, v \in VirtualPages :
               /\ Synchronized[p][v].virtualPage = v
               /\ Synchronized[p][v].valid = pageTable[p][v].valid
               /\ Synchronized[p][v].physicalPage = pageTable[p][v].physicalPage
               /\ pageTable[p][v].valid /\ mainMemory[pageTable[p][v].physicalPage] # swap[p][v]
                     => Synchronized[p][v].dirty
<1>1. /\ pageTable \in [Procs -> [VirtualPages -> Entries]] /\ running \in Procs
      /\ \A p \in Procs, v \in VirtualPages : pageTable[p][v].virtualPage = v
  BY DEF IInv, Types, Named
<1>2. CASE ~useTLB
  <2>1. Synchronized = pageTable
    BY <1>2 DEF Synchronized
  <2>2. \A s \in Slots : ~tlb[s].valid
    BY <1>2 DEF IInv, Cached
  <2>3. \A p \in Procs, v \in VirtualPages :
           pageTable[p][v].valid /\ mainMemory[pageTable[p][v].physicalPage] # swap[p][v]
              => pageTable[p][v].dirty
    BY <2>2 DEF IInv, DirtyTracked
  <2> QED
    BY <1>1, <2>1, <2>3
<1>3. CASE useTLB
  <2> DEFINE used(v) == \E i \in Found(v) : tlb[i].use
             written(v) == \E i \in Found(v) : tlb[i].dirty
             row == WithBits(pageTable[running])
  <2>1. Synchronized = [pageTable EXCEPT ![running] = row]
    BY <1>3 DEF Synchronized
  <2>2. \A v \in VirtualPages, s \in Slots :
           tlb[s].valid /\ tlb[s].virtualPage = v /\ tlb[s].dirty => written(v)
    <3>1. DOMAIN tlb = Slots /\ Table = tlb
      BY <1>3 DEF IInv, Types, Table
    <3> QED
      BY <3>1 DEF Found
  <2> HIDE DEF used, written
  <2>3. ASSUME NEW v \in VirtualPages
        PROVE  /\ row[v] \in Entries /\ row[v].virtualPage = v
               /\ row[v].valid = pageTable[running][v].valid
               /\ row[v].physicalPage = pageTable[running][v].physicalPage
               /\ pageTable[running][v].dirty \/ written(v) => row[v].dirty
    <3>1. pageTable[running][v] \in Entries /\ pageTable[running][v].virtualPage = v
      BY <1>1
    <3>2. PICK e \in Entries : e = pageTable[running][v]
      BY <3>1
    <3>3. row[v] = [e EXCEPT !.use = @ \/ used(v), !.dirty = @ \/ written(v)]
      BY <3>2 DEF WithBits, used, written
    <3>4. (e.use \/ used(v)) \in BOOLEAN /\ (e.dirty \/ written(v)) \in BOOLEAN
      OBVIOUS
    <3> HIDE DEF row
    <3> QED
      BY <3>1, <3>2, <3>3, <3>4 DEF Entries
  <2>4. row \in [VirtualPages -> Entries]
    <3>1. row = [v \in VirtualPages |-> row[v]]
      BY DEF WithBits
    <3> HIDE DEF row
    <3> QED
      BY <2>3, <3>1
  <2> HIDE DEF row
  <2>5. /\ Synchronized \in [Procs -> [VirtualPages -> Entries]] /\ Synchronized[running] = row
        /\ \A p \in Procs : p # running => Synchronized[p] = pageTable[p]
    BY <1>1, <2>1, <2>4
  <2>6. \A p \in Procs, v \in VirtualPages :
           pageTable[p][v].valid /\ mainMemory[pageTable[p][v].physicalPage] # swap[p][v]
              => pageTable[p][v].dirty \/ (p = running /\ written(v))
    BY <2>2 DEF IInv, DirtyTracked
  <2>7. ASSUME NEW p \in Procs, NEW v \in VirtualPages
        PROVE  /\ Synchronized[p][v].virtualPage = v
               /\ Synchronized[p][v].valid = pageTable[p][v].valid
               /\ Synchronized[p][v].physicalPage = pageTable[p][v].physicalPage
               /\ pageTable[p][v].valid /\ mainMemory[pageTable[p][v].physicalPage] # swap[p][v]
                     => Synchronized[p][v].dirty
    <3>1. CASE p = running
      BY <2>3, <2>5, <2>6, <3>1
    <3>2. CASE p # running
      BY <1>1, <2>5, <2>6, <3>2
    <3> QED
      BY <3>1, <3>2
  <2> QED
    BY <2>5, <2>7
<1> QED
  BY <1>2, <1>3

(* Another process runs, with an empty TLB.                                *)
LEMMA SwitchInv ==
  ASSUME IInv, NEW q \in Procs, SwitchTo(q), UNCHANGED <<program, useTLB, mainMemory, swap>>
  PROVE  IInv' /\ Kept
<1>1. Procs' = Procs
  BY DEF Procs
<1>2. /\ running' = q /\ pageTable' = Synchronized /\ tlb' = [s \in Slots |-> NoEntry(0)]
  BY DEF SwitchTo, FlushTLB
<1>3. /\ pageTable' \in [Procs -> [VirtualPages -> Entries]]
      /\ \A p \in Procs, v \in VirtualPages :
            /\ pageTable'[p][v].virtualPage = v
            /\ pageTable'[p][v].valid = pageTable[p][v].valid
            /\ pageTable'[p][v].physicalPage = pageTable[p][v].physicalPage
            /\ pageTable[p][v].valid /\ mainMemory[pageTable[p][v].physicalPage] # swap[p][v]
                  => pageTable'[p][v].dirty
  BY <1>2, SynchronizedIs
<1>4. tlb' \in [Slots -> Entries] /\ \A s \in Slots : ~tlb'[s].valid
  BY <1>2, Sizing, NoEntryIs
<1>5. Types'
  BY <1>1, <1>2, <1>3, <1>4 DEF IInv, Types
<1>6. Named' /\ Cached'
  BY <1>1, <1>3, <1>4 DEF Named, Cached
<1>7. OneOwner'
  <2> SUFFICES ASSUME NEW p \in Procs, NEW r \in Procs, NEW u \in VirtualPages, NEW v \in VirtualPages,
                      pageTable'[p][u].valid, pageTable'[r][v].valid,
                      pageTable'[p][u].physicalPage = pageTable'[r][v].physicalPage
               PROVE  p = r /\ u = v
    BY <1>1 DEF OneOwner
  <2>1. /\ pageTable[p][u].valid /\ pageTable[r][v].valid
        /\ pageTable[p][u].physicalPage = pageTable[r][v].physicalPage
    BY <1>3
  <2> QED
    BY <2>1 DEF IInv, OneOwner
<1>8. DirtyTracked'
  BY <1>1, <1>3 DEF DirtyTracked
<1>9. Kept
  BY <1>3 DEF Kept, Content
<1> QED
  BY <1>5, <1>6, <1>7, <1>8, <1>9 DEF IInv

(* The TLB gets the entry of a page the running process has in memory, and *)
(* loses those of the frame that is gone.                                  *)
LEMMA LoadTLBIs ==
  ASSUME Types, NEW entry \in Entries, NEW gone, LoadTLB(entry, gone)
  PROVE  /\ tlb' \in [Slots -> Entries]
         /\ ~useTLB => tlb' = tlb
         /\ useTLB => \A i \in Slots :
               \/ tlb'[i] = entry
               \/ ~tlb'[i].valid
               \/ tlb'[i] = tlb[i] /\ tlb[i].physicalPage # gone
<1>1. CASE ~useTLB
  BY <1>1 DEF LoadTLB, Types
<1>2. CASE useTLB
  <2>1. PICK s \in Slots : tlb' = [i \in Slots |->
            IF i = s THEN entry
            ELSE IF tlb[i].physicalPage = gone THEN NoEntry(0) ELSE tlb[i]]
    BY <1>2 DEF LoadTLB
  <2>2. NoEntry(0) \in Entries /\ ~NoEntry(0).valid
    BY Sizing, NoEntryIs
  <2>3. \A i \in Slots : tlb[i] \in Entries
    BY DEF Types
  <2> QED
    BY <1>2, <2>1, <2>2, <2>3
<1> QED
  BY <1>1, <1>2

(* The page is in memory, and only its entry is missing.                   *)
LEMMA MissInv ==
  ASSUME IInv, HandlePageFault, pageTable[running][BadPage].valid
  PROVE  IInv' /\ Kept
<1> DEFINE entry == Synchronized[running][BadPage]
<1>1. /\ BadPage \in VirtualPages /\ LoadTLB(entry, NumPhysPages) /\ pageTable' = Synchronized
      /\ UNCHANGED <<mainMemory, swap, program, useTLB, running>>
  BY DEF HandlePageFault
<1>2. Procs' = Procs /\ running \in Procs /\ Types
  BY <1>1 DEF Procs, IInv, Types
<1>3. /\ pageTable' \in [Procs -> [VirtualPages -> Entries]]
      /\ \A p \in Procs, v \in VirtualPages :
            /\ pageTable'[p][v].virtualPage = v
            /\ pageTable'[p][v].valid = pageTable[p][v].valid
            /\ pageTable'[p][v].physicalPage = pageTable[p][v].physicalPage
            /\ pageTable[p][v].valid /\ mainMemory[pageTable[p][v].physicalPage] # swap[p][v]
                  => pageTable'[p][v].dirty
  BY <1>1, SynchronizedIs
<1>4. entry \in Entries /\ entry = pageTable'[running][BadPage]
  BY <1>1, <1>2, <1>3
<1> HIDE DEF entry
<1>5. /\ tlb' \in [Slots -> Entries]
      /\ ~useTLB => tlb' = tlb
      /\ useTLB => \A i \in Slots : tlb'[i] = entry \/ ~tlb'[i].valid \/ tlb'[i] = tlb[i]
  BY <1>1, <1>2, <1>4, LoadTLBIs
<1>6. Types'
  BY <1>1, <1>2, <1>3, <1>5 DEF IInv, Types
<1>7. Named'
  BY <1>2, <1>3 DEF Named
<1>8. OneOwner'
  <2> SUFFICES ASSUME NEW p \in Procs, NEW r \in Procs, NEW u \in VirtualPages, NEW v \in VirtualPages,
                      pageTable'[p][u].valid, pageTable'[r][v].valid,
                      pageTable'[p][u].physicalPage = pageTable'[r][v].physicalPage
               PROVE  p = r /\ u = v
    BY <1>2 DEF OneOwner
  <2>1. /\ pageTable[p][u].valid /\ pageTable[r][v].valid
        /\ pageTable[p][u].physicalPage = pageTable[r][v].physicalPage
    BY <1>3
  <2> QED
    BY <2>1 DEF IInv, OneOwner
<1>9. DirtyTracked'
  BY <1>1, <1>2, <1>3 DEF DirtyTracked
<1>10. Kept
  BY <1>1, <1>3 DEF Kept, Content
<1>11. Cached'
  <2> SUFFICES ASSUME NEW i \in Slots, tlb'[i].valid
               PROVE  /\ useTLB
                      /\ pageTable'[running][tlb'[i].virtualPage].valid
                      /\ pageTable'[running][tlb'[i].virtualPage].physicalPage = tlb'[i].physicalPage
    BY <1>1 DEF Cached
  <2>1. CASE tlb'[i] = tlb[i]
    <3>1. tlb[i].virtualPage \in VirtualPages
      BY DEF IInv, Types, Entries
    <3> QED
      BY <1>2, <1>3, <2>1, <3>1 DEF IInv, Cached
  <2>2. CASE useTLB /\ tlb'[i] = entry
    BY <1>1, <1>2, <1>3, <1>4, <2>2
  <2> QED
    BY <1>5, <2>1, <2>2
<1> QED
  BY <1>6, <1>7, <1>8, <1>9, <1>10, <1>11 DEF IInv

(* The page is brought in, to a frame that is free or is made free: the    *)
(* pages that were there are written back unless they equal their copies.  *)
LEMMA PageInInv ==
  ASSUME IInv, HandlePageFault, ~pageTable[running][BadPage].valid
  PROVE  IInv' /\ Kept
<1>1. PICK b : b = BadPage
  OBVIOUS
<1>2. PICK old : old = Synchronized
  OBVIOUS
<1>3. PICK f \in Victims :
        LET out == PagesIn(f)
            new == [NoEntry(b) EXCEPT !.valid = TRUE, !.physicalPage = f]
        IN  /\ swap' = [p \in Procs |-> [v \in VirtualPages |->
                   IF <<p, v>> \in out /\ old[p][v].dirty THEN mainMemory[f] ELSE swap[p][v]]]
            /\ mainMemory' = [mainMemory EXCEPT ![f] = swap[running][b]]
            /\ pageTable' = [p \in Procs |-> [v \in VirtualPages |->
                   IF p = running /\ v = b THEN new
                   ELSE IF <<p, v>> \in out THEN NoEntry(v) ELSE old[p][v]]]
            /\ LoadTLB(new, f)
  BY <1>1, <1>2 DEF HandlePageFault
<1>4. /\ b \in VirtualPages /\ UNCHANGED <<program, useTLB, running>>
      /\ running \in Procs /\ Types /\ ~pageTable[running][b].valid
  BY <1>1 DEF HandlePageFault, IInv, Types
<1>5. Procs' = Procs
  BY <1>4 DEF Procs
<1>6. f \in Frames
  <2>1. CASE {g \in Frames : PagesIn(g) = {}} = {}
    BY <1>3, <2>1 DEF Victims
  <2>2. CASE {g \in Frames : PagesIn(g) = {}} # {}
    <3>1. {g \in Frames : PagesIn(g) = {}} \in SUBSET Nat
      BY Sizing
    <3>2. Min({g \in Frames : PagesIn(g) = {}}) \in Frames
      BY <2>2, <3>1, Smallest
    <3> QED
      BY <1>3, <2>2, <3>2 DEF Victims
  <2> QED
    BY <2>1, <2>2
<1>7. PICK new : new = [NoEntry(b) EXCEPT !.valid = TRUE, !.physicalPage = f]
  OBVIOUS
<1>8. new \in Entries /\ new.valid /\ new.virtualPage = b /\ new.physicalPage = f
  BY <1>4, <1>6, <1>7, NoEntryIs DEF Entries, NoEntry
<1>9. /\ old \in [Procs -> [VirtualPages -> Entries]]
      /\ \A p \in Procs, v \in VirtualPages :
            /\ old[p][v].virtualPage = v
            /\ old[p][v].valid = pageTable[p][v].valid
            /\ old[p][v].physicalPage = pageTable[p][v].physicalPage
            /\ pageTable[p][v].valid /\ mainMemory[pageTable[p][v].physicalPage] # swap[p][v]
                  => old[p][v].dirty
  BY <1>2, SynchronizedIs
<1> DEFINE Out(p, v) == pageTable[p][v].valid /\ pageTable[p][v].physicalPage = f
<1>10. \A p \in Procs, v \in VirtualPages : <<p, v>> \in PagesIn(f) <=> Out(p, v)
  BY DEF PagesIn
<1>11. \A v \in VirtualPages :
          /\ NoEntry(v) \in Entries /\ ~NoEntry(v).valid /\ NoEntry(v).virtualPage = v
  BY NoEntryIs
<1>12. /\ mainMemory' = [mainMemory EXCEPT ![f] = swap[running][b]]
       /\ LoadTLB(new, f)
       /\ swap' = [p \in Procs |-> [v \in VirtualPages |->
                  IF <<p, v>> \in PagesIn(f) /\ old[p][v].dirty THEN mainMemory[f] ELSE swap[p][v]]]
       /\ pageTable' = [p \in Procs |-> [v \in VirtualPages |->
                   IF p = running /\ v = b THEN new
                   ELSE IF <<p, v>> \in PagesIn(f) THEN NoEntry(v) ELSE old[p][v]]]
  BY <1>3, <1>7
<1>13. /\ DOMAIN mainMemory' = Frames /\ mainMemory'[f] = swap[running][b]
       /\ \A g \in Frames : g # f => mainMemory'[g] = mainMemory[g]
  BY <1>4, <1>6, <1>12 DEF Types
<1>14. \A p \in Procs, v \in VirtualPages :
          swap'[p][v] = IF Out(p, v) /\ old[p][v].dirty THEN mainMemory[f] ELSE swap[p][v]
  BY <1>10, <1>12
<1>15. \A p \in Procs, v \in VirtualPages :
          pageTable'[p][v] = IF p = running /\ v = b THEN new
                             ELSE IF Out(p, v) THEN NoEntry(v) ELSE old[p][v]
  BY <1>10, <1>12
<1>16. pageTable' \in [Procs -> [VirtualPages -> Entries]]
  <2>1. \A p \in Procs, v \in VirtualPages :
          (IF p = running /\ v = b THEN new
           ELSE IF <<p, v>> \in PagesIn(f) THEN NoEntry(v) ELSE old[p][v]) \in Entries
    BY <1>8, <1>9, <1>11
  <2> QED
    BY <1>12, <2>1
<1>17. /\ tlb' \in [Slots -> Entries]
       /\ ~useTLB => tlb' = tlb
       /\ useTLB => \A i \in Slots :
             \/ tlb'[i] = new
             \/ ~tlb'[i].valid
             \/ tlb'[i] = tlb[i] /\ tlb[i].physicalPage # f
  BY <1>4, <1>8, <1>12, LoadTLBIs
<1>18. \A p \in Procs, v \in VirtualPages : pageTable[p][v].physicalPage \in Frames
  BY <1>4 DEF Types, Entries
<1>19. \A p \in Procs, v \in VirtualPages :
          /\ pageTable'[p][v].virtualPage = v
          /\ pageTable'[p][v].valid =>
                \/ p = running /\ v = b /\ pageTable'[p][v].physicalPage = f
                \/ /\ pageTable[p][v].valid /\ pageTable[p][v].physicalPage # f
                   /\ pageTable'[p][v] = old[p][v]
                   /\ pageTable'[p][v].physicalPage = pageTable[p][v].physicalPage
  BY <1>8, <1>9, <1>11, <1>15
<1> HIDE DEF Out
<1>20. Types'
  BY <1>4, <1>5, <1>13, <1>16, <1>17 DEF Types
<1>21. Named'
  BY <1>5, <1>19 DEF Named
<1>22. OneOwner'
  BY <1>5, <1>19 DEF IInv, OneOwner
<1>23. DirtyTracked'
  <2> SUFFICES ASSUME NEW p \in Procs, NEW v \in VirtualPages, pageTable'[p][v].valid,
                      mainMemory'[pageTable'[p][v].physicalPage] # swap'[p][v]
               PROVE  pageTable'[p][v].dirty
    BY <1>5 DEF DirtyTracked
  <2>1. CASE p = running /\ v = b
    <3>1. swap'[p][v] = swap[running][b] /\ pageTable'[p][v].physicalPage = f
      BY <1>4, <1>8, <1>14, <1>15, <2>1 DEF Out
    <3> QED
      BY <1>13, <3>1
  <2>2. CASE ~(p = running /\ v = b)
    <3>1. /\ pageTable[p][v].valid /\ pageTable[p][v].physicalPage # f
          /\ pageTable'[p][v] = old[p][v]
          /\ pageTable'[p][v].physicalPage = pageTable[p][v].physicalPage
      BY <1>19, <2>2
    <3>2. swap'[p][v] = swap[p][v]
      BY <1>14, <3>1 DEF Out
    <3> QED
      BY <1>9, <1>13, <1>18, <3>1, <3>2
  <2> QED
    BY <2>1, <2>2
<1>24. Cached'
  <2> SUFFICES ASSUME NEW i \in Slots, tlb'[i].valid
               PROVE  /\ useTLB
                      /\ pageTable'[running][tlb'[i].virtualPage].valid
                      /\ pageTable'[running][tlb'[i].virtualPage].physicalPage = tlb'[i].physicalPage
    BY <1>4 DEF Cached
  <2>1. tlb[i].virtualPage \in VirtualPages
    BY <1>4 DEF Types, Entries
  <2>2. useTLB
    BY <1>17 DEF IInv, Cached
  <2>3. CASE tlb'[i] = new
    BY <1>4, <1>8, <1>15, <2>2, <2>3
  <2>4. CASE tlb'[i] = tlb[i] /\ tlb[i].physicalPage # f
    <3>1. /\ pageTable[running][tlb[i].virtualPage].valid
          /\ pageTable[running][tlb[i].virtualPage].physicalPage = tlb[i].physicalPage
      BY <2>4 DEF IInv, Cached
    <3>2. pageTable'[running][tlb[i].virtualPage] = old[running][tlb[i].virtualPage]
      BY <1>4, <1>15, <2>1, <2>4, <3>1 DEF Out
    <3> QED
      BY <1>4, <1>9, <2>1, <2>2, <2>4, <3>1, <3>2
  <2> QED
    BY <1>17, <2>2, <2>3, <2>4
<1>25. Kept
  <2> SUFFICES ASSUME NEW p \in Procs, NEW v \in VirtualPages
               PROVE  Content(p, v)' = Content(p, v)
    BY DEF Kept
  <2>1. CASE p = running /\ v = b
    <3>1. pageTable'[p][v] = new /\ ~pageTable[p][v].valid
      BY <1>4, <1>15, <2>1
    <3> QED
      BY <1>8, <1>13, <2>1, <3>1 DEF Content
  <2>2. CASE ~(p = running /\ v = b) /\ Out(p, v)
    <3>1. pageTable'[p][v] = NoEntry(v) /\ ~NoEntry(v).valid
      BY <1>11, <1>15, <2>2
    <3>2. swap'[p][v] = mainMemory[f]
      BY <1>9, <1>14, <2>2 DEF Out
    <3> QED
      BY <2>2, <3>1, <3>2 DEF Content, Out
  <2>3. CASE ~(p = running /\ v = b) /\ ~Out(p, v)
    <3>1. pageTable'[p][v] = old[p][v] /\ swap'[p][v] = swap[p][v]
      BY <1>14, <1>15, <2>3
    <3>2. /\ old[p][v].valid = pageTable[p][v].valid
          /\ old[p][v].physicalPage = pageTable[p][v].physicalPage
      BY <1>9
    <3>3. pageTable[p][v].valid => pageTable[p][v].physicalPage \in Frames \ {f}
      BY <1>18, <2>3 DEF Out
    <3> QED
      BY <1>13, <3>1, <3>2, <3>3 DEF Content
  <2> QED
    BY <2>1, <2>2, <2>3
<1> QED
  BY <1>20, <1>21, <1>22, <1>23, <1>24, <1>25 DEF IInv

-----------------------------------------------------------------------------
(* Every step of the machine and of the kernel.                            *)

(* A system call leaves memory and the tables alone.                       *)
LEMMA IdleInv ==
  ASSUME IInv, UNCHANGED <<program, useTLB, running, mainMemory, tables, swap>>
  PROVE  IInv' /\ Kept
<1>1. Procs' = Procs
  BY DEF Procs
<1>2. Grown
  BY <1>1 DEF tables, IInv, Types, Grown, Grows
<1> QED
  BY <1>2, GrownInv

(* The kernel moves pages and processes: no program sees its memory change. *)
LEMMA KernelInv ==
  ASSUME IInv, Kernel
  PROVE  IInv' /\ Kept
<1>1. CASE HandlePageFault
  BY <1>1, MissInv, PageInInv
<1>2. CASE HandleSyscall
  BY <1>2, IdleInv DEF HandleSyscall
<1>3. CASE Kill
  <2>1. PICK q : /\ q = IF \E p \in Procs : alive'[p] THEN CHOOSE p \in Procs : alive'[p] ELSE running
                 /\ SwitchTo(q) /\ UNCHANGED <<program, useTLB, mainMemory, swap>>
    BY <1>3 DEF Kill
  <2>2. q \in Procs
    BY <2>1 DEF IInv, Types
  <2> QED
    BY <2>1, <2>2, SwitchInv
<1>4. CASE CheckIfDue
  <2>1. UNCHANGED <<program, useTLB, mainMemory, swap>>
    BY <1>4 DEF CheckIfDue
  <2>2. CASE \E q \in Procs : SwitchTo(q)
    BY <2>1, <2>2, SwitchInv
  <2>3. CASE UNCHANGED <<running, tables>>
    BY <2>1, <2>3, IdleInv
  <2> QED
    BY <1>4, <2>2, <2>3 DEF CheckIfDue
<1> QED
  BY <1>1, <1>2, <1>3, <1>4 DEF Kernel

(* A step stores, or leaves everybody's memory as it is.                   *)
LEMMA NextInv ==
  ASSUME IInv, [Next]_vars
  PROVE  IInv' /\ (Store \/ Kept)
<1>1. CASE Store
  BY <1>1, StoreInv
<1>2. CASE OneInstruction /\ ~Store
  BY <1>2, InstructionInv DEF OneInstruction
<1>3. CASE Kernel
  BY <1>3, KernelInv
<1>4. CASE Stopped \/ UNCHANGED vars
  BY <1>4, IdleInv DEF Stopped, vars
<1> QED
  BY <1>1, <1>2, <1>3, <1>4 DEF Next

(* A frame has one owner and the TLB agrees with the kernel's tables.      *)
THEOREM Invariance == Spec => []IInv
<1>1. IInv /\ [Next]_vars => IInv'
  BY NextInv
<1> QED
  BY InitInv, <1>1, PTL DEF Spec

(* The bits that Translate sets tell the kernel of every page that differs *)
(* from its copy.                                                          *)
THEOREM Tracking == Spec => []DirtyTracked
<1>1. IInv => DirtyTracked
  BY DEF IInv
<1> QED
  BY Invariance, <1>1, PTL

(* A process's memory changes where the process stores, and nowhere else.  *)
THEOREM Isolation == Spec => OwnMemory
<1>1. ASSUME IInv, [Next]_vars
      PROVE  [\A p \in Procs, a \in Addresses :
                 Memory(p, a)' # Memory(p, a) => p = running /\ Store /\ StoresAt(a)]_vars
  <2>1. CASE Store
    BY <1>1, <2>1, StoreInv
  <2>2. CASE Kept
    BY <2>2, KeptMemory
  <2> QED
    BY <1>1, <2>1, <2>2, NextInv
<1> QED
  BY Invariance, <1>1, PTL DEF Spec, OwnMemory

-----------------------------------------------------------------------------
(* The registers.                                                          *)

(* Field rt of a word that is fetched as an instruction has five bits.     *)
FiveBits == Fetches => Instruction.rt \in 0 .. 31

(* Register 0 is 0, and a load that is under way is to a register that     *)
(* instructions can name.                                                  *)
Registered ==
    /\ DOMAIN registers = Procs
    /\ \A p \in Procs :
          /\ DOMAIN registers[p] = Registers
          /\ registers[p][0] = 0 /\ registers[p][LoadReg] \in 0 .. 31

(* The registers of the machine are not those of programs.                 *)
LEMMA RegistersAre ==
  /\ GPR \subseteq Registers /\ 0 \in GPR
  /\ \A x \in GPR : x \in 0 .. 31
  /\ {HiReg, LoReg, PCReg, NextPCReg, PrevPCReg, LoadReg, LoadValueReg, BadVAddrReg} \subseteq Registers
BY MachineAssumption
   DEF Registers, HiReg, LoReg, PCReg, NextPCReg, PrevPCReg, LoadReg, LoadValueReg, BadVAddrReg

(* DelayedLoad does the load that is under way and begins another.         *)
LEMMA DelayedLoadIs ==
  ASSUME NEW r, DOMAIN r = Registers, NEW n, NEW value
  PROVE  LET d == DelayedLoad(r, n, value)
         IN  /\ DOMAIN d = Registers /\ d[0] = 0 /\ d[LoadReg] = n /\ d[LoadValueReg] = value
             /\ \A x \in Registers \ {0, LoadReg, LoadValueReg} :
                   d[x] = IF x = r[LoadReg] THEN r[LoadValueReg] ELSE r[x]
<1>1. /\ {0, LoadReg, LoadValueReg} \subseteq Registers
      /\ LoadReg # 0 /\ LoadValueReg # 0 /\ LoadReg # LoadValueReg
  BY RegistersAre DEF LoadReg, LoadValueReg
<1> HIDE DEF LoadReg, LoadValueReg
<1> QED
  BY <1>1 DEF DelayedLoad

(* What is left by an instruction that is done.                            *)
LEMMA CompleteIs ==
  ASSUME Registered, running \in Procs, Procs' = Procs,
         NEW r, DOMAIN r = Registers, NEW pcAfter, NEW n \in 0 .. 31, NEW value,
         CompleteLoad(r, pcAfter, n, value)
  PROVE  /\ Registered'
         /\ \A p \in Procs \ {running} : registers'[p] = registers[p]
<1>1. PICK d : d = DelayedLoad(r, n, value)
  OBVIOUS
<1>2. PICK s : s = Advanced(d, pcAfter)
  OBVIOUS
<1>3. registers' = [registers EXCEPT ![running] = s]
  BY <1>1, <1>2 DEF CompleteLoad
<1>4. DOMAIN d = Registers /\ d[0] = 0 /\ d[LoadReg] = n
  BY <1>1, DelayedLoadIs
<1>5. DOMAIN s = Registers /\ s[0] = 0 /\ s[LoadReg] = n
  BY <1>2, <1>4, RegistersAre DEF Advanced, PrevPCReg, PCReg, NextPCReg, LoadReg
<1> QED
  BY <1>3, <1>5 DEF Registered

(* A load that is under way may be done early.                             *)
LEMMA EarlyLoad ==
  ASSUME Registered, running \in Procs, Procs' = Procs, NEW b, DOMAIN b = Registers,
         \A x \in Registers \ {BadVAddrReg} : b[x] = registers[running][x],
         registers' = [registers EXCEPT ![running] = DelayedLoad(b, 0, 0)]
  PROVE  Registered' /\ \A p \in Procs : Seen(p)' = Seen(p)
<1>1. PICK r, d : r = registers[running] /\ d = DelayedLoad(b, 0, 0)
  OBVIOUS
<1>2. registers' = [registers EXCEPT ![running] = d]
  BY <1>1
<1>3. DOMAIN r = Registers /\ r[0] = 0 /\ r[LoadReg] \in 0 .. 31
  BY <1>1 DEF Registered
<1>4. DOMAIN b = Registers /\ \A x \in Registers \ {BadVAddrReg} : b[x] = r[x]
  BY <1>1
<1>5. /\ DOMAIN d = Registers /\ d[0] = 0 /\ d[LoadReg] = 0
      /\ \A x \in Registers \ {0, LoadReg, LoadValueReg} :
            d[x] = IF x = b[LoadReg] THEN b[LoadValueReg] ELSE b[x]
  <2>1. LET e == DelayedLoad(b, 0, 0)
        IN  /\ DOMAIN e = Registers /\ e[0] = 0 /\ e[LoadReg] = 0
            /\ \A x \in Registers \ {0, LoadReg, LoadValueReg} :
                  e[x] = IF x = b[LoadReg] THEN b[LoadValueReg] ELSE b[x]
    BY <1>4, DelayedLoadIs
  <2>2. d = DelayedLoad(b, 0, 0)
    BY <1>1, Zenon
  <2> QED
    BY <2>1, <2>2
<1>6. b[LoadReg] = r[LoadReg] /\ b[LoadValueReg] = r[LoadValueReg]
  BY <1>4, RegistersAre DEF LoadReg, LoadValueReg, BadVAddrReg
<1>7. \A x \in GPR : d[x] = IF x # 0 /\ x = r[LoadReg] THEN r[LoadValueReg] ELSE r[x]
  <2> SUFFICES ASSUME NEW x \in GPR
               PROVE  d[x] = IF x # 0 /\ x = r[LoadReg] THEN r[LoadValueReg] ELSE r[x]
    OBVIOUS
  <2>1. x \in Registers /\ x # LoadReg /\ x # LoadValueReg /\ x # BadVAddrReg
    BY RegistersAre DEF LoadReg, LoadValueReg, BadVAddrReg
  <2> QED
    BY <1>3, <1>4, <1>5, <1>6, <2>1
<1>8. \A x \in {HiReg, LoReg, PCReg, NextPCReg} : d[x] = r[x]
  <2> SUFFICES ASSUME NEW x \in {HiReg, LoReg, PCReg, NextPCReg} PROVE d[x] = r[x]
    OBVIOUS
  <2>1. /\ x \in Registers /\ x \notin {0, LoadReg, LoadValueReg, BadVAddrReg}
        /\ x # r[LoadReg]
    BY <1>3, RegistersAre
       DEF HiReg, LoReg, PCReg, NextPCReg, LoadReg, LoadValueReg, BadVAddrReg
  <2> QED
    BY <1>4, <1>5, <1>6, <2>1
<1>9. Registered'
  BY <1>2, <1>5, RegistersAre DEF Registered
<1>10. ASSUME NEW p \in Procs PROVE Seen(p)' = Seen(p)
  <2>1. CASE p = running
    <3>1. registers'[p] = d /\ registers[p] = r
      BY <1>1, <1>2, <2>1 DEF Registered
    <3>2. \A x \in GPR : (x # 0 /\ x = d[LoadReg]) = FALSE
      BY <1>5
    <3>3. [x \in GPR |-> IF x # 0 /\ x = d[LoadReg] THEN d[LoadValueReg] ELSE d[x]]
          = [x \in GPR |-> IF x # 0 /\ x = r[LoadReg] THEN r[LoadValueReg] ELSE r[x]]
      BY <1>7, <3>2
    <3> QED
      BY <1>8, <3>1, <3>3 DEF Seen
  <2>2. CASE p # running
    <3>1. registers'[p] = registers[p]
      BY <1>2, <2>2 DEF Registered
    <3> QED
      BY <3>1 DEF Seen
  <2> QED
    BY <2>1, <2>2
<1> QED
  BY <1>9, <1>10

(* An instruction that traps is one that the program has not begun.        *)
LEMMA RaiseExceptionIs ==
  ASSUME Registered, running \in Procs, Procs' = Procs, NEW which, NEW badVAddr,
         RaiseException(which, badVAddr)
  PROVE  Registered' /\ \A p \in Procs : Seen(p)' = Seen(p)
<1>1. PICK r, b : r = registers[running] /\ b = [r EXCEPT ![BadVAddrReg] = badVAddr]
  OBVIOUS
<1>2. registers' = [registers EXCEPT ![running] = DelayedLoad(b, 0, 0)]
  BY <1>1 DEF RaiseException
<1>3. DOMAIN r = Registers
  BY <1>1 DEF Registered
<1>4. DOMAIN b = Registers /\ \A x \in Registers \ {BadVAddrReg} : b[x] = registers[running][x]
  BY <1>1, <1>3
<1> QED
  BY <1>2, <1>4, EarlyLoad

(* Nor does an interrupt show.                                             *)
LEMMA CheckIfDueIs ==
  ASSUME Registered, running \in Procs, Procs' = Procs, CheckIfDue
  PROVE  Registered' /\ \A p \in Procs : Seen(p)' = Seen(p)
<1>1. PICK b : b = registers[running]
  OBVIOUS
<1>2. registers' = [registers EXCEPT ![running] = DelayedLoad(b, 0, 0)]
  BY <1>1 DEF CheckIfDue
<1>3. DOMAIN b = Registers
  BY <1>1 DEF Registered
<1> QED
  BY <1>1, <1>2, <1>3, EarlyLoad

(* The instructions that complete, and the system call the kernel has      *)
(* served.                                                                 *)
Completes ==
    ComputeResult \/ SetHiLo \/ Branch \/ Jump \/ Load \/ Store \/ HandleSyscall

(* Every step of the machine and of the kernel.                            *)
LEMMA RegistersInv ==
  ASSUME IInv, Registered, FiveBits, [Next]_vars
  PROVE  /\ Registered'
         /\ \A p \in Procs : Seen(p)' # Seen(p) => p = running /\ Completes
<1>1. running \in Procs
  BY DEF IInv, Types
<1>2. DOMAIN R = Registers
  BY <1>1 DEF R, Registered
<1>3. 0 \in 0 .. 31
  OBVIOUS
<1>4. ASSUME NEW r, DOMAIN r = Registers, NEW pcAfter, NEW n \in 0 .. 31, NEW value,
             CompleteLoad(r, pcAfter, n, value), Completes
      PROVE  /\ Registered'
             /\ \A p \in Procs : Seen(p)' # Seen(p) => p = running /\ Completes
  <2>1. Procs' = Procs
    BY <1>4 DEF CompleteLoad, Procs
  <2>2. Registered' /\ \A p \in Procs \ {running} : registers'[p] = registers[p]
    BY <1>1, <1>4, <2>1, CompleteIs
  <2> QED
    BY <1>4, <2>2 DEF Seen
<1>5. ASSUME NEW which, NEW badVAddr, RaiseException(which, badVAddr)
      PROVE  /\ Registered'
             /\ \A p \in Procs : Seen(p)' # Seen(p) => p = running /\ Completes
  <2>1. Procs' = Procs
    BY <1>5 DEF RaiseException, Procs
  <2> QED
    BY <1>1, <1>5, <2>1, RaiseExceptionIs
<1>6. ASSUME UNCHANGED <<program, registers>>
      PROVE  /\ Registered'
             /\ \A p \in Procs : Seen(p)' # Seen(p) => p = running /\ Completes
  <2>1. Procs' = Procs
    BY <1>6 DEF Procs
  <2> QED
    BY <1>6, <2>1 DEF Registered, Seen
<1>7. CASE ComputeResult
  <2>1. PICK dest : Complete([R EXCEPT ![dest] = Result], PCAfter)
    BY <1>7 DEF ComputeResult
  <2>2. DOMAIN [R EXCEPT ![dest] = Result] = Registers
    BY <1>2
  <2> QED
    BY <1>3, <1>4, <1>7, <2>1, <2>2 DEF Complete, Completes
<1>8. CASE SetHiLo
  <2>1. PICK hi, lo : Complete([R EXCEPT ![HiReg] = hi, ![LoReg] = lo], PCAfter)
    BY <1>8 DEF SetHiLo
  <2>2. DOMAIN [R EXCEPT ![HiReg] = hi, ![LoReg] = lo] = Registers
    BY <1>2
  <2> QED
    BY <1>3, <1>4, <1>8, <2>1, <2>2 DEF Complete, Completes
<1>9. DOMAIN Linked = Registers
  BY <1>2 DEF Linked
<1>10. CASE Branch \/ Jump
  <2>1. PICK pcAfter : Complete(Linked, pcAfter)
    BY <1>10 DEF Branch, Jump
  <2> QED
    BY <1>3, <1>4, <1>9, <1>10, <2>1 DEF Complete, Completes
<1>11. CASE Load
  <2>1. PICK pcAfter, value : CompleteLoad(R, pcAfter, Instruction.rt, value)
    BY <1>11 DEF Load
  <2>2. Instruction.rt \in 0 .. 31
    BY <1>11 DEF Load, FiveBits
  <2> QED
    BY <1>2, <1>4, <1>11, <2>1, <2>2 DEF Completes
<1>12. CASE Store
  <2>1. CompleteLoad(R, PCAfter, 0, 0)
    BY <1>12 DEF Store
  <2> QED
    BY <1>2, <1>3, <1>4, <1>12, <2>1 DEF Completes
<1>13. CASE HandleSyscall
  <2>1. PICK s : s = Advanced(R, PCAfter)
    OBVIOUS
  <2>2. registers' = [registers EXCEPT ![running] = s] /\ Procs' = Procs
    BY <1>13, <2>1 DEF HandleSyscall, Procs
  <2>3. DOMAIN s = Registers /\ s[0] = R[0] /\ s[LoadReg] = R[LoadReg]
    BY <1>2, <2>1, RegistersAre DEF Advanced, PrevPCReg, PCReg, NextPCReg, LoadReg
  <2>4. R[0] = 0 /\ R[LoadReg] \in 0 .. 31
    BY <1>1 DEF R, Registered
  <2>5. Registered' /\ \A p \in Procs \ {running} : registers'[p] = registers[p]
    BY <2>2, <2>3, <2>4 DEF Registered
  <2> QED
    BY <1>13, <2>5 DEF Seen, Completes
<1>14. CASE FetchFails \/ AccessFails \/ Traps
  BY <1>5, <1>14 DEF FetchFails, AccessFails, Traps
<1>15. CASE HostStops \/ HandlePageFault \/ Kill \/ Stopped \/ UNCHANGED vars
  BY <1>6, <1>15 DEF HostStops, HandlePageFault, Kill, Stopped, vars
<1>16. CASE CheckIfDue
  <2>1. Procs' = Procs
    BY <1>16 DEF CheckIfDue, Procs
  <2> QED
    BY <1>1, <1>16, <2>1, CheckIfDueIs
<1> QED
  BY <1>7, <1>8, <1>10, <1>11, <1>12, <1>13, <1>14, <1>15, <1>16 DEF Next, OneInstruction, Kernel

(* The constructor and the kernel start programs without a delayed load.   *)
LEMMA RegistersInit == Init => Registered
<1> SUFFICES ASSUME Init PROVE Registered
  OBVIOUS
<1>1. \A p \in Procs : program[p].regs[0] = 0
  BY WorkloadAssumption DEF Init, Procs
<1>2. registers = [p \in Procs |-> [x \in Registers |->
          IF x \in GPR THEN program[p].regs[x] ELSE IF x = NextPCReg THEN 4 ELSE 0]]
  BY DEF Init
<1>3. LoadReg \in Registers \ GPR /\ LoadReg # NextPCReg
  BY RegistersAre DEF LoadReg, NextPCReg
<1> QED
  BY <1>1, <1>2, <1>3, RegistersAre DEF Registered

(* What a process sees of its registers changes where it completes an      *)
(* instruction or its system call is served, and nowhere else: not where   *)
(* one traps or an interrupt comes, though a load that was under way is    *)
(* then done early, and not with what the kernel pages or whom it switches *)
(* to.                                                                     *)
THEOREM Restart ==
  Spec /\ []FiveBits
    => [][\A p \in Procs : Seen(p)' # Seen(p) => p = running /\ Completes]_vars
<1>1. IInv /\ Registered /\ FiveBits /\ [Next]_vars => Registered'
  BY RegistersInv
<1>2. IInv /\ Registered /\ FiveBits /\ [Next]_vars
        => [\A p \in Procs : Seen(p)' # Seen(p) => p = running /\ Completes]_vars
  BY RegistersInv
<1> QED
  BY Invariance, RegistersInit, <1>1, <1>2, PTL DEF Spec
=============================================================================
