----------------------------- MODULE DiskProofs ----------------------------
(***************************************************************************)
(* The synchronous disk, for any threads, sectors and data: it never       *)
(* overlaps two requests, every caller is woken by its own interrupt, and  *)
(* the calls are atomic.  All three rest on the inductive invariant IInv.  *)
(*                                                                         *)
(* And the disk below it, for any geometry and speed and any requests, as  *)
(* long as an int holds the clock: the latency that ComputeLatency works   *)
(* out is neither too short nor too long.                                  *)
(***************************************************************************)
EXTENDS SynchDisk, DiskTiming, TLAPS

-----------------------------------------------------------------------------
(* THE SYNCHRONOUS DISK.                                                   *)

(* The constructors establish the invariant.                               *)
LEMMA InitInv == Init => IInv
<1> SUFFICES ASSUME Init PROVE IInv
  OBVIOUS
<1>1. TypeOK
  BY DEF Init, TypeOK, PCs
<1>2. LockHolder
  BY ThreadsAssumption DEF Init, LockHolder, Holding
<1>3. OneWakeUp
  BY DEF Init, OneWakeUp
<1>4. RequestWhileCalled
  BY DEF Init, RequestWhileCalled
<1> QED
  BY <1>1, <1>2, <1>3, <1>4 DEF IInv

(* Every step of a thread, of the device and of the handler preserves it.  *)
LEMMA NextInv == IInv /\ [Next]_vars => IInv'
<1> SUFFICES ASSUME IInv, [Next]_vars PROVE IInv'
  OBVIOUS
<1> USE ThreadsAssumption DEF IInv
<1>1. ASSUME NEW t \in Threads, NEW r \in Request, Call(t, r) PROVE IInv'
  <2>1. TypeOK'
    BY <1>1 DEF Call, Move, TypeOK, PCs
  <2>2. LockHolder'
    BY <1>1 DEF Call, Move, TypeOK, LockHolder,
       Holding
  <2>3. OneWakeUp'
    BY <1>1 DEF Call, Move, TypeOK, OneWakeUp
  <2>4. RequestWhileCalled'
    BY <1>1 DEF Call, Move, TypeOK, RequestWhileCalled
  <2> QED
    BY <2>1, <2>2, <2>3, <2>4
<1>2. ASSUME NEW t \in Threads, Acquire(t) PROVE IInv'
  <2>1. TypeOK'
    BY <1>2 DEF Acquire, Move, TypeOK, PCs
  <2>2. LockHolder'
    BY <1>2 DEF Acquire, Move, TypeOK, LockHolder,
       Holding
  <2>3. OneWakeUp'
    BY <1>2 DEF Acquire, Move, TypeOK, OneWakeUp
  <2>4. RequestWhileCalled'
    BY <1>2 DEF Acquire, Move, TypeOK,
       RequestWhileCalled
  <2> QED
    BY <2>1, <2>2, <2>3, <2>4
<1>3. ASSUME NEW t \in Threads, ReadRequest(t) PROVE IInv'
  <2>1. TypeOK'
    <3>1. request[t] \in Request
      BY <1>3 DEF ReadRequest, TypeOK
    <3>2. content[request[t].sector] \in Data
      BY <3>1 DEF TypeOK, Request
    <3> QED
      BY <1>3, <3>2 DEF ReadRequest, Move, TypeOK, PCs
  <2>2. LockHolder'
    BY <1>3 DEF ReadRequest, Move, TypeOK, LockHolder,
       Holding
  <2>3. OneWakeUp'
    BY <1>3 DEF ReadRequest, Move, TypeOK, LockHolder,
       Holding, OneWakeUp
  <2>4. RequestWhileCalled'
    BY <1>3 DEF ReadRequest, Move, TypeOK,
       RequestWhileCalled
  <2> QED
    BY <2>1, <2>2, <2>3, <2>4
<1>4. ASSUME NEW t \in Threads, WriteRequest(t) PROVE IInv'
  <2>1. TypeOK'
    <3>1. request[t] \in Request
      BY <1>4 DEF WriteRequest, TypeOK
    <3>2. request[t].data \in Data
      BY <3>1 DEF Request
    <3>3. content' \in [Sectors -> Data]
      BY <1>4, <3>2 DEF WriteRequest, TypeOK
    <3> QED
      BY <1>4, <3>3 DEF WriteRequest, Move, TypeOK, PCs
  <2>2. LockHolder'
    BY <1>4 DEF WriteRequest, Move, TypeOK, LockHolder,
       Holding
  <2>3. OneWakeUp'
    BY <1>4 DEF WriteRequest, Move, TypeOK, LockHolder,
       Holding, OneWakeUp
  <2>4. RequestWhileCalled'
    BY <1>4 DEF WriteRequest, Move, TypeOK,
       RequestWhileCalled
  <2> QED
    BY <2>1, <2>2, <2>3, <2>4
<1>5. ASSUME HandleInterrupt PROVE IInv'
  <2>1. TypeOK'
    <3>1. diskInt' \in Nat /\ semaphore' \in Nat
      BY <1>5 DEF HandleInterrupt, TypeOK
    <3>2. active' \in BOOLEAN
      BY <1>5 DEF HandleInterrupt
    <3> QED
      BY <1>5, <3>1, <3>2, Zenon DEF HandleInterrupt, TypeOK
  <2>2. LockHolder'
    BY <1>5 DEF HandleInterrupt, LockHolder, Holding
  <2>3. OneWakeUp'
    BY <1>5 DEF HandleInterrupt, TypeOK, OneWakeUp
  <2>4. RequestWhileCalled'
    BY <1>5 DEF HandleInterrupt, RequestWhileCalled
  <2> QED
    BY <2>1, <2>2, <2>3, <2>4
<1>6. ASSUME NEW t \in Threads, P(t) PROVE IInv'
  <2>1. TypeOK'
    BY <1>6 DEF P, Move, TypeOK, PCs
  <2>2. LockHolder'
    BY <1>6 DEF P, Move, TypeOK, LockHolder,
       Holding
  <2>3. OneWakeUp'
    BY <1>6 DEF P, Move, TypeOK, LockHolder,
       Holding, OneWakeUp
  <2>4. RequestWhileCalled'
    BY <1>6 DEF P, Move, TypeOK, RequestWhileCalled
  <2> QED
    BY <2>1, <2>2, <2>3, <2>4
<1>7. ASSUME NEW t \in Threads, Release(t) PROVE IInv'
  <2>1. TypeOK'
    BY <1>7 DEF Release, Move, TypeOK, PCs
  <2>2. LockHolder'
    BY <1>7 DEF Release, Move, TypeOK, LockHolder,
       Holding
  <2>3. OneWakeUp'
    BY <1>7 DEF Release, Move, TypeOK, OneWakeUp
  <2>4. RequestWhileCalled'
    BY <1>7 DEF Release, Move, TypeOK,
       RequestWhileCalled
  <2> QED
    BY <2>1, <2>2, <2>3, <2>4
<1>8. CASE UNCHANGED vars
  BY <1>8 DEF vars, TypeOK, LockHolder, Holding,
     OneWakeUp, RequestWhileCalled
<1> QED
  BY <1>1, <1>2, <1>3, <1>4, <1>5, <1>6, <1>7, <1>8 DEF Next, Step

(* IInv is an invariant of the synchronous disk: exactly the thread        *)
(* between Acquire() and Release() holds the lock, and the device, its     *)
(* interrupt and the semaphore hold one wake-up while a thread waits.      *)
THEOREM Invariance == Spec => []IInv
  BY InitInv, NextInv, PTL DEF Spec
-----------------------------------------------------------------------------
(* ASSERT(!active) of Disk::ReadRequest and Disk::WriteRequest never fails,*)
(* for any number of threads.                                              *)
THEOREM NoOverlap == Spec => []NoOverlappingRequest
<1>1. IInv => NoOverlappingRequest
  <2> SUFFICES ASSUME IInv, NEW t \in Threads, pc[t] = "Request" PROVE ~active
    BY DEF NoOverlappingRequest
  <2>1. \A u \in Threads : pc[u] # "P"
    BY DEF IInv, LockHolder, Holding
  <2> QED
    BY <2>1 DEF IInv, OneWakeUp, TypeOK
<1> QED
  BY <1>1, Invariance, PTL

(* A call returns only after the interrupt of its own request, and leaves  *)
(* no wake-up behind for the next caller.                                  *)
THEOREM OwnInterrupt == Spec => []WokenByOwnInterrupt
<1>1. IInv => WokenByOwnInterrupt
  <2> SUFFICES ASSUME IInv, NEW t \in Threads, pc[t] = "Release"
               PROVE  ~active /\ diskInt = 0 /\ semaphore = 0
    BY DEF WokenByOwnInterrupt
  <2>1. \A u \in Threads : pc[u] # "P"
    BY DEF IInv, LockHolder, Holding
  <2> QED
    BY <2>1 DEF IInv, OneWakeUp, TypeOK
<1> QED
  BY <1>1, Invariance, PTL
-----------------------------------------------------------------------------
(* ReadSector and WriteSector are atomic: SynchDisk implements AtomicDisk, *)
(* each call taking effect when its request reaches the device.            *)
THEOREM Atomicity == Spec => AtomicDiskSpec
<1>1. Init => AD!AInit
  BY DEF Init, AD!AInit, phaseBar
<1>2. IInv /\ [Next]_vars => [AD!ANext]_AD!avars
  <2> SUFFICES ASSUME IInv, [Next]_vars PROVE [AD!ANext]_AD!avars
    OBVIOUS
  <2>1. ASSUME NEW t \in Threads, NEW r \in Request, Call(t, r)
        PROVE  AD!Invoke(t, r)
    BY <2>1 DEF Call, Move, AD!Invoke, phaseBar,
       IInv, TypeOK
  <2>2. ASSUME NEW t \in Threads, Acquire(t) PROVE UNCHANGED AD!avars
    BY <2>2 DEF Acquire, Move, AD!avars, phaseBar,
       IInv, TypeOK
  <2>3. ASSUME NEW t \in Threads, ReadRequest(t) PROVE AD!TakeEffect(t)
    BY <2>3 DEF ReadRequest, Move, AD!TakeEffect,
       phaseBar, IInv, TypeOK
  <2>4. ASSUME NEW t \in Threads, WriteRequest(t) PROVE AD!TakeEffect(t)
    BY <2>4 DEF WriteRequest, Move, AD!TakeEffect,
       phaseBar, IInv, TypeOK
  <2>5. ASSUME HandleInterrupt PROVE UNCHANGED AD!avars
    BY <2>5 DEF HandleInterrupt, AD!avars, phaseBar
  <2>6. ASSUME NEW t \in Threads, P(t) PROVE UNCHANGED AD!avars
    BY <2>6 DEF P, Move, AD!avars, phaseBar,
       IInv, TypeOK
  <2>7. ASSUME NEW t \in Threads, Release(t) PROVE AD!Return(t)
    BY <2>7 DEF Release, Move, AD!Return, phaseBar,
       IInv, TypeOK
  <2>8. CASE UNCHANGED vars
    BY <2>8 DEF vars, AD!avars, phaseBar
  <2>9. Request = AD!Request
    BY DEF Request, AD!Request
  <2> QED
    BY <2>1, <2>2, <2>3, <2>4, <2>5, <2>6, <2>7, <2>8, <2>9
    DEF Next, Step, AD!ANext
<1> QED
  BY <1>1, <1>2, Invariance, PTL DEF Spec, AtomicDiskSpec,
     AD!ASpec

-----------------------------------------------------------------------------
(* THE LATENCY OF THE DISK.                                                *)

(* Arithmetic.                                                             *)

LEMMA Products ==
  ASSUME NEW a \in Int, NEW b \in Int, NEW k \in Nat \ {0}
  PROVE  /\ k * a \in Int /\ (k * a = k * b => a = b)
         /\ (a < b <=> k * a < k * b) /\ (a <= b <=> k * a <= k * b)
         /\ (a <= b <=> k * a < k * b + k)
         /\ k * (a + b) = k * a + k * b /\ k * (a - b) = k * a - k * b
         /\ k * (a + 1) = k * a + k /\ a * k = k * a
<1>1. k * a \in Int /\ a * k = k * a
  OBVIOUS
<1>2. /\ k * (a + b) = k * a + k * b
      /\ k * (a - b) = k * a - k * b
      /\ k * (a + 1) = k * a + k
  OBVIOUS
<1>3. a < b <=> k * a < k * b
  OBVIOUS
<1>4. a <= b <=> k * a <= k * b
  OBVIOUS
<1>5. a <= b => k * a < k * b + k
  BY <1>1, <1>4
<1>6. k * a < k * b + k => a <= b
  OBVIOUS
<1>7. k * a = k * b => a = b
  OBVIOUS
<1> QED
  BY <1>1, <1>2, <1>3, <1>4, <1>5, <1>6, <1>7

(* A quotient and remainder that fit are the ones.                         *)
LEMMA Unique ==
  ASSUME NEW a \in Int, NEW k \in Nat \ {0}, NEW q \in Int, NEW r \in 0 .. k - 1,
         a = k * q + r
  PROVE  a \div k = q /\ a % k = r
<1>1. a \div k = q
  OBVIOUS
<1>2. a % k = r
  OBVIOUS
<1> QED
  BY <1>1, <1>2

LEMMA Division ==
  ASSUME NEW a \in Int, NEW k \in Nat \ {0}
  PROVE  /\ a \div k \in Int /\ a % k \in 0 .. k - 1 /\ k * (a \div k) \in Int
         /\ a = k * (a \div k) + (a % k)
         /\ a \in Nat => a \div k \in Nat
<1> DEFINE q == a \div k
<1>1. q \in Int
  OBVIOUS
<1>2. a \in Nat => q \in Nat
  OBVIOUS
<1>3. k * q <= a /\ a < k * q + k
  OBVIOUS
<1> HIDE DEF q
<1>4. k * q \in Int
  BY <1>1, Products
<1>5. a - k * q \in 0 .. k - 1 /\ a = k * q + (a - k * q)
  BY <1>3, <1>4
<1>6. a % k = a - k * q
  BY <1>1, <1>5, Unique
<1> QED
  BY <1>1, <1>2, <1>4, <1>5, <1>6 DEF q

LEMMA MultipleMod ==
  ASSUME NEW q \in Int, NEW k \in Nat \ {0}
  PROVE  (k * q) % k = 0 /\ (k * q) \div k = q
<1> DEFINE a == k * q
<1>1. a \in Int /\ a = k * q + 0 /\ 0 \in 0 .. k - 1
  BY Products
<1> HIDE DEF a
<1>2. a % k = 0 /\ a \div k = q
  BY <1>1, Unique
<1> QED
  BY <1>2 DEF a

(* Whole turns do not change where the disk is.                            *)
LEMMA Turns ==
  ASSUME NEW a \in Int, NEW t \in Int, NEW k \in Nat \ {0}
  PROVE  (a + k * t) % k = a % k
<1> DEFINE q == a \div k
           r == a % k
           w == a + k * t
<1>1. q \in Int /\ r \in 0 .. k - 1 /\ a = k * q + r
  BY Division
<1> HIDE DEF q, r
<1>2. k * t \in Int /\ k * (q + t) = k * q + k * t /\ k * q \in Int
  BY <1>1, Products
<1>3. w \in Int /\ w = k * (q + t) + r /\ q + t \in Int
  BY <1>1, <1>2
<1> HIDE DEF w
<1>4. w % k = r
  BY <1>1, <1>3, Unique
<1> QED
  BY <1>4 DEF w, r

(* An int keeps a number that it can hold.                                 *)
LEMMA Fits ==
  ASSUME NEW n \in Int, 0 - IntMax - 1 <= n, n <= IntMax
  PROVE  AsInt(n) = n
<1>1. IntMax \in Nat /\ 2 * IntMax + 2 \in Nat \ {0}
  BY DiskAssumption
<1>2. n + IntMax + 1 \in 0 .. (2 * IntMax + 2) - 1
  BY <1>1
<1>3. n + IntMax + 1 = (2 * IntMax + 2) * 0 + (n + IntMax + 1)
  BY <1>1
<1>4. (n + IntMax + 1) % (2 * IntMax + 2) = n + IntMax + 1
  <2> HIDE DEF AsInt
  <2> DEFINE k == 2 * IntMax + 2
             m == n + IntMax + 1
  <2>1. k \in Nat \ {0} /\ m \in Int /\ m \in 0 .. k - 1 /\ m = k * 0 + m
    BY <1>1, <1>2, <1>3
  <2> HIDE DEF k, m
  <2>2. m % k = m
    BY <2>1, Unique
  <2> QED
    BY <2>2 DEF k, m
<1> QED
  BY <1>1, <1>4 DEF AsInt

LEMMA NaturalDivision ==
  ASSUME NEW a \in Nat, NEW k \in Nat \ {0}
  PROVE  Quot(a, k) = a \div k /\ Rem(a, k) = a % k
BY Division DEF Quot, Rem

(* ModuloDiff: how many sectors after "from" the sector "to" comes next.   *)
LEMMA NextPass ==
  ASSUME NEW to \in Nat, NEW from \in Nat
  PROVE  /\ ModuloDiff(to, from) \in 0 .. SectorsPerTrack - 1
         /\ (from + ModuloDiff(to, from)) % SectorsPerTrack = to % SectorsPerTrack
         /\ \A n \in Nat : n >= from /\ n % SectorsPerTrack = to % SectorsPerTrack
                              => n >= from + ModuloDiff(to, from)
<1> DEFINE k == SectorsPerTrack
           x == to % k
           y == from % k
           D == ModuloDiff(to, from)
<1>1. k \in Nat \ {0}
  BY DiskAssumption
<1>2. x \in 0 .. k - 1 /\ y \in 0 .. k - 1
  <2> HIDE DEF k
  <2>1. to \in Int /\ from \in Int
    OBVIOUS
  <2>2. x \in 0 .. k - 1
    BY <1>1, <2>1, Division
  <2>3. y \in 0 .. k - 1
    BY <1>1, <2>1, Division
  <2> QED
    BY <2>2, <2>3
<1>3. D = ((x - y) + k) % k
  <2>1. Rem(to, k) = x /\ Rem(from, k) = y
    BY <1>1, NaturalDivision
  <2> HIDE DEF x, y
  <2>2. (x - y) + k \in Nat
    BY <1>1, <1>2
  <2>3. Rem((x - y) + k, k) = ((x - y) + k) % k
    BY <1>1, <2>2, NaturalDivision
  <2> QED
    BY <2>1, <2>3 DEF ModuloDiff
<1> HIDE DEF D
<1>4. D = IF y <= x THEN x - y ELSE (x - y) + k
  <2> HIDE DEF x, y, k
  <2>1. CASE y <= x
    <3>1. (x - y) + k = k * 1 + (x - y) /\ x - y \in 0 .. k - 1 /\ (x - y) + k \in Int
      BY <1>1, <1>2, <2>1
    <3>2. ((x - y) + k) % k = x - y
      <4> DEFINE w == (x - y) + k
                 r == x - y
      <4>1. w \in Int /\ r \in 0 .. k - 1 /\ w = k * 1 + r
        BY <3>1
      <4> HIDE DEF w, r
      <4>2. w % k = r
        BY <1>1, <4>1, Unique
      <4> QED
        BY <4>2 DEF w, r
    <3> QED
      BY <1>3, <2>1, <3>2
  <2>2. CASE ~(y <= x)
    <3>1. (x - y) + k = k * 0 + ((x - y) + k) /\ (x - y) + k \in 0 .. k - 1
          /\ (x - y) + k \in Int
      BY <1>1, <1>2, <2>2
    <3>2. ((x - y) + k) % k = (x - y) + k
      <4> DEFINE w == (x - y) + k
      <4>1. w \in Int /\ w \in 0 .. k - 1 /\ w = k * 0 + w
        BY <3>1
      <4> HIDE DEF w
      <4>2. w % k = w
        BY <1>1, <4>1, Unique
      <4> QED
        BY <4>2 DEF w
    <3> QED
      BY <1>3, <2>2, <3>2
  <2> QED
    BY <2>1, <2>2
<1>5. D \in 0 .. k - 1
  <2> HIDE DEF x, y, k
  <2> QED
    BY <1>1, <1>2, <1>4
<1>6. (from + D) % k = x
  <2> DEFINE q == from \div k
  <2>1. q \in Int /\ from = k * q + y
    BY <1>1, Division
  <2> HIDE DEF x, y, k, q
  <2>2. from + D = (IF y <= x THEN k * q + x ELSE k * (q + 1) + x)
    BY <1>1, <1>2, <1>4, <2>1, Products
  <2>3. from + D \in Int
    BY <1>1, <1>5
  <2> DEFINE w == from + D
             u == IF y <= x THEN q ELSE q + 1
  <2>4. u \in Int /\ w \in Int /\ w = k * u + x
    BY <2>1, <2>2, <2>3
  <2> HIDE DEF w, u
  <2>5. w % k = x
    BY <1>1, <1>2, <2>4, Unique
  <2> QED
    BY <2>5 DEF w
<1>7. ASSUME NEW n \in Nat, n >= from, n % k = x
      PROVE  n >= from + D
  <2> DEFINE q == from \div k
             p == n \div k
  <2>1. q \in Int /\ p \in Int /\ from = k * q + y /\ n = k * p + x
    BY <1>1, <1>7, Division
  <2> HIDE DEF x, y, k, q, p
  <2>2. CASE y <= x
    <3>1. k * q < k * p + k
      BY <1>1, <1>2, <1>7, <2>1, Products
    <3>2. k * q <= k * p
      BY <1>1, <2>1, <3>1, Products
    <3> QED
      BY <1>1, <1>2, <1>4, <2>1, <2>2, <3>2, Products
  <2>3. CASE ~(y <= x)
    <3>1. k * q < k * p
      BY <1>1, <1>2, <1>7, <2>1, <2>3, Products
    <3>2. q + 1 <= p
      BY <1>1, <2>1, <3>1, Products
    <3>3. k * q + k <= k * p
      BY <1>1, <2>1, <3>2, Products
    <3> QED
      BY <1>1, <1>2, <1>4, <2>1, <2>3, <3>3, Products
  <2> QED
    BY <2>2, <2>3
<1> QED
  BY <1>5, <1>6, <1>7 DEF D

(* What it takes for a sector to go past the head.                         *)
LEMMA PassIntro ==
  ASSUME NEW s, NEW n \in Nat, NEW from \in Int, NEW to \in Nat,
         n % SectorsPerTrack = s % SectorsPerTrack,
         from <= RotationTime * n, RotationTime * n + RotationTime <= to
  PROVE  Passes(s, from, to)
<1> DEFINE k == RotationTime
           q == to \div k
<1>1. k \in Nat \ {0}
  BY DiskAssumption
<1>2. /\ k * n \in Int /\ n * k = k * n /\ (n + 1) * k = k * n + k
  <2>1. n + 1 \in Int /\ n \in Int
    OBVIOUS
  <2> HIDE DEF k
  <2>2. k * n \in Int /\ n * k = k * n /\ k * (n + 1) = k * n + k
    BY <1>1, <2>1, Products
  <2>3. (n + 1) * k = k * (n + 1)
    BY <1>1, <2>1, Products
  <2> QED
    BY <2>2, <2>3
<1>3. n \in 0 .. q
  <2> HIDE DEF k
  <2>1. q \in Int /\ (to % k) \in 0 .. k - 1 /\ to = k * q + (to % k) /\ k * q \in Int
    BY <1>1, Division, Products
  <2>2. to < k * q + k
    BY <1>1, <2>1
  <2>3. k * n + k <= to
    BY DEF k
  <2>4. k * n < k * q + k
    BY <1>1, <1>2, <2>1, <2>2, <2>3
  <2> HIDE DEF q
  <2>5. n <= q
    BY <1>1, <2>1, <2>4, Products
  <2> QED
    BY <2>1, <2>5
<1> QED
  BY <1>2, <1>3 DEF Passes

LEMMA PassElim ==
  ASSUME NEW s, NEW from \in Int, NEW to \in Nat, Passes(s, from, to)
  PROVE  \E n \in Nat :
            /\ n % SectorsPerTrack = s % SectorsPerTrack
            /\ from <= RotationTime * n /\ RotationTime * n + RotationTime <= to
<1>1. PICK n \in 0 .. to \div RotationTime :
        /\ n % SectorsPerTrack = s % SectorsPerTrack
        /\ from <= n * RotationTime /\ (n + 1) * RotationTime <= to
  BY DEF Passes
<1>2. n \in Nat /\ RotationTime \in Nat \ {0}
  BY <1>1, DiskAssumption
<1>3. /\ n * RotationTime = RotationTime * n
      /\ (n + 1) * RotationTime = RotationTime * n + RotationTime
  <2>1. n + 1 \in Int /\ n \in Int
    BY <1>2
  <2>2. /\ n * RotationTime = RotationTime * n
        /\ RotationTime * (n + 1) = RotationTime * n + RotationTime
    BY <1>2, <2>1, Products
  <2>3. (n + 1) * RotationTime = RotationTime * (n + 1)
    BY <1>2, <2>1, Products
  <2> QED
    BY <2>2, <2>3
<1> QED
  BY <1>1, <1>2, <1>3

-----------------------------------------------------------------------------
(* ComputeLatency.                                                         *)

(* TimeToSeek: the head moves over at most all the tracks.                 *)
LEMMA SeekIs ==
  ASSUME NEW s \in DiskSectors, lastSector \in DiskSectors
  PROVE  /\ s \in Nat /\ Seek(s) \in Nat /\ NumTracks * SeekTime \in Nat
         /\ Seek(s) <= NumTracks * SeekTime
<1> DEFINE k == SectorsPerTrack
           S == k * NumTracks
<1>1. k \in Nat \ {0} /\ NumTracks \in Nat \ {0} /\ SeekTime \in Nat \ {0}
  BY DiskAssumption
<1>2. ASSUME NEW t \in DiskSectors PROVE t \in Nat /\ Track(t) \in 0 .. NumTracks - 1
  <2> HIDE DEF k
  <2>1. t \in Nat /\ t < S /\ S \in Int
    BY <1>1, <1>2, Products DEF DiskSectors, k
  <2> DEFINE q == t \div k
  <2>2. q \in Nat /\ (t % k) \in 0 .. k - 1 /\ t = k * q + (t % k) /\ k * q \in Int
    <3>1. t \in Int
      BY <2>1
    <3> QED
      BY <1>1, <2>1, <3>1, Division
  <2> HIDE DEF q
  <2>3. k * q <= t
    BY <1>1, <2>1, <2>2
  <2>4. k * q < k * NumTracks
    BY <2>1, <2>2, <2>3
  <2>5. q < NumTracks
    BY <1>1, <2>2, <2>4, Products
  <2> QED
    BY <1>1, <2>1, <2>2, <2>5 DEF Track, q, k
<1> DEFINE a == Abs(Track(s) - Track(lastSector))
<1>3. a \in Nat /\ a <= NumTracks
  BY <1>1, <1>2 DEF Abs
<1> HIDE DEF a
<1>4. Seek(s) = SeekTime * a /\ NumTracks * SeekTime = SeekTime * NumTracks
  BY <1>1, <1>3, Products DEF Seek, a
<1>5. SeekTime * a \in Nat /\ SeekTime * NumTracks \in Nat
  BY <1>1, <1>3
<1>6. SeekTime * a <= SeekTime * NumTracks
  BY <1>1, <1>3, Products
<1> QED
  BY <1>2, <1>4, <1>5, <1>6

(* timeAfter, the first sector boundary after the seek.                    *)
LEMMA Boundary ==
  ASSUME ClockFits, TimingTypeOK, totalTicks <= MaxTicks, NEW s \in DiskSectors
  PROVE  /\ s \in Nat /\ Seek(s) \in Nat /\ Rotation(s) \in Nat
         /\ \E b \in Nat :
              /\ totalTicks + Seek(s) + Rotation(s) = RotationTime * b
              /\ TimeAfter(s) = RotationTime * b
              /\ RotationTime * b < totalTicks + Seek(s) + RotationTime
              /\ RotationTime * b \in 0 .. IntMax
<1> DEFINE k == RotationTime
           ready == totalTicks + Seek(s)
           q == ready \div k
           r == ready % k
           b == IF r > 0 THEN q + 1 ELSE q
<1>1. /\ k \in Nat \ {0} /\ MaxTicks \in Nat /\ IntMax \in Nat /\ totalTicks \in Nat
      /\ MaxTicks + NumTracks * SeekTime + k <= IntMax
  BY DiskAssumption DEF ClockFits, TimingTypeOK
<1>2. /\ s \in Nat /\ Seek(s) \in Nat /\ NumTracks * SeekTime \in Nat
      /\ Seek(s) <= NumTracks * SeekTime
  BY SeekIs DEF TimingTypeOK
<1>3. ready \in Nat
  BY <1>1, <1>2
<1> HIDE DEF ready
<1>4. q \in Nat /\ r \in 0 .. k - 1 /\ ready = k * q + r /\ k * q \in Int
  <2> HIDE DEF k
  <2>1. ready \in Int
    BY <1>3
  <2> QED
    BY <1>1, <1>3, <2>1, Division
<1>5. Rotation(s) = IF r > 0 THEN k - r ELSE 0
  BY Zenon DEF Rotation, ready
<1> HIDE DEF k, q, r
<1>6. k * (q + 1) = k * q + k
  BY <1>1, <1>4, Products
<1>7. b \in Nat /\ k * b = IF r > 0 THEN k * q + k ELSE k * q
  BY <1>4, <1>6
<1>8. Rotation(s) \in Nat /\ ready + Rotation(s) = k * b /\ k * b < ready + k
  BY <1>1, <1>4, <1>5, <1>7
<1>9. k * b \in 0 .. IntMax
  <2>1. ready <= MaxTicks + NumTracks * SeekTime
    BY <1>1, <1>2 DEF ready
  <2> QED
    BY <1>1, <1>2, <1>3, <1>8, <2>1
<1>10. TimeAfter(s) = k * b
  <2>1. TimeAfter(s) = AsInt(ready + Rotation(s))
    BY Zenon DEF TimeAfter, ready
  <2>2. TimeAfter(s) = AsInt(k * b)
    BY <1>8, <2>1
  <2> DEFINE n == k * b
  <2>3. n \in Int /\ 0 - IntMax - 1 <= n /\ n <= IntMax
    BY <1>1, <1>9
  <2> HIDE DEF n, b
  <2>4. AsInt(n) = n
    BY <2>3, Fits
  <2> QED
    BY <2>2, <2>4 DEF n
<1> QED
  BY <1>2, <1>7, <1>8, <1>9, <1>10 DEF ready, k

(* The track buffer was started at a sector boundary.                      *)
LEMMA BufferIs ==
  ASSUME TimingTypeOK, BufferStart
  PROVE  \E c \in Nat : bufferInit = RotationTime * c /\ Quot(bufferInit, RotationTime) = c
<1> DEFINE k == RotationTime
           c == bufferInit \div k
<1>1. k \in Nat \ {0} /\ bufferInit \in Nat /\ bufferInit % k = 0
  BY DiskAssumption DEF TimingTypeOK, BufferStart
<1>2. c \in Nat /\ bufferInit = k * c + 0 /\ k * c \in Int
  BY <1>1, Division, Products
<1>3. Quot(bufferInit, k) = c
  BY <1>1, NaturalDivision
<1> QED
  BY <1>2, <1>3

(* The test of the track buffer: as many sectors have gone past since it   *)
(* was started as it takes to come to the one that is asked for.           *)
LEMMA InBuffer ==
  ASSUME NEW s \in Nat, NEW b \in Nat, NEW c \in Nat,
         TimeAfter(s) = RotationTime * b, RotationTime * b \in 0 .. IntMax,
         bufferInit = RotationTime * c, RotationTime * c \in 0 .. IntMax
  PROVE  InTrackBuffer(s) <=> Seek(s) = 0 /\ b > c + ModuloDiff(s, c)
<1> DEFINE k == RotationTime
           d == TimeAfter(s) - bufferInit
<1>1. k \in Nat \ {0} /\ IntMax \in Nat
  BY DiskAssumption
<1>2. d \in Int /\ AsInt(d) = d /\ d = k * (b - c)
  <2>1. d \in Int /\ 0 - IntMax - 1 <= d /\ d <= IntMax
    BY <1>1
  <2>2. d = k * b - k * c
    OBVIOUS
  <2> HIDE DEF d, k
  <2>3. k * (b - c) = k * b - k * c
    BY <1>1, Products
  <2> QED
    BY <2>1, <2>2, <2>3, Fits
<1>3. Quot(d, k) = b - c
  <2> HIDE DEF k, d
  <2>1. CASE b >= c
    <3>1. b - c \in Int /\ (k * (b - c)) \div k = b - c
      <4> DEFINE q == b - c
      <4>1. q \in Int
        OBVIOUS
      <4> HIDE DEF q
      <4>2. (k * q) \div k = q
        BY <1>1, <4>1, MultipleMod
      <4> QED
        BY <4>1, <4>2 DEF q
    <3>2. d >= 0
      <4>1. k * (b - c) \in Nat
        <5>1. b - c \in Nat
          BY <2>1
        <5> QED
          BY <1>1, <5>1
      <4> QED
        BY <1>2, <4>1
    <3> QED
      BY <1>2, <3>1, <3>2 DEF Quot
  <2>2. CASE ~(b >= c)
    <3> DEFINE q == c - b
    <3>1. q \in Nat \ {0}
      BY <2>2
    <3>2. k * (c - b) = k * c - k * b /\ k * (b - c) = k * b - k * c
          /\ k * b \in Int /\ k * c \in Int
      BY <1>1, Products
    <3>3. -d = k * q
      BY <1>2, <3>2
    <3>4. ~(d >= 0)
      <4>1. k * q \in Nat \ {0}
        <5> HIDE DEF q
        <5> QED
          BY <1>1, <3>1
      <4> HIDE DEF q
      <4> QED
        BY <1>2, <3>3, <4>1
    <3>5. (k * q) \div k = q
      <4> HIDE DEF q
      <4> QED
        BY <1>1, <3>1, MultipleMod
    <3>6. Quot(d, k) = -q
      <4> HIDE DEF q
      <4> QED
        BY <3>3, <3>4, <3>5 DEF Quot
    <3> QED
      BY <3>6
  <2> QED
    BY <2>1, <2>2
<1>4. Quot(bufferInit, k) = c
  <2>1. bufferInit \in Nat
    OBVIOUS
  <2>2. (k * c) \div k = c
    <3> HIDE DEF k
    <3> QED
      BY <1>1, MultipleMod
  <2> QED
    BY <1>1, <2>1, <2>2, NaturalDivision
<1>5. ModuloDiff(s, c) \in Int
  BY NextPass, DiskAssumption
<1>6. InTrackBuffer(s) <=> Seek(s) = 0 /\ Quot(AsInt(d), k) > ModuloDiff(s, Quot(bufferInit, k))
  BY Zenon DEF InTrackBuffer
<1> HIDE DEF d, k
<1> QED
  BY <1>2, <1>3, <1>4, <1>5, <1>6

(* What ComputeLatency returns, and what the head sees in that time.       *)
LEMMA Latency ==
  ASSUME ClockFits, TimingTypeOK, BufferStart, settled <= totalTicks, totalTicks <= MaxTicks,
         NEW s \in DiskSectors, NEW writing \in BOOLEAN,
         NEW ready, ready = totalTicks + Seek(s),
         NEW from, from = IF Seek(s) # 0 THEN ready ELSE settled,
         NEW end, end = totalTicks + ComputeLatency(s, writing)
  PROVE  /\ end \in Nat \ {0} /\ ready <= end
         /\ Passes(s, IF writing THEN ready ELSE from, end)
         /\ ~Passes(s, ready, end - 1)
         /\ ~writing /\ Passes(s, from, totalTicks) => end = totalTicks + RotationTime
<1> DEFINE k == RotationTime
<1>1. /\ k \in Nat \ {0} /\ IntMax \in Nat /\ SectorsPerTrack \in Nat \ {0}
      /\ totalTicks \in Nat /\ settled \in Nat
  BY DiskAssumption DEF TimingTypeOK
<1>2. s \in Nat /\ Seek(s) \in Nat /\ Rotation(s) \in Nat /\ ready \in Nat
  BY <1>1, Boundary
<1>3. PICK b \in Nat :
        /\ ready + Rotation(s) = k * b
        /\ TimeAfter(s) = k * b
        /\ k * b < ready + k
        /\ k * b \in 0 .. IntMax
  BY Boundary
<1>4. PICK c \in Nat : bufferInit = k * c /\ Quot(bufferInit, k) = c
  BY BufferIs
<1>5. settled <= k * c /\ k * c < settled + k /\ k * c \in 0 .. IntMax
  BY <1>1, <1>4 DEF BufferStart, TimingTypeOK
<1> DEFINE D == ModuloDiff(s, b)
           E == ModuloDiff(s, c)
           n == b + D
           m == c + E
<1>6. D \in Nat /\ E \in Nat
  <2>1. D \in 0 .. SectorsPerTrack - 1 /\ E \in 0 .. SectorsPerTrack - 1
    BY <1>2, NextPass
  <2> HIDE DEF D, E
  <2> QED
    BY <1>1, <2>1
<1>7. n % SectorsPerTrack = s % SectorsPerTrack /\ m % SectorsPerTrack = s % SectorsPerTrack
  BY <1>2, NextPass
<1>8. \A i \in Nat : i % SectorsPerTrack = s % SectorsPerTrack
                     => (i >= b => i >= n) /\ (i >= c => i >= m)
  BY <1>2, NextPass
<1>9. InTrackBuffer(s) <=> Seek(s) = 0 /\ b > m
  BY <1>2, <1>3, <1>4, <1>5, InBuffer
<1> HIDE DEF D, E
<1>10. \A i \in Nat : k * i \in Int /\ k * (i + 1) = k * i + k
  <2> HIDE DEF k
  <2> QED
    BY <1>1, Products
<1>11. \A i, j \in Nat : i <= j <=> k * i < k * j + k
  <2> HIDE DEF k
  <2> QED
    BY <1>1, Products
<1>12. \A i, j \in Nat : i <= j <=> k * i <= k * j
  <2> HIDE DEF k
  <2> QED
    BY <1>1, Products
<1>13. n \in Nat /\ m \in Nat
  BY <1>6
<1>14. TimeAfter(s) \in Nat /\ Quot(TimeAfter(s), k) = b
  <2>1. TimeAfter(s) \in Nat
    BY <1>1, <1>3, <1>10
  <2>2. (k * b) \div k = b
    <3> HIDE DEF k
    <3> QED
      BY <1>1, MultipleMod
  <2> QED
    BY <1>1, <1>3, <2>1, <2>2, NaturalDivision
<1> HIDE DEF k, n, m
(* The passes of s since the head is ready, and since it is on the track.  *)
<1>15. ASSUME NEW i \in Nat, i % SectorsPerTrack = s % SectorsPerTrack, ready <= k * i
       PROVE  i >= n
  <2>1. k * b < k * i + k
    BY <1>1, <1>2, <1>3, <1>10, <1>15
  <2> QED
    BY <1>8, <1>11, <1>15, <2>1
<1>16. ASSUME NEW i \in Nat, i % SectorsPerTrack = s % SectorsPerTrack, settled <= k * i
       PROVE  i >= m
  <2>1. k * c < k * i + k
    BY <1>1, <1>5, <1>10, <1>16
  <2> QED
    BY <1>8, <1>11, <1>16, <2>1
<1>17. CASE writing \/ ~InTrackBuffer(s)
  <2>1. end = k * n + k
    <3>1. end = totalTicks + (Seek(s) + Rotation(s) + k + D * k)
      BY <1>14, <1>17 DEF ComputeLatency, D, k
    <3>2. D * k = k * D /\ k * D \in Int /\ k * n = k * b + k * D
      BY <1>1, <1>6, Products DEF n
    <3> QED
      BY <1>1, <1>2, <1>3, <1>10, <3>1, <3>2
  <2>2. k * b <= k * n /\ k * n \in Int /\ k * b \in Int
    BY <1>6, <1>10, <1>12, <1>13 DEF n
  <2>3. end \in Nat \ {0} /\ ready <= k * n /\ ready <= end
    BY <1>1, <1>2, <1>3, <2>1, <2>2
  <2>4. Passes(s, IF writing THEN ready ELSE from, end)
    <3>1. (IF writing THEN ready ELSE from) \in Int
          /\ (IF writing THEN ready ELSE from) <= k * n
      BY <1>1, <1>2, <2>2, <2>3
    <3> QED
      BY <1>7, <1>13, <2>1, <2>3, <3>1, PassIntro DEF k
  <2>5. ~Passes(s, ready, end - 1)
    <3> SUFFICES ASSUME Passes(s, ready, end - 1) PROVE FALSE
      OBVIOUS
    <3>1. PICK i \in Nat : /\ i % SectorsPerTrack = s % SectorsPerTrack
                           /\ ready <= k * i /\ k * i + k <= end - 1
      <4>1. ready \in Int /\ end - 1 \in Nat
        BY <1>2, <2>3
      <4> QED
        BY <4>1, PassElim DEF k
    <3>2. k * n <= k * i
      BY <1>12, <1>13, <1>15, <3>1
    <3> QED
      BY <1>1, <1>10, <1>13, <2>1, <2>2, <3>1, <3>2
  <2>6. ~(~writing /\ Passes(s, from, totalTicks))
    <3> SUFFICES ASSUME ~writing, Passes(s, from, totalTicks) PROVE FALSE
      OBVIOUS
    <3>1. PICK i \in Nat : /\ i % SectorsPerTrack = s % SectorsPerTrack
                           /\ from <= k * i /\ k * i + k <= totalTicks
      <4>1. from \in Int /\ totalTicks \in Nat
        BY <1>1, <1>2
      <4> QED
        BY <4>1, PassElim DEF k
    <3>2. Seek(s) = 0
      BY <1>1, <1>2, <1>10, <3>1
    <3>3. k * m <= k * i
      BY <1>12, <1>13, <1>16, <3>1, <3>2
    <3>4. k * m + k <= k * b
      BY <1>1, <1>2, <1>3, <1>10, <1>13, <3>1, <3>2, <3>3
    <3>5. k * (m + 1) <= k * b /\ m + 1 \in Nat
      BY <1>10, <1>13, <3>4
    <3>6. m + 1 <= b
      BY <1>12, <3>5
    <3> QED
      BY <1>9, <1>13, <1>17, <3>2, <3>6
  <2> QED
    BY <2>3, <2>4, <2>5, <2>6
<1>18. CASE ~writing /\ InTrackBuffer(s)
  <2>1. end = totalTicks + k /\ Seek(s) = 0 /\ ready = totalTicks /\ from = settled
    BY <1>1, <1>9, <1>18 DEF ComputeLatency, k
  <2>2. end \in Nat \ {0} /\ ready <= end
    BY <1>1, <2>1
  <2>3. m + 1 <= b /\ m + 1 \in Nat
    BY <1>9, <1>13, <1>18
  <2>4. k * m + k <= k * b /\ k * m \in Int /\ k * b \in Int
    BY <1>10, <1>12, <1>13, <2>3
  <2>5. k * c <= k * m /\ k * c \in Int
    BY <1>6, <1>10, <1>12, <1>13 DEF m
  <2>6. Passes(s, from, end)
    <3>1. from \in Int /\ from <= k * m /\ k * m + k <= end
      BY <1>1, <1>2, <1>3, <1>5, <2>1, <2>4, <2>5
    <3> QED
      BY <1>7, <1>13, <2>2, <3>1, PassIntro DEF k
  <2>7. ~Passes(s, ready, end - 1)
    <3> SUFFICES ASSUME Passes(s, ready, end - 1) PROVE FALSE
      OBVIOUS
    <3>1. PICK i \in Nat : /\ i % SectorsPerTrack = s % SectorsPerTrack
                           /\ ready <= k * i /\ k * i + k <= end - 1
      <4>1. ready \in Int /\ end - 1 \in Nat
        BY <1>2, <2>2
      <4> QED
        BY <4>1, PassElim DEF k
    <3> QED
      BY <1>1, <1>10, <2>1, <3>1
  <2> QED
    BY <1>18, <2>1, <2>2, <2>6, <2>7 DEF k
<1> QED
  BY <1>17, <1>18

-----------------------------------------------------------------------------
(* The specification.                                                      *)

LEMMA TimingInitInv ==
  ASSUME ClockFits, TimingInit
  PROVE  TimingInv
<1>1. /\ SectorsPerTrack \in Nat \ {0} /\ NumTracks \in Nat \ {0}
      /\ RotationTime \in Nat \ {0} /\ IntMax \in Nat
  BY DiskAssumption
<1>2. SectorsPerTrack * NumTracks \in Nat \ {0}
  BY <1>1
<1>3. 0 \in DiskSectors
  BY <1>2 DEF DiskSectors
<1>4. TimingTypeOK
  BY <1>3 DEF TimingInit, TimingTypeOK
<1>5. BufferStart
  <2>1. RotationTime * 0 = 0 /\ (RotationTime * 0) % RotationTime = 0
    BY <1>1, MultipleMod
  <2> QED
    BY <1>1, <2>1 DEF TimingInit, BufferStart
<1> QED
  BY <1>4, <1>5 DEF TimingInit, TimingInv, HeadSettles, TransferUnderHead, NoLongerThanNeeded

LEMMA RequestInv ==
  ASSUME ClockFits, TimingInv, NEW s \in DiskSectors, NEW writing \in BOOLEAN, TimedRequest(s, writing)
  PROVE  TimingInv'
<1>1. /\ TimingTypeOK /\ BufferStart /\ settled <= totalTicks /\ totalTicks <= MaxTicks
      /\ serving = NoRequest
  BY DEF TimingInv, HeadSettles, TimedRequest
<1> DEFINE ready == totalTicks + Seek(s)
           from == IF Seek(s) # 0 THEN ready ELSE settled
           end == totalTicks + ComputeLatency(s, writing)
           r == [sector |-> s, writing |-> writing, at |-> totalTicks]
<1>2. /\ end \in Nat \ {0} /\ ready <= end
      /\ Passes(s, IF writing THEN ready ELSE from, end)
      /\ ~Passes(s, ready, end - 1)
      /\ ~writing /\ Passes(s, from, totalTicks) => end = totalTicks + RotationTime
  BY <1>1, Latency
<1>3. /\ s \in Nat /\ Seek(s) \in Nat /\ totalTicks \in Nat /\ settled \in Nat
      /\ RotationTime \in Nat \ {0}
  BY <1>1, Boundary, DiskAssumption DEF TimingTypeOK
<1>4. /\ serving' = r /\ due' = end /\ settled' = from /\ totalTicks' = totalTicks
      /\ lastSector' = s
      /\ bufferInit' = IF Seek(s) # 0 THEN TimeAfter(s) ELSE bufferInit
  BY DEF TimedRequest, UpdateLast
<1>5. ready \in Nat /\ from \in Nat /\ from <= ready
  BY <1>1, <1>3
<1>6. HeadReady' = ready
  <2>1. HeadReady' = IF from > totalTicks THEN from ELSE totalTicks
    BY <1>4 DEF HeadReady
  <2> QED
    BY <1>1, <1>3, <2>1
<1>7. r \in [sector : DiskSectors, writing : BOOLEAN, at : Nat] /\ r # NoRequest
  <2>1. r.at # -1
    BY <1>3
  <2> QED
    BY <1>3, <2>1 DEF NoRequest
<1>8. BufferStart' /\ bufferInit' \in Nat
  <2>1. CASE Seek(s) = 0
    BY <1>1, <1>4, <2>1 DEF BufferStart, TimingTypeOK
  <2>2. CASE Seek(s) # 0
    <3>1. PICK b \in Nat :
             /\ ready + Rotation(s) = RotationTime * b
             /\ TimeAfter(s) = RotationTime * b
             /\ RotationTime * b < ready + RotationTime
             /\ RotationTime * b \in 0 .. IntMax
      BY <1>1, Boundary
    <3>2. (RotationTime * b) % RotationTime = 0
      BY <1>3, MultipleMod
    <3>3. Rotation(s) \in Nat
      BY <1>1, Boundary
    <3>4. bufferInit' = RotationTime * b /\ settled' = ready
      BY <1>4, <2>2, <3>1
    <3>5. ready <= RotationTime * b
      BY <1>5, <3>1, <3>3
    <3>6. IntMax \in Nat
      BY DiskAssumption
    <3> HIDE DEF ready
    <3> QED
      BY <3>1, <3>2, <3>4, <3>5, <3>6 DEF BufferStart
  <2> QED
    BY <2>1, <2>2
<1> HIDE DEF r, ready, from, end
<1>9. TimingTypeOK'
  BY <1>2, <1>3, <1>4, <1>5, <1>7, <1>8 DEF TimingTypeOK
<1>10. HeadSettles'
  BY <1>2, <1>4, <1>5, <1>7 DEF HeadSettles
<1>11. /\ serving'.sector = s /\ serving'.writing = writing /\ serving'.at = totalTicks
  BY <1>4 DEF r
<1>12. TransferUnderHead'
  <2>1. Passes(s, IF writing THEN HeadReady' ELSE settled', due')
    BY <1>2, <1>4, <1>6, Zenon
  <2> QED
    BY <1>11, <2>1, Zenon DEF TransferUnderHead
<1>13. NoLongerThanNeeded'
  BY <1>2, <1>4, <1>6, <1>11 DEF NoLongerThanNeeded
<1> QED
  BY <1>8, <1>9, <1>10, <1>12, <1>13 DEF TimingInv

LEMMA TimingNextInv ==
  ASSUME ClockFits, TimingInv, [TimingNext]_timingVars
  PROVE  TimingInv'
<1>1. ASSUME NEW late \in 0 .. MaxDelay, TimedInterrupt(late) PROVE TimingInv'
  <2>1. late \in Nat /\ due \in Nat /\ settled \in Nat /\ serving # NoRequest
    BY <1>1, DiskAssumption DEF TimingInv, TimingTypeOK, TimedInterrupt
  <2>2. settled <= due
    BY <2>1 DEF TimingInv, HeadSettles
  <2> QED
    BY <1>1, <2>1, <2>2
    DEF TimingInv, TimingTypeOK, BufferStart, HeadSettles, TransferUnderHead, NoLongerThanNeeded,
        TimedInterrupt
<1>2. ASSUME NEW ticks \in 1 .. MaxDelay, Pause(ticks) PROVE TimingInv'
  <2>1. ticks \in Nat /\ totalTicks \in Nat /\ settled \in Nat
    BY <1>2, DiskAssumption DEF TimingInv, TimingTypeOK
  <2> QED
    BY <1>2, <2>1
    DEF TimingInv, TimingTypeOK, BufferStart, HeadSettles, TransferUnderHead, NoLongerThanNeeded, Pause
<1>3. CASE UNCHANGED timingVars
  BY <1>3
  DEF timingVars, TimingInv, TimingTypeOK, BufferStart, HeadSettles, TransferUnderHead, NoLongerThanNeeded,
      HeadReady
<1> QED
  BY <1>1, <1>2, <1>3, RequestInv DEF TimingNext, Quiet

(* The inductive invariant, for any geometry, speed, pauses and delays.    *)
THEOREM TimingInvariance == ASSUME ClockFits PROVE TimingSpec => []TimingInv
<1>1. TimingInit => TimingInv
  BY TimingInitInv
<1>2. TimingInv /\ [TimingNext]_timingVars => TimingInv'
  BY TimingNextInv
<1> QED
  BY <1>1, <1>2, PTL DEF TimingSpec

(* A request is complete only when all of its sector has gone past the     *)
(* head, since the head came to the track.                                 *)
THEOREM NeverTooSoon == ASSUME ClockFits PROVE TimingSpec => []TransferUnderHead
<1>1. TimingInv => TransferUnderHead
  BY DEF TimingInv
<1> QED
  BY <1>1, TimingInvariance, PTL

(* It takes no longer than to the first pass of its sector, and one        *)
(* RotationTime if the track buffer has the sector.                        *)
THEOREM NeverTooLate == ASSUME ClockFits PROVE TimingSpec => []NoLongerThanNeeded
<1>1. TimingInv => NoLongerThanNeeded
  BY DEF TimingInv
<1> QED
  BY <1>1, TimingInvariance, PTL

=============================================================================
