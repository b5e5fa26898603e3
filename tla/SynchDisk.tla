------------------------------ MODULE SynchDisk -----------------------------
(***************************************************************************)
(* The raw disk device (machine/disk.cc) and the synchronous disk built on *)
(* it (filesys/synchdisk.cc).                                              *)
(*                                                                         *)
(* A thread in ReadSector or WriteSector takes the lock, sends its request *)
(* to the device, waits on the semaphore that the interrupt handler V()s,  *)
(* and releases the lock.  The device transfers the data when it is asked  *)
(* and raises one interrupt later; how much later (ComputeLatency) does    *)
(* not matter here: any number of steps of other threads may come between. *)
(*                                                                         *)
(* Lock and Semaphore are not part of the repository (threads/synch.cc);   *)
(* they are modelled from how this code uses them.                         *)
(***************************************************************************)
EXTENDS Integers, FiniteSets

CONSTANTS Threads,     \* the kernel threads that use the disk
          Sectors,     \* 0 .. NumSectors-1 in disk.h
          Data,        \* what a sector can hold
          NoOp,        \* "no request", for a thread that is not in a call
          NoThread     \* the lock's holder when it is free

ASSUME ThreadsAssumption == NoThread \notin Threads

VARIABLES
    pc,          \* [Threads -> PCs], where each thread is in its call
    request,     \* [Threads -> Request \cup {NoOp}], the call's arguments
    buffer,      \* [Threads -> Data], the "data" buffer a read fills
    lock,        \* SynchDisk::lock, its holder
    semaphore,   \* SynchDisk::semaphore, its value
    active,      \* Disk::active
    diskInt,     \* number of DiskInt interrupts scheduled and not delivered
    content      \* [Sectors -> Data], the UNIX file behind the disk

deviceVars == <<active, diskInt, content>>
vars == <<pc, request, buffer, lock, semaphore, active, diskInt, content>>

PCs == {"idle", "Acquire", "Request", "P", "Release"}

Request == [kind : {"read", "write"}, sector : Sectors, data : Data]

Move(t, from, to) == pc[t] = from /\ pc' = [pc EXCEPT ![t] = to]
-----------------------------------------------------------------------------
(* The state the constructors leave: no request, the lock free, the        *)
(* semaphore 0, and whatever the disk file already holds.                  *)
Init ==
    /\ pc = [t \in Threads |-> "idle"]
    /\ request = [t \in Threads |-> NoOp]
    /\ buffer \in [Threads -> Data]
    /\ lock = NoThread
    /\ semaphore = 0
    /\ active = FALSE
    /\ diskInt = 0
    /\ content \in [Sectors -> Data]

(* A thread calls ReadSector or WriteSector.                               *)
Call(t, r) ==
    /\ Move(t, "idle", "Acquire")
    /\ request' = [request EXCEPT ![t] = r]
    /\ UNCHANGED <<buffer, lock, semaphore, active, diskInt, content>>

(* Mutant: the caller does not wait for the lock.                          *)
AcquireUnlocked(t) ==
    /\ Move(t, "Acquire", "Request")
    /\ lock' = t
    /\ UNCHANGED <<request, buffer, semaphore, active, diskInt, content>>

(* lock->Acquire(): waits until the lock is free.                          *)
Acquire(t) ==
    /\ lock = NoThread
    /\ Move(t, "Acquire", "Request")
    /\ lock' = t
    /\ UNCHANGED <<request, buffer, semaphore, active, diskInt, content>>

(* Mutant: the transfer into the caller's buffer is forgotten.             *)
ReadRequestNoTransfer(t) ==
    /\ request[t] # NoOp
    /\ request[t].kind = "read"
    /\ Move(t, "Request", "P")
    /\ active' = TRUE
    /\ diskInt' = diskInt + 1
    /\ UNCHANGED <<request, buffer, lock, semaphore, content>>

(* Disk::ReadRequest: the data is read at once, the interrupt comes later. *)
(* ASSERT(!active) is not a guard: it is what NoOverlappingRequest checks. *)
ReadRequest(t) ==
    /\ request[t] # NoOp
    /\ request[t].kind = "read"
    /\ Move(t, "Request", "P")
    /\ buffer' = [buffer EXCEPT ![t] = content[request[t].sector]]
    /\ active' = TRUE
    /\ diskInt' = diskInt + 1
    /\ UNCHANGED <<request, lock, semaphore, content>>

(* Disk::WriteRequest: the data is written at once.                        *)
WriteRequest(t) ==
    /\ request[t] # NoOp
    /\ request[t].kind = "write"
    /\ Move(t, "Request", "P")
    /\ content' = [content EXCEPT ![request[t].sector] = request[t].data]
    /\ active' = TRUE
    /\ diskInt' = diskInt + 1
    /\ UNCHANGED <<request, buffer, lock, semaphore>>

(* Disk::HandleInterrupt, which calls SynchDisk::RequestDone, which V()s.  *)
HandleInterrupt ==
    /\ diskInt > 0
    /\ diskInt' = diskInt - 1
    /\ active' = FALSE
    /\ semaphore' = semaphore + 1
    /\ UNCHANGED <<pc, request, buffer, lock, content>>

(* Mutant: P() returns at once when the value is 0.                        *)
PNoWait(t) ==
    /\ Move(t, "P", "Release")
    /\ semaphore' = IF semaphore > 0 THEN semaphore - 1 ELSE 0
    /\ UNCHANGED <<request, buffer, lock, active, diskInt, content>>

(* semaphore->P(): waits until the value is positive, then takes one.      *)
P(t) ==
    /\ semaphore > 0
    /\ Move(t, "P", "Release")
    /\ semaphore' = semaphore - 1
    /\ UNCHANGED <<request, buffer, lock, active, diskInt, content>>

(* Mutant: an early return that forgets the lock.                          *)
ReleaseForgotten(t) ==
    /\ Move(t, "Release", "idle")
    /\ request' = [request EXCEPT ![t] = NoOp]
    /\ UNCHANGED <<buffer, lock, semaphore, active, diskInt, content>>

(* lock->Release(), after which the call returns.                          *)
Release(t) ==
    /\ Move(t, "Release", "idle")
    /\ lock' = NoThread
    /\ request' = [request EXCEPT ![t] = NoOp]
    /\ UNCHANGED <<buffer, semaphore, active, diskInt, content>>

Step(t) ==
    \/ Acquire(t)
    \/ ReadRequest(t)
    \/ WriteRequest(t)
    \/ P(t)
    \/ Release(t)

Next ==
    \/ \E t \in Threads, r \in Request : Call(t, r)
    \/ \E t \in Threads : Step(t)
    \/ HandleInterrupt

Spec == Init /\ [][Next]_vars

(* A thread that can run does (the scheduler's ready list is a FIFO, and   *)
(* Interrupt::Idle advances the clock to a pending interrupt when nobody   *)
(* is ready), and a thread that keeps waiting for the lock gets it: the    *)
(* lock wakes its waiters in FIFO order.                                   *)
Fairness ==
    /\ WF_vars(HandleInterrupt)
    /\ \A t \in Threads :
         /\ SF_vars(Acquire(t))
         /\ WF_vars(ReadRequest(t) \/ WriteRequest(t) \/ P(t) \/ Release(t))

FairSpec == Spec /\ Fairness
-----------------------------------------------------------------------------
TypeOK ==
    /\ pc \in [Threads -> PCs]
    /\ request \in [Threads -> Request \cup {NoOp}]
    /\ buffer \in [Threads -> Data]
    /\ lock \in Threads \cup {NoThread}
    /\ semaphore \in Nat
    /\ active \in BOOLEAN
    /\ diskInt \in Nat
    /\ content \in [Sectors -> Data]

(* A request never reaches the device while another one is in progress:    *)
(* the ASSERT(!active) of Disk::ReadRequest and Disk::WriteRequest never   *)
(* fails, whatever the threads and the interrupt do.                       *)
NoOverlappingRequest ==
    \A t \in Threads : pc[t] = "Request" => ~active

(* ReadSector and WriteSector return "only once the data is actually read  *)
(* or written" (synchdisk.h): when P() lets a thread go, the interrupt it  *)
(* was woken by is the one of its own request, and none is left over that  *)
(* would let a later caller go too early.                                  *)
WokenByOwnInterrupt ==
    \A t \in Threads : pc[t] = "Release" =>
        ~active /\ diskInt = 0 /\ semaphore = 0

(* The lock is held by exactly the thread between Acquire and Release.     *)
Holding(t) == pc[t] \in {"Request", "P", "Release"}
LockHolder == \A t \in Threads : Holding(t) <=> lock = t

(* The device, the scheduled interrupt and the semaphore account for one   *)
(* wake-up, exactly while some thread waits for it.                        *)
OneWakeUp ==
    /\ active <=> diskInt = 1
    /\ diskInt + semaphore = IF \E t \in Threads : pc[t] = "P" THEN 1 ELSE 0

(* A thread has a request exactly while it is in a call.                   *)
RequestWhileCalled ==
    \A t \in Threads : pc[t] # "idle" => request[t] \in Request

(* The inductive invariant behind the two properties above.                *)
IInv ==
    /\ TypeOK
    /\ LockHolder
    /\ OneWakeUp
    /\ RequestWhileCalled

(* Every call returns: no wake-up is lost and no thread waits forever.     *)
CallsReturn == \A t \in Threads : pc[t] # "idle" ~> pc[t] = "idle"
-----------------------------------------------------------------------------
(* SynchDisk implements the atomic disk: a call takes effect at the        *)
(* instant its request is sent to the device.                              *)
phaseBar == [t \in Threads |->
                CASE pc[t] = "idle" -> "idle"
                  [] pc[t] \in {"Acquire", "Request"} -> "called"
                  [] OTHER -> "done"]

AD == INSTANCE AtomicDisk WITH phase <- phaseBar, result <- buffer

AtomicDiskSpec == AD!ASpec
=============================================================================
