------------------------------ MODULE Interrupt -----------------------------
(***************************************************************************)
(* The simulation of the processor's interrupts and clock                  *)
(* (machine/interrupt.cc) and the timer device (machine/timer.cc), under   *)
(* threads that run user and kernel code, ask a device for something, wait *)
(* for it and finish.                                                      *)
(*                                                                         *)
(* Only the differences between an interrupt's time and the clock matter,  *)
(* so a pending interrupt carries "due", when - stats->totalTicks, and the *)
(* clock's advance makes all of them smaller: the model has finitely many  *)
(* states and runs forever.                                                *)
(*                                                                         *)
(* OneTick, Yield, Sleep and Idle call one another on a thread's stack.    *)
(* "frames" is that stack, with the locals that are read after the call.   *)
(* Thread, Scheduler and Semaphore are external (threads/ is not in the    *)
(* repository): a FIFO of ready threads, one semaphore for each thread,    *)
(* which its device V()s.                                                  *)
(***************************************************************************)
EXTENDS Integers, Sequences, FiniteSets, SequencesExt

CONSTANTS
    Threads,        \* the kernel's threads
    Main,           \* the one that boots Nachos
    SystemTick,     \* stats.h: ticks for enabling interrupts in the kernel, 10
    UserTick,       \* stats.h: ticks of a user instruction, 1
    TimerDelays,    \* what TimeOfNextInterrupt may return
    DeviceDelays,   \* how long the devices may take
    MaxFrames       \* bound: depth of a stack at which the timer's handler
                    \*   does not ask for a switch

ASSUME TicksAssumption ==
    /\ SystemTick \in Nat \ {0} /\ UserTick \in 1 .. SystemTick
    /\ TimerDelays \subseteq Nat \ {0} /\ DeviceDelays \subseteq Nat \ {0}
ASSUME ThreadsAssumption == Main \in Threads /\ IsFiniteSet(Threads)

VARIABLES
    level,          \* Interrupt::level
    pending,        \* Interrupt::pending
    inHandler,      \* Interrupt::inHandler
    yieldOnReturn,  \* Interrupt::yieldOnReturn
    status,         \* Interrupt::status, or "halted" after Halt
    handling,       \* CheckIfDue's toOccur and old, <<>> outside a handler
    frames,         \* [Threads -> Seq(Frame)], the stacks
    current,        \* currentThread
    ready,          \* the scheduler's ready list
    value,          \* [Threads -> Nat], the semaphores' values
    queue,          \* the threads that are in their semaphore's queue
    mode            \* [Threads -> {"user", "kernel", "finished"}], the code the
                    \*   thread is in

cpuVars == <<level, pending, inHandler, yieldOnReturn, status, handling>>
threadVars == <<frames, current, ready, value, queue, mode>>
vars == <<cpuVars, threadVars>>

Frame == [at : {"CheckIfDue", "Yield", "Restore"},
          old : {"SystemMode", "UserMode"}]
         \cup [at : {"FindNext", "Idle", "IdleMore", "Sleep"},
               old : {"IntOff", "IntOn"}]

Pending == [type : {"TimerInt", "DiskInt"}, due : Int, arg : Threads]

(* Where a thread is: in the function on top of its stack, or in its own   *)
(* code.                                                                   *)
Where(t) == IF frames[t] = <<>> THEN "code" ELSE Last(frames[t]).at
At(place) == status # "halted" /\ ~inHandler /\ Where(current) = place
Caller == Front(frames[current])
Local == Last(frames[current]).old

Stack(s) == frames' = [frames EXCEPT ![current] = s]
Goto(place) == Stack(Append(Caller, [at |-> place, old |-> Local]))
-----------------------------------------------------------------------------
(* The clock advances.                                                     *)
Elapsed(ticks) == {[p EXCEPT !.due = @ - ticks] : p \in pending}

(* pending->SortedRemove: one of the earliest.                             *)
Earliest(p) == p \in pending /\ \A q \in pending : p.due <= q.due

(* Interrupt::OneTick, up to its loop, called with stack s and status st.  *)
OneTick(s, st) ==
    /\ pending' = Elapsed(IF st = "SystemMode" THEN SystemTick ELSE UserTick)
    /\ level' = "IntOff"
    /\ Stack(Append(s, [at |-> "CheckIfDue", old |-> st]))

(* Interrupt::CheckIfDue, once an interrupt p has been taken out of the    *)
(* list and is to be handled; "rest" are those that stay.  The delayed     *)
(* load of a user program that is done first is in module Machine.         *)
Invoke(p, rest) ==
    /\ pending' = rest
    /\ handling' = <<[p |-> p, old |-> status]>>
    /\ inHandler' = TRUE
    /\ status' = "SystemMode"

(* CheckIfDue puts the timer back if there is nothing else to wait for.    *)
OnlyTimer(p) == status = "IdleMode" /\ p.type = "TimerInt" /\ pending = {p}

(* Mutant: the flag is not reset.                                          *)
HandledInHandler ==
    /\ status' = handling[1].old
    /\ handling' = <<>>
    /\ UNCHANGED inHandler

(* The handler returns.                                                    *)
Handled ==
    /\ status' = handling[1].old
    /\ inHandler' = FALSE
    /\ handling' = <<>>

-----------------------------------------------------------------------------
(* Interrupts start disabled, with nothing pending but the timer; the      *)
(* other threads have been forked.                                         *)
Init ==
    /\ level = "IntOff"
    /\ pending \in {{[type |-> "TimerInt", due |-> d, arg |-> Main]} : d \in TimerDelays}
                   \cup (IF TimerDelays = {} THEN {{}} ELSE {})
    /\ inHandler = FALSE
    /\ yieldOnReturn = FALSE
    /\ status = "SystemMode"
    /\ handling = <<>>
    /\ frames = [t \in Threads |-> <<>>]
    /\ current = Main
    /\ ready \in SetToSeqs(Threads \ {Main})
    /\ value = [t \in Threads |-> 0]
    /\ queue = {}
    /\ mode = [t \in Threads |-> "kernel"]
-----------------------------------------------------------------------------
(* What a thread does.  An iteration of Machine::Run: an instruction and   *)
(* the tick after it ...                                                   *)
Instruction ==
    /\ At("code")
    /\ mode[current] = "user"
    /\ OneTick(<<>>, status)
    /\ UNCHANGED <<inHandler, yieldOnReturn, status, handling, current, ready, value, queue, mode>>

(* ... or an instruction that raises an exception: Machine::RaiseException *)
(* enters the kernel ...                                                   *)
RaiseException ==
    /\ At("code")
    /\ mode[current] = "user"
    /\ status' = "SystemMode"
    /\ mode' = [mode EXCEPT ![current] = "kernel"]
    /\ UNCHANGED <<level, pending, inHandler, yieldOnReturn, handling, frames, current, ready, value, queue>>

(* ... and returns from it, which is followed by the tick.  Machine::Run   *)
(* enters user mode in the same way, with its first instruction.           *)
ReturnToUser ==
    /\ At("code")
    /\ mode[current] = "kernel"
    /\ level = "IntOn"
    /\ status' = "UserMode"
    /\ mode' = [mode EXCEPT ![current] = "user"]
    /\ OneTick(<<>>, "UserMode")
    /\ UNCHANGED <<inHandler, yieldOnReturn, handling, current, ready, value, queue>>

(* SetLevel(IntOff) in the kernel ...                                      *)
Disable ==
    /\ At("code")
    /\ mode[current] = "kernel"
    /\ level = "IntOn"
    /\ level' = "IntOff"
    /\ UNCHANGED <<pending, inHandler, yieldOnReturn, status, handling, threadVars>>

(* ... and SetLevel(IntOn).                                                *)
Enable ==
    /\ At("code")
    /\ mode[current] = "kernel"
    /\ level = "IntOff"
    /\ OneTick(<<>>, status)
    /\ UNCHANGED <<inHandler, yieldOnReturn, status, handling, current, ready, value, queue, mode>>

(* A device is given a request for the thread and calls Schedule.  It      *)
(* takes one request at a time.                                            *)
Schedule(d) ==
    /\ At("code")
    /\ mode[current] = "kernel"
    /\ value[current] = 0
    /\ \A p \in pending : p.type = "DiskInt" => p.arg # current
    /\ pending' = pending \cup {[type |-> "DiskInt", due |-> d, arg |-> current]}
    /\ UNCHANGED <<level, inHandler, yieldOnReturn, status, handling, threadVars>>

(* Semaphore::P, on a positive value: interrupts off, on as they were.     *)
PTakes ==
    /\ At("code")
    /\ mode[current] = "kernel"
    /\ value[current] > 0
    /\ value' = [value EXCEPT ![current] = @ - 1]
    /\ \/ level = "IntOn" /\ OneTick(<<>>, status)
       \/ level = "IntOff" /\ UNCHANGED <<level, pending, frames>>
    /\ UNCHANGED <<inHandler, yieldOnReturn, status, handling, current, ready, queue, mode>>

(* Semaphore::P on 0 joins the queue and sleeps; a thread does so when its *)
(* device is at work for it.                                               *)
PSleeps ==
    /\ At("code")
    /\ mode[current] = "kernel"
    /\ value[current] = 0
    /\ \E p \in pending : p.type = "DiskInt" /\ p.arg = current
    /\ queue' = queue \cup {current}
    /\ level' = "IntOff"
    /\ Stack(<<[at |-> "FindNext", old |-> level]>>)
    /\ UNCHANGED <<pending, inHandler, yieldOnReturn, status, handling, current, ready, value, mode>>

(* Thread::Finish: sleeps for good.                                        *)
Finish ==
    /\ At("code")
    /\ mode[current] = "kernel"
    /\ mode' = [mode EXCEPT ![current] = "finished"]
    /\ level' = "IntOff"
    /\ Stack(<<[at |-> "FindNext", old |-> level]>>)
    /\ UNCHANGED <<pending, inHandler, yieldOnReturn, status, handling, current, ready, value, queue>>

(* The sleeper was woken by V() and switched to: P() takes the value and   *)
(* sets the level to what it was.                                          *)
Wake ==
    /\ At("Sleep")
    /\ value[current] > 0
    /\ value' = [value EXCEPT ![current] = @ - 1]
    /\ \/ Local = "IntOn" /\ OneTick(Caller, status)
       \/ Local = "IntOff" /\ Stack(Caller) /\ UNCHANGED <<level, pending>>
    /\ UNCHANGED <<inHandler, yieldOnReturn, status, handling, current, ready, queue, mode>>
-----------------------------------------------------------------------------
(* OneTick's loop: an interrupt is due ...                                 *)
TickHandles(p) ==
    /\ At("CheckIfDue")
    /\ Earliest(p)
    /\ p.due <= 0
    /\ Invoke(p, pending \ {p})
    /\ UNCHANGED <<level, yieldOnReturn, threadVars>>

(* Mutant: "if" instead of "while".                                        *)
TickEndsEarly ==
    /\ At("CheckIfDue")
    /\ ~yieldOnReturn
    /\ level' = "IntOn"
    /\ Stack(Caller)
    /\ UNCHANGED <<pending, inHandler, yieldOnReturn, status, handling, current, ready, value, queue, mode>>

(* ... or none is: interrupts are enabled ...                              *)
TickEnds ==
    /\ At("CheckIfDue")
    /\ \A p \in pending : p.due > 0
    /\ ~yieldOnReturn
    /\ level' = "IntOn"
    /\ Stack(Caller)
    /\ UNCHANGED <<pending, inHandler, yieldOnReturn, status, handling, current, ready, value, queue, mode>>

(* Thread::Yield, which disables interrupts: the thread goes to the end of *)
(* the ready list, unless it is alone.                                     *)
Yield ==
    \/ /\ ready = <<>>
       /\ UNCHANGED <<current, ready>>
    \/ /\ ready # <<>>
       /\ current' = Head(ready)
       /\ ready' = Append(Tail(ready), current)

(* Mutant: the status is left as it was in the interrupted thread.         *)
TickYieldsInUserMode ==
    /\ At("CheckIfDue")
    /\ \A p \in pending : p.due > 0
    /\ yieldOnReturn
    /\ yieldOnReturn' = FALSE
    /\ Goto("Yield")
    /\ Yield
    /\ UNCHANGED <<level, pending, inHandler, status, handling, value, queue, mode>>

(* ... and the switch that the timer's handler asked for is made.          *)
TickYields ==
    /\ At("CheckIfDue")
    /\ \A p \in pending : p.due > 0
    /\ yieldOnReturn
    /\ yieldOnReturn' = FALSE
    /\ status' = "SystemMode"
    /\ Goto("Yield")
    /\ Yield
    /\ UNCHANGED <<level, pending, inHandler, handling, value, queue, mode>>

(* A thread that yielded runs again: Yield ends with SetLevel(IntOn) ...   *)
YieldReturns ==
    /\ At("Yield")
    /\ OneTick(Append(Caller, [at |-> "Restore", old |-> Local]), status)
    /\ UNCHANGED <<inHandler, yieldOnReturn, status, handling, current, ready, value, queue, mode>>

(* ... and OneTick with status = old.                                      *)
TickRestores ==
    /\ At("Restore")
    /\ status' = Local
    /\ Stack(Caller)
    /\ UNCHANGED <<level, pending, inHandler, yieldOnReturn, handling, current, ready, value, queue, mode>>
-----------------------------------------------------------------------------
(* Thread::Sleep: another thread is ready ...                              *)
FindNextToRun ==
    /\ At("FindNext")
    /\ ready # <<>>
    /\ Goto("Sleep")
    /\ current' = Head(ready)
    /\ ready' = Tail(ready)
    /\ UNCHANGED <<cpuVars, value, queue, mode>>

(* ... or the machine is idle.                                             *)
Idle ==
    /\ At("FindNext")
    /\ ready = <<>>
    /\ status' = "IdleMode"
    /\ Goto("Idle")
    /\ UNCHANGED <<level, pending, inHandler, yieldOnReturn, handling, current, ready, value, queue, mode>>

(* Idle's CheckIfDue(TRUE): the clock is advanced to the next interrupt,   *)
(* which is handled ...                                                    *)
IdleHandles(p) ==
    /\ At("Idle")
    /\ Earliest(p)
    /\ ~OnlyTimer(p)
    /\ LET wait == IF p.due > 0 THEN p.due ELSE 0 IN
       Invoke([p EXCEPT !.due = @ - wait], Elapsed(wait) \ {[p EXCEPT !.due = @ - wait]})
    /\ Goto("IdleMore")
    /\ UNCHANGED <<level, yieldOnReturn, current, ready, value, queue, mode>>

(* Mutant: Idle stops whenever the timer comes next.                       *)
HaltsOnTimer ==
    /\ At("Idle")
    /\ \A p \in pending : Earliest(p) => p.type = "TimerInt"
    /\ status' = "halted"
    /\ UNCHANGED <<level, pending, inHandler, yieldOnReturn, handling, threadVars>>

(* ... or there is none but the timer, and Idle calls Halt.                *)
Halt ==
    /\ At("Idle")
    /\ \A p \in pending : OnlyTimer(p)
    /\ pending' = {[p EXCEPT !.due = IF @ > 0 THEN 0 ELSE @] : p \in pending}
    /\ status' = "halted"
    /\ UNCHANGED <<level, inHandler, yieldOnReturn, handling, threadVars>>

(* Idle's CheckIfDue(FALSE): others that are due are handled ...           *)
IdleHandlesMore(p) ==
    /\ At("IdleMore")
    /\ Earliest(p)
    /\ p.due <= 0
    /\ ~OnlyTimer(p)
    /\ Invoke(p, pending \ {p})
    /\ UNCHANGED <<level, yieldOnReturn, threadVars>>

(* ... and Idle returns to Sleep.                                          *)
IdleReturns ==
    /\ At("IdleMore")
    /\ \A p \in pending : p.due > 0 \/ OnlyTimer(p)
    /\ yieldOnReturn' = FALSE
    /\ status' = "SystemMode"
    /\ Goto("FindNext")
    /\ UNCHANGED <<level, pending, inHandler, handling, current, ready, value, queue, mode>>
-----------------------------------------------------------------------------
(* Mutant: the timer runs once.                                            *)
TimerExpiredOnce(d) ==
    /\ inHandler
    /\ handling[1].p.type = "TimerInt"
    /\ yieldOnReturn' = (yieldOnReturn \/ Len(frames[current]) < MaxFrames)
    /\ Handled
    /\ UNCHANGED <<level, pending, threadVars>>

(* Timer::TimerExpired schedules the next interrupt and calls the kernel's *)
(* handler (external), which calls YieldOnReturn.                          *)
TimerExpired(d) ==
    /\ inHandler
    /\ handling[1].p.type = "TimerInt"
    /\ pending' = pending \cup {[type |-> "TimerInt", due |-> d, arg |-> handling[1].p.arg]}
    /\ yieldOnReturn' = (yieldOnReturn \/ Len(frames[current]) < MaxFrames)
    /\ Handled
    /\ UNCHANGED <<level, threadVars>>

(* A device's handler calls the kernel's, which V()s the semaphore.        *)
DeviceDone ==
    /\ inHandler
    /\ handling[1].p.type = "DiskInt"
    /\ LET t == handling[1].p.arg IN
       /\ value' = [value EXCEPT ![t] = @ + 1]
       /\ ready' = IF t \in queue THEN Append(ready, t) ELSE ready
       /\ queue' = queue \ {t}
    /\ Handled
    /\ UNCHANGED <<level, pending, yieldOnReturn, frames, current, mode>>

(* Nachos has exited.                                                      *)
Halted == status = "halted" /\ UNCHANGED vars
-----------------------------------------------------------------------------
Code ==
    \/ Instruction
    \/ RaiseException
    \/ ReturnToUser
    \/ Disable
    \/ Enable
    \/ \E d \in DeviceDelays : Schedule(d)
    \/ PTakes
    \/ PSleeps
    \/ Finish

Kernel ==
    \/ Wake
    \/ \E p \in pending : TickHandles(p)
    \/ TickEnds
    \/ TickYields
    \/ YieldReturns
    \/ TickRestores
    \/ FindNextToRun
    \/ Idle
    \/ \E p \in pending : IdleHandles(p)
    \/ Halt
    \/ \E p \in pending : IdleHandlesMore(p)
    \/ IdleReturns
    \/ \E d \in TimerDelays : TimerExpired(d)
    \/ DeviceDone

Next == Code \/ Kernel \/ Halted

Spec == Init /\ [][Next]_vars

(* The processor goes on, and kernel code ends: it enables interrupts,     *)
(* sleeps, finishes or returns to user code.  User code may go on forever. *)
Fairness ==
    /\ WF_vars(Kernel)
    /\ \A t \in Threads :
         /\ WF_vars(current = t /\ (Enable \/ PSleeps \/ Finish \/ ReturnToUser))
         /\ WF_vars(current = t /\ (Instruction \/ RaiseException))

FairSpec == Spec /\ Fairness
-----------------------------------------------------------------------------
TypeOK ==
    /\ level \in {"IntOff", "IntOn"}
    /\ pending \subseteq Pending
    /\ inHandler \in BOOLEAN
    /\ yieldOnReturn \in BOOLEAN
    /\ status \in {"IdleMode", "SystemMode", "UserMode", "halted"}
    /\ handling \in Seq([p : Pending, old : {"IdleMode", "SystemMode", "UserMode"}])
    /\ inHandler => Len(handling) = 1
    /\ ~inHandler => handling = <<>>
    /\ frames \in [Threads -> Seq(Frame)]
    /\ current \in Threads
    /\ ready \in Seq(Threads)
    /\ value \in [Threads -> Nat]
    /\ queue \subseteq Threads
    /\ mode \in [Threads -> {"user", "kernel", "finished"}]

(* The parts of the inductive invariant.  Stacks: below the top there are  *)
(* only calls of OneTick that wait for Yield; a thread's first OneTick     *)
(* saves the status of its code, the nested ones that of the kernel.       *)
CodeStatus(m) == IF m = "user" THEN "UserMode" ELSE "SystemMode"
ThreadStatus(t) == CodeStatus(mode[t])
Sleeping == {"FindNext", "Idle", "IdleMore", "Sleep"}
Shaped(s, m) ==
    \A i \in 1 .. Len(s) :
        /\ i < Len(s) => s[i].at = "Restore"
        /\ s[i].at \in Sleeping => i = 1 /\ m # "user"
        /\ s[i].at \notin Sleeping =>
             m # "finished" /\ s[i].old = IF i = 1 THEN CodeStatus(m) ELSE "SystemMode"
StackShape == \A t \in Threads : Shaped(frames[t], mode[t])

(* Threads that do not run are at a point where they may be switched to.   *)
SwitchedOut ==
    \A t \in Threads \ {current} :
        /\ Where(t) \in {"code", "Yield", "Sleep"}
        /\ Where(t) = "code" => mode[t] = "kernel"

(* The status, where it is not about to be overwritten.                    *)
StatusAt(place) ==
    IF place = "code" THEN ThreadStatus(current)
    ELSE IF place = "CheckIfDue" THEN Local
    ELSE IF place \in {"Idle", "IdleMore"} THEN "IdleMode"
    ELSE "SystemMode"
StatusSaved ==
    /\ status # "halted" /\ ~inHandler /\ Where(current) # "Restore"
         => status = StatusAt(Where(current))
    /\ inHandler => handling[1].old = StatusAt(Where(current))

(* Handlers run, and switches are requested, inside the two loops that     *)
(* look for interrupts that are due.                                       *)
InLoop ==
    /\ inHandler => Where(current) \in {"CheckIfDue", "IdleMore"} /\ level = "IntOff"
    /\ yieldOnReturn => Where(current) \in {"CheckIfDue", "IdleMore"}
    /\ level = "IntOn" => Where(current) \in {"code", "Restore"}
    /\ status = "halted" => ~inHandler /\ Where(current) = "Idle"

(* How late an interrupt can be.                                           *)
Overdue ==
    /\ level = "IntOn" => \A p \in pending : p.due > 0
    /\ Where(current) # "CheckIfDue" => \A p \in pending : p.due >= 0
    /\ \A p \in pending : p.due >= -SystemTick
    /\ inHandler => handling[1].p.due \in -SystemTick .. 0

(* Off the processor a thread is ready, or waits in its semaphore's queue  *)
(* for a device that is at work for it, or has finished; one that is ready *)
(* again has been V()ed.  The machine idles only when none is ready.       *)
OffProcessor(t) == t # current \/ Where(t) \in {"FindNext", "Idle", "IdleMore"}
Requested(t) ==
    \/ \E p \in pending : p.type = "DiskInt" /\ p.arg = t
    \/ inHandler /\ handling[1].p.type = "DiskInt" /\ handling[1].p.arg = t
Scheduled ==
    /\ IsInjective(ready)
    /\ \A t \in queue :
         /\ OffProcessor(t) /\ mode[t] # "finished" /\ Where(t) \in Sleeping
         /\ t \notin ToSet(ready)
         /\ Requested(t)
    /\ \A t \in ToSet(ready) :
         /\ OffProcessor(t) /\ mode[t] # "finished"
         /\ Where(t) \in Sleeping => value[t] > 0
    /\ \A t \in Threads : OffProcessor(t) =>
         t \in queue \/ t \in ToSet(ready) \/ mode[t] = "finished"
    /\ Where(current) = "Sleep" => value[current] > 0 /\ mode[current] # "finished"
    /\ Where(current) = "Idle" => ready = <<>>
    /\ status = "halted" => \A p \in pending : p.type = "TimerInt"

IInv ==
    /\ TypeOK
    /\ StackShape
    /\ SwitchedOut
    /\ StatusSaved
    /\ InLoop
    /\ Overdue
    /\ Scheduled

(* No interrupt waits that could be delivered: whenever interrupts are     *)
(* enabled, all that are pending lie in the future, whatever was scheduled *)
(* and however long the kernel kept them disabled.                         *)
NoneDueWhenEnabled == level = "IntOn" => \A p \in pending : p.due > 0

(* A handler runs neither before its interrupt's time nor more than one    *)
(* kernel tick after it, with interrupts disabled.                         *)
HandledOnTime ==
    inHandler => level = "IntOff" /\ handling[1].p.due \in -SystemTick .. 0

(* A thread's code finds the machine status of that thread, whichever      *)
(* threads ran, slept or were switched out of user code in between.        *)
StatusIsThreadsOwn ==
    At("code") => status = ThreadStatus(current)

(* A switch that a handler asks for happens before the interrupted thread  *)
(* goes on, and only then.                                                 *)
NoStaleYield == At("code") => ~yieldOnReturn

(* "Assuming the program completed" (interrupt.cc:222): Idle stops Nachos  *)
(* only when every thread has finished and no device is still at work.     *)
HaltsWhenDone ==
    status = "halted" =>
        /\ \A t \in Threads : mode[t] = "finished"
        /\ \A p \in pending : p.type = "TimerInt"

(* With the timer every thread that is ready gets to run, even if the      *)
(* others execute user code forever.                                       *)
ReadyRuns ==
    \A t \in Threads : (t \in ToSet(ready)) ~> (current = t)
=============================================================================
