--------------------------- MODULE InterruptProofs --------------------------
(***************************************************************************)
(* For any threads, ticks and delays: an interrupt is handled in time and  *)
(* with interrupts disabled, a thread's code finds its own machine status, *)
(* and Nachos halts only when every thread has finished.  All of it rests  *)
(* on the inductive invariant IInv.                                        *)
(***************************************************************************)
EXTENDS Interrupt, TLAPS, SequenceTheorems, FiniteSetTheorems

-----------------------------------------------------------------------------
(* What calls and returns do to a stack.                                   *)

(* A call pushes its frame.                                                *)
LEMMA Push ==
  ASSUME NEW s \in Seq(Frame), NEW f \in Frame
  PROVE  /\ Append(s, f) \in Seq(Frame)
         /\ Append(s, f) # <<>>
         /\ Last(Append(s, f)) = f
         /\ Front(Append(s, f)) = s
<1>1. /\ Append(s, f) \in Seq(Frame)
      /\ Len(Append(s, f)) = Len(s) + 1
      /\ Append(s, f)[Len(s) + 1] = f
      /\ \A i \in 1 .. Len(s) : Append(s, f)[i] = s[i]
  BY AppendProperties
<1>2. Len(s) \in Nat
  BY LenProperties
<1>3. Append(s, f) # <<>>
  BY <1>1, <1>2
<1>4. Front(Append(s, f)) = s
  <2>1. Front(Append(s, f)) = SubSeq(Append(s, f), 1, Len(s))
    BY <1>1, <1>2 DEF Front
  <2>2. \A i \in 1 .. Len(s) : Append(s, f)[i] \in Frame
    BY <1>1, ElementOfSeq
  <2>3. /\ Front(Append(s, f)) \in Seq(Frame)
        /\ Len(Front(Append(s, f))) = Len(s)
        /\ \A i \in 1 .. Len(s) : Front(Append(s, f))[i] = s[i]
    BY <2>1, <2>2, <1>1, <1>2, SubSeqProperties
  <2> QED
    BY <2>3, SeqEqual
<1> QED
  BY <1>1, <1>2, <1>3, <1>4 DEF Last

(* A return pops it.                                                       *)
LEMMA Pop ==
  ASSUME NEW s \in Seq(Frame), s # <<>>
  PROVE  /\ Len(s) \in Nat \ {0}
         /\ Last(s) \in Frame
         /\ Front(s) \in Seq(Frame)
         /\ Len(Front(s)) = Len(s) - 1
         /\ \A i \in 1 .. Len(s) - 1 : Front(s)[i] = s[i]
<1>1. Len(s) \in Nat \ {0}
  BY EmptySeq, LenProperties
<1>2. \A i \in 1 .. Len(s) : s[i] \in Frame
  BY ElementOfSeq
<1>3. /\ Front(s) \in Seq(Frame)
      /\ Len(Front(s)) = Len(s) - 1
      /\ \A i \in 1 .. Len(s) - 1 : Front(s)[i] = s[i]
  BY <1>1, <1>2, SubSeqProperties DEF Front
<1> QED
  BY <1>1, <1>2, <1>3 DEF Last

(* The stack that a return leaves has the right shape and is empty or in   *)
(* one of the calls of OneTick that wait for Yield.                        *)
LEMMA ShapedPop ==
  ASSUME NEW s \in Seq(Frame), s # <<>>, NEW m, Shaped(s, m)
  PROVE  /\ Shaped(Front(s), m)
         /\ Front(s) = <<>> \/ Last(Front(s)).at = "Restore"
         /\ Last(s).at \in Sleeping => Front(s) = <<>> /\ m # "user"
         /\ Last(s).at \notin Sleeping =>
              /\ m # "finished"
              /\ Last(s).old = IF Front(s) = <<>> THEN CodeStatus(m) ELSE "SystemMode"
<1>1. /\ Len(s) \in Nat \ {0}
      /\ Front(s) \in Seq(Frame)
      /\ Len(Front(s)) = Len(s) - 1
      /\ \A i \in 1 .. Len(s) - 1 : Front(s)[i] = s[i]
  BY Pop
<1>2. Front(s) = <<>> <=> Len(s) = 1
  BY <1>1, EmptySeq
<1>3. Shaped(Front(s), m)
  BY <1>1 DEF Shaped
<1>4. Front(s) # <<>> => Last(Front(s)).at = "Restore"
  BY <1>1, <1>2 DEF Shaped, Last
<1>5. /\ Last(s).at \in Sleeping => Len(s) = 1 /\ m # "user"
      /\ Last(s).at \notin Sleeping =>
           m # "finished" /\ Last(s).old = IF Len(s) = 1 THEN CodeStatus(m) ELSE "SystemMode"
  BY <1>1 DEF Shaped, Last
<1> QED
  BY <1>2, <1>3, <1>4, <1>5

(* A call keeps the shape.                                                 *)
LEMMA ShapedPush ==
  ASSUME NEW s \in Seq(Frame), NEW f \in Frame, NEW m, Shaped(s, m),
         s = <<>> \/ Last(s).at = "Restore",
         f.at \in Sleeping => s = <<>> /\ m # "user",
         f.at \notin Sleeping =>
           m # "finished" /\ f.old = IF s = <<>> THEN CodeStatus(m) ELSE "SystemMode"
  PROVE  Shaped(Append(s, f), m)
<1>1. /\ Append(s, f) \in Seq(Frame)
      /\ Len(Append(s, f)) = Len(s) + 1
      /\ Append(s, f)[Len(s) + 1] = f
      /\ \A i \in 1 .. Len(s) : Append(s, f)[i] = s[i]
  BY AppendProperties
<1>2. Len(s) \in Nat /\ (s = <<>> <=> Len(s) = 0)
  BY EmptySeq, LenProperties
<1>3. s # <<>> => s[Len(s)].at = "Restore"
  BY DEF Last
<1> SUFFICES ASSUME NEW i \in 1 .. Len(s) + 1
             PROVE  LET g == Append(s, f)[i] IN
                    /\ i < Len(s) + 1 => g.at = "Restore"
                    /\ g.at \in Sleeping => i = 1 /\ m # "user"
                    /\ g.at \notin Sleeping =>
                         m # "finished" /\ g.old = IF i = 1 THEN CodeStatus(m) ELSE "SystemMode"
  BY <1>1 DEF Shaped
<1>4. CASE i = Len(s) + 1
  BY <1>1, <1>2, <1>4
<1>5. CASE i \in 1 .. Len(s)
  <2>1. Append(s, f)[i] = s[i] /\ i < Len(s) + 1
    BY <1>1, <1>2, <1>5
  <2>2. s[i].at = "Restore"
    BY <1>2, <1>3, <1>5 DEF Shaped
  <2> QED
    BY <2>1, <2>2, <1>5 DEF Shaped
<1> QED
  BY <1>2, <1>4, <1>5

(* What Stack(s) does: the other threads' stacks stay.                     *)
LEMMA StackIs ==
  ASSUME TypeOK, NEW s \in Seq(Frame), Stack(s)
  PROVE  /\ frames' \in [Threads -> Seq(Frame)]
         /\ frames'[current] = s
         /\ \A t \in Threads : t # current => frames'[t] = frames[t]
  BY DEF TypeOK, Stack

-----------------------------------------------------------------------------
(* The ready list: a thread leaves it at the front, once ...               *)
LEMMA Dequeue ==
  ASSUME NEW s \in Seq(Threads), s # <<>>, IsInjective(s)
  PROVE  /\ Head(s) \in Threads /\ Head(s) \in ToSet(s)
         /\ Tail(s) \in Seq(Threads)
         /\ IsInjective(Tail(s))
         /\ ToSet(Tail(s)) = ToSet(s) \ {Head(s)}
<1>1. /\ Head(s) \in Threads
      /\ Tail(s) \in Seq(Threads)
      /\ Len(Tail(s)) = Len(s) - 1
      /\ \A i \in 1 .. Len(Tail(s)) : Tail(s)[i] = s[i + 1]
  BY HeadTailProperties
<1>2. /\ Len(s) \in Nat \ {0}
      /\ DOMAIN s = 1 .. Len(s)
      /\ DOMAIN Tail(s) = 1 .. Len(s) - 1
      /\ Head(s) = s[1]
  BY <1>1, EmptySeq, LenProperties
<1>3. Head(s) \in ToSet(s)
  BY <1>2 DEF ToSet
<1>4. IsInjective(Tail(s))
  BY <1>1, <1>2 DEF IsInjective
<1>5. ToSet(Tail(s)) \subseteq ToSet(s) \ {Head(s)}
  BY <1>1, <1>2 DEF ToSet, IsInjective
<1>6. ASSUME NEW t \in ToSet(s), t # Head(s) PROVE t \in ToSet(Tail(s))
  <2>1. PICK i \in 1 .. Len(s) : t = s[i]
    BY <1>2 DEF ToSet
  <2>2. i # 1
    BY <2>1, <1>2, <1>6
  <2>3. i - 1 \in 1 .. Len(s) - 1 /\ t = Tail(s)[i - 1]
    BY <2>1, <2>2, <1>1, <1>2
  <2> QED
    BY <2>3, <1>2 DEF ToSet
<1> QED
  BY <1>1, <1>3, <1>4, <1>5, <1>6

(* ... and joins it at the end, if it is not in it.                        *)
LEMMA Enqueue ==
  ASSUME NEW s \in Seq(Threads), NEW t \in Threads, IsInjective(s), t \notin ToSet(s)
  PROVE  /\ Append(s, t) \in Seq(Threads)
         /\ IsInjective(Append(s, t))
         /\ ToSet(Append(s, t)) = ToSet(s) \cup {t}
<1>1. /\ Append(s, t) \in Seq(Threads)
      /\ Len(Append(s, t)) = Len(s) + 1
      /\ Append(s, t)[Len(s) + 1] = t
      /\ \A i \in 1 .. Len(s) : Append(s, t)[i] = s[i]
  BY AppendProperties
<1>2. /\ Len(s) \in Nat
      /\ DOMAIN s = 1 .. Len(s)
      /\ DOMAIN Append(s, t) = 1 .. Len(s) + 1
  BY <1>1, LenProperties
<1>3. \A i \in 1 .. Len(s) : s[i] \in ToSet(s)
  BY <1>2 DEF ToSet
<1>4. IsInjective(Append(s, t))
  BY <1>1, <1>2, <1>3 DEF IsInjective
<1>5. ToSet(Append(s, t)) \subseteq ToSet(s) \cup {t}
  BY <1>1, <1>2, <1>3 DEF ToSet
<1>6. ToSet(s) \cup {t} \subseteq ToSet(Append(s, t))
  <2>1. t \in ToSet(Append(s, t))
    BY <1>1, <1>2 DEF ToSet
  <2>2. ASSUME NEW i \in 1 .. Len(s) PROVE s[i] \in ToSet(Append(s, t))
    BY <1>1, <1>2 DEF ToSet
  <2> QED
    BY <2>1, <2>2, <1>2 DEF ToSet
<1> QED
  BY <1>1, <1>4, <1>5, <1>6

(* An empty list is nobody's.                                              *)
LEMMA NoneReady ==
  ASSUME ready \in Seq(Threads), NEW t \in ToSet(ready)
  PROVE  ready # <<>> /\ t \in Threads
<1>1. PICK i \in 1 .. Len(ready) : t = ready[i]
  BY LenProperties DEF ToSet
<1> QED
  BY <1>1, ElementOfSeq, EmptySeq

-----------------------------------------------------------------------------
(* The clock's advance changes no more than the time that is left.         *)
LEMMA ElapsedIs ==
  ASSUME pending \subseteq Pending, NEW ticks \in Int
  PROVE  /\ Elapsed(ticks) \subseteq Pending
         /\ \A q \in Elapsed(ticks) : \E p \in pending :
              q.due = p.due - ticks /\ q.type = p.type /\ q.arg = p.arg
         /\ \A p \in pending : \E q \in Elapsed(ticks) :
              q.due = p.due - ticks /\ q.type = p.type /\ q.arg = p.arg
<1>1. ASSUME NEW p \in pending
      PROVE  LET q == [p EXCEPT !.due = @ - ticks] IN
             q \in Pending /\ q.due = p.due - ticks /\ q.type = p.type /\ q.arg = p.arg
  BY DEF Pending
<1> QED
  BY <1>1 DEF Elapsed

-----------------------------------------------------------------------------
(* A ready list of all the threads of a set (the forked ones) has them all, *)
(* once each.                                                              *)
LEMMA AllReady ==
  ASSUME NEW S, IsFiniteSet(S), NEW s \in SetToSeqs(S)
  PROVE  s \in Seq(S) /\ IsInjective(s) /\ ToSet(s) = S
<1> DEFINE n == Cardinality(S)
<1>1. n \in Nat /\ IsFiniteSet(1 .. n) /\ Cardinality(1 .. n) = n
  BY FS_CardinalityType, FS_Interval
<1>2. /\ s \in [1 .. n -> S]
      /\ \A i, j \in 1 .. n : s[i] = s[j] => i = j
  BY DEF SetToSeqs
<1>3. s \in Injection(1 .. n, S)
  BY <1>2 DEF Injection, IsInjective
<1>4. s \in Surjection(1 .. n, S)
  BY <1>1, <1>3, FS_Injection
<1>5. DOMAIN s = 1 .. n
  BY <1>2
<1>6. ToSet(s) = S
  BY <1>2, <1>4, <1>5 DEF Surjection, ToSet
<1>7. s \in Seq(S)
  BY <1>1, <1>2
<1> QED
  BY <1>2, <1>5, <1>6, <1>7 DEF IsInjective

(* Nachos starts in a state where the invariant holds.                     *)
LEMMA InitInv == Init => IInv
<1> SUFFICES ASSUME Init PROVE IInv
  OBVIOUS
<1> USE TicksAssumption, ThreadsAssumption
<1>1. ready \in Seq(Threads) /\ IsInjective(ready) /\ ToSet(ready) = Threads \ {Main}
  <2>1. IsFiniteSet(Threads \ {Main})
    BY FS_RemoveElement
  <2>2. ready \in SetToSeqs(Threads \ {Main})
    BY DEF Init
  <2>3. ready \in Seq(Threads \ {Main}) /\ IsInjective(ready) /\ ToSet(ready) = Threads \ {Main}
    BY <2>1, <2>2, AllReady
  <2> QED
    BY <2>3, SeqMonotonic
<1>2. \A p \in pending : p \in Pending /\ p.type = "TimerInt" /\ p.due \in Nat \ {0}
  <2>1. ASSUME NEW p \in pending
        PROVE  \E d \in TimerDelays : p = [type |-> "TimerInt", due |-> d, arg |-> Main]
    BY DEF Init
  <2> QED
    BY <2>1 DEF Pending
<1>3. \A t \in Threads : frames[t] = <<>> /\ Where(t) = "code"
  BY DEF Init, Where
<1>4. TypeOK
  <2>1. frames \in [Threads -> Seq(Frame)]
    BY EmptySeq DEF Init
  <2>2. handling \in Seq([p : Pending, old : {"IdleMode", "SystemMode", "UserMode"}])
    BY EmptySeq DEF Init
  <2>3. mode \in [Threads -> {"user", "kernel", "finished"}] /\ value \in [Threads -> Nat]
    BY DEF Init
  <2>4. /\ level \in {"IntOff", "IntOn"} /\ inHandler = FALSE /\ yieldOnReturn = FALSE
        /\ status = "SystemMode" /\ handling = <<>> /\ queue = {} /\ current = Main
    BY DEF Init
  <2> QED
    BY <1>1, <1>2, <2>1, <2>2, <2>3, <2>4 DEF TypeOK
<1>5. StackShape
  BY <1>3 DEF StackShape, Shaped
<1>6. SwitchedOut
  BY <1>3 DEF SwitchedOut, Init
<1>7. StatusSaved
  BY <1>3 DEF StatusSaved, StatusAt, ThreadStatus, CodeStatus, Init
<1>8. InLoop
  BY <1>3 DEF InLoop, Init
<1>9. Overdue
  BY <1>2, -SystemTick \in Int /\ -SystemTick <= 0 DEF Overdue, Init
<1>10. Scheduled
  BY <1>1, <1>2, <1>3 DEF Scheduled, OffProcessor, Sleeping, Init
<1> QED
  BY <1>4, <1>5, <1>6, <1>7, <1>8, <1>9, <1>10 DEF IInv

-----------------------------------------------------------------------------
(* OneTick, called by the current thread's code, by Semaphore::P when it   *)
(* wakes up or by Thread::Yield, preserves the invariant.                  *)
LEMMA TickInv ==
  ASSUME IInv, ~inHandler, status # "halted",
         Where(current) \in {"code", "Sleep", "Yield"},
         NEW s \in Seq(Frame), NEW st, OneTick(s, st),
         Shaped(s, mode[current]'),
         s = <<>> \/ Last(s).at = "Restore",
         st = IF s = <<>> THEN CodeStatus(mode[current]') ELSE "SystemMode",
         status' = st,
         mode' \in [Threads -> {"user", "kernel", "finished"}],
         mode[current]' # "finished",
         \A t \in Threads : t # current => mode[t]' = mode[t],
         value' \in [Threads -> Nat],
         \A t \in Threads : t # current => value[t]' = value[t],
         UNCHANGED <<inHandler, yieldOnReturn, handling, current, ready, queue>>
  PROVE  IInv'
<1> USE TicksAssumption, ThreadsAssumption
<1> DEFINE f == [at |-> "CheckIfDue", old |-> st]
           ticks == IF st = "SystemMode" THEN SystemTick ELSE UserTick
<1>0. TypeOK /\ current \in Threads
  BY DEF IInv, TypeOK
<1>1. f \in Frame /\ st \in {"SystemMode", "UserMode"}
  BY DEF CodeStatus, Frame
<1>2. /\ Append(s, f) \in Seq(Frame) /\ Append(s, f) # <<>>
      /\ Last(Append(s, f)) = f /\ Front(Append(s, f)) = s
  BY <1>1, Push
<1>3. /\ frames' \in [Threads -> Seq(Frame)]
      /\ frames[current]' = Append(s, f)
      /\ \A t \in Threads : t # current => frames[t]' = frames[t]
  BY <1>0, <1>2, StackIs DEF OneTick
<1>4. /\ Where(current)' = "CheckIfDue" /\ Local' = st
      /\ \A t \in Threads : t # current => Where(t)' = Where(t)
  BY <1>2, <1>3 DEF Where, Local
<1>5. ticks \in Int /\ 0 <= ticks /\ ticks <= SystemTick /\ -SystemTick <= 0
  OBVIOUS
<1>6. /\ pending' = Elapsed(ticks) /\ level' = "IntOff" /\ handling' = handling
  BY DEF OneTick
<1>7. /\ pending' \subseteq Pending
      /\ \A q \in pending' : \E p \in pending :
           q.due = p.due - ticks /\ q.type = p.type /\ q.arg = p.arg
      /\ \A p \in pending : \E q \in pending' :
           q.due = p.due - ticks /\ q.type = p.type /\ q.arg = p.arg
  BY <1>0, <1>5, <1>6, ElapsedIs DEF TypeOK
<1>8. TypeOK'
  BY <1>0, <1>1, <1>3, <1>6, <1>7 DEF TypeOK
<1>9. StackShape'
  <2>1. Shaped(frames[current]', mode[current]')
    BY <1>1, <1>3, ShapedPush DEF Sleeping
  <2>2. \A t \in Threads : t # current => Shaped(frames[t]', mode[t]')
    BY <1>3 DEF IInv, StackShape
  <2> QED
    BY <2>1, <2>2 DEF StackShape
<1>10. SwitchedOut'
  BY <1>4 DEF IInv, SwitchedOut
<1>11. StatusSaved'
  BY <1>4 DEF StatusSaved, StatusAt
<1>12. InLoop'
  BY <1>1, <1>4, <1>6 DEF IInv, InLoop
<1>13. Overdue'
  <2>1. \A p \in pending : p.due \in Int /\ p.due >= 0
    BY <1>0 DEF IInv, Overdue, TypeOK, Pending
  <2>2. \A q \in pending' : q.due >= -SystemTick
    BY <2>1, <1>5, <1>7
  <2> QED
    BY <2>2, <1>4, <1>6 DEF Overdue
<1>14. Scheduled'
  <2>1. /\ ~OffProcessor(current) /\ ~OffProcessor(current)'
        /\ \A t \in Threads : t # current => OffProcessor(t) /\ OffProcessor(t)'
    BY <1>4 DEF OffProcessor
  <2>2. \A t \in Threads : Requested(t) => Requested(t)'
    BY <1>7 DEF Requested
  <2>3. ToSet(ready) \subseteq Threads /\ queue \subseteq Threads
    BY <1>0, NoneReady DEF TypeOK
  <2>4. current \notin queue /\ current \notin ToSet(ready)
    BY <2>1, <1>0 DEF IInv, Scheduled
  <2>5. \A t \in queue : /\ OffProcessor(t)' /\ mode[t]' # "finished"
                         /\ Where(t)' \in Sleeping /\ t \notin ToSet(ready) /\ Requested(t)'
    BY <2>1, <2>2, <2>3, <2>4, <1>4 DEF IInv, Scheduled
  <2>6. \A t \in ToSet(ready) : /\ OffProcessor(t)' /\ mode[t]' # "finished"
                                /\ Where(t)' \in Sleeping => value[t]' > 0
    BY <2>1, <2>3, <2>4, <1>4 DEF IInv, Scheduled
  <2>7. \A t \in Threads : OffProcessor(t)' =>
          t \in queue \/ t \in ToSet(ready) \/ mode[t]' = "finished"
    BY <2>1 DEF IInv, Scheduled
  <2> QED
    BY <2>5, <2>6, <2>7, <1>1, <1>4 DEF IInv, Scheduled
<1> QED
  BY <1>8, <1>9, <1>10, <1>11, <1>12, <1>13, <1>14 DEF IInv

(* What the current thread's stack holds when it is not in its own code.   *)
LEMMA InCall ==
  ASSUME TypeOK, StackShape, Where(current) # "code"
  PROVE  /\ frames[current] \in Seq(Frame) /\ frames[current] # <<>>
         /\ Where(current) = Last(frames[current]).at
         /\ Last(frames[current]) \in Frame
         /\ Caller \in Seq(Frame) /\ Shaped(Caller, mode[current])
         /\ Caller = <<>> \/ Last(Caller).at = "Restore"
         /\ Where(current) \in Sleeping => Caller = <<>> /\ mode[current] # "user"
         /\ Where(current) \notin Sleeping =>
              /\ mode[current] # "finished"
              /\ Local = IF Caller = <<>> THEN CodeStatus(mode[current]) ELSE "SystemMode"
<1>1. /\ frames[current] \in Seq(Frame) /\ frames[current] # <<>>
      /\ Where(current) = Last(frames[current]).at
      /\ Shaped(frames[current], mode[current])
  BY DEF TypeOK, StackShape, Where
<1> QED
  BY <1>1, Pop, ShapedPop DEF Caller, Local

(* Actions that leave the ready list, the queues and the processor to whom *)
(* they belong.                                                            *)
LEMMA StaysScheduled ==
  ASSUME TypeOK, Scheduled,
         UNCHANGED <<current, ready, queue>>,
         \A t \in Threads : t # current =>
           Where(t)' = Where(t) /\ mode[t]' = mode[t] /\ value[t]' = value[t],
         OffProcessor(current)' <=> OffProcessor(current),
         OffProcessor(current) =>
           mode[current]' = mode[current] /\ value[current]' = value[current],
         Where(current)' # "Sleep",
         Where(current)' = "Idle" => ready = <<>>,
         \A t \in Threads : Requested(t) => Requested(t)',
         status' = "halted" => \A p \in pending' : p.type = "TimerInt"
  PROVE  Scheduled'
<1>1. /\ current \in Threads /\ queue \subseteq Threads /\ ToSet(ready) \subseteq Threads
  BY NoneReady DEF TypeOK
<1>2. \A t \in Threads : t # current => OffProcessor(t) /\ OffProcessor(t)'
  BY DEF OffProcessor
<1>3. OffProcessor(current) => Where(current) \in Sleeping /\ Where(current)' \in Sleeping
  BY DEF OffProcessor, Sleeping
<1>4. \A t \in queue : /\ OffProcessor(t)' /\ mode[t]' # "finished"
                       /\ Where(t)' \in Sleeping /\ t \notin ToSet(ready) /\ Requested(t)'
  BY <1>1, <1>2, <1>3 DEF Scheduled
<1>5. \A t \in ToSet(ready) : /\ OffProcessor(t)' /\ mode[t]' # "finished"
                              /\ Where(t)' \in Sleeping => value[t]' > 0
  BY <1>1, <1>2, <1>3 DEF Scheduled
<1>6. \A t \in Threads : OffProcessor(t)' =>
        t \in queue \/ t \in ToSet(ready) \/ mode[t]' = "finished"
  BY <1>1, <1>2, <1>3 DEF Scheduled
<1> QED
  BY <1>4, <1>5, <1>6 DEF Scheduled

-----------------------------------------------------------------------------
(* What a thread's code does preserves the invariant.                      *)
LEMMA CodeInv == IInv /\ Code => IInv'
<1> SUFFICES ASSUME IInv, Code PROVE IInv'
  OBVIOUS
<1> USE TicksAssumption, ThreadsAssumption
<1>0. TypeOK /\ StackShape /\ current \in Threads
  BY DEF IInv, TypeOK
<1>1. /\ status # "halted" /\ ~inHandler /\ Where(current) = "code"
      /\ frames[current] = <<>>
      /\ status = ThreadStatus(current)
      /\ ~OffProcessor(current)
  <2>1. At("code")
    BY DEF Code, Instruction, RaiseException, ReturnToUser, Disable, Enable,
           Schedule, PTakes, PSleeps, Finish
  <2>2. status # "halted" /\ ~inHandler /\ Where(current) = "code"
    BY <2>1 DEF At
  <2>3. frames[current] = <<>>
    <3> SUFFICES ASSUME frames[current] # <<>> PROVE FALSE
      OBVIOUS
    <3>1. frames[current] \in Seq(Frame) /\ Last(frames[current]) \in Frame
      BY <1>0, Pop DEF TypeOK
    <3> QED
      BY <2>2, <3>1 DEF Where, Frame
  <2> QED
    BY <2>2, <2>3 DEF IInv, StatusSaved, StatusAt, OffProcessor
<1>2. <<>> \in Seq(Frame) /\ \A m : Shaped(<<>>, m)
  BY EmptySeq DEF Shaped
<1>3. CASE Instruction
  <2>1. OneTick(<<>>, status) /\ mode[current] = "user"
    BY <1>3 DEF Instruction
  <2>2. status = CodeStatus(mode[current])
    BY <1>1 DEF ThreadStatus
  <2> QED
    BY <2>1, <2>2, <1>0, <1>1, <1>2, <1>3, TickInv DEF Instruction, TypeOK
<1>4. CASE RaiseException
  <2>1. /\ mode' = [mode EXCEPT ![current] = "kernel"] /\ status' = "SystemMode"
        /\ UNCHANGED <<level, pending, inHandler, yieldOnReturn, handling,
                       frames, current, ready, value, queue>>
    BY <1>4 DEF RaiseException
  <2>2. /\ mode' \in [Threads -> {"user", "kernel", "finished"}] /\ mode[current]' = "kernel"
        /\ \A t \in Threads : t # current => mode[t]' = mode[t]
        /\ \A t \in Threads : Where(t)' = Where(t)
    BY <2>1, <1>0 DEF TypeOK, Where
  <2>3. TypeOK'
    BY <2>1, <2>2, <1>0 DEF TypeOK
  <2>4. StackShape'
    BY <2>1, <2>2, <1>0, <1>1, <1>2 DEF StackShape
  <2>5. SwitchedOut'
    BY <2>1, <2>2 DEF IInv, SwitchedOut
  <2>6. StatusSaved'
    BY <2>1, <2>2, <1>1 DEF StatusSaved, StatusAt, ThreadStatus, CodeStatus
  <2>7. InLoop' /\ Overdue'
    BY <2>1, <2>2 DEF IInv, InLoop, Overdue
  <2>8. Scheduled'
    <3>1. OffProcessor(current)' <=> OffProcessor(current)
      BY <2>1, <2>2, <1>0 DEF OffProcessor
    <3>2. \A t \in Threads : Requested(t) => Requested(t)'
      BY <2>1 DEF Requested
    <3> QED
      BY <3>1, <3>2, <2>1, <2>2, <1>0, <1>1, StaysScheduled DEF IInv
  <2> QED
    BY <2>3, <2>4, <2>5, <2>6, <2>7, <2>8 DEF IInv
<1>5. CASE ReturnToUser
  <2>1. /\ mode' = [mode EXCEPT ![current] = "user"] /\ status' = "UserMode"
        /\ OneTick(<<>>, "UserMode")
        /\ UNCHANGED <<inHandler, yieldOnReturn, handling, current, ready, value, queue>>
    BY <1>5 DEF ReturnToUser
  <2>2. /\ mode' \in [Threads -> {"user", "kernel", "finished"}] /\ mode[current]' = "user"
        /\ \A t \in Threads : t # current => mode[t]' = mode[t]
    BY <2>1, <1>0 DEF TypeOK
  <2>3. "UserMode" = CodeStatus(mode[current]')
    BY <2>2 DEF CodeStatus
  <2> QED
    BY <2>1, <2>2, <2>3, <1>0, <1>1, <1>2, TickInv DEF TypeOK
<1>6. CASE Disable
  <2>1. level' = "IntOff" /\ UNCHANGED <<pending, inHandler, yieldOnReturn, status, handling,
             frames, current, ready, value, queue, mode>>
    BY <1>6 DEF Disable, threadVars
  <2>2. \A t \in Threads : Where(t)' = Where(t) /\ OffProcessor(t)' = OffProcessor(t)
    BY <2>1 DEF Where, OffProcessor
  <2>3. TypeOK' /\ StackShape' /\ SwitchedOut'
    BY <2>1, <2>2, <1>0 DEF IInv, TypeOK, StackShape, SwitchedOut
  <2>4. StatusSaved'
    BY <2>1, <2>2, <1>0, <1>1 DEF StatusSaved, StatusAt, ThreadStatus
  <2>5. InLoop' /\ Overdue'
    BY <2>1, <2>2, <1>0 DEF IInv, InLoop, Overdue
  <2>6. Scheduled'
    <3>1. \A t \in Threads : Requested(t) => Requested(t)'
      BY <2>1 DEF Requested
    <3> QED
      BY <3>1, <2>1, <2>2, <1>0, <1>1, StaysScheduled DEF IInv
  <2> QED
    BY <2>3, <2>4, <2>5, <2>6 DEF IInv
<1>7. CASE Enable
  <2>1. OneTick(<<>>, status) /\ mode[current] = "kernel"
    BY <1>7 DEF Enable
  <2>2. status = CodeStatus(mode[current])
    BY <1>1 DEF ThreadStatus
  <2> QED
    BY <2>1, <2>2, <1>0, <1>1, <1>2, <1>7, TickInv DEF Enable, TypeOK
<1>8. ASSUME NEW d \in DeviceDelays, Schedule(d) PROVE IInv'
  <2> DEFINE p == [type |-> "DiskInt", due |-> d, arg |-> current]
  <2>1. /\ pending' = pending \cup {p} /\ p \in Pending /\ p.due > 0
        /\ UNCHANGED <<level, inHandler, yieldOnReturn, status, handling,
             frames, current, ready, value, queue, mode>>
    <3>1. d \in Nat \ {0}
      OBVIOUS
    <3>2. p \in Pending /\ p.due > 0
      BY <3>1, <1>0 DEF Pending
    <3> QED
      BY <3>2, <1>8 DEF Schedule, threadVars
  <2>2. \A t \in Threads : Where(t)' = Where(t) /\ OffProcessor(t)' = OffProcessor(t)
    BY <2>1 DEF Where, OffProcessor
  <2>3. TypeOK'
    BY <2>1, <1>0 DEF TypeOK
  <2>4. StackShape' /\ SwitchedOut' /\ InLoop'
    BY <2>1, <2>2, <1>0, <1>1 DEF IInv, StackShape, SwitchedOut, InLoop
  <2>5. StatusSaved'
    BY <2>1, <2>2, <1>0, <1>1 DEF StatusSaved, StatusAt, ThreadStatus
  <2>6. Overdue'
    <3>1. p.due \in Nat /\ -SystemTick <= 0 /\ -SystemTick \in Int
      BY <2>1
    <3>2. p.due >= 0 /\ p.due >= -SystemTick
      BY <3>1
    <3>3. /\ level' = "IntOn" => \A q \in pending' : q.due > 0
          /\ \A q \in pending' : q.due >= 0
          /\ \A q \in pending' : q.due >= -SystemTick
      BY <2>1, <3>2, <1>1 DEF IInv, Overdue
    <3> QED
      BY <3>3, <2>1, <1>1 DEF Overdue
  <2>7. Scheduled'
    <3>1. \A t \in Threads : Requested(t) => Requested(t)'
      BY <2>1 DEF Requested
    <3> QED
      BY <3>1, <2>1, <2>2, <1>0, <1>1, StaysScheduled DEF IInv
  <2> QED
    BY <2>3, <2>4, <2>5, <2>6, <2>7 DEF IInv
<1>9. CASE PTakes
  <2>1. /\ mode[current] = "kernel" /\ value[current] > 0
        /\ value' = [value EXCEPT ![current] = @ - 1]
        /\ UNCHANGED <<inHandler, yieldOnReturn, status, handling, current, ready, queue, mode>>
    BY <1>9 DEF PTakes
  <2>2. /\ value' \in [Threads -> Nat]
        /\ \A t \in Threads : t # current => value[t]' = value[t]
    BY <2>1, <1>0 DEF TypeOK
  <2>3. CASE OneTick(<<>>, status)
    <3>1. status = CodeStatus(mode[current])
      BY <1>1 DEF ThreadStatus
    <3> QED
      BY <2>1, <2>2, <2>3, <3>1, <1>0, <1>1, <1>2, TickInv DEF TypeOK
  <2>4. CASE UNCHANGED <<level, pending, frames>>
    <3>1. \A t \in Threads : Where(t)' = Where(t) /\ OffProcessor(t)' = OffProcessor(t)
      BY <2>1, <2>4 DEF Where, OffProcessor
    <3>2. TypeOK' /\ StackShape' /\ SwitchedOut' /\ InLoop' /\ Overdue'
      BY <2>1, <2>2, <2>4, <3>1, <1>0 DEF IInv, TypeOK, StackShape, SwitchedOut, InLoop, Overdue
    <3>3. StatusSaved'
      BY <2>1, <2>4, <3>1, <1>0, <1>1 DEF StatusSaved, StatusAt, ThreadStatus
    <3>4. Scheduled'
      <4>1. \A t \in Threads : Requested(t) => Requested(t)'
        BY <2>1, <2>4 DEF Requested
      <4> QED
        BY <4>1, <2>1, <2>2, <2>4, <3>1, <1>0, <1>1, StaysScheduled DEF IInv
    <3> QED
      BY <3>2, <3>3, <3>4 DEF IInv
  <2> QED
    BY <2>3, <2>4, <1>9 DEF PTakes
<1>10. ASSUME PSleeps \/ Finish PROVE IInv'
  <2> DEFINE f == [at |-> "FindNext", old |-> level]
  <2>1. /\ mode[current] = "kernel" /\ level' = "IntOff" /\ Stack(<<f>>)
        /\ UNCHANGED <<pending, inHandler, yieldOnReturn, status, handling, current, ready, value>>
    BY <1>10 DEF PSleeps, Finish
  <2>2. f \in Frame /\ <<f>> \in Seq(Frame) /\ Last(<<f>>) = f /\ <<f>> # <<>> /\ f.at = "FindNext"
    <3>1. f \in Frame
      BY <1>0 DEF TypeOK, Frame
    <3> QED
      BY <3>1, Push, <1>2 DEF Last
  <2>3. /\ frames' \in [Threads -> Seq(Frame)]
        /\ frames[current]' = <<f>>
        /\ \A t \in Threads : t # current => frames[t]' = frames[t]
    BY <2>1, <2>2, <1>0, StackIs
  <2>4. /\ Where(current)' = "FindNext"
        /\ \A t \in Threads : t # current => Where(t)' = Where(t)
    BY <2>2, <2>3 DEF Where
  <2>5. /\ mode' \in [Threads -> {"user", "kernel", "finished"}]
        /\ mode[current]' # "user"
        /\ \A t \in Threads : t # current => mode[t]' = mode[t]
        /\ queue' \subseteq queue \cup {current} /\ queue \subseteq queue'
    BY <1>10, <1>0, <2>1 DEF TypeOK, PSleeps, Finish
  <2>6. TypeOK'
    BY <2>1, <2>3, <2>5, <1>0 DEF TypeOK
  <2>7. StackShape'
    <3>1. Shaped(<<f>>, mode[current]')
      BY <2>2, <2>5 DEF Shaped, Sleeping
    <3> QED
      BY <3>1, <2>1, <2>3, <2>5, <1>0 DEF StackShape
  <2>8. SwitchedOut' /\ InLoop' /\ Overdue'
    BY <2>1, <2>4, <2>5, <1>1 DEF IInv, SwitchedOut, InLoop, Overdue
  <2>9. StatusSaved'
    BY <2>1, <2>4, <2>5, <1>0, <1>1 DEF StatusSaved, StatusAt, ThreadStatus, CodeStatus
  <2>10. Scheduled'
    <3>1. /\ current \notin ToSet(ready) /\ current \notin queue
          /\ ToSet(ready) \subseteq Threads /\ queue \subseteq Threads
      BY <1>0, <1>1, NoneReady DEF IInv, Scheduled, TypeOK
    <3>2. \A t \in Threads : Requested(t) => Requested(t)'
      BY <2>1 DEF Requested
    <3>3. \A t \in Threads : OffProcessor(t)' /\ (t # current => OffProcessor(t))
      BY <2>1, <2>4 DEF OffProcessor
    <3>4. current \in queue' \/ mode[current]' = "finished"
      BY <1>10, <1>0 DEF PSleeps, Finish, TypeOK
    <3>5. current \in queue' => Requested(current) /\ mode[current]' = "kernel"
      BY <1>10, <3>1, <2>1 DEF PSleeps, Finish, Requested
    <3>6. \A t \in queue' : /\ OffProcessor(t)' /\ mode[t]' # "finished"
                            /\ Where(t)' \in Sleeping /\ t \notin ToSet(ready) /\ Requested(t)'
      <4> SUFFICES ASSUME NEW t \in queue'
                   PROVE  /\ OffProcessor(t)' /\ mode[t]' # "finished"
                          /\ Where(t)' \in Sleeping /\ t \notin ToSet(ready) /\ Requested(t)'
        OBVIOUS
      <4>1. CASE t = current
        <5>1. mode[t]' = "kernel" /\ Where(t)' \in Sleeping
          BY <4>1, <3>5, <2>1, <2>4 DEF Sleeping
        <5> QED
          BY <4>1, <5>1, <3>1, <3>2, <3>3, <3>5, <1>0
      <4>2. CASE t # current
        <5>1. t \in queue /\ t \in Threads
          BY <4>2, <3>1, <2>5
        <5> QED
          BY <4>2, <5>1, <3>2, <3>3, <2>4, <2>5 DEF IInv, Scheduled
      <4> QED
        BY <4>1, <4>2
    <3>7. \A t \in ToSet(ready) : /\ OffProcessor(t)' /\ mode[t]' # "finished"
                                  /\ Where(t)' \in Sleeping => value[t]' > 0
      BY <3>1, <3>3, <2>1, <2>4, <2>5 DEF IInv, Scheduled
    <3>8. \A t \in Threads : t \in queue' \/ t \in ToSet(ready) \/ mode[t]' = "finished"
      BY <3>3, <3>4, <2>1, <2>5 DEF IInv, Scheduled
    <3> QED
      BY <3>6, <3>7, <3>8, <2>1, <2>4, <1>1 DEF IInv, Scheduled
  <2> QED
    BY <2>6, <2>7, <2>8, <2>9, <2>10 DEF IInv
<1> QED
  BY <1>3, <1>4, <1>5, <1>6, <1>7, <1>8, <1>9, <1>10 DEF Code

-----------------------------------------------------------------------------
(* A thread that goes on after OneTick or, woken, after Semaphore::P.      *)
LEMMA ReturnInv ==
  ASSUME IInv, ~inHandler, status # "halted",
         Where(current) \in {"CheckIfDue", "Restore", "Sleep"},
         Stack(Caller),
         status' = IF Where(current) = "Sleep" THEN status ELSE Local,
         ~yieldOnReturn,
         level' \in {"IntOff", "IntOn"},
         level' = "IntOn" => \A p \in pending : p.due > 0,
         \A p \in pending : p.due >= 0,
         value' \in [Threads -> Nat],
         \A t \in Threads : t # current => value[t]' = value[t],
         UNCHANGED <<pending, inHandler, yieldOnReturn, handling, current, ready, queue, mode>>
  PROVE  IInv'
<1>0. TypeOK /\ StackShape /\ current \in Threads
  BY DEF IInv, TypeOK
<1>1. /\ Caller \in Seq(Frame) /\ Shaped(Caller, mode[current])
      /\ Caller = <<>> \/ Last(Caller).at = "Restore"
      /\ Where(current) = "Sleep" => Caller = <<>> /\ mode[current] # "user"
      /\ Where(current) # "Sleep" =>
           Local = IF Caller = <<>> THEN CodeStatus(mode[current]) ELSE "SystemMode"
      /\ mode[current] # "finished"
  BY <1>0, InCall DEF Sleeping, IInv, Scheduled
<1>2. /\ frames' \in [Threads -> Seq(Frame)] /\ frames[current]' = Caller
      /\ \A t \in Threads : t # current => frames[t]' = frames[t]
  BY <1>0, <1>1, StackIs
<1>3. /\ Where(current)' = IF Caller = <<>> THEN "code" ELSE "Restore"
      /\ \A t \in Threads : t # current => Where(t)' = Where(t)
  BY <1>1, <1>2 DEF Where
<1>4. status' = IF Caller = <<>> THEN CodeStatus(mode[current]) ELSE "SystemMode"
  BY <1>1 DEF IInv, StatusSaved, StatusAt, CodeStatus
<1>5. TypeOK'
  BY <1>0, <1>2, <1>4 DEF TypeOK, CodeStatus
<1>6. StackShape'
  BY <1>0, <1>1, <1>2 DEF StackShape
<1>7. SwitchedOut'
  BY <1>3 DEF IInv, SwitchedOut
<1>8. StatusSaved'
  BY <1>3, <1>4 DEF StatusSaved, StatusAt, ThreadStatus
<1>9. InLoop'
  BY <1>3, <1>4 DEF InLoop, CodeStatus
<1>10. Overdue'
  BY <1>3 DEF IInv, Overdue
<1>11. Scheduled'
  <2>1. /\ ~OffProcessor(current) /\ ~OffProcessor(current)'
        /\ Where(current)' # "Sleep" /\ Where(current)' # "Idle" /\ status' # "halted"
    BY <1>3, <1>4 DEF OffProcessor, CodeStatus
  <2>2. \A t \in Threads : Requested(t) => Requested(t)'
    BY DEF Requested
  <2> QED
    BY <2>1, <2>2, <1>0, <1>3, StaysScheduled DEF IInv
<1> QED
  BY <1>5, <1>6, <1>7, <1>8, <1>9, <1>10, <1>11 DEF IInv

(* Sleep and OneTick go from one call to the next.                         *)
LEMMA GotoIs ==
  ASSUME TypeOK, StackShape, NEW place, Goto(place),
         \/ Where(current) \in Sleeping /\ place \in Sleeping
         \/ Where(current) = "CheckIfDue" /\ place = "Yield"
  PROVE  /\ frames' \in [Threads -> Seq(Frame)]
         /\ frames'[current] # <<>>
         /\ Last(frames'[current]).at = place
         /\ Shaped(frames'[current], mode[current])
         /\ \A t \in Threads : t # current => frames'[t] = frames[t]
<1> DEFINE f == [at |-> place, old |-> Local]
<1>1. /\ Last(frames[current]) \in Frame /\ Where(current) = Last(frames[current]).at
      /\ Caller \in Seq(Frame) /\ Shaped(Caller, mode[current])
      /\ Caller = <<>> \/ Last(Caller).at = "Restore"
      /\ Where(current) \in Sleeping => Caller = <<>> /\ mode[current] # "user"
      /\ Where(current) \notin Sleeping =>
           /\ mode[current] # "finished"
           /\ Local = IF Caller = <<>> THEN CodeStatus(mode[current]) ELSE "SystemMode"
  BY InCall DEF Sleeping
<1>2. f \in Frame
  BY <1>1 DEF Frame, Local, Sleeping
<1>3. /\ Append(Caller, f) \in Seq(Frame) /\ Append(Caller, f) # <<>>
      /\ Last(Append(Caller, f)) = f
  BY <1>1, <1>2, Push
<1>4. f.at \in Sleeping <=> Where(current) \in Sleeping
  BY DEF Sleeping
<1>5. Shaped(Append(Caller, f), mode[current])
  <2>1. f.at = place /\ f.old = Local
    OBVIOUS
  <2>2. f.at \in Sleeping => Caller = <<>> /\ mode[current] # "user"
    BY <1>1, <1>4
  <2>3. f.at \notin Sleeping =>
          /\ mode[current] # "finished"
          /\ f.old = IF Caller = <<>> THEN CodeStatus(mode[current]) ELSE "SystemMode"
    BY <1>1, <1>4, <2>1
  <2> QED
    BY <1>1, <1>2, <2>2, <2>3, ShapedPush
<1> QED
  <2>1. Stack(Append(Caller, f)) /\ f.at = place
    BY DEF Goto
  <2>2. /\ frames' \in [Threads -> Seq(Frame)]
        /\ frames'[current] = Append(Caller, f)
        /\ \A t \in Threads : t # current => frames'[t] = frames[t]
    BY <2>1, <1>3, StackIs
  <2> QED
    BY <2>1, <2>2, <1>3, <1>5

(* CheckIfDue invokes a handler, in OneTick's loop or in Idle.             *)
LEMMA InvokeInv ==
  ASSUME IInv, ~inHandler, status # "halted",
         Where(current) \in {"CheckIfDue", "Idle", "IdleMore"},
         NEW p \in Pending, NEW rest \in SUBSET Pending, Invoke(p, rest),
         p.due \in -SystemTick .. 0,
         \A q \in rest : q.due >= -SystemTick,
         Where(current) # "CheckIfDue" => \A q \in rest : q.due >= 0,
         \A q \in pending : \E r \in rest \cup {p} : r.type = q.type /\ r.arg = q.arg,
         frames' \in [Threads -> Seq(Frame)], StackShape',
         Where(current)' = IF Where(current) = "Idle" THEN "IdleMore" ELSE Where(current),
         Where(current) = "CheckIfDue" => Local' = Local,
         \A t \in Threads : t # current => Where(t)' = Where(t),
         UNCHANGED <<level, yieldOnReturn, current, ready, value, queue, mode>>
  PROVE  IInv'
<1> DEFINE h == [p |-> p, old |-> status]
<1>0. TypeOK /\ StackShape /\ current \in Threads
  BY DEF IInv, TypeOK
<1>1. /\ pending' = rest /\ handling' = <<h>> /\ inHandler' = TRUE /\ status' = "SystemMode"
  BY DEF Invoke
<1>2. /\ h \in [p : Pending, old : {"IdleMode", "SystemMode", "UserMode"}]
      /\ Len(handling') = 1 /\ handling'[1].p = p /\ handling'[1].old = status
  BY <1>0, <1>1 DEF TypeOK
<1>3. status = StatusAt(Where(current))
  BY DEF IInv, StatusSaved
<1>4. TypeOK'
  BY <1>0, <1>1, <1>2 DEF TypeOK
<1>5. SwitchedOut'
  BY DEF IInv, SwitchedOut
<1>6. StatusSaved'
  BY <1>1, <1>2, <1>3 DEF StatusSaved, StatusAt
<1>7. InLoop'
  BY <1>1, <1>0 DEF IInv, InLoop, TypeOK
<1>8. Overdue'
  <2>1. level = "IntOff"
    BY <1>0 DEF IInv, InLoop, TypeOK
  <2> QED
    BY <2>1, <1>1, <1>2 DEF Overdue
<1>9. Scheduled'
  <2>1. /\ OffProcessor(current)' <=> OffProcessor(current)
        /\ Where(current)' # "Sleep" /\ Where(current)' # "Idle"
    BY DEF OffProcessor
  <2>2. \A t \in Threads : Requested(t) => Requested(t)'
    BY <1>1, <1>2 DEF Requested
  <2> QED
    BY <2>1, <2>2, <1>0, <1>1, StaysScheduled DEF IInv
<1> QED
  BY <1>4, <1>5, <1>6, <1>7, <1>8, <1>9 DEF IInv

-----------------------------------------------------------------------------
(* OneTick's loop, and the returns from it, preserve the invariant.        *)
LEMMA LoopInv ==
  ASSUME IInv,
         \/ Wake
         \/ \E p \in pending : TickHandles(p)
         \/ TickEnds
         \/ YieldReturns
         \/ TickRestores
  PROVE  IInv'
<1> USE TicksAssumption, ThreadsAssumption
<1>0. /\ TypeOK /\ StackShape /\ current \in Threads
      /\ \A p \in pending : p \in Pending /\ p.due \in Int
      /\ -SystemTick \in Int /\ -SystemTick <= 0
  <2>1. TypeOK /\ StackShape
    BY DEF IInv
  <2>2. current \in Threads /\ pending \subseteq Pending
    BY <2>1 DEF TypeOK
  <2>3. \A p \in Pending : p.due \in Int
    BY DEF Pending
  <2>4. -SystemTick \in Int /\ -SystemTick <= 0
    OBVIOUS
  <2> QED
    BY <2>1, <2>2, <2>3, <2>4, Zenon
<1>1. CASE Wake
  <2>1. /\ status # "halted" /\ ~inHandler /\ Where(current) = "Sleep"
        /\ value[current] > 0 /\ value' = [value EXCEPT ![current] = @ - 1]
        /\ UNCHANGED <<inHandler, yieldOnReturn, status, handling, current, ready, queue, mode>>
    BY <1>1 DEF Wake, At
  <2>2. /\ value' \in [Threads -> Nat]
        /\ \A t \in Threads : t # current => value[t]' = value[t]
    BY <2>1, <1>0 DEF TypeOK
  <2>3. /\ Caller = <<>> /\ Caller \in Seq(Frame) /\ mode[current] # "user"
        /\ Shaped(Caller, mode[current])
    BY <2>1, <1>0, InCall DEF Sleeping
  <2>4. /\ status = "SystemMode" /\ CodeStatus(mode[current]) = "SystemMode"
        /\ mode[current] # "finished"
    BY <2>1, <2>3 DEF IInv, StatusSaved, StatusAt, CodeStatus, Scheduled
  <2>5. CASE OneTick(Caller, status)
    BY <2>1, <2>2, <2>3, <2>4, <2>5, <1>0, TickInv DEF TypeOK
  <2>6. CASE Stack(Caller) /\ UNCHANGED <<level, pending>>
    <3>1. level \in {"IntOff", "IntOn"} /\ level # "IntOn" /\ ~yieldOnReturn
      BY <2>1, <1>0 DEF IInv, InLoop, TypeOK
    <3>2. \A p \in pending : p.due >= 0
      BY <2>1 DEF IInv, Overdue
    <3> QED
      BY <2>1, <2>2, <2>6, <3>1, <3>2, ReturnInv
  <2> QED
    BY <2>5, <2>6, <1>1 DEF Wake
<1>2. ASSUME NEW p \in pending, TickHandles(p) PROVE IInv'
  <2>1. /\ status # "halted" /\ ~inHandler /\ Where(current) = "CheckIfDue"
        /\ p.due <= 0 /\ Invoke(p, pending \ {p})
        /\ UNCHANGED <<level, yieldOnReturn, frames, current, ready, value, queue, mode>>
    BY <1>2 DEF TickHandles, At, threadVars
  <2>2. /\ \A q \in pending \ {p} : q.due >= -SystemTick
        /\ p.due \in -SystemTick .. 0
        /\ pending \ {p} \in SUBSET Pending /\ p \in Pending
    BY <2>1, <1>0 DEF IInv, Overdue
  <2>3. \A q \in pending : \E r \in (pending \ {p}) \cup {p} : r.type = q.type /\ r.arg = q.arg
    OBVIOUS
  <2>4. /\ frames' \in [Threads -> Seq(Frame)] /\ StackShape'
        /\ Where(current)' = Where(current) /\ Local' = Local
        /\ \A t \in Threads : t # current => Where(t)' = Where(t)
    BY <2>1, <1>0 DEF TypeOK, StackShape, Where, Local
  <2> QED
    BY <2>1, <2>2, <2>3, <2>4, InvokeInv
<1>3. CASE TickEnds
  <2>1. /\ status # "halted" /\ ~inHandler /\ Where(current) = "CheckIfDue"
        /\ \A p \in pending : p.due > 0
        /\ ~yieldOnReturn /\ level' = "IntOn" /\ Stack(Caller)
        /\ UNCHANGED <<pending, inHandler, yieldOnReturn, status, handling,
                       current, ready, value, queue, mode>>
    BY <1>3 DEF TickEnds, At
  <2>2. status = Local
    BY <2>1 DEF IInv, StatusSaved, StatusAt
  <2>3. \A p \in pending : p.due >= 0
    BY <2>1, <1>0
  <2>4. value' \in [Threads -> Nat]
    BY <2>1, <1>0 DEF TypeOK
  <2> QED
    BY <2>1, <2>2, <2>3, <2>4, ReturnInv
<1>4. CASE YieldReturns
  <2> DEFINE g == [at |-> "Restore", old |-> Local]
             s == Append(Caller, g)
  <2>1. /\ status # "halted" /\ ~inHandler /\ Where(current) = "Yield"
        /\ OneTick(s, status)
        /\ UNCHANGED <<inHandler, yieldOnReturn, status, handling,
                       current, ready, value, queue, mode>>
    BY <1>4 DEF YieldReturns, At
  <2>2. /\ Caller \in Seq(Frame) /\ Shaped(Caller, mode[current])
        /\ Caller = <<>> \/ Last(Caller).at = "Restore"
        /\ mode[current] # "finished"
        /\ Local = IF Caller = <<>> THEN CodeStatus(mode[current]) ELSE "SystemMode"
    BY <2>1, <1>0, InCall DEF Sleeping
  <2>3. g \in Frame /\ g.at \notin Sleeping /\ g.at = "Restore" /\ g.old = Local
    BY <2>2 DEF Frame, CodeStatus, Sleeping
  <2>4. s \in Seq(Frame) /\ s # <<>> /\ Last(s).at = "Restore"
    BY <2>2, <2>3, Push
  <2>5. Shaped(s, mode[current])
    BY <2>2, <2>3, ShapedPush
  <2>6. status = "SystemMode"
    BY <2>1 DEF IInv, StatusSaved, StatusAt
  <2> QED
    BY <2>1, <2>2, <2>4, <2>5, <2>6, <1>0, TickInv DEF TypeOK
<1>5. CASE TickRestores
  <2>1. /\ status # "halted" /\ ~inHandler /\ Where(current) = "Restore"
        /\ status' = Local /\ Stack(Caller)
        /\ UNCHANGED <<level, pending, inHandler, yieldOnReturn, handling,
                       current, ready, value, queue, mode>>
    BY <1>5 DEF TickRestores, At
  <2>2. /\ level \in {"IntOff", "IntOn"} /\ ~yieldOnReturn
        /\ level = "IntOn" => \A p \in pending : p.due > 0
        /\ \A p \in pending : p.due >= 0
    BY <2>1, <1>0 DEF IInv, InLoop, Overdue, TypeOK
  <2>3. value' \in [Threads -> Nat]
    BY <2>1, <1>0 DEF TypeOK
  <2> QED
    BY <2>1, <2>2, <2>3, ReturnInv
<1> QED
  BY <1>1, <1>2, <1>3, <1>4, <1>5

-----------------------------------------------------------------------------
(* A thread that is ready can be switched to.                              *)
LEMMA SwitchTo ==
  ASSUME IInv, ready # <<>>
  PROVE  LET t == Head(ready) IN
         /\ t \in Threads /\ t \in ToSet(ready) /\ t \notin queue
         /\ OffProcessor(t) /\ mode[t] # "finished"
         /\ t # current =>
              /\ Where(t) \in {"code", "Yield", "Sleep"}
              /\ Where(t) = "code" => mode[t] = "kernel"
              /\ Where(t) = "Sleep" => value[t] > 0
<1>1. ready \in Seq(Threads) /\ IsInjective(ready)
  BY DEF IInv, TypeOK, Scheduled
<1>2. Head(ready) \in Threads /\ Head(ready) \in ToSet(ready)
  BY <1>1, Dequeue
<1> QED
  BY <1>2 DEF IInv, Scheduled, SwitchedOut, Sleeping

(* The switches of OneTick and Sleep preserve the invariant.               *)
LEMMA SwitchInv ==
  ASSUME IInv, TickYields \/ FindNextToRun
  PROVE  IInv'
<1> USE TicksAssumption, ThreadsAssumption
<1>0. TypeOK /\ StackShape /\ current \in Threads /\ ready \in Seq(Threads)
  BY DEF IInv, TypeOK
<1>1. CASE TickYields
  <2>1. /\ status # "halted" /\ ~inHandler /\ Where(current) = "CheckIfDue"
        /\ \A p \in pending : p.due > 0
        /\ yieldOnReturn' = FALSE /\ status' = "SystemMode"
        /\ Goto("Yield") /\ Yield
        /\ UNCHANGED <<level, pending, inHandler, handling, value, queue, mode>>
    BY <1>1 DEF TickYields, At
  <2>2. /\ frames' \in [Threads -> Seq(Frame)]
        /\ frames'[current] # <<>> /\ Last(frames'[current]).at = "Yield"
        /\ Shaped(frames'[current], mode[current])
        /\ \A t \in Threads : t # current => frames'[t] = frames[t]
    BY <2>1, <1>0, GotoIs
  <2> DEFINE At2(t) == IF frames'[t] = <<>> THEN "code" ELSE Last(frames'[t]).at
  <2>3. /\ At2(current) = "Yield"
        /\ \A t \in Threads : t # current => At2(t) = Where(t)
        /\ \A t \in Threads : Where(t)' = At2(t)
    BY <2>2 DEF Where
  <2>4. level = "IntOff" /\ ~OffProcessor(current) /\ mode[current] # "finished"
    <3>1. level = "IntOff"
      BY <2>1, <1>0 DEF IInv, InLoop, TypeOK
    <3>2. mode[current] # "finished"
      BY <2>1, <1>0, InCall DEF Sleeping
    <3> QED
      BY <2>1, <3>1, <3>2 DEF OffProcessor
  <2>5. /\ current' \in Threads /\ ready' \in Seq(Threads) /\ IsInjective(ready')
        /\ At2(current') \in {"code", "Yield", "Sleep"}
        /\ At2(current') = "code" => mode[current'] = "kernel"
        /\ At2(current') = "Sleep" => value[current'] > 0
        /\ mode[current'] # "finished" /\ current' \notin queue
        /\ ToSet(ready') \cup {current'} = ToSet(ready) \cup {current}
        /\ current' \notin ToSet(ready')
    <3>1. current \notin ToSet(ready) /\ current \notin queue
      BY <2>4 DEF IInv, Scheduled
    <3>2. CASE ready = <<>> /\ UNCHANGED <<current, ready>>
      BY <3>1, <3>2, <2>3, <2>4, <1>0 DEF IInv, Scheduled
    <3>3. CASE ready # <<>> /\ current' = Head(ready) /\ ready' = Append(Tail(ready), current)
      <4>1. /\ Tail(ready) \in Seq(Threads) /\ IsInjective(Tail(ready))
            /\ ToSet(Tail(ready)) = ToSet(ready) \ {current'}
        BY <3>3, <1>0, Dequeue DEF IInv, Scheduled
      <4>2. /\ current' \in Threads /\ current' \in ToSet(ready) /\ current' \notin queue
            /\ mode[current'] # "finished" /\ current' # current
            /\ Where(current') \in {"code", "Yield", "Sleep"}
            /\ Where(current') = "code" => mode[current'] = "kernel"
            /\ Where(current') = "Sleep" => value[current'] > 0
        BY <3>1, <3>3, SwitchTo
      <4>3. /\ ready' \in Seq(Threads) /\ IsInjective(ready')
            /\ ToSet(ready') = ToSet(Tail(ready)) \cup {current}
        BY <4>1, <3>1, <3>3, <1>0, Enqueue
      <4> QED
        BY <4>1, <4>2, <4>3, <2>3
    <3> QED
      BY <3>2, <3>3, <2>1 DEF Yield
  <2>6. TypeOK'
    BY <2>1, <2>2, <2>5, <1>0 DEF TypeOK
  <2>7. StackShape'
    BY <2>1, <2>2, <1>0 DEF StackShape
  <2>8. SwitchedOut'
    <3> SUFFICES ASSUME NEW t \in Threads, t # current'
                 PROVE  /\ At2(t) \in {"code", "Yield", "Sleep"}
                        /\ At2(t) = "code" => mode[t] = "kernel"
      BY <2>1, <2>3 DEF SwitchedOut
    <3>1. CASE t = current
      BY <3>1, <2>3
    <3>2. CASE t # current
      BY <3>2, <2>3 DEF IInv, SwitchedOut
    <3> QED
      BY <3>1, <3>2
  <2>9. StatusSaved'
    <3>1. Where(current)' = At2(current')
      BY <2>3, <2>5 DEF Where
    <3> QED
      BY <3>1, <2>1, <2>5 DEF StatusSaved, StatusAt, ThreadStatus, CodeStatus
  <2>10. InLoop' /\ Overdue'
    <3>1. \A p \in pending : p.due > 0 /\ p.due >= 0 /\ p.due >= -SystemTick
      <4>1. \A p \in pending : p.due \in Int
        BY <1>0 DEF TypeOK, Pending
      <4> QED
        BY <4>1, <2>1
    <3> QED
      BY <3>1, <2>1, <2>4 DEF InLoop, Overdue
  <2>11. Scheduled'
    <3>1. /\ ToSet(ready) \subseteq Threads /\ queue \subseteq Threads
          /\ ToSet(ready') \subseteq ToSet(ready) \cup {current}
          /\ current \notin queue
      BY <1>0, <2>4, <2>5, NoneReady DEF TypeOK, IInv, Scheduled
    <3>2. \A t \in Threads : OffProcessor(t)' <=> t # current'
      <4>1. \A t \in Threads : OffProcessor(t)' <=>
              t # current' \/ At2(t) \in {"FindNext", "Idle", "IdleMore"}
        BY <2>3 DEF OffProcessor
      <4>2. At2(current') \notin {"FindNext", "Idle", "IdleMore"}
        BY <2>5
      <4> QED
        BY <4>1, <4>2
    <3>3. \A t \in Threads : Requested(t) => Requested(t)'
      BY <2>1 DEF Requested
    <3>4. \A t \in queue : /\ OffProcessor(t)' /\ mode[t]' # "finished"
                           /\ Where(t)' \in Sleeping /\ t \notin ToSet(ready') /\ Requested(t)'
      <4> SUFFICES ASSUME NEW t \in queue
                   PROVE  /\ OffProcessor(t)' /\ mode[t]' # "finished"
                          /\ Where(t)' \in Sleeping /\ t \notin ToSet(ready') /\ Requested(t)'
        OBVIOUS
      <4>1. t \in Threads /\ t # current /\ t # current'
        BY <3>1, <2>5
      <4>2. mode[t] # "finished" /\ Where(t) \in Sleeping /\ t \notin ToSet(ready) /\ Requested(t)
        BY DEF IInv, Scheduled
      <4> QED
        BY <4>1, <4>2, <3>1, <3>2, <3>3, <2>1, <2>3
    <3>5. \A t \in ToSet(ready') : /\ OffProcessor(t)' /\ mode[t]' # "finished"
                                   /\ Where(t)' \in Sleeping => value[t]' > 0
      <4> SUFFICES ASSUME NEW t \in ToSet(ready')
                   PROVE  /\ OffProcessor(t)' /\ mode[t]' # "finished"
                          /\ Where(t)' \in Sleeping => value[t]' > 0
        OBVIOUS
      <4>1. t \in Threads /\ t # current'
        BY <3>1, <2>5, <1>0
      <4>2. CASE t = current
        BY <4>1, <4>2, <3>2, <2>1, <2>3, <2>4 DEF Sleeping
      <4>3. CASE t # current
        <5>1. t \in ToSet(ready)
          BY <4>3, <3>1
        <5>2. mode[t] # "finished" /\ (Where(t) \in Sleeping => value[t] > 0)
          BY <5>1 DEF IInv, Scheduled
        <5> QED
          BY <4>1, <4>3, <5>2, <3>2, <2>1, <2>3
      <4> QED
        BY <4>2, <4>3
    <3>6. \A t \in Threads : OffProcessor(t)' =>
            t \in queue \/ t \in ToSet(ready') \/ mode[t]' = "finished"
      <4> SUFFICES ASSUME NEW t \in Threads, t # current'
                   PROVE  t \in queue \/ t \in ToSet(ready') \/ mode[t] = "finished"
        BY <3>2, <2>1
      <4>1. CASE t = current
        BY <4>1, <2>5
      <4>2. CASE t # current
        <5>1. t \in queue \/ t \in ToSet(ready) \/ mode[t] = "finished"
          BY <4>2 DEF IInv, Scheduled, OffProcessor
        <5> QED
          BY <5>1, <2>5
      <4> QED
        BY <4>1, <4>2
    <3>7. /\ Where(current)' = At2(current') /\ value' = value /\ mode' = mode
          /\ queue' = queue /\ status' # "halted"
      BY <2>1, <2>3, <2>5 DEF Where
    <3> QED
      BY <3>4, <3>5, <3>6, <3>7, <2>5 DEF Scheduled
  <2> QED
    BY <2>6, <2>7, <2>8, <2>9, <2>10, <2>11 DEF IInv
<1>2. CASE FindNextToRun
  <2>1. /\ status # "halted" /\ ~inHandler /\ Where(current) = "FindNext"
        /\ ready # <<>> /\ current' = Head(ready) /\ ready' = Tail(ready)
        /\ Goto("Sleep")
        /\ UNCHANGED <<level, pending, inHandler, yieldOnReturn, status, handling,
                       value, queue, mode>>
    BY <1>2 DEF FindNextToRun, At, cpuVars
  <2>2. /\ frames' \in [Threads -> Seq(Frame)]
        /\ frames'[current] # <<>> /\ Last(frames'[current]).at = "Sleep"
        /\ Shaped(frames'[current], mode[current])
        /\ \A t \in Threads : t # current => frames'[t] = frames[t]
    BY <2>1, <1>0, GotoIs DEF Sleeping
  <2> DEFINE At2(t) == IF frames'[t] = <<>> THEN "code" ELSE Last(frames'[t]).at
  <2>3. /\ At2(current) = "Sleep"
        /\ \A t \in Threads : t # current => At2(t) = Where(t)
        /\ \A t \in Threads : Where(t)' = At2(t)
    BY <2>2 DEF Where
  <2>4. /\ level = "IntOff" /\ status = "SystemMode" /\ ~yieldOnReturn
        /\ \A p \in pending : p.due >= 0
    BY <2>1, <1>0 DEF IInv, InLoop, StatusSaved, StatusAt, Overdue, TypeOK
  <2>5. /\ current' \in Threads /\ ready' \in Seq(Threads) /\ IsInjective(ready')
        /\ At2(current') \in {"code", "Yield", "Sleep"}
        /\ At2(current') = "code" => mode[current'] = "kernel"
        /\ At2(current') = "Sleep" => value[current'] > 0
        /\ mode[current'] # "finished" /\ current' \notin queue
        /\ ToSet(ready') = ToSet(ready) \ {current'}
    <3>1. /\ Tail(ready) \in Seq(Threads) /\ IsInjective(Tail(ready))
          /\ ToSet(Tail(ready)) = ToSet(ready) \ {current'}
      BY <2>1, <1>0, Dequeue DEF IInv, Scheduled
    <3>2. /\ current' \in Threads /\ current' \in ToSet(ready) /\ current' \notin queue
          /\ mode[current'] # "finished"
          /\ current' # current =>
               /\ Where(current') \in {"code", "Yield", "Sleep"}
               /\ Where(current') = "code" => mode[current'] = "kernel"
               /\ Where(current') = "Sleep" => value[current'] > 0
      BY <2>1, SwitchTo
    <3>3. CASE current' = current
      <4>1. value[current] > 0
        BY <3>2, <3>3, <2>1 DEF IInv, Scheduled, Sleeping
      <4> QED
        BY <4>1, <3>1, <3>2, <3>3, <2>1, <2>3
    <3>4. CASE current' # current
      BY <3>1, <3>2, <3>4, <2>1, <2>3
    <3> QED
      BY <3>3, <3>4
  <2>6. TypeOK'
    BY <2>1, <2>2, <2>5, <1>0 DEF TypeOK
  <2>7. StackShape'
    BY <2>1, <2>2, <1>0 DEF StackShape
  <2>8. SwitchedOut'
    <3> SUFFICES ASSUME NEW t \in Threads, t # current'
                 PROVE  /\ At2(t) \in {"code", "Yield", "Sleep"}
                        /\ At2(t) = "code" => mode[t] = "kernel"
      BY <2>1, <2>3 DEF SwitchedOut
    <3>1. CASE t = current
      BY <3>1, <2>3
    <3>2. CASE t # current
      BY <3>2, <2>3 DEF IInv, SwitchedOut
    <3> QED
      BY <3>1, <3>2
  <2>9. Where(current)' = At2(current')
    BY <2>3, <2>5 DEF Where
  <2>10. StatusSaved'
    BY <2>1, <2>4, <2>5, <2>9 DEF StatusSaved, StatusAt, ThreadStatus, CodeStatus
  <2>11. InLoop' /\ Overdue'
    BY <2>1, <2>4 DEF IInv, InLoop, Overdue
  <2>12. Scheduled'
    <3>1. /\ ToSet(ready) \subseteq Threads /\ queue \subseteq Threads
      BY <1>0, NoneReady DEF TypeOK
    <3>2. \A t \in Threads : OffProcessor(t)' <=> t # current'
      <4>1. \A t \in Threads : OffProcessor(t)' <=>
              t # current' \/ At2(t) \in {"FindNext", "Idle", "IdleMore"}
        BY <2>3 DEF OffProcessor
      <4>2. At2(current') \notin {"FindNext", "Idle", "IdleMore"}
        BY <2>5
      <4> QED
        BY <4>1, <4>2
    <3>3. \A t \in Threads : Requested(t) => Requested(t)'
      BY <2>1 DEF Requested
    <3>4. \A t \in Threads : OffProcessor(t) /\ (Where(t)' \in Sleeping <=> Where(t) \in Sleeping)
      BY <2>1, <2>3 DEF OffProcessor, Sleeping
    <3>5. \A t \in queue : /\ OffProcessor(t)' /\ mode[t]' # "finished"
                           /\ Where(t)' \in Sleeping /\ t \notin ToSet(ready') /\ Requested(t)'
      <4> SUFFICES ASSUME NEW t \in queue
                   PROVE  /\ OffProcessor(t)' /\ mode[t]' # "finished"
                          /\ Where(t)' \in Sleeping /\ t \notin ToSet(ready') /\ Requested(t)'
        OBVIOUS
      <4>1. t \in Threads /\ t # current'
        BY <3>1, <2>5
      <4>2. mode[t] # "finished" /\ Where(t) \in Sleeping /\ t \notin ToSet(ready) /\ Requested(t)
        BY DEF IInv, Scheduled
      <4> QED
        BY <4>1, <4>2, <3>2, <3>3, <3>4, <2>1, <2>5
    <3>6. \A t \in ToSet(ready') : /\ OffProcessor(t)' /\ mode[t]' # "finished"
                                   /\ Where(t)' \in Sleeping => value[t]' > 0
      <4> SUFFICES ASSUME NEW t \in ToSet(ready')
                   PROVE  /\ OffProcessor(t)' /\ mode[t]' # "finished"
                          /\ Where(t)' \in Sleeping => value[t]' > 0
        OBVIOUS
      <4>1. t \in Threads /\ t \in ToSet(ready) /\ t # current'
        BY <3>1, <2>5
      <4>2. mode[t] # "finished" /\ (Where(t) \in Sleeping => value[t] > 0)
        BY <4>1 DEF IInv, Scheduled
      <4> QED
        BY <4>1, <4>2, <3>2, <3>4, <2>1
    <3>7. \A t \in Threads : OffProcessor(t)' =>
            t \in queue \/ t \in ToSet(ready') \/ mode[t]' = "finished"
      <4> SUFFICES ASSUME NEW t \in Threads, t # current'
                   PROVE  t \in queue \/ t \in ToSet(ready') \/ mode[t] = "finished"
        BY <3>2, <2>1
      <4>1. t \in queue \/ t \in ToSet(ready) \/ mode[t] = "finished"
        BY <3>4 DEF IInv, Scheduled
      <4> QED
        BY <4>1, <2>5
    <3> QED
      BY <3>5, <3>6, <3>7, <2>1, <2>4, <2>5, <2>9 DEF Scheduled
  <2> QED
    BY <2>6, <2>7, <2>8, <2>10, <2>11, <2>12 DEF IInv
<1> QED
  BY <1>1, <1>2

-----------------------------------------------------------------------------
(* Interrupt::Idle, called by Sleep when no thread is ready, preserves it. *)
LEMMA IdleInv ==
  ASSUME IInv,
         \/ Idle
         \/ \E p \in pending : IdleHandles(p)
         \/ Halt
         \/ \E p \in pending : IdleHandlesMore(p)
         \/ IdleReturns
  PROVE  IInv'
<1> USE TicksAssumption, ThreadsAssumption
<1>0. /\ TypeOK /\ StackShape /\ current \in Threads
      /\ \A p \in pending : p \in Pending /\ p.due \in Int
      /\ -SystemTick \in Int /\ -SystemTick <= 0
  BY DEF IInv, TypeOK, Pending
<1>1. ASSUME NEW place \in {"FindNext", "Idle"}, Goto(place),
             ~inHandler, status # "halted",
             Where(current) = IF place = "Idle" THEN "FindNext" ELSE "IdleMore",
             status' = IF place = "Idle" THEN "IdleMode" ELSE "SystemMode",
             place = "Idle" => ready = <<>>,
             yieldOnReturn' = FALSE,
             UNCHANGED <<level, pending, inHandler, handling, current, ready, value, queue, mode>>
      PROVE  IInv'
  <2>1. /\ frames' \in [Threads -> Seq(Frame)]
        /\ frames'[current] # <<>> /\ Last(frames'[current]).at = place
        /\ Shaped(frames'[current], mode[current])
        /\ \A t \in Threads : t # current => frames'[t] = frames[t]
    BY <1>1, <1>0, GotoIs DEF Sleeping
  <2>2. /\ Where(current)' = place
        /\ \A t \in Threads : t # current => Where(t)' = Where(t)
    BY <1>1, <2>1 DEF Where
  <2>3. TypeOK'
    BY <1>0, <1>1, <2>1 DEF TypeOK
  <2>4. StackShape'
    BY <1>0, <1>1, <2>1 DEF StackShape
  <2>5. SwitchedOut'
    BY <1>1, <2>2 DEF IInv, SwitchedOut
  <2>6. StatusSaved'
    BY <1>1, <2>2 DEF StatusSaved, StatusAt
  <2>7. InLoop' /\ Overdue'
    BY <1>1, <2>2 DEF IInv, InLoop, Overdue
  <2>8. Scheduled'
    <3>1. OffProcessor(current) /\ OffProcessor(current)'
      BY <1>1, <2>2 DEF OffProcessor
    <3>2. \A t \in Threads : Requested(t) => Requested(t)'
      BY <1>1 DEF Requested
    <3> QED
      BY <1>0, <1>1, <2>2, <3>1, <3>2, StaysScheduled DEF IInv
  <2> QED
    BY <2>3, <2>4, <2>5, <2>6, <2>7, <2>8 DEF IInv
<1>2. CASE Idle
  <2>1. yieldOnReturn = FALSE
    BY <1>0, <1>2 DEF Idle, At, IInv, InLoop, TypeOK
  <2> QED
    BY <1>2, <2>1, <1>1 DEF Idle, At
<1>3. CASE IdleReturns
  BY <1>3, <1>1 DEF IdleReturns, At
<1>4. ASSUME NEW p \in pending, IdleHandles(p) PROVE IInv'
  <2> DEFINE wait == IF p.due > 0 THEN p.due ELSE 0
             r == [p EXCEPT !.due = @ - wait]
             rest == Elapsed(wait) \ {r}
  <2>1. /\ status # "halted" /\ ~inHandler /\ Where(current) = "Idle"
        /\ Earliest(p) /\ Invoke(r, rest) /\ Goto("IdleMore")
        /\ UNCHANGED <<level, yieldOnReturn, current, ready, value, queue, mode>>
    BY <1>4 DEF IdleHandles, At
  <2>2. /\ frames' \in [Threads -> Seq(Frame)]
        /\ frames'[current] # <<>> /\ Last(frames'[current]).at = "IdleMore"
        /\ Shaped(frames'[current], mode[current])
        /\ \A t \in Threads : t # current => frames'[t] = frames[t]
    BY <2>1, <1>0, GotoIs DEF Sleeping
  <2>3. /\ Where(current)' = "IdleMore" /\ StackShape'
        /\ \A t \in Threads : t # current => Where(t)' = Where(t)
    BY <1>0, <2>1, <2>2 DEF Where, StackShape
  <2>4. wait \in Int /\ p \in Pending /\ p.due \in Int
    BY <1>0
  <2>5. /\ Elapsed(wait) \subseteq Pending
        /\ \A q \in Elapsed(wait) : \E o \in pending :
             q.due = o.due - wait /\ q.type = o.type /\ q.arg = o.arg
        /\ \A o \in pending : \E q \in Elapsed(wait) :
             q.due = o.due - wait /\ q.type = o.type /\ q.arg = o.arg
    BY <1>0, <2>4, ElapsedIs DEF TypeOK
  <2>6. r \in Pending /\ r.due = p.due - wait
    BY <2>4 DEF Pending
  <2>7. \A o \in pending : o.due >= 0 /\ p.due <= o.due
    BY <2>1 DEF IInv, Overdue, Earliest
  <2>8. r.due = 0 /\ r.due \in -SystemTick .. 0
    BY <2>4, <2>6, <2>7, <1>0
  <2>9. \A q \in rest : q.due >= 0 /\ q.due >= -SystemTick
    <3> SUFFICES ASSUME NEW q \in rest PROVE q.due >= 0 /\ q.due >= -SystemTick
      OBVIOUS
    <3>1. PICK o \in pending : q.due = o.due - wait
      BY <2>5
    <3>2. o.due \in Int /\ o.due >= wait
      BY <1>0, <2>4, <2>7
    <3> QED
      BY <1>0, <2>4, <3>1, <3>2
  <2>10. \A o \in pending : \E q \in rest \cup {r} : q.type = o.type /\ q.arg = o.arg
    BY <2>5
  <2>11. rest \in SUBSET Pending
    BY <2>5
  <2>12. /\ Where(current) \in {"CheckIfDue", "Idle", "IdleMore"}
         /\ Where(current)' = IF Where(current) = "Idle" THEN "IdleMore" ELSE Where(current)
         /\ Where(current) = "CheckIfDue" => Local' = Local
    BY <2>1, <2>3
  <2> HIDE DEF rest, r
  <2> QED
    BY <2>1, <2>2, <2>3, <2>6, <2>8, <2>9, <2>10, <2>11, <2>12, InvokeInv
<1>5. CASE Halt
  <2>1. /\ status # "halted" /\ ~inHandler /\ Where(current) = "Idle"
        /\ \A p \in pending : p.type = "TimerInt"
        /\ pending' = {[p EXCEPT !.due = IF @ > 0 THEN 0 ELSE @] : p \in pending}
        /\ status' = "halted"
        /\ UNCHANGED <<level, inHandler, yieldOnReturn, handling,
                       frames, current, ready, value, queue, mode>>
    BY <1>5 DEF Halt, At, OnlyTimer, threadVars
  <2>2. ASSUME NEW p \in pending
        PROVE  LET q == [p EXCEPT !.due = IF @ > 0 THEN 0 ELSE @] IN
               q \in Pending /\ q.due = 0 /\ q.type = "TimerInt" /\ q.arg = p.arg
    <3>1. p \in Pending /\ p.due \in Int /\ p.due >= 0 /\ p.type = "TimerInt"
      BY <1>0, <2>1 DEF IInv, Overdue
    <3>2. [p EXCEPT !.due = IF @ > 0 THEN 0 ELSE @] = [p EXCEPT !.due = 0]
      BY <3>1
    <3> QED
      BY <3>1, <3>2 DEF Pending
  <2>3. \A q \in pending' : q \in Pending /\ q.due = 0 /\ q.type = "TimerInt"
    BY <2>1, <2>2
  <2>4. \A t \in Threads : Where(t)' = Where(t) /\ OffProcessor(t)' = OffProcessor(t)
    BY <2>1 DEF Where, OffProcessor
  <2>5. TypeOK'
    BY <1>0, <2>1, <2>3 DEF TypeOK
  <2>6. StackShape' /\ SwitchedOut' /\ StatusSaved'
    BY <1>0, <2>1, <2>4 DEF IInv, StackShape, SwitchedOut, StatusSaved
  <2>7. InLoop'
    BY <1>0, <2>1, <2>4 DEF IInv, InLoop
  <2>8. Overdue'
    <3>1. \A q \in pending' : q.due >= 0 /\ q.due >= -SystemTick
      BY <1>0, <2>3
    <3>2. level' # "IntOn"
      BY <1>0, <2>1 DEF IInv, InLoop, TypeOK
    <3> QED
      BY <2>1, <3>1, <3>2 DEF Overdue
  <2>9. Scheduled'
    <3>1. \A t \in Threads : Requested(t) => Requested(t)'
      BY <2>1 DEF Requested
    <3>2. ready = <<>> /\ OffProcessor(current)
      BY <2>1 DEF IInv, Scheduled, OffProcessor
    <3> QED
      BY <1>0, <2>1, <2>3, <2>4, <3>1, <3>2, StaysScheduled DEF IInv
  <2> QED
    BY <2>5, <2>6, <2>7, <2>8, <2>9 DEF IInv
<1>6. ASSUME NEW p \in pending, IdleHandlesMore(p) PROVE IInv'
  <2>1. /\ status # "halted" /\ ~inHandler /\ Where(current) = "IdleMore"
        /\ p.due <= 0 /\ Invoke(p, pending \ {p})
        /\ UNCHANGED <<level, yieldOnReturn, frames, current, ready, value, queue, mode>>
    BY <1>6 DEF IdleHandlesMore, At, threadVars
  <2>2. \A q \in pending : q.due >= 0 /\ q.due >= -SystemTick
    BY <2>1, <1>0 DEF IInv, Overdue
  <2>3. p.due \in -SystemTick .. 0 /\ pending \ {p} \in SUBSET Pending /\ p \in Pending
    BY <2>1, <2>2, <1>0
  <2>4. \A q \in pending : \E r \in (pending \ {p}) \cup {p} : r.type = q.type /\ r.arg = q.arg
    OBVIOUS
  <2>5. /\ frames' \in [Threads -> Seq(Frame)] /\ StackShape'
        /\ Where(current)' = Where(current)
        /\ \A t \in Threads : t # current => Where(t)' = Where(t)
    BY <2>1, <1>0 DEF TypeOK, StackShape, Where
  <2> QED
    BY <2>1, <2>2, <2>3, <2>4, <2>5, InvokeInv
<1> QED
  BY <1>2, <1>3, <1>4, <1>5, <1>6

-----------------------------------------------------------------------------
(* The handlers of the timer and of the devices preserve it.               *)
LEMMA HandlerInv ==
  ASSUME IInv,
         \/ \E d \in TimerDelays : TimerExpired(d)
         \/ DeviceDone
  PROVE  IInv'
<1> USE TicksAssumption, ThreadsAssumption
<1>0. /\ TypeOK /\ StackShape /\ current \in Threads
      /\ \A p \in pending : p \in Pending /\ p.due \in Int
      /\ -SystemTick \in Int /\ -SystemTick <= 0
  BY DEF IInv, TypeOK, Pending
<1>1. /\ inHandler /\ Handled
      /\ UNCHANGED <<level, frames, current, mode>>
  BY DEF TimerExpired, DeviceDone, threadVars
<1>2. /\ handling[1].p \in Pending /\ handling[1].old \in {"IdleMode", "SystemMode", "UserMode"}
      /\ handling[1].old = StatusAt(Where(current))
      /\ Where(current) \in {"CheckIfDue", "IdleMore"} /\ level = "IntOff"
      /\ status # "halted"
  <2>1. handling[1] \in [p : Pending, old : {"IdleMode", "SystemMode", "UserMode"}]
    <3>1. /\ handling \in Seq([p : Pending, old : {"IdleMode", "SystemMode", "UserMode"}])
          /\ Len(handling) = 1
      BY <1>0, <1>1, Zenon DEF TypeOK
    <3>2. 1 \in 1 .. Len(handling)
      BY <3>1
    <3> QED
      BY <3>1, <3>2, ElementOfSeq, Zenon
  <2> QED
    BY <2>1, <1>1 DEF IInv, StatusSaved, InLoop
<1>3. /\ status' = handling[1].old /\ inHandler' = FALSE /\ handling' = <<>>
      /\ status' # "halted"
  BY <1>1, <1>2 DEF Handled
<1>4. \A t \in Threads : Where(t)' = Where(t) /\ OffProcessor(t)' = OffProcessor(t)
  BY <1>1 DEF Where, OffProcessor
<1>5. StackShape' /\ SwitchedOut'
  BY <1>0, <1>1, <1>4 DEF IInv, StackShape, SwitchedOut
<1>6. StatusSaved'
  <2>1. StatusAt(Where(current))' = StatusAt(Where(current))
    BY <1>0, <1>1, <1>2, <1>4 DEF StatusAt, Local
  <2> QED
    BY <2>1, <1>0, <1>1, <1>2, <1>3, <1>4 DEF StatusSaved
<1>7. InLoop'
  BY <1>0, <1>1, <1>2, <1>3, <1>4 DEF InLoop
<1>8. ASSUME NEW d \in TimerDelays, TimerExpired(d) PROVE IInv'
  <2> DEFINE p == [type |-> "TimerInt", due |-> d, arg |-> handling[1].p.arg]
  <2>1. /\ handling[1].p.type = "TimerInt" /\ pending' = pending \cup {p}
        /\ yieldOnReturn' \in BOOLEAN
        /\ UNCHANGED <<ready, value, queue>>
    BY <1>0, <1>8 DEF TimerExpired, threadVars, TypeOK
  <2>2. p \in Pending /\ p.due \in Nat \ {0}
    BY <1>2 DEF Pending
  <2>3. TypeOK'
    <3>1. handling' \in Seq([p : Pending, old : {"IdleMode", "SystemMode", "UserMode"}])
      BY <1>3, EmptySeq
    <3> QED
      BY <3>1, <1>0, <1>1, <1>2, <1>3, <2>1, <2>2 DEF TypeOK
  <2>4. Overdue'
    <3>1. p.due > 0 /\ p.due >= 0 /\ p.due >= -SystemTick
      BY <2>2, <1>0
    <3> QED
      BY <3>1, <2>1, <1>0, <1>1, <1>2, <1>3, <1>4 DEF IInv, Overdue
  <2>5. Scheduled'
    <3>1. \A t \in Threads : Requested(t) => Requested(t)'
      BY <2>1 DEF Requested
    <3> QED
      BY <3>1, <2>1, <1>0, <1>1, <1>2, <1>3, <1>4, StaysScheduled DEF IInv
  <2> QED
    BY <1>5, <1>6, <1>7, <2>3, <2>4, <2>5 DEF IInv
<1>9. CASE DeviceDone
  <2>0. PICK d \in Threads : d = handling[1].p.arg
    BY <1>2 DEF Pending
  <2>1. /\ handling[1].p.type = "DiskInt"
        /\ value' = [value EXCEPT ![d] = @ + 1]
        /\ ready' = IF d \in queue THEN Append(ready, d) ELSE ready
        /\ queue' = queue \ {d}
        /\ UNCHANGED <<pending, yieldOnReturn>>
    BY <2>0, <1>9 DEF DeviceDone
  <2>2. /\ value' \in [Threads -> Nat] /\ value[d]' > 0
        /\ \A t \in Threads : t # d => value[t]' = value[t]
    BY <2>1, <1>0 DEF TypeOK
  <2>3. /\ ToSet(ready) \subseteq Threads /\ queue \subseteq Threads
        /\ ready \in Seq(Threads) /\ IsInjective(ready)
    BY <1>0, NoneReady DEF TypeOK, IInv, Scheduled
  <2>4. /\ ready' \in Seq(Threads) /\ IsInjective(ready')
        /\ ToSet(ready') = ToSet(ready) \cup (queue \cap {d})
    <3>1. CASE d \in queue
      <4>1. d \notin ToSet(ready)
        BY <3>1 DEF IInv, Scheduled
      <4> QED
        BY <4>1, <3>1, <2>1, <2>3, Enqueue
    <3>2. CASE d \notin queue
      BY <3>2, <2>1, <2>3
    <3> QED
      BY <3>1, <3>2
  <2>5. TypeOK'
    <3>1. handling' \in Seq([p : Pending, old : {"IdleMode", "SystemMode", "UserMode"}])
      BY <1>3, EmptySeq
    <3> QED
      BY <3>1, <1>0, <1>1, <1>2, <1>3, <2>1, <2>2, <2>4 DEF TypeOK
  <2>6. Overdue'
    BY <2>1, <1>0, <1>1, <1>2, <1>3, <1>4 DEF IInv, Overdue
  <2>7. Scheduled'
    <3>1. \A t \in queue' : /\ OffProcessor(t)' /\ mode[t]' # "finished"
                            /\ Where(t)' \in Sleeping /\ t \notin ToSet(ready') /\ Requested(t)'
      <4> SUFFICES ASSUME NEW t \in queue'
                   PROVE  /\ OffProcessor(t)' /\ mode[t]' # "finished"
                          /\ Where(t)' \in Sleeping /\ t \notin ToSet(ready') /\ Requested(t)'
        OBVIOUS
      <4>1. t \in queue /\ t # d /\ t \in Threads
        BY <2>1, <2>3
      <4>2. /\ OffProcessor(t) /\ mode[t] # "finished"
            /\ Where(t) \in Sleeping /\ t \notin ToSet(ready) /\ Requested(t)
        BY <4>1 DEF IInv, Scheduled
      <4>3. Requested(t)'
        BY <4>1, <4>2, <2>0, <2>1 DEF Requested
      <4> QED
        BY <4>1, <4>2, <4>3, <1>1, <1>4, <2>4
    <3>2. \A t \in ToSet(ready') : /\ OffProcessor(t)' /\ mode[t]' # "finished"
                                   /\ Where(t)' \in Sleeping => value[t]' > 0
      <4> SUFFICES ASSUME NEW t \in ToSet(ready')
                   PROVE  /\ OffProcessor(t)' /\ mode[t]' # "finished"
                          /\ Where(t)' \in Sleeping => value[t]' > 0
        OBVIOUS
      <4>1. t \in Threads /\ (t \in ToSet(ready) \/ (t \in queue /\ t = d))
        BY <2>3, <2>4
      <4>2. OffProcessor(t) /\ mode[t] # "finished"
        BY <4>1 DEF IInv, Scheduled
      <4>3. Where(t) \in Sleeping => value[t]' > 0
        <5>1. CASE t = d
          BY <5>1, <2>2
        <5>2. CASE t # d
          <6>1. Where(t) \in Sleeping => value[t] > 0
            BY <4>1, <5>2 DEF IInv, Scheduled
          <6> QED
            BY <4>1, <5>2, <6>1, <2>2
        <5> QED
          BY <5>1, <5>2
      <4> QED
        BY <4>1, <4>2, <4>3, <1>1, <1>4
    <3>3. \A t \in Threads : OffProcessor(t)' =>
            t \in queue' \/ t \in ToSet(ready') \/ mode[t]' = "finished"
      BY <1>1, <1>4, <2>1, <2>4 DEF IInv, Scheduled
    <3>4. Where(current)' \in {"CheckIfDue", "IdleMore"}
      BY <1>0, <1>1, <1>2, <1>4
    <3> QED
      BY <3>1, <3>2, <3>3, <3>4, <1>3, <2>4 DEF Scheduled
  <2> QED
    BY <1>5, <1>6, <1>7, <2>5, <2>6, <2>7 DEF IInv
<1> QED
  BY <1>8, <1>9

(* Every step preserves the invariant.                                     *)
LEMMA NextInv == IInv /\ [Next]_vars => IInv'
<1> SUFFICES ASSUME IInv, [Next]_vars PROVE IInv'
  OBVIOUS
<1>1. CASE Code
  BY <1>1, CodeInv
<1>2. CASE Kernel
  BY <1>2, LoopInv, SwitchInv, IdleInv, HandlerInv DEF Kernel
<1>3. CASE UNCHANGED vars
  <2> USE <1>3 DEF vars, cpuVars, threadVars
  <2>1. TypeOK' /\ StackShape' /\ Overdue'
    BY DEF IInv, TypeOK, StackShape, Overdue, Where
  <2>2. SwitchedOut' /\ InLoop'
    BY DEF IInv, SwitchedOut, InLoop, Where
  <2>3. StatusSaved'
    BY DEF IInv, StatusSaved, StatusAt, ThreadStatus, Where, Local
  <2>4. Scheduled'
    BY DEF IInv, Scheduled, OffProcessor, Requested, Where
  <2> QED
    BY <2>1, <2>2, <2>3, <2>4 DEF IInv
<1> QED
  BY <1>1, <1>2, <1>3 DEF Next, Halted

-----------------------------------------------------------------------------
(* The state of the simulated processor and of the threads' stacks is what *)
(* interrupt.cc keeps it to be: IInv always holds.                         *)
THEOREM Invariance == Spec => []IInv
<1> QED
  BY InitInv, NextInv, PTL DEF Spec

(* Interrupt::OneTick enables interrupts again only when nothing is due.   *)
THEOREM NoneDue == Spec => []NoneDueWhenEnabled
<1>1. IInv => NoneDueWhenEnabled
  BY DEF IInv, Overdue, NoneDueWhenEnabled
<1> QED
  BY <1>1, Invariance, PTL

(* CheckIfDue calls a handler within one tick of its interrupt's time.     *)
THEOREM OnTime == Spec => []HandledOnTime
<1>1. IInv => HandledOnTime
  BY DEF IInv, InLoop, Overdue, HandledOnTime
<1> QED
  BY <1>1, Invariance, PTL

(* However OneTick, Yield, Sleep and Idle nest, a thread's code goes on in *)
(* its own machine status.                                                 *)
THEOREM OwnStatus == Spec => []StatusIsThreadsOwn
<1>1. IInv => StatusIsThreadsOwn
  BY DEF IInv, StatusSaved, StatusAt, At, StatusIsThreadsOwn
<1> QED
  BY <1>1, Invariance, PTL

(* YieldOnReturn's request is dealt with before the code goes on.          *)
THEOREM YieldsAtOnce == Spec => []NoStaleYield
<1>1. IInv => NoStaleYield
  BY DEF IInv, InLoop, At, NoStaleYield
<1> QED
  BY <1>1, Invariance, PTL

(* Idle calls Halt only when all threads have finished and no device works.*)
THEOREM HaltsLast == Spec => []HaltsWhenDone
<1>1. ASSUME IInv PROVE HaltsWhenDone
  <2> SUFFICES ASSUME status = "halted"
               PROVE  /\ \A t \in Threads : mode[t] = "finished"
                      /\ \A p \in pending : p.type = "TimerInt"
    BY DEF HaltsWhenDone
  <2>1. /\ ~inHandler /\ Where(current) = "Idle" /\ ready = <<>>
        /\ \A p \in pending : p.type = "TimerInt"
    BY <1>1 DEF IInv, InLoop, Scheduled
  <2>2. ASSUME NEW t \in Threads PROVE mode[t] = "finished"
    <3>1. OffProcessor(t)
      BY <2>1 DEF OffProcessor
    <3>2. t \notin queue
      BY <1>1, <2>1 DEF IInv, Scheduled, Requested
    <3>3. t \notin ToSet(ready)
      BY <1>1, <2>1, NoneReady DEF IInv, TypeOK
    <3> QED
      BY <1>1, <3>1, <3>2, <3>3 DEF IInv, Scheduled
  <2> QED
    BY <2>1, <2>2
<1> QED
  BY <1>1, Invariance, PTL

=============================================================================
