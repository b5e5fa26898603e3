------------------------------ MODULE TCPProofs -----------------------------
(***************************************************************************)
(* For any machines, calls, tokens and limits, with or without a listener: *)
(* no thread of a machine waits for a wake-up that does not come, although *)
(* all its threads share two semaphores (NoLostWakeUp).                    *)
(*                                                                         *)
(* For any machines, tokens, limits and listeners, and scripts of which    *)
(* two are the two ends of a Conversation: what is received is in order    *)
(* (InOrder), and has arrived if it is reported as sent (Reliability,      *)
(* which is about Distinct tokens).                                        *)
(*                                                                         *)
(* And of which two are the two ends of a Meeting: one is connected only   *)
(* if the other is, or is about to be (Agreement).                         *)
(***************************************************************************)
EXTENDS TCP, TLAPS, FiniteSetTheorems

-----------------------------------------------------------------------------
(* The waits of a machine.                                                 *)

StopPlaces == {"SendWait.stop", "CatchMail.stop", "ReceiveWait.stop",
               "CatchWithAnswer.stop", "gap.stop"}
WaitPlaces == {"SendWait.wait", "CatchMail.wait", "ReceiveWait.wait",
               "CatchWithAnswer.wait", "gap.wait"}
Plain(place) == place \notin StopPlaces /\ place \notin WaitPlaces

(* WakeUpForEachWait, with the types it needs to be inductive.             *)
Counts ==
    /\ DOMAIN pc = Threads
    /\ stopSem \in [Machines -> Nat]
    /\ waitSem \in [Machines -> Nat]
    /\ timers \in [Machines -> Nat]
IInv == Counts /\ WakeUpForEachWait

LEMMA ThreadsOfMachine ==
  ASSUME NEW m \in Machines
  PROVE  /\ IsFiniteSet(AtStop(m)) /\ IsFiniteSet(AtWait(m))
         /\ Cardinality(AtStop(m)) \in Nat /\ Cardinality(AtWait(m)) \in Nat
<1> DEFINE all == {<<m, "main">>, <<m, "listener">>}
<1>1. \A t \in Threads : t[1] = m => t \in all
  BY DEF Threads
<1>2. AtStop(m) \in SUBSET all /\ AtWait(m) \in SUBSET all
  BY <1>1 DEF AtStop, AtWait
<1>3. IsFiniteSet(all)
  <2>1. IsFiniteSet({}) /\ IsFiniteSet({} \cup {<<m, "main">>})
    BY FS_EmptySet, FS_AddElement
  <2>2. IsFiniteSet(({} \cup {<<m, "main">>}) \cup {<<m, "listener">>})
    BY <2>1, FS_AddElement
  <2>3. all = ({} \cup {<<m, "main">>}) \cup {<<m, "listener">>}
    OBVIOUS
  <2> QED
    BY <2>2, <2>3
<1> QED
  BY <1>2, <1>3, FS_Subset, FS_CardinalityType

LEMMA OneMore ==
  ASSUME NEW S, IsFiniteSet(S), NEW x
  PROVE  /\ IsFiniteSet(S \cup {x}) /\ Cardinality(S \cup {x}) \in Nat
         /\ Cardinality(S \cup {x}) <= Cardinality(S) + 1
<1>1. IsFiniteSet(S \cup {x}) /\ Cardinality(S) \in Nat
  BY FS_AddElement, FS_CardinalityType
<1>2. Cardinality(S \cup {x}) = Cardinality(S) \/ Cardinality(S \cup {x}) = Cardinality(S) + 1
  <2>1. CASE x \in S
    <3>1. S \cup {x} = S
      BY <2>1
    <3> QED
      BY <3>1
  <2>2. CASE x \notin S
    BY <2>2, FS_AddElement
  <2> QED
    BY <2>1, <2>2
<1> QED
  BY <1>1, <1>2

(* A thread is a machine's.                                                *)
LEMMA OfMachine ==
  ASSUME NEW t \in Threads
  PROVE  t[1] \in Machines
BY MachinesAssumption DEF Threads

(* After stopSem->P() a thread waits for waitSem.                          *)
LEMMA AfterStopWaits ==
  ASSUME NEW place \in StopPlaces
  PROVE  AfterStop(place) \in WaitPlaces
<1> DEFINE a == "SendWait.stop"
           b == "CatchMail.stop"
           c == "ReceiveWait.stop"
           d == "CatchWithAnswer.stop"
           e == "gap.stop"
<1>1. /\ a # b /\ a # c /\ a # d /\ a # e /\ b # c /\ b # d /\ b # e
      /\ c # d /\ c # e /\ d # e
  OBVIOUS
<1>2. AfterStop(a) = "SendWait.wait" /\ AfterStop(b) = "CatchMail.wait"
  BY <1>1, Zenon DEF AfterStop
<1>3. AfterStop(c) = "ReceiveWait.wait" /\ AfterStop(d) = "CatchWithAnswer.wait"
  BY <1>1, Zenon DEF AfterStop
<1>4. AfterStop(e) = "gap.wait"
  BY <1>1, Zenon DEF AfterStop
<1> QED
  BY <1>2, <1>3, <1>4 DEF StopPlaces, WaitPlaces

(* The sets of waiting threads after thread t moved to a place.            *)
LEMMA Moves ==
  ASSUME NEW t \in Threads, NEW place, DOMAIN pc = Threads, pc' = [pc EXCEPT ![t] = place],
         NEW m \in Machines
  PROVE  /\ m # t[1] => AtStop(m)' = AtStop(m) /\ AtWait(m)' = AtWait(m)
         /\ AtStop(t[1])' = IF place \in StopPlaces THEN AtStop(t[1]) \cup {t}
                            ELSE AtStop(t[1]) \ {t}
         /\ AtWait(t[1])' = IF place \in WaitPlaces THEN AtWait(t[1]) \cup {t}
                            ELSE AtWait(t[1]) \ {t}
<1>1. /\ pc'[t] = place
      /\ \A u \in Threads : u # t => pc'[u] = pc[u]
  OBVIOUS
<1> QED
  BY <1>1 DEF AtStop, AtWait, AtStopP, AtWaitP, StopPlaces, WaitPlaces

(* The inequalities for one machine.                                       *)
Covered(m) ==
    /\ timers[m] + stopSem[m] >= Cardinality(AtStop(m))
    /\ timers[m] + waitSem[m] >= Cardinality(AtStop(m)) + Cardinality(AtWait(m))

LEMMA CoveredIs == WakeUpForEachWait <=> \A m \in Machines : Covered(m)
BY DEF WakeUpForEachWait, Covered

(* A step that begins no wait, and takes nothing from the semaphores.      *)
LEMMA PlainStep ==
  ASSUME IInv, NEW t \in Threads, NEW place, Plain(place),
         pc' = [pc EXCEPT ![t] = place], UNCHANGED <<timers, waitSem>>,
         stopSem' = stopSem \/ stopSem' = [stopSem EXCEPT ![t[1]] = @ + 1]
  PROVE  IInv'
<1>1. Counts'
  BY OfMachine DEF IInv, Counts
<1>2. ASSUME NEW m \in Machines PROVE Covered(m)'
  <2>1. AtStop(m)' \in SUBSET AtStop(m) /\ AtWait(m)' \in SUBSET AtWait(m)
    <3>1. DOMAIN pc = Threads
      BY DEF IInv, Counts
    <3>2. CASE m = t[1]
      BY <3>1, <3>2, Moves DEF Plain
    <3>3. CASE m # t[1]
      BY <3>1, <3>3, Moves
    <3> QED
      BY <3>2, <3>3
  <2>2. /\ Cardinality(AtStop(m)') <= Cardinality(AtStop(m))
        /\ Cardinality(AtWait(m)') <= Cardinality(AtWait(m))
        /\ Cardinality(AtStop(m)') \in Nat /\ Cardinality(AtWait(m)') \in Nat
    BY <2>1, ThreadsOfMachine, FS_Subset, FS_CardinalityType
  <2>3. /\ timers'[m] = timers[m] /\ waitSem'[m] = waitSem[m] /\ stopSem'[m] >= stopSem[m]
        /\ timers[m] \in Nat /\ waitSem[m] \in Nat /\ stopSem[m] \in Nat /\ stopSem'[m] \in Nat
    BY <1>1, OfMachine DEF IInv, Counts
  <2>4. Cardinality(AtStop(m)) \in Nat /\ Cardinality(AtWait(m)) \in Nat /\ Covered(m)
    BY ThreadsOfMachine, CoveredIs DEF IInv
  <2> QED
    BY <2>2, <2>3, <2>4 DEF Covered
<1>3. WakeUpForEachWait'
  BY <1>2 DEF WakeUpForEachWait, Covered
<1> QED
  BY <1>1, <1>3 DEF IInv

(* A thread schedules its wake-up and goes to stopSem->P().                *)
LEMMA ScheduleStep ==
  ASSUME IInv, NEW t \in Threads, NEW place \in StopPlaces, Schedule(t[1]), Goto(t, place)
  PROVE  IInv'
<1>1. t[1] \in Machines /\ place \notin WaitPlaces
  BY OfMachine DEF StopPlaces, WaitPlaces
<1>2. Counts'
  BY <1>1 DEF IInv, Counts, Schedule, Goto
<1>3. ASSUME NEW m \in Machines PROVE Covered(m)'
  <2>1. DOMAIN pc = Threads /\ pc' = [pc EXCEPT ![t] = place]
    BY DEF IInv, Counts, Goto
  <2>2. /\ Cardinality(AtStop(m)) \in Nat /\ Cardinality(AtWait(m)) \in Nat /\ Covered(m)
        /\ IsFiniteSet(AtStop(m)) /\ IsFiniteSet(AtWait(m))
    BY ThreadsOfMachine, CoveredIs DEF IInv
  <2>3. /\ waitSem' = waitSem /\ stopSem' = stopSem
        /\ timers[m] \in Nat /\ waitSem[m] \in Nat /\ stopSem[m] \in Nat
        /\ timers'[m] = IF m = t[1] THEN timers[m] + 1 ELSE timers[m]
    BY DEF IInv, Counts, Schedule
  <2>4. CASE m = t[1]
    <3>1. AtStop(m)' = AtStop(m) \cup {t} /\ AtWait(m)' \in SUBSET AtWait(m)
      BY <1>1, <2>1, <2>4, Moves
    <3>2. /\ Cardinality(AtStop(m)') <= Cardinality(AtStop(m)) + 1
          /\ Cardinality(AtStop(m)') \in Nat
      BY <2>2, <3>1, OneMore
    <3>3. /\ Cardinality(AtWait(m)') <= Cardinality(AtWait(m))
          /\ Cardinality(AtWait(m)') \in Nat
      BY <2>2, <3>1, FS_Subset, FS_CardinalityType
    <3> QED
      BY <2>2, <2>3, <2>4, <3>2, <3>3 DEF Covered
  <2>5. CASE m # t[1]
    <3>1. AtStop(m)' = AtStop(m) /\ AtWait(m)' = AtWait(m)
      BY <2>1, <2>5, Moves
    <3> QED
      BY <2>2, <2>3, <2>5, <3>1 DEF Covered
  <2> QED
    BY <2>4, <2>5
<1>4. WakeUpForEachWait'
  BY <1>3 DEF WakeUpForEachWait, Covered
<1> QED
  BY <1>2, <1>4 DEF IInv

LEMMA StopPStep ==
  ASSUME IInv, NEW t \in Threads, StopP(t)
  PROVE  IInv'
<1> DEFINE place == IF stopping[t[1]] /\ pc[t] # "gap.stop" THEN "FALSE"
                    ELSE AfterStop(pc[t])
<1>1. /\ t[1] \in Machines /\ DOMAIN pc = Threads /\ pc[t] \in StopPlaces
      /\ stopSem[t[1]] > 0
      /\ stopSem' = [stopSem EXCEPT ![t[1]] = @ - 1] /\ UNCHANGED <<waitSem, timers>>
      /\ pc' = [pc EXCEPT ![t] = place]
  BY OfMachine DEF IInv, Counts, StopP, AtStopP, StopPlaces, Goto
<1>2. place \notin StopPlaces
  <2>1. AfterStop(pc[t]) \in WaitPlaces
    BY <1>1, AfterStopWaits
  <2> QED
    BY <2>1 DEF StopPlaces, WaitPlaces
<1> HIDE DEF place
<1>3. Counts'
  BY <1>1 DEF IInv, Counts
<1>4. ASSUME NEW m \in Machines PROVE Covered(m)'
  <2>1. /\ Cardinality(AtStop(m)) \in Nat /\ Cardinality(AtWait(m)) \in Nat /\ Covered(m)
        /\ IsFiniteSet(AtStop(m)) /\ IsFiniteSet(AtWait(m))
    BY ThreadsOfMachine, CoveredIs DEF IInv
  <2>2. /\ waitSem' = waitSem /\ timers' = timers
        /\ timers[m] \in Nat /\ waitSem[m] \in Nat /\ stopSem[m] \in Nat
        /\ stopSem'[m] = IF m = t[1] THEN stopSem[m] - 1 ELSE stopSem[m]
    BY <1>1 DEF IInv, Counts
  <2>3. CASE m = t[1]
    <3>1. AtStop(m)' = AtStop(m) \ {t} /\ AtWait(m)' \in SUBSET (AtWait(m) \cup {t})
      BY <1>1, <1>2, <2>3, Moves
    <3>2. t \in AtStop(m)
      BY <1>1, <2>3 DEF AtStop, AtStopP, StopPlaces
    <3>3. Cardinality(AtStop(m)') = Cardinality(AtStop(m)) - 1
      BY <2>1, <3>1, <3>2, FS_RemoveElement
    <3>4. /\ Cardinality(AtWait(m) \cup {t}) <= Cardinality(AtWait(m)) + 1
          /\ Cardinality(AtWait(m) \cup {t}) \in Nat
          /\ IsFiniteSet(AtWait(m) \cup {t})
      BY <2>1, OneMore
    <3>5. /\ Cardinality(AtWait(m)') <= Cardinality(AtWait(m) \cup {t})
          /\ Cardinality(AtWait(m)') \in Nat
      BY <3>1, <3>4, FS_Subset, FS_CardinalityType
    <3> QED
      BY <2>1, <2>2, <2>3, <3>3, <3>4, <3>5 DEF Covered
  <2>4. CASE m # t[1]
    <3>1. AtStop(m)' = AtStop(m) /\ AtWait(m)' = AtWait(m)
      BY <1>1, <2>4, Moves
    <3> QED
      BY <2>1, <2>2, <2>4, <3>1 DEF Covered
  <2> QED
    BY <2>3, <2>4
<1>5. WakeUpForEachWait'
  BY <1>4 DEF WakeUpForEachWait, Covered
<1> QED
  BY <1>3, <1>5 DEF IInv

(* waitSem->P(), and on to a place that is no wait.                        *)
LEMMA WaitPStep ==
  ASSUME IInv, NEW t \in Threads, NEW from \in WaitPlaces, WaitP(t, from),
         NEW place, Plain(place), Goto(t, place)
  PROVE  IInv'
<1>1. /\ t[1] \in Machines /\ DOMAIN pc = Threads /\ pc[t] \in WaitPlaces
      /\ waitSem[t[1]] > 0
      /\ waitSem' = [waitSem EXCEPT ![t[1]] = @ - 1] /\ UNCHANGED <<stopSem, timers>>
      /\ pc' = [pc EXCEPT ![t] = place]
  BY OfMachine DEF IInv, Counts, WaitP, Goto
<1>2. Counts'
  BY <1>1 DEF IInv, Counts
<1>3. ASSUME NEW m \in Machines PROVE Covered(m)'
  <2>1. /\ Cardinality(AtStop(m)) \in Nat /\ Cardinality(AtWait(m)) \in Nat /\ Covered(m)
        /\ IsFiniteSet(AtStop(m)) /\ IsFiniteSet(AtWait(m))
    BY ThreadsOfMachine, CoveredIs DEF IInv
  <2>2. /\ stopSem' = stopSem /\ timers' = timers
        /\ timers[m] \in Nat /\ waitSem[m] \in Nat /\ stopSem[m] \in Nat
        /\ waitSem'[m] = IF m = t[1] THEN waitSem[m] - 1 ELSE waitSem[m]
    BY <1>1 DEF IInv, Counts
  <2>3. CASE m = t[1]
    <3>1. AtStop(m)' = AtStop(m) \ {t} /\ AtWait(m)' = AtWait(m) \ {t}
      BY <1>1, <2>3, Moves DEF Plain
    <3>2. t \in AtWait(m)
      BY <1>1, <2>3 DEF AtWait, AtWaitP, WaitPlaces
    <3>3. Cardinality(AtWait(m)') = Cardinality(AtWait(m)) - 1
      <4>1. Cardinality(AtWait(m) \ {t}) = Cardinality(AtWait(m)) - 1
        BY <2>1, <3>2, FS_RemoveElement
      <4> QED
        BY <3>1, <4>1
    <3>4. t \notin AtStop(m)
      BY <1>1 DEF AtStop, AtStopP, WaitPlaces
    <3>5. AtStop(m)' = AtStop(m)
      BY <3>1, <3>4
    <3> QED
      BY <2>1, <2>2, <2>3, <3>3, <3>5 DEF Covered
  <2>4. CASE m # t[1]
    <3>1. AtStop(m)' = AtStop(m) /\ AtWait(m)' = AtWait(m)
      BY <1>1, <2>4, Moves
    <3> QED
      BY <2>1, <2>2, <2>4, <3>1 DEF Covered
  <2> QED
    BY <2>3, <2>4
<1>4. WakeUpForEachWait'
  BY <1>3 DEF WakeUpForEachWait, Covered
<1> QED
  BY <1>2, <1>4 DEF IInv

(* WakeUpHandler.                                                          *)
LEMMA WakeUpStep ==
  ASSUME IInv, NEW m \in Machines, WakeUpHandler(m)
  PROVE  IInv'
<1>1. Counts'
  BY DEF IInv, Counts, WakeUpHandler
<1>2. ASSUME NEW n \in Machines PROVE Covered(n)'
  <2>1. AtStop(n)' = AtStop(n) /\ AtWait(n)' = AtWait(n)
    BY DEF AtStop, AtWait, AtStopP, AtWaitP, WakeUpHandler
  <2>2. /\ Cardinality(AtStop(n)) \in Nat /\ Cardinality(AtWait(n)) \in Nat /\ Covered(n)
    BY ThreadsOfMachine, CoveredIs DEF IInv
  <2>3. /\ timers[n] \in Nat /\ waitSem[n] \in Nat /\ stopSem[n] \in Nat
        /\ \/ /\ timers'[n] = timers[n] - 1 /\ stopSem'[n] = stopSem[n] + 1
              /\ waitSem'[n] = waitSem[n] + 1
           \/ timers'[n] = timers[n] /\ stopSem'[n] = stopSem[n] /\ waitSem'[n] = waitSem[n]
    BY DEF IInv, Counts, WakeUpHandler
  <2> QED
    BY <2>1, <2>2, <2>3 DEF Covered
<1>3. WakeUpForEachWait'
  BY <1>2 DEF WakeUpForEachWait, Covered
<1> QED
  BY <1>1, <1>3 DEF IInv

(* A step that moves no thread.                                            *)
LEMMA StillStep ==
  ASSUME IInv, UNCHANGED <<semVars, pc>>
  PROVE  IInv'
BY DEF IInv, Counts, WakeUpForEachWait, AtStop, AtWait, AtStopP, AtWaitP, semVars

-----------------------------------------------------------------------------
(* Every step is one of these.                                             *)

LEMMA LoopsInv ==
  ASSUME IInv, NEW t \in Threads, Loops(t)
  PROVE  IInv'
<1>1. CASE SendWaitAgain(t)
  BY <1>1, ScheduleStep DEF SendWaitAgain, StopPlaces
<1>2. CASE CatchMailAgain(t)
  BY <1>2, ScheduleStep DEF CatchMailAgain, StopPlaces
<1>3. CASE ReceiveWaitAgain(t)
  BY <1>3, ScheduleStep DEF ReceiveWaitAgain, StopPlaces
<1>4. CASE CatchWithAnswerAgain(t)
  BY <1>4, ScheduleStep DEF CatchWithAnswerAgain, StopPlaces
<1>5. CASE StopP(t)
  BY <1>5, StopPStep
<1>6. /\ Plain("SendWait") /\ Plain("CatchMail") /\ Plain("ReceiveWait") /\ Plain("Answer")
      /\ Plain("CatchWithAnswer") /\ Plain("TRUE") /\ Plain("FALSE")
  BY DEF Plain, StopPlaces, WaitPlaces
<1>7. /\ "SendWait.wait" \in WaitPlaces /\ "CatchMail.wait" \in WaitPlaces
      /\ "ReceiveWait.wait" \in WaitPlaces /\ "CatchWithAnswer.wait" \in WaitPlaces
  BY DEF WaitPlaces
<1>8. CASE SendWaitPolls(t)
  BY <1>6, <1>7, <1>8, WaitPStep DEF SendWaitPolls
<1>9. CASE CatchMailPolls(t)
  BY <1>6, <1>7, <1>9, WaitPStep DEF CatchMailPolls
<1>10. CASE ReceiveWaitPolls(t)
  BY <1>6, <1>7, <1>10, WaitPStep DEF ReceiveWaitPolls
<1>11. CASE CatchWithAnswerPolls(t)
  BY <1>6, <1>7, <1>11, WaitPStep DEF CatchWithAnswerPolls
<1>12. CASE SendWaitGivesUp(t) \/ SendWaitReturns(t) \/ CatchWithAnswerReturns(t) \/ Answer(t)
  BY <1>6, <1>12, PlainStep
  DEF SendWaitGivesUp, SendWaitReturns, CatchWithAnswerReturns, Answer, Goto, semVars
<1> QED
  BY <1>1, <1>2, <1>3, <1>4, <1>5, <1>8, <1>9, <1>10, <1>11, <1>12 DEF Loops

LEMMA ConnectionInv ==
  ASSUME IInv, NEW t \in Threads, Connection(t)
  PROVE  IInv'
<1>1. /\ Plain("SendWait") /\ Plain("ReceiveWait") /\ Plain("Answer") /\ Plain("idle")
      /\ Plain("Receive")
  BY DEF Plain, StopPlaces, WaitPlaces
<1>2. CASE SyncWithMachine(t) \/ SyncAnswered(t) \/ SyncFails(t) \/ SyncReturns(t)
  BY <1>1, <1>2, PlainStep, StillStep
  DEF SyncWithMachine, SyncAnswered, SyncFails, SyncReturns, Refuses, Returns, SendWait,
      ReceiveWait, Goto, semVars
<1>3. CASE OpenConnection(t) \/ OpenReceives(t) \/ OpenAnswers(t) \/ OpenReturns(t)
  BY <1>1, <1>3, PlainStep, StillStep
  DEF OpenConnection, OpenReceives, ReceivesFirst, OpenAnswers, OpenReturns, Refuses, Returns,
      SendWait, Goto, semVars
<1>4. CASE EndConnection(t) \/ EndReturns(t)
  BY <1>1, <1>4, PlainStep, StillStep
  DEF EndConnection, EndReturns, Refuses, Returns, SendWait, Goto, semVars
<1>5. CASE ListenForEndConnection(t) \/ ListenReceives(t) \/ ListenReturns(t)
  BY <1>1, <1>5, PlainStep
  DEF ListenForEndConnection, ListenReceives, ReceivesFirst, ListenReturns, Goto, semVars
<1> QED
  BY <1>2, <1>3, <1>4, <1>5 DEF Connection

LEMMA SendsInv ==
  ASSUME IInv, NEW t \in Threads, NEW name, Sends(t, name) \/ SendPaused(t)
  PROVE  IInv'
<1>1. Plain("SendWait") /\ Plain("paused") /\ Plain("idle")
  BY DEF Plain, StopPlaces, WaitPlaces
<1>2. CASE SendPauses(t, name)
  BY <1>2, ScheduleStep DEF SendPauses, StopPlaces
<1>3. CASE SendPaused(t)
  BY <1>1, <1>3, WaitPStep DEF SendPaused, WaitPlaces
<1>4. CASE \/ SendInfoAnswered(t, name) \/ SendNext(t, name) \/ SendReturns(t, name)
           \/ SendFails(t, name)
  BY <1>1, <1>4, PlainStep
  DEF SendInfoAnswered, SendNext, SendMessage, SendReturns, SendFails, Returns, SendWait,
      Goto, semVars
<1> QED
  BY <1>2, <1>3, <1>4 DEF Sends

LEMMA ObtainsInv ==
  ASSUME IInv, NEW t \in Threads, NEW name, Obtains(t, name)
  PROVE  IInv'
<1>1. Plain("ReceiveWait") /\ Plain("idle")
  BY DEF Plain, StopPlaces, WaitPlaces
<1> QED
  BY <1>1, PlainStep
  DEF Obtains, ReceiveInfo, ReceiveNext, ReceiveReturns, ReceiveFails, ReceiveMessage,
      ReceiveWait, Returns, Goto, semVars

LEMMA DataInv ==
  ASSUME IInv, NEW t \in Threads, Strings(t) \/ Files(t)
  PROVE  IInv'
<1>1. Plain("SendWait") /\ Plain("ReceiveWait") /\ Plain("crashed")
  BY DEF Plain, StopPlaces, WaitPlaces
<1>2. CASE SendString(t) \/ SendFile(t)
  BY <1>1, <1>2, PlainStep, StillStep DEF SendString, SendFile, Refuses, SendWait, Goto, semVars
<1>3. CASE ReceiveString(t) \/ ReceiveFile(t) \/ WriteCrashes(t)
  BY <1>1, <1>3, PlainStep, StillStep
  DEF ReceiveString, ReceiveFile, WriteCrashes, Refuses, ReceiveWait, Goto, semVars
<1> QED
  BY <1>2, <1>3, SendsInv, ObtainsInv DEF Strings, Files

LEMMA InitInv == Init => IInv
<1> SUFFICES ASSUME Init PROVE IInv
  OBVIOUS
<1>1. Counts
  BY DEF Init, Counts
<1>2. ASSUME NEW m \in Machines PROVE Covered(m)
  <2>1. \A t \in Threads : pc[t] = "idle"
    BY DEF Init
  <2>2. AtStop(m) = {} /\ AtWait(m) = {}
    BY <2>1 DEF AtStop, AtWait, AtStopP, AtWaitP
  <2>3. Cardinality(AtStop(m)) = 0 /\ Cardinality(AtWait(m)) = 0
    BY <2>2, FS_EmptySet
  <2> QED
    BY <1>1, <2>3 DEF Covered, Counts
<1> QED
  BY <1>1, <1>2 DEF IInv, WakeUpForEachWait, Covered

LEMMA NextInv ==
  ASSUME IInv, [Next]_vars
  PROVE  IInv'
<1>1. ASSUME NEW t \in Threads, Step(t) PROVE IInv'
  BY <1>1, LoopsInv, ConnectionInv, DataInv DEF Step
<1>2. ASSUME NEW m \in Machines, WakeUpHandler(m) \/ Deliver(m) PROVE IInv'
  BY <1>2, WakeUpStep, StillStep DEF Deliver
<1>3. CASE UNCHANGED vars
  BY <1>3, StillStep DEF vars
<1> QED
  BY <1>1, <1>2, <1>3 DEF Next, Quiet

(* For each thread at stopSem->P() or waitSem->P() there is a V(), or an   *)
(* interrupt that will make it, whichever thread takes it: no wake-up is   *)
(* lost, for any number of machines, with or without a listener.           *)
THEOREM NoLostWakeUp == Spec => []WakeUpForEachWait
<1>1. IInv /\ [Next]_vars => IInv'
  BY NextInv
<1>2. IInv => WakeUpForEachWait
  BY DEF IInv
<1> QED
  BY <1>1, <1>2, InitInv, PTL DEF Spec
-----------------------------------------------------------------------------
(* A CONVERSATION.  In it one machine sends one string or file, and what   *)
(* it reports as sent has arrived.                                         *)

(* The mail on its way to a mailbox, or in it, and which comes before      *)
(* which.                                                                  *)
OnTheWay(n, x) == {i \in DOMAIN transit[n] : transit[n][i].box = x}
Mails(n, x) == {boxes[n][x][i] : i \in DOMAIN boxes[n][x]}
               \cup {transit[n][i] : i \in OnTheWay(n, x)}
Ahead(n, x, p, q) ==
    \/ \E i, j \in DOMAIN boxes[n][x] : i < j /\ p = boxes[n][x][i] /\ q = boxes[n][x][j]
    \/ \E i \in DOMAIN boxes[n][x], j \in OnTheWay(n, x) : p = boxes[n][x][i] /\ q = transit[n][j]
    \/ \E i, j \in OnTheWay(n, x) : i < j /\ p = transit[n][i] /\ q = transit[n][j]

(* What each kind of message looks like.  Nobody sends a STOP.             *)
Data == {"STRING_INFO", "FILE_INFO", "MSG"}
Fits(p, x) ==
    /\ p \in Message /\ p.box = x /\ x # "STOP"
    /\ x = "SYNC" => p.token >= 64
    /\ x \in {"STRING_INFO", "FILE_INFO"} => p.token = InfoToken /\ p.piece = 0
    /\ x = "MSG" => p.piece > 0 /\ p.token = Token[p.piece]
MailTypes ==
    /\ transit \in [Machines -> Seq(Message)]
    /\ boxes \in [Machines -> [Boxes -> Seq(Message)]]
MailFits == \A n \in Machines, x \in Boxes : \A p \in Mails(n, x) : Fits(p, x)
NoStop == \A n \in Machines : Mails(n, "STOP") = {}

Names == {"SyncWithMachine", "OpenConnection", "EndConnection",
          "SendString", "ReceiveString", "SendFile", "ReceiveFile"}
LocFields == {"out", "box", "got", "limit", "attempts", "misses", "caught", "piece"}
Domains ==
    /\ DOMAIN pc = Threads /\ DOMAIN loc = Threads /\ DOMAIN call = Threads /\ DOMAIN stage = Threads
    /\ DOMAIN script = Machines /\ DOMAIN connectedID = Machines /\ DOMAIN stopping = Machines
    /\ DOMAIN received = Machines /\ DOMAIN ret = Machines
    /\ \A t \in Threads : DOMAIN loc[t] = LocFields
    /\ \A m \in Machines : DOMAIN ret[m] = Names

(* A step changes what belongs to its thread and to its machine only.      *)
SameThread(t) == pc'[t] = pc[t] /\ loc'[t] = loc[t] /\ call'[t] = call[t] /\ stage'[t] = stage[t]
SameMachine(m) ==
    /\ script'[m] = script[m] /\ connectedID'[m] = connectedID[m] /\ stopping'[m] = stopping[m]
    /\ received'[m] = received[m] /\ ret'[m] = ret[m]
Frame(t) ==
    /\ \A u \in Threads : u # t => SameThread(u)
    /\ \A m \in Machines : m # t[1] => SameMachine(m)

LEMMA LoopsFrame ==
  ASSUME Domains, NEW t \in Threads, Loops(t)
  PROVE  Domains' /\ Frame(t) /\ SameMachine(t[1])
<1>1. CASE SendWaitAgain(t)
  BY <1>1 DEF SendWaitAgain, Goto, Set, Locals, Domains, Frame, SameThread, SameMachine, callVars, LocFields
<1>2. CASE SendWaitGivesUp(t)
  BY <1>2 DEF SendWaitGivesUp, Goto, Set, Locals, Domains, Frame, SameThread, SameMachine, callVars, LocFields
<1>3. CASE CatchMailAgain(t)
  BY <1>3 DEF CatchMailAgain, Goto, Set, Locals, Domains, Frame, SameThread, SameMachine, callVars, LocFields
<1>4. CASE ReceiveWaitAgain(t)
  BY <1>4 DEF ReceiveWaitAgain, Goto, Set, Locals, Domains, Frame, SameThread, SameMachine, callVars, LocFields
<1>5. CASE CatchWithAnswerAgain(t)
  BY <1>5 DEF CatchWithAnswerAgain, Goto, Set, Locals, Domains, Frame, SameThread, SameMachine, callVars, LocFields
<1>6. CASE StopP(t)
  BY <1>6 DEF StopP, Goto, Set, Locals, Domains, Frame, SameThread, SameMachine, callVars, LocFields
<1>7. CASE SendWaitPolls(t)
  BY <1>7 DEF SendWaitPolls, WaitP, Goto, Set, Locals, Domains, Frame, SameThread, SameMachine, callVars, LocFields
<1>8. CASE CatchMailPolls(t)
  BY <1>8 DEF CatchMailPolls, WaitP, Goto, Set, Locals, Domains, Frame, SameThread, SameMachine, callVars, LocFields
<1>9. CASE SendWaitReturns(t)
  BY <1>9 DEF SendWaitReturns, Goto, Set, Locals, Domains, Frame, SameThread, SameMachine, callVars, LocFields
<1>10. CASE ReceiveWaitPolls(t)
  BY <1>10 DEF ReceiveWaitPolls, WaitP, Goto, Set, Locals, Domains, Frame, SameThread, SameMachine, callVars, LocFields
<1>11. CASE CatchWithAnswerPolls(t)
  BY <1>11 DEF CatchWithAnswerPolls, WaitP, Goto, Set, Locals, Domains, Frame, SameThread, SameMachine, callVars, LocFields
<1>12. CASE Answer(t)
  BY <1>12 DEF Answer, Goto, Set, Locals, Domains, Frame, SameThread, SameMachine, callVars, LocFields
<1>13. CASE CatchWithAnswerReturns(t)
  BY <1>13 DEF CatchWithAnswerReturns, Goto, Set, Locals, Domains, Frame, SameThread, SameMachine, callVars, LocFields
<1> QED
  BY <1>1, <1>2, <1>3, <1>4, <1>5, <1>6, <1>7, <1>8, <1>9, <1>10, <1>11, <1>12, <1>13 DEF Loops

LEMMA ConnectionFrame ==
  ASSUME Domains, NEW t \in Threads, Connection(t)
  PROVE  Domains' /\ Frame(t)
<1>1. CASE SyncWithMachine(t)
  BY <1>1 DEF SyncWithMachine, Calling, Refuses, Starts, SendWait, Goto, Set, Locals, Domains, Frame, SameThread, SameMachine, callVars, LocFields, Names
<1>2. CASE SyncAnswered(t)
  BY <1>2 DEF SyncAnswered, Ended, Continues, ReceiveWait, Goto, Set, Locals, Domains, Frame, SameThread, SameMachine, callVars, LocFields, Names
<1>3. CASE SyncFails(t)
  BY <1>3 DEF SyncFails, Ended, Returns, Goto, Set, Locals, Domains, Frame, SameThread, SameMachine, callVars, LocFields, Names
<1>4. CASE SyncReturns(t)
  BY <1>4 DEF SyncReturns, Ended, Returns, Goto, Set, Locals, Domains, Frame, SameThread, SameMachine, callVars, LocFields, Names
<1>5. CASE OpenConnection(t)
  BY <1>5 DEF OpenConnection, Calling, Refuses, Starts, Goto, Set, Locals, Domains, Frame, SameThread, SameMachine, callVars, LocFields, Names
<1>6. CASE OpenReceives(t)
  BY <1>6 DEF OpenReceives, ReceivesFirst, Ended, Goto, Set, Locals, Domains, Frame, SameThread, SameMachine, callVars, LocFields, Names
<1>7. CASE OpenAnswers(t)
  BY <1>7 DEF OpenAnswers, Ended, Continues, SendWait, Goto, Set, Locals, Domains, Frame, SameThread, SameMachine, callVars, LocFields, Names
<1>8. CASE OpenReturns(t)
  BY <1>8 DEF OpenReturns, Ended, Returns, Goto, Set, Locals, Domains, Frame, SameThread, SameMachine, callVars, LocFields, Names
<1>9. CASE EndConnection(t)
  BY <1>9 DEF EndConnection, Calling, Refuses, Starts, SendWait, Goto, Set, Locals, Domains, Frame, SameThread, SameMachine, callVars, LocFields, Names
<1>10. CASE EndReturns(t)
  BY <1>10 DEF EndReturns, Ended, Returns, Goto, Set, Locals, Domains, Frame, SameThread, SameMachine, callVars, LocFields, Names
<1>11. CASE ListenForEndConnection(t)
  BY <1>11 DEF ListenForEndConnection, Starts, Goto, Set, Locals, Domains, Frame, SameThread, SameMachine, callVars, LocFields, Names
<1>12. CASE ListenReceives(t)
  BY <1>12 DEF ListenReceives, ReceivesFirst, Ended, Goto, Set, Locals, Domains, Frame, SameThread, SameMachine, callVars, LocFields, Names
<1>13. CASE ListenReturns(t)
  BY <1>13 DEF ListenReturns, Ended, Goto, Set, Locals, Domains, Frame, SameThread, SameMachine, callVars, LocFields, Names
<1> QED
  BY <1>1, <1>2, <1>3, <1>4, <1>5, <1>6, <1>7, <1>8, <1>9, <1>10, <1>11, <1>12, <1>13 DEF Connection

LEMMA SendsFrame ==
  ASSUME Domains, NEW t \in Threads, NEW name \in Sending, Sends(t, name)
  PROVE  Domains' /\ Frame(t)
<1>1. CASE SendInfoAnswered(t, name)
  BY <1>1 DEF SendInfoAnswered, Ended, SendMessage, Continues, SendWait, Goto, Set, Locals, Domains, Frame, SameThread, SameMachine, callVars, LocFields, Names, Sending
<1>2. CASE SendPauses(t, name)
  BY <1>2 DEF SendPauses, Ended, Goto, Set, Locals, Domains, Frame, SameThread, SameMachine, callVars, LocFields, Names, Sending
<1>3. CASE SendNext(t, name)
  BY <1>3 DEF SendNext, Ended, SendMessage, Continues, SendWait, Goto, Set, Locals, Domains, Frame, SameThread, SameMachine, callVars, LocFields, Names, Sending
<1>4. CASE SendReturns(t, name)
  BY <1>4 DEF SendReturns, Ended, Returns, Goto, Set, Locals, Domains, Frame, SameThread, SameMachine, callVars, LocFields, Names, Sending
<1>5. CASE SendFails(t, name)
  BY <1>5 DEF SendFails, Ended, Returns, Goto, Set, Locals, Domains, Frame, SameThread, SameMachine, callVars, LocFields, Names, Sending
<1> QED
  BY <1>1, <1>2, <1>3, <1>4, <1>5 DEF Sends

LEMMA ObtainsFrame ==
  ASSUME Domains, NEW t \in Threads, NEW name \in Obtaining, Obtains(t, name)
  PROVE  Domains' /\ Frame(t)
<1>1. CASE ReceiveInfo(t, name)
  BY <1>1 DEF ReceiveInfo, Ended, ReceiveMessage, Continues, ReceiveWait, Goto, Set, Locals, Domains, Frame, SameThread, SameMachine, callVars, LocFields, Names, Obtaining
<1>2. CASE ReceiveNext(t, name)
  BY <1>2 DEF ReceiveNext, Stored, Ended, ReceiveMessage, Continues, ReceiveWait, Goto, Set, Locals, Domains, Frame, SameThread, SameMachine, callVars, LocFields, Names, Obtaining
<1>3. CASE ReceiveReturns(t, name)
  BY <1>3 DEF ReceiveReturns, Stored, Ended, Returns, Goto, Set, Locals, Domains, Frame, SameThread, SameMachine, callVars, LocFields, Names, Obtaining
<1>4. CASE ReceiveFails(t, name)
  BY <1>4 DEF ReceiveFails, Ended, Returns, Goto, Set, Locals, Domains, Frame, SameThread, SameMachine, callVars, LocFields, Names, Obtaining
<1> QED
  BY <1>1, <1>2, <1>3, <1>4 DEF Obtains

LEMMA DataFrame ==
  ASSUME Domains, NEW t \in Threads, Strings(t) \/ Files(t)
  PROVE  Domains' /\ Frame(t)
<1>1. CASE SendString(t)
  BY <1>1 DEF SendString, Calling, Refuses, Starts, SendWait, Goto, Set, Locals, Domains, Frame, SameThread, SameMachine, callVars, LocFields, Names
<1>2. CASE SendFile(t)
  BY <1>2 DEF SendFile, Calling, Refuses, Starts, SendWait, Goto, Set, Locals, Domains, Frame, SameThread, SameMachine, callVars, LocFields, Names
<1>3. CASE SendPaused(t)
  BY <1>3 DEF SendPaused, WaitP, Goto, Set, Locals, Domains, Frame, SameThread, SameMachine, callVars, LocFields, Names
<1>4. CASE ReceiveString(t)
  BY <1>4 DEF ReceiveString, Calling, Refuses, Starts, ReceiveWait, Goto, Set, Locals, Domains, Frame, SameThread, SameMachine, callVars, LocFields, Names
<1>5. CASE ReceiveFile(t)
  BY <1>5 DEF ReceiveFile, Calling, Refuses, Starts, ReceiveWait, Goto, Set, Locals, Domains, Frame, SameThread, SameMachine, callVars, LocFields, Names
<1>6. CASE WriteCrashes(t)
  BY <1>6 DEF WriteCrashes, Ended, Goto, Set, Locals, Domains, Frame, SameThread, SameMachine, callVars, LocFields, Names
<1>7. ASSUME NEW name \in Sending, Sends(t, name) PROVE Domains' /\ Frame(t)
  BY <1>7, SendsFrame
<1>8. ASSUME NEW name \in Obtaining, Obtains(t, name) PROVE Domains' /\ Frame(t)
  BY <1>8, ObtainsFrame
<1> QED
  BY <1>7, <1>8, <1>1, <1>2, <1>3, <1>4, <1>5, <1>6 DEF Strings, Files, Sending, Obtaining

LEMMA StepFrame ==
  ASSUME Domains, NEW t \in Threads, Step(t)
  PROVE  Domains' /\ Frame(t)
BY LoopsFrame, ConnectionFrame, DataFrame DEF Step

-----------------------------------------------------------------------------
(* Mail.                                                                   *)
Fewer ==
    \A n \in Machines, x \in Boxes :
        /\ \A p \in Mails(n, x)' : p \in Mails(n, x)
        /\ \A p, q : Ahead(n, x, p, q)' => Ahead(n, x, p, q)
More(msg) ==
    \A n \in Machines, x \in Boxes :
        /\ \A p \in Mails(n, x)' : p \in Mails(n, x) \/ (n = msg.to /\ x = msg.box /\ p = msg)
        /\ \A p, q : Ahead(n, x, p, q)' =>
              \/ Ahead(n, x, p, q)
              \/ n = msg.to /\ x = msg.box /\ q = msg /\ p \in Mails(n, x)
Took1(n, x, h) ==
    /\ Fewer
    /\ h \in Mails(n, x)
    /\ \A q \in Mails(n, x)' : Ahead(n, x, h, q)

LEMMA Appended ==
  ASSUME NEW s \in Seq(Message), NEW m \in Message
  PROVE  /\ Append(s, m) \in Seq(Message)
         /\ DOMAIN Append(s, m) = DOMAIN s \cup {Len(s) + 1}
         /\ \A i \in DOMAIN s : Append(s, m)[i] = s[i] /\ i < Len(s) + 1
         /\ Append(s, m)[Len(s) + 1] = m
         /\ Len(s) + 1 \notin DOMAIN s
OBVIOUS

LEMMA TailOf ==
  ASSUME NEW s \in Seq(Message), s # <<>>
  PROVE  /\ Tail(s) \in Seq(Message) /\ Head(s) \in Message
         /\ 1 \in DOMAIN s /\ Head(s) = s[1]
         /\ \A i \in DOMAIN Tail(s) : i \in Nat /\ i + 1 \in DOMAIN s /\ i + 1 > 1 /\ Tail(s)[i] = s[i + 1]
OBVIOUS

LEMMA PostMore ==
  ASSUME MailTypes, NEW msg \in Message, M!Post(msg)
  PROVE  MailTypes' /\ More(msg)
<1>1. /\ msg.to \in Machines /\ msg.box \in Boxes /\ transit[msg.to] \in Seq(Message)
      /\ boxes' = boxes
      /\ transit' = [transit EXCEPT ![msg.to] = Append(@, msg)]
  BY DEF M!Post, MailTypes, Message
<1>2. MailTypes'
  BY <1>1, Appended DEF MailTypes
<1>3. ASSUME NEW n \in Machines, NEW x \in Boxes
      PROVE  /\ \A p \in Mails(n, x)' : p \in Mails(n, x) \/ (n = msg.to /\ x = msg.box /\ p = msg)
             /\ \A p, q : Ahead(n, x, p, q)' =>
                   \/ Ahead(n, x, p, q)
                   \/ n = msg.to /\ x = msg.box /\ q = msg /\ p \in Mails(n, x)
  <2>1. CASE n # msg.to
    <3>1. transit'[n] = transit[n]
      BY <1>1, <2>1 DEF MailTypes
    <3> QED
      BY <1>1, <3>1 DEF Mails, Ahead, OnTheWay
  <2>2. CASE n = msg.to
    <3> DEFINE s == transit[n]
    <3>1. PICK r : r = transit'[n]
      OBVIOUS
    <3>2. r = Append(s, msg) /\ s \in Seq(Message)
      BY <1>1, <2>2, <3>1 DEF MailTypes
    <3>3. PICK l : l = Len(s) + 1
      OBVIOUS
    <3>4. /\ DOMAIN r = DOMAIN s \cup {l} /\ r[l] = msg /\ l \notin DOMAIN s
          /\ \A i \in DOMAIN s : r[i] = s[i] /\ i < l /\ ~(l < i)
      <4>1. \A i \in DOMAIN s : i < l => ~(l < i)
        BY <3>2, <3>3
      <4> QED
        BY <3>2, <3>3, <4>1, Appended
    <3>5. /\ OnTheWay(n, x)' = {i \in DOMAIN r : r[i].box = x}
          /\ Mails(n, x)' = {boxes[n][x][i] : i \in DOMAIN boxes[n][x]} \cup {r[i] : i \in {j \in DOMAIN r : r[j].box = x}}
      BY <1>1, <3>1 DEF OnTheWay, Mails
    <3>6. \A i \in OnTheWay(n, x)' : (i \in OnTheWay(n, x) /\ r[i] = s[i] /\ i # l) \/ (i = l /\ x = msg.box)
      BY <3>4, <3>5 DEF OnTheWay
    <3>7. \A p \in Mails(n, x)' : p \in Mails(n, x) \/ (x = msg.box /\ p = msg)
      BY <3>4, <3>5, <3>6 DEF Mails, OnTheWay
    <3>8. ASSUME NEW p, NEW q, Ahead(n, x, p, q)'
          PROVE  Ahead(n, x, p, q) \/ (x = msg.box /\ q = msg /\ p \in Mails(n, x))
      <4>1. CASE \E i, j \in DOMAIN boxes[n][x] : i < j /\ p = boxes[n][x][i] /\ q = boxes[n][x][j]
        BY <4>1 DEF Ahead
      <4>2. CASE \E i \in DOMAIN boxes[n][x], j \in OnTheWay(n, x)' : p = boxes[n][x][i] /\ q = r[j]
        <5>1. PICK i \in DOMAIN boxes[n][x], j \in OnTheWay(n, x)' : p = boxes[n][x][i] /\ q = r[j]
          BY <4>2
        <5>2. p \in Mails(n, x)
          BY <5>1 DEF Mails
        <5> QED
          BY <3>4, <3>6, <5>1, <5>2 DEF Ahead
      <4>3. CASE \E i, j \in OnTheWay(n, x)' : i < j /\ p = r[i] /\ q = r[j]
        <5>1. PICK i \in OnTheWay(n, x)', j \in OnTheWay(n, x)' : i < j /\ p = r[i] /\ q = r[j]
          BY <4>3
        <5>2. i \in OnTheWay(n, x) /\ r[i] = s[i]
          <6>1. l \in Nat /\ i \in DOMAIN r /\ j \in DOMAIN r
            BY <3>2, <3>3, <3>5, <5>1
          <6>2. i # l
            BY <3>4, <5>1, <6>1
          <6> QED
            BY <3>6, <5>1, <6>2
        <5>3. p \in Mails(n, x)
          BY <5>1, <5>2 DEF Mails
        <5>4. CASE j = l
          BY <3>4, <3>6, <5>1, <5>3, <5>4
        <5>5. CASE j # l
          BY <3>6, <5>1, <5>2, <5>5 DEF Ahead
        <5> QED
          BY <5>4, <5>5
      <4> QED
        BY <1>1, <3>1, <3>8, <4>1, <4>2, <4>3 DEF Ahead
    <3> QED
      BY <2>2, <3>7, <3>8
  <2> QED
    BY <2>1, <2>2
<1> QED
  BY <1>2, <1>3 DEF More

LEMMA TakeOne ==
  ASSUME MailTypes, NEW m \in Machines, NEW b \in Boxes, M!Take(m, b)
  PROVE  MailTypes' /\ Took1(m, b, Head(boxes[m][b])) /\ Head(boxes[m][b]) \in Message
<1>1. /\ transit' = transit /\ boxes[m][b] # <<>> /\ boxes[m][b] \in Seq(Message)
      /\ boxes' = [boxes EXCEPT ![m][b] = Tail(@)]
  BY DEF M!Take, MailTypes
<1>2. /\ boxes'[m][b] = Tail(boxes[m][b])
      /\ \A n \in Machines, x \in Boxes : n # m \/ x # b => boxes'[n][x] = boxes[n][x]
  BY <1>1 DEF MailTypes
<1>3. PICK s : s = boxes[m][b]
  OBVIOUS
<1>4. PICK r : r = boxes'[m][b]
  OBVIOUS
<1>5. PICK h : h = Head(s)
  OBVIOUS
<1>6. /\ r \in Seq(Message) /\ h \in Message /\ 1 \in DOMAIN s /\ h = s[1]
      /\ \A i \in DOMAIN r : i \in Nat /\ i + 1 \in DOMAIN s /\ i + 1 > 1 /\ r[i] = s[i + 1]
  BY <1>1, <1>2, <1>3, <1>4, <1>5, TailOf
<1>7. MailTypes'
  BY <1>1, <1>4, <1>6, <1>2 DEF MailTypes
<1>8. ASSUME NEW n \in Machines, NEW x \in Boxes
      PROVE  /\ \A p \in Mails(n, x)' : p \in Mails(n, x)
             /\ \A p, q : Ahead(n, x, p, q)' => Ahead(n, x, p, q)
  <2>1. CASE n # m \/ x # b
    <3>1. boxes'[n][x] = boxes[n][x]
      BY <1>2, <2>1
    <3> QED
      BY <1>1, <3>1 DEF Mails, Ahead, OnTheWay
  <2>2. CASE n = m /\ x = b
    <3>1. OnTheWay(n, x)' = OnTheWay(n, x)
      BY <1>1 DEF OnTheWay
    <3>2. \A p \in Mails(n, x)' : p \in Mails(n, x)
      BY <1>1, <1>3, <1>4, <1>6, <2>2, <3>1 DEF Mails
    <3>3. ASSUME NEW p, NEW q, Ahead(n, x, p, q)' PROVE Ahead(n, x, p, q)
      <4>1. CASE \E i, j \in DOMAIN r : i < j /\ p = r[i] /\ q = r[j]
        <5>1. PICK i \in DOMAIN r, j \in DOMAIN r : i < j /\ p = r[i] /\ q = r[j]
          BY <4>1
        <5>2. i + 1 < j + 1 /\ i + 1 \in DOMAIN s /\ j + 1 \in DOMAIN s /\ p = s[i + 1] /\ q = s[j + 1]
          BY <1>6, <5>1
        <5> QED
          BY <1>3, <2>2, <5>2 DEF Ahead
      <4>2. CASE \E i \in DOMAIN r, j \in OnTheWay(n, x) : p = r[i] /\ q = transit[n][j]
        <5>1. PICK i \in DOMAIN r, j \in OnTheWay(n, x) : p = r[i] /\ q = transit[n][j]
          BY <4>2
        <5>2. i + 1 \in DOMAIN s /\ p = s[i + 1]
          BY <1>6, <5>1
        <5> QED
          BY <1>3, <2>2, <5>1, <5>2 DEF Ahead
      <4>3. CASE \E i, j \in OnTheWay(n, x) : i < j /\ p = transit[n][i] /\ q = transit[n][j]
        BY <4>3 DEF Ahead
      <4> QED
        BY <1>1, <1>4, <2>2, <3>1, <3>3, <4>1, <4>2, <4>3 DEF Ahead
    <3> QED
      BY <3>2, <3>3
  <2> QED
    BY <2>1, <2>2
<1>9. h \in Mails(m, b)
  BY <1>3, <1>6 DEF Mails
<1>10. ASSUME NEW q \in Mails(m, b)' PROVE Ahead(m, b, h, q)
  <2>1. CASE \E i \in DOMAIN r : q = r[i]
    <3>1. PICK i \in DOMAIN r : q = r[i]
      BY <2>1
    <3>2. 1 < i + 1 /\ i + 1 \in DOMAIN s /\ q = s[i + 1]
      BY <1>6, <3>1
    <3> QED
      BY <1>3, <1>6, <3>2 DEF Ahead
  <2>2. CASE \E j \in OnTheWay(m, b) : q = transit[m][j]
    BY <1>3, <1>6, <2>2 DEF Ahead
  <2> QED
    BY <1>1, <1>4, <2>1, <2>2 DEF Mails, OnTheWay
<1> QED
  BY <1>3, <1>5, <1>6, <1>7, <1>8, <1>9, <1>10 DEF Took1, Fewer

LEMMA DeliverFewer ==
  ASSUME MailTypes, NEW m \in Machines, M!Deliver(m)
  PROVE  MailTypes' /\ Fewer
<1>1. PICK s : s = transit[m]
  OBVIOUS
<1>2. PICK h : h = Head(s)
  OBVIOUS
<1>3. PICK r : r = transit'[m]
  OBVIOUS
<1>4. /\ s \in Seq(Message) /\ s # <<>>
      /\ transit' = [transit EXCEPT ![m] = Tail(@)]
      /\ boxes' = [boxes EXCEPT ![m][h.box] = Append(@, h)]
      /\ r = Tail(s)
  BY <1>1, <1>2, <1>3 DEF M!Deliver, MailTypes
<1>5. /\ r \in Seq(Message) /\ h \in Message /\ 1 \in DOMAIN s /\ h = s[1]
      /\ \A i \in DOMAIN r : i \in Nat /\ i + 1 \in DOMAIN s /\ i + 1 > 1 /\ r[i] = s[i + 1]
  BY <1>2, <1>4, TailOf
<1>6. h.box \in Boxes /\ boxes[m][h.box] \in Seq(Message)
  BY <1>5 DEF MailTypes, Message
<1>7. PICK u : u = boxes[m][h.box]
  OBVIOUS
<1>8. PICK v : v = boxes'[m][h.box]
  OBVIOUS
<1>9. PICK l : l = Len(u) + 1
  OBVIOUS
<1>10. /\ v \in Seq(Message)
       /\ DOMAIN v = DOMAIN u \cup {l} /\ v[l] = h /\ l \notin DOMAIN u /\ ~(l < l)
       /\ \A i \in DOMAIN u : v[i] = u[i] /\ i < l /\ ~(l < i)
  <2>1. v = Append(u, h) /\ u \in Seq(Message)
    BY <1>4, <1>6, <1>7, <1>8 DEF MailTypes
  <2>2. ~(l < l) /\ \A i \in DOMAIN u : i < l => ~(l < i)
    BY <2>1, <1>9
  <2> QED
    BY <1>5, <1>9, <2>1, <2>2, Appended
<1>11. /\ \A n \in Machines : n # m => transit'[n] = transit[n]
       /\ \A n \in Machines, x \in Boxes : n # m \/ x # h.box => boxes'[n][x] = boxes[n][x]
  BY <1>4, <1>6 DEF MailTypes
<1>12. MailTypes'
  BY <1>3, <1>4, <1>5, <1>6, <1>8, <1>10, <1>11 DEF MailTypes
<1>13. ASSUME NEW x \in Boxes
       PROVE  \A i \in OnTheWay(m, x)' : i + 1 \in OnTheWay(m, x) /\ r[i] = s[i + 1] /\ i \in Nat /\ i + 1 > 1
  BY <1>1, <1>3, <1>5 DEF OnTheWay
<1>14. ASSUME NEW n \in Machines, NEW x \in Boxes
      PROVE  /\ \A p \in Mails(n, x)' : p \in Mails(n, x)
             /\ \A p, q : Ahead(n, x, p, q)' => Ahead(n, x, p, q)
  <2>1. CASE n # m
    <3>1. boxes'[n][x] = boxes[n][x] /\ transit'[n] = transit[n]
      BY <1>11, <2>1
    <3> QED
      BY <3>1 DEF Mails, Ahead, OnTheWay
  <2>2. CASE n = m /\ x # h.box
    <3>1. boxes'[n][x] = boxes[n][x]
      BY <1>11, <2>2
    <3>2. \A p \in Mails(n, x)' : p \in Mails(n, x)
      BY <1>1, <1>3, <1>13, <2>2, <3>1 DEF Mails
    <3>3. ASSUME NEW p, NEW q, Ahead(n, x, p, q)' PROVE Ahead(n, x, p, q)
      <4>1. CASE \E i, j \in DOMAIN boxes[n][x] : i < j /\ p = boxes[n][x][i] /\ q = boxes[n][x][j]
        BY <4>1 DEF Ahead
      <4>2. CASE \E i \in DOMAIN boxes[n][x], j \in OnTheWay(n, x)' : p = boxes[n][x][i] /\ q = r[j]
        BY <1>1, <1>13, <2>2, <4>2 DEF Ahead
      <4>3. CASE \E i, j \in OnTheWay(n, x)' : i < j /\ p = r[i] /\ q = r[j]
        <5>1. PICK i \in OnTheWay(n, x)', j \in OnTheWay(n, x)' : i < j /\ p = r[i] /\ q = r[j]
          BY <4>3
        <5>2. i + 1 < j + 1 /\ i + 1 \in OnTheWay(n, x) /\ j + 1 \in OnTheWay(n, x) /\ p = s[i + 1] /\ q = s[j + 1]
          BY <1>13, <2>2, <5>1
        <5> QED
          BY <1>1, <2>2, <5>2 DEF Ahead
      <4> QED
        BY <1>3, <2>2, <3>1, <3>3, <4>1, <4>2, <4>3 DEF Ahead
    <3> QED
      BY <3>2, <3>3
  <2>3. CASE n = m /\ x = h.box
    <3>1. 1 \in OnTheWay(n, x) /\ transit[n][1] = h
      BY <1>1, <1>5, <2>3 DEF OnTheWay
    <3>2. \A p \in Mails(n, x)' : p \in Mails(n, x)
      <4>1. \A i \in DOMAIN v : v[i] \in Mails(n, x)
        BY <1>7, <1>10, <2>3, <3>1 DEF Mails
      <4>2. \A i \in OnTheWay(n, x)' : r[i] \in Mails(n, x)
        BY <1>1, <1>13, <2>3 DEF Mails
      <4> QED
        BY <1>3, <1>8, <2>3, <4>1, <4>2 DEF Mails
    <3>3. ASSUME NEW p, NEW q, Ahead(n, x, p, q)' PROVE Ahead(n, x, p, q)
      <4>1. CASE \E i, j \in DOMAIN v : i < j /\ p = v[i] /\ q = v[j]
        <5>1. PICK i \in DOMAIN v, j \in DOMAIN v : i < j /\ p = v[i] /\ q = v[j]
          BY <4>1
        <5>2. i \in DOMAIN u /\ p = u[i]
          BY <1>10, <5>1
        <5>3. CASE j = l
          BY <1>7, <1>10, <2>3, <3>1, <5>1, <5>2, <5>3 DEF Ahead
        <5>4. CASE j # l
          BY <1>7, <1>10, <2>3, <5>1, <5>2, <5>4 DEF Ahead
        <5> QED
          BY <5>3, <5>4
      <4>2. CASE \E i \in DOMAIN v, j \in OnTheWay(n, x)' : p = v[i] /\ q = r[j]
        <5>1. PICK i \in DOMAIN v, j \in OnTheWay(n, x)' : p = v[i] /\ q = r[j]
          BY <4>2
        <5>2. j + 1 \in OnTheWay(n, x) /\ q = s[j + 1] /\ 1 < j + 1
          BY <1>13, <2>3, <5>1
        <5>3. CASE i = l
          BY <1>1, <1>10, <2>3, <3>1, <5>1, <5>2, <5>3 DEF Ahead
        <5>4. CASE i # l
          BY <1>1, <1>7, <1>10, <2>3, <5>1, <5>2, <5>4 DEF Ahead
        <5> QED
          BY <5>3, <5>4
      <4>3. CASE \E i, j \in OnTheWay(n, x)' : i < j /\ p = r[i] /\ q = r[j]
        <5>1. PICK i \in OnTheWay(n, x)', j \in OnTheWay(n, x)' : i < j /\ p = r[i] /\ q = r[j]
          BY <4>3
        <5>2. i + 1 < j + 1 /\ i + 1 \in OnTheWay(n, x) /\ j + 1 \in OnTheWay(n, x) /\ p = s[i + 1] /\ q = s[j + 1]
          BY <1>13, <2>3, <5>1
        <5> QED
          BY <1>1, <2>3, <5>2 DEF Ahead
      <4> QED
        BY <1>3, <1>8, <2>3, <3>3, <4>1, <4>2, <4>3 DEF Ahead
    <3> QED
      BY <3>2, <3>3
  <2> QED
    BY <2>1, <2>2, <2>3
<1> QED
  BY <1>12, <1>14 DEF Fewer

LEMMA SendMore ==
  ASSUME MailTypes, NEW msg \in Message, Send(msg)
  PROVE  MailTypes' /\ More(msg)
<1>1. CASE M!Post(msg)
  BY <1>1, PostMore
<1>2. CASE UNCHANGED mailVars
  BY <1>2 DEF mailVars, MailTypes, More, Mails, Ahead, OnTheWay
<1> QED
  BY <1>1, <1>2 DEF Send

LEMMA SameMail ==
  ASSUME MailTypes, UNCHANGED mailVars
  PROVE  MailTypes' /\ Fewer
BY DEF mailVars, MailTypes, Fewer, Mails, Ahead, OnTheWay

-----------------------------------------------------------------------------
(* What the loops do.                                                      *)
SendPlaces == {"SendWait", "SendWait.stop", "SendWait.wait",
               "CatchMail", "CatchMail.stop", "CatchMail.wait"}
ReceivePlaces == {"ReceiveWait", "ReceiveWait.stop", "ReceiveWait.wait"}
AnswerPlaces == {"Answer", "CatchWithAnswer", "CatchWithAnswer.stop", "CatchWithAnswer.wait"}

LEMMA AfterStopIs ==
  /\ AfterStop("SendWait.stop") = "SendWait.wait"
  /\ AfterStop("CatchMail.stop") = "CatchMail.wait"
  /\ AfterStop("ReceiveWait.stop") = "ReceiveWait.wait"
  /\ AfterStop("CatchWithAnswer.stop") = "CatchWithAnswer.wait"
  /\ AfterStop("gap.stop") = "gap.wait"
BY DEF AfterStop

(* A thread in SendWait, which waits for an answer to its message.         *)
Emits(t) ==
    /\ More(loc[t].out)
    /\ pc'[t] \in SendPlaces
    /\ loc'[t].got = loc[t].got
Hears(t, h) ==
    /\ Took1(t[1], "ACK", h) /\ h \in Message
    /\ pc'[t] \in SendPlaces
    /\ loc'[t].got = h.token
EndsWait(t) ==
    /\ Fewer
    /\ pc'[t] \in {"TRUE", "FALSE"}
    /\ loc'[t].got = loc[t].got
    /\ pc'[t] = "TRUE" => loc[t].got = loc[t].out.token + 1

LEMMA FewerMore ==
  ASSUME Fewer, NEW msg
  PROVE  More(msg)
BY DEF Fewer, More

LEMMA SendLoop ==
  ASSUME Domains, MailTypes, NEW t \in Threads, Loops(t), pc[t] \in SendPlaces,
         loc[t].box = "ACK", loc[t].out \in Message, ~stopping[t[1]]
  PROVE  /\ UNCHANGED callVars /\ MailTypes'
         /\ loc'[t].out = loc[t].out /\ loc'[t].box = "ACK"
         /\ Emits(t) \/ (\E h : Hears(t, h)) \/ EndsWait(t)
<1> DEFINE Goal == /\ UNCHANGED callVars /\ MailTypes'
                   /\ loc'[t].out = loc[t].out /\ loc'[t].box = "ACK"
                   /\ Emits(t) \/ (\E h : Hears(t, h)) \/ EndsWait(t)
<1>0. t[1] \in Machines /\ "ACK" \in Boxes
  BY OfMachine DEF Boxes
<1>1. CASE SendWaitAgain(t)
  <2>1. MailTypes' /\ More(loc[t].out)
    BY <1>1, SendMore DEF SendWaitAgain
  <2> QED
    BY <1>1, <2>1 DEF SendWaitAgain, Goto, Domains, Emits, SendPlaces
<1>2. CASE SendWaitGivesUp(t)
  <2>1. MailTypes' /\ More(loc[t].out)
    BY <1>2, SameMail, FewerMore DEF SendWaitGivesUp
  <2> QED
    BY <1>2, <2>1 DEF SendWaitGivesUp, Goto, Domains, Emits, SendPlaces
<1>3. CASE CatchMailAgain(t)
  <2>1. MailTypes' /\ More(loc[t].out)
    BY <1>3, SameMail, FewerMore DEF CatchMailAgain
  <2> QED
    BY <1>3, <2>1 DEF CatchMailAgain, Goto, Domains, Emits, SendPlaces
<1>4. CASE StopP(t)
  <2>1. MailTypes' /\ More(loc[t].out)
    BY <1>4, SameMail, FewerMore DEF StopP
  <2>2. pc[t] \in {"SendWait.stop", "CatchMail.stop"}
    BY <1>4 DEF StopP, AtStopP, SendPlaces
  <2>3. pc'[t] \in {"SendWait.wait", "CatchMail.wait"}
    BY <1>4, <2>2, AfterStopIs DEF StopP, Goto, Domains
  <2> QED
    BY <1>4, <2>1, <2>3 DEF StopP, Emits, SendPlaces
<1>5. CASE SendWaitPolls(t)
  <2>1. CASE NoMail(t)
    <3>1. MailTypes' /\ More(loc[t].out)
      BY <2>1, SameMail, FewerMore DEF NoMail
    <3>2. /\ pc'[t] \in SendPlaces /\ loc'[t].got = loc[t].got
          /\ loc'[t].out = loc[t].out /\ loc'[t].box = "ACK" /\ UNCHANGED callVars
      <4>1. CASE /\ Set(t, [loc[t] EXCEPT !.attempts = @ + 1]) /\ Goto(t, "SendWait")
        BY <1>5, <4>1 DEF SendWaitPolls, WaitP, Goto, Set, Domains, LocFields, SendPlaces
      <4>2. CASE /\ Set(t, [loc[t] EXCEPT !.got = Received(t).token]) /\ Receives(t)
        BY <2>1, <4>2 DEF NoMail, Receives, M!Take
      <4> QED
        BY <1>5, <4>1, <4>2 DEF SendWaitPolls
    <3> QED
      BY <3>1, <3>2 DEF Emits
  <2>2. CASE Receives(t)
    <3> DEFINE h == Received(t)
    <3>1. MailTypes' /\ Took1(t[1], "ACK", h) /\ h \in Message
      BY <1>0, <2>2, TakeOne DEF Receives, Received
    <3>2. /\ pc'[t] \in SendPlaces /\ loc'[t].got = h.token
          /\ loc'[t].out = loc[t].out /\ loc'[t].box = "ACK" /\ UNCHANGED callVars
      BY <1>5, <2>2 DEF SendWaitPolls, NoMail, Receives, M!Take, WaitP, Goto, Set, Domains, LocFields, SendPlaces
    <3> QED
      BY <3>1, <3>2 DEF Hears
  <2> QED
    BY <1>5, <2>1, <2>2 DEF SendWaitPolls
<1>6. CASE CatchMailPolls(t)
  <2>1. MailTypes' /\ More(loc[t].out)
    <3>1. CASE NoMail(t)
      BY <3>1, SameMail, FewerMore DEF NoMail
    <3>2. CASE Receives(t)
      BY <1>0, <3>2, TakeOne, FewerMore DEF Receives, Took1
    <3> QED
      BY <1>6, <3>1, <3>2 DEF CatchMailPolls
  <2> QED
    BY <1>6, <2>1 DEF CatchMailPolls, WaitP, Goto, Set, Domains, LocFields, Emits, SendPlaces
<1>7. CASE SendWaitReturns(t)
  <2>1. MailTypes' /\ Fewer
    BY <1>7, SameMail DEF SendWaitReturns
  <2> QED
    BY <1>7, <2>1 DEF SendWaitReturns, SendWaitStatus, Goto, Domains, EndsWait
<1> QED
  BY <1>1, <1>2, <1>3, <1>4, <1>5, <1>6, <1>7
  DEF Loops, SendPlaces, ReceiveWaitAgain, CatchWithAnswerAgain, ReceiveWaitPolls, CatchWithAnswerPolls,
      WaitP, Answer, CatchWithAnswerReturns

(* A thread in ReceiveWait, which waits for a message and answers it.      *)
Listens(t) ==
    /\ Fewer
    /\ pc[t] \in ReceivePlaces /\ pc'[t] \in ReceivePlaces
    /\ loc'[t].out = loc[t].out /\ loc'[t].piece = loc[t].piece
Gets(t, h) ==
    /\ Took1(t[1], loc[t].box, h) /\ h \in Message
    /\ pc[t] \in ReceivePlaces /\ pc'[t] = "Answer"
    /\ loc'[t].out = [loc[t].out EXCEPT !.token = h.token + 1] /\ loc'[t].piece = h.piece
Replies(t) ==
    /\ More(loc[t].out)
    /\ pc[t] \in AnswerPlaces /\ pc'[t] \in AnswerPlaces
    /\ loc'[t].out = loc[t].out /\ loc'[t].piece = loc[t].piece
HasReplied(t) ==
    /\ Fewer
    /\ pc[t] \in AnswerPlaces /\ pc'[t] = "TRUE"
    /\ loc'[t].out = loc[t].out /\ loc'[t].piece = loc[t].piece

LEMMA ReceiveLoop ==
  ASSUME Domains, MailTypes, NEW t \in Threads, Loops(t), pc[t] \in ReceivePlaces \cup AnswerPlaces,
         loc[t].box \in Boxes, loc[t].out \in Message, ~stopping[t[1]]
  PROVE  /\ UNCHANGED callVars /\ MailTypes'
         /\ loc'[t].box = loc[t].box
         /\ Listens(t) \/ (\E h : Gets(t, h)) \/ Replies(t) \/ HasReplied(t)
<1>0. t[1] \in Machines
  BY OfMachine
<1>1. CASE ReceiveWaitAgain(t)
  <2>1. MailTypes' /\ Fewer
    BY <1>1, SameMail DEF ReceiveWaitAgain
  <2> QED
    BY <1>1, <2>1 DEF ReceiveWaitAgain, Goto, Domains, Listens, ReceivePlaces
<1>2. CASE CatchWithAnswerAgain(t)
  <2>1. MailTypes' /\ More(loc[t].out)
    BY <1>2, SameMail, FewerMore DEF CatchWithAnswerAgain
  <2> QED
    BY <1>2, <2>1 DEF CatchWithAnswerAgain, Goto, Domains, Replies, AnswerPlaces
<1>3. CASE StopP(t)
  <2>1. MailTypes' /\ Fewer
    BY <1>3, SameMail DEF StopP
  <2>2. UNCHANGED <<callVars, loc>>
    BY <1>3 DEF StopP
  <2>3. CASE pc[t] = "ReceiveWait.stop"
    <3>1. pc'[t] = "ReceiveWait.wait"
      BY <1>3, <2>3, AfterStopIs DEF StopP, Goto, Domains
    <3> QED
      BY <2>1, <2>2, <2>3, <3>1 DEF Listens, ReceivePlaces
  <2>4. CASE pc[t] = "CatchWithAnswer.stop"
    <3>1. pc'[t] = "CatchWithAnswer.wait"
      BY <1>3, <2>4, AfterStopIs DEF StopP, Goto, Domains
    <3> QED
      BY <2>1, <2>2, <2>4, <3>1, FewerMore DEF Replies, AnswerPlaces
  <2> QED
    BY <1>3, <2>3, <2>4 DEF StopP, AtStopP, ReceivePlaces, AnswerPlaces
<1>4. CASE ReceiveWaitPolls(t)
  <2>1. CASE NoMail(t)
    <3>1. MailTypes' /\ Fewer
      BY <2>1, SameMail DEF NoMail
    <3>2. UNCHANGED <<callVars, loc>> /\ pc'[t] = "ReceiveWait" /\ pc[t] = "ReceiveWait.wait"
      BY <1>4, <2>1 DEF ReceiveWaitPolls, NoMail, Receives, M!Take, WaitP, Goto, Domains
    <3> QED
      BY <3>1, <3>2 DEF Listens, ReceivePlaces
  <2>2. CASE Receives(t)
    <3> DEFINE h == Received(t)
    <3>1. MailTypes' /\ Took1(t[1], loc[t].box, h) /\ h \in Message
      BY <1>0, <2>2, TakeOne DEF Receives, Received
    <3>2. /\ UNCHANGED callVars /\ pc[t] = "ReceiveWait.wait" /\ pc'[t] = "Answer"
          /\ loc' = [loc EXCEPT ![t] = [loc[t] EXCEPT !.out.token = h.token + 1, !.piece = h.piece]]
      BY <1>4, <2>2 DEF ReceiveWaitPolls, NoMail, Receives, M!Take, WaitP, Goto, Set, Domains
    <3>3. /\ loc'[t].out = [loc[t].out EXCEPT !.token = h.token + 1]
          /\ loc'[t].piece = h.piece /\ loc'[t].box = loc[t].box
      BY <3>2 DEF Domains, LocFields
    <3> QED
      BY <3>1, <3>2, <3>3 DEF Gets, ReceivePlaces
  <2> QED
    BY <1>4, <2>1, <2>2 DEF ReceiveWaitPolls
<1>5. CASE CatchWithAnswerPolls(t)
  <2>1. MailTypes' /\ Fewer
    <3>1. CASE NoMail(t)
      BY <3>1, SameMail DEF NoMail
    <3>2. CASE Receives(t)
      BY <1>0, <3>2, TakeOne DEF Receives, Took1
    <3> QED
      BY <1>5, <3>1, <3>2 DEF CatchWithAnswerPolls
  <2>2. /\ UNCHANGED callVars /\ pc[t] = "CatchWithAnswer.wait"
        /\ pc'[t] \in {"CatchWithAnswer", "TRUE", "Answer"}
        /\ loc'[t].out = loc[t].out /\ loc'[t].piece = loc[t].piece /\ loc'[t].box = loc[t].box
    BY <1>5 DEF CatchWithAnswerPolls, WaitP, Goto, Set, Domains, LocFields
  <2> QED
    BY <2>1, <2>2, FewerMore DEF Replies, HasReplied, AnswerPlaces
<1>6. CASE Answer(t)
  <2>1. MailTypes' /\ More(loc[t].out)
    BY <1>6, SendMore DEF Answer
  <2> QED
    BY <1>6, <2>1 DEF Answer, Goto, Set, Domains, LocFields, Replies, AnswerPlaces
<1>7. CASE CatchWithAnswerReturns(t)
  <2>1. MailTypes' /\ Fewer
    BY <1>7, SameMail DEF CatchWithAnswerReturns
  <2> QED
    BY <1>7, <2>1 DEF CatchWithAnswerReturns, Goto, Domains, HasReplied, AnswerPlaces
<1> QED
  BY <1>1, <1>2, <1>3, <1>4, <1>5, <1>6, <1>7
  DEF Loops, ReceivePlaces, AnswerPlaces, SendWaitAgain, SendWaitGivesUp, CatchMailAgain, SendWaitPolls, CatchMailPolls,
      WaitP, SendWaitReturns

-----------------------------------------------------------------------------
(* What the threads of the conversation do, each by itself.                *)
Idle(t) == call[t] = "idle" /\ pc[t] = "idle"
Greeting(msg) ==
    /\ msg \in Message
    /\ \/ msg.box = "SYNC" /\ msg.token >= 64
       \/ msg.box = "ACK" /\ msg.token >= 65
Connects(t) ==
    /\ call[t] \in Connecting
    /\ \/ /\ pc[t] \in SendPlaces
          /\ loc[t].box = "ACK" /\ loc[t].out.box = "SYNC" /\ Greeting(loc[t].out)
       \/ /\ pc[t] \in ReceivePlaces
          /\ loc[t].box = "SYNC" /\ loc[t].out.box = "ACK" /\ loc[t].out \in Message
       \/ /\ pc[t] \in AnswerPlaces
          /\ loc[t].box = "SYNC" /\ loc[t].out.box = "ACK" /\ Greeting(loc[t].out)
       \/ pc[t] = "Receive" /\ call[t] = "OpenConnection" /\ stage[t] = 0
       \/ pc[t] \in {"TRUE", "FALSE"} /\ loc[t].out \in Message

(* Before a call of "once"; and after it began.                            *)
Fresh(m, never, once) ==
    /\ \A name \in Sending \cup Obtaining : ret[m][name] # "TRUE"
    /\ \/ connectedID[m] = NoMachine /\ Idle(Main(m)) /\ Polite(script[m], never, once)
       \/ (Idle(Main(m)) \/ Connects(Main(m))) /\ Limited(script[m], never, once)
Connected(m, never, once) ==
    connectedID[m] # NoMachine /\ Limited(script[m], never \cup once, {})

(* SendString or SendFile, and ReceiveString or ReceiveFile.               *)
SendBox(name, k) ==
    IF k > 0 THEN "MSG"
    ELSE IF name \in {"SendString", "ReceiveString"} THEN "STRING_INFO" ELSE "FILE_INFO"
Answered(k) == (IF k = 0 THEN InfoToken ELSE Token[k]) + 1
SentPlaces == {"TRUE", "gap.stop", "gap.wait", "paused"}
Transmits(t) ==
    /\ call[t] \in Sending
    /\ stage[t] \in 0 .. nbPieces
    /\ loc[t].box = "ACK"
    /\ loc[t].out = Mail(t[1], connectedID[t[1]], SendBox(call[t], stage[t]),
                         IF stage[t] = 0 THEN InfoToken ELSE Token[stage[t]], stage[t])
    /\ pc[t] \in SendPlaces \cup SentPlaces \cup {"FALSE"}
    /\ pc[t] \in SentPlaces => loc[t].got = Answered(stage[t])
HasTaken(t) == pc[t] \in AnswerPlaces \cup {"TRUE", "crashed"}
Fetches(t) ==
    /\ call[t] \in Obtaining
    /\ stage[t] \in 0 .. nbPieces
    /\ loc[t].box = SendBox(call[t], stage[t])
    /\ loc[t].out \in Message /\ loc[t].out.box = "ACK"
    /\ \/ pc[t] \in ReceivePlaces /\ loc[t].piece = 0
       \/ /\ HasTaken(t)
          /\ loc[t].piece \in 0 .. nbPieces /\ (loc[t].piece = 0 <=> stage[t] = 0)
          /\ loc[t].out.token = Answered(loc[t].piece)

Types ==
    /\ connectedID \in [Machines -> Machines \cup {NoMachine}]
    /\ script \in [Machines -> Seq(Calls)]
    /\ received \in [Machines -> [pieces : Seq(1 .. nbPieces), room : NullFile .. nbPieces]]

(* Nobody ends a connection: the listeners wait for a STOP.                *)
Calm ==
    /\ \A m \in Machines : ~stopping[m]
    /\ \A m \in Listeners :
          /\ call[<<m, "listener">>] \in {"idle", "ListenForEndConnection"}
          /\ pc[<<m, "listener">>] \in {"idle", "Receive"}
Silent(m) ==
    connectedID[m] = NoMachine /\ Idle(Main(m)) /\ Refused(script[m]) /\ received[m].pieces = <<>>

(* The phases of a's main thread, and of b's.                              *)
Unsent(a) == Fresh(a, NotSender, Sending)
Sending_(a) ==
    /\ Connected(a, NotSender, Sending) /\ Transmits(Main(a))
    /\ \A name \in Sending : ret[a][name] # "TRUE"
Sent(a) == Connected(a, NotSender, Sending) /\ Idle(Main(a))
Untaken(b) == Fresh(b, NotReceiver, Obtaining) /\ received[b].pieces = <<>>
Taking(b) ==
    /\ Connected(b, NotReceiver, Obtaining) /\ Fetches(Main(b))
    /\ stage[Main(b)] = 0 => received[b].pieces = <<>>
Taken(b) ==
    /\ Connected(b, NotReceiver, Obtaining) /\ Idle(Main(b))
    /\ \E name \in Obtaining : ret[b][name] = "TRUE"
Conversing(a, b) ==
    /\ a \in Machines /\ b \in Machines /\ a # b
    /\ Domains /\ MailTypes /\ MailFits /\ Types /\ Calm
    /\ Unsent(a) \/ Sending_(a) \/ Sent(a)
    /\ Untaken(b) \/ Taking(b) \/ Taken(b)
    /\ \A name \in Sending : ret[b][name] # "TRUE"
    /\ received[a].pieces = <<>>
    /\ \A m \in Machines \ {a, b} : Silent(m)

LEMMA NextCall ==
  ASSUME NEW s \in Seq(Calls), s # <<>>, NEW never, NEW once
  PROVE  /\ Tail(s) \in Seq(Calls) /\ Head(s) \in Calls
         /\ Limited(s, never, once) =>
               /\ Limited(Tail(s), never, once) /\ Head(s).call \notin never
               /\ Head(s).call \in once => Limited(Tail(s), never \cup once, {})
         /\ Polite(s, never, once) =>
               /\ Polite(Tail(s), never, once)
               /\ Head(s).call \in Connecting => Limited(Tail(s), never, once)
         /\ Refused(s) => Refused(Tail(s)) /\ Head(s).call \notin Connecting
<1>1. /\ Tail(s) \in Seq(Calls) /\ Head(s) \in Calls /\ 1 \in DOMAIN s /\ Head(s) = s[1]
      /\ \A i \in DOMAIN Tail(s) : i \in Nat /\ i + 1 \in DOMAIN s /\ 1 < i + 1 /\ Tail(s)[i] = s[i + 1]
  OBVIOUS
<1>2. \A i, j \in DOMAIN Tail(s) : i < j => i + 1 < j + 1
  BY <1>1
<1>3. ASSUME Limited(s, never, once)
      PROVE  /\ Limited(Tail(s), never, once) /\ Head(s).call \notin never
             /\ Head(s).call \in once => Limited(Tail(s), never \cup once, {})
  BY <1>1, <1>2, <1>3 DEF Limited
<1>4. ASSUME Polite(s, never, once)
      PROVE  /\ Polite(Tail(s), never, once)
             /\ Head(s).call \in Connecting => Limited(Tail(s), never, once)
  <2>1. Polite(Tail(s), never, once)
    BY <1>1, <1>2, <1>4 DEF Polite
  <2>2. ASSUME Head(s).call \in Connecting PROVE Limited(Tail(s), never, once)
    BY <1>1, <1>2, <1>4, <2>2 DEF Polite, Limited
  <2> QED
    BY <2>1, <2>2
<1>5. ASSUME Refused(s) PROVE Refused(Tail(s)) /\ Head(s).call \notin Connecting
  BY <1>1, <1>5 DEF Refused
<1> QED
  BY <1>1, <1>3, <1>4, <1>5

(* An idle thread makes the next call of its script.                       *)
Declines(m, name) ==
    /\ UNCHANGED <<stopping, call, stage, received, pc, loc>>
    /\ ret' = [ret EXCEPT ![m][name] = "FALSE"]
    /\ connectedID[m] = NoMachine => name \notin Connecting
    /\ connectedID[m] # NoMachine => name \in Connecting \cup {"SendFile"}
BeginsToConnect(m, name) ==
    /\ name \in Connecting /\ connectedID[m] = NoMachine
    /\ UNCHANGED <<stopping, ret, received>>
    /\ Connects(Main(m))'
BeginsToSend(m, name) ==
    /\ name \in Sending /\ connectedID[m] # NoMachine
    /\ UNCHANGED <<stopping, ret, received>>
    /\ Transmits(Main(m))' /\ stage'[Main(m)] = 0 /\ loc'[Main(m)].got = 0
    /\ pc'[Main(m)] = "SendWait"
BeginsToFetch(m, name) ==
    /\ name \in Obtaining /\ connectedID[m] # NoMachine
    /\ UNCHANGED <<stopping, ret>>
    /\ Fetches(Main(m))' /\ stage'[Main(m)] = 0 /\ pc'[Main(m)] = "ReceiveWait"
    /\ received' = received \/ received' = [received EXCEPT ![m] = Empty(nbPieces)]
Begins(m) ==
    /\ script[m] # <<>> /\ script' = [script EXCEPT ![m] = Tail(@)]
    /\ UNCHANGED <<mailVars, connectedID>>
    /\ LET name == Head(script[m]).call IN
       \/ Declines(m, name)
       \/ BeginsToConnect(m, name)
       \/ BeginsToSend(m, name)
       \/ BeginsToFetch(m, name)
       \/ name = "EndConnection" /\ connectedID[m] # NoMachine

LEMMA IdleStep ==
  ASSUME Domains, NEW m \in Machines, connectedID[m] \in Machines \cup {NoMachine},
         script[m] \in Seq(Calls), Idle(Main(m)), Step(Main(m))
  PROVE  Begins(m)
<1> DEFINE t == Main(m)
<1>1. /\ t \in Threads /\ t[1] = m /\ t[2] = "main" /\ call[t] = "idle" /\ pc[t] = "idle"
  BY DEF Main, Threads, Idle
<1>2. /\ connectedID[m] # NoMachine => connectedID[m] \in Machines
      /\ script[m] \in Seq(Calls)
      /\ \A name \in Names : name # "idle"
  BY DEF Names
<1>3. /\ script[m] # <<>> => Head(script[m]) \in Calls
      /\ script[m] # <<>> /\ Head(script[m]).call = "SyncWithMachine" => Head(script[m]).target \in Machines
  <2>1. script[m] # <<>> => Head(script[m]) \in Calls
    BY <1>2
  <2> QED
    BY <2>1 DEF Calls
<1>4. Id[m] \in Nat /\ InfoToken \in Nat
  BY TokenAssumption
<1>5. CASE SyncWithMachine(t)
  <2>1. CASE connectedID[m] # NoMachine
    BY <1>1, <1>5, <2>1 DEF SyncWithMachine, Calling, Refuses, Begins, Declines, Connecting
  <2>2. CASE connectedID[m] = NoMachine
    <3>1. /\ script[m] # <<>> /\ Head(script[m]).call = "SyncWithMachine"
          /\ script' = [script EXCEPT ![m] = Tail(@)]
          /\ UNCHANGED <<mailVars, connectedID, stopping, received, ret>>
          /\ call'[t] = "SyncWithMachine" /\ pc'[t] = "SendWait"
          /\ loc'[t] = Locals(Mail(m, Head(script[m]).target, "SYNC", 64 + Id[m], 0), "ACK",
                              MaxConnectionReemissions)
      BY <1>1, <1>5, <2>2 DEF SyncWithMachine, Calling, Starts, SendWait, Goto, Set, Domains
    <3>2. /\ loc'[t].box = "ACK" /\ loc'[t].out.box = "SYNC"
          /\ Greeting(loc'[t].out)
      <4>1. nbPieces \in Nat
        BY TokenAssumption DEF nbPieces
      <4>2. Mail(m, Head(script[m]).target, "SYNC", 64 + Id[m], 0) \in Message
        BY <1>3, <1>4, <3>1, <4>1 DEF Mail, Message, Boxes
      <4> QED
        BY <1>4, <3>1, <4>2 DEF Locals, Mail, Greeting
    <3>3. Connects(t)'
      BY <3>1, <3>2 DEF Connects, Greeting, Connecting, SendPlaces
    <3> QED
      BY <2>2, <3>1, <3>3 DEF Begins, BeginsToConnect, Connecting
  <2> QED
    BY <2>1, <2>2
<1>6. CASE OpenConnection(t)
  <2>1. CASE connectedID[m] # NoMachine
    BY <1>1, <1>6, <2>1 DEF OpenConnection, Calling, Refuses, Begins, Declines, Connecting
  <2>2. CASE connectedID[m] = NoMachine
    <3>1. /\ script[m] # <<>> /\ Head(script[m]).call = "OpenConnection"
          /\ script' = [script EXCEPT ![m] = Tail(@)]
          /\ UNCHANGED <<mailVars, connectedID, stopping, received, ret>>
          /\ call'[t] = "OpenConnection" /\ pc'[t] = "Receive" /\ stage'[t] = 0
      BY <1>1, <1>6, <2>2 DEF OpenConnection, Calling, Starts, Goto, Domains
    <3>2. Connects(t)'
      BY <3>1 DEF Connects, Connecting
    <3> QED
      BY <2>2, <3>1, <3>2 DEF Begins, BeginsToConnect, Connecting
  <2> QED
    BY <2>1, <2>2
<1>7. CASE EndConnection(t)
  <2>1. CASE connectedID[m] = NoMachine
    BY <1>1, <1>7, <2>1 DEF EndConnection, Calling, Refuses, Begins, Declines, Connecting
  <2>2. CASE connectedID[m] # NoMachine
    BY <1>1, <1>7, <2>2 DEF EndConnection, Calling, Begins
  <2> QED
    BY <2>1, <2>2
<1>8. CASE SendString(t) \/ SendFile(t)
  <2>1. CASE Refuses(m, Head(script[m]).call)
    BY <1>1, <1>8, <2>1
    DEF SendString, SendFile, Calling, Refuses, Begins, Declines, Connecting, Starts, SendWait, Goto, Domains
  <2>2. CASE ~Refuses(m, Head(script[m]).call)
    <3> DEFINE name == Head(script[m]).call
    <3>1. /\ script[m] # <<>> /\ name \in Sending
          /\ script' = [script EXCEPT ![m] = Tail(@)]
          /\ connectedID[m] # NoMachine
          /\ UNCHANGED <<mailVars, connectedID, stopping, received, ret>>
          /\ call'[t] = name /\ pc'[t] = "SendWait" /\ stage'[t] = 0
          /\ loc'[t] = Locals(Mail(m, connectedID[m], SendBox(name, 0), InfoToken, 0), "ACK", MaxReemissions)
      BY <1>1, <1>8, <2>2
      DEF SendString, SendFile, Calling, Starts, SendWait, Goto, Set, Domains, Sending, SendBox
    <3> HIDE DEF name
    <3>2. Transmits(t)' /\ loc'[t].got = 0
      BY <1>1, <1>3, <1>4, <3>1, TokenAssumption
      DEF Transmits, Locals, SendPlaces, SentPlaces, nbPieces
    <3> QED
      BY <3>1, <3>2 DEF Begins, BeginsToSend, name
  <2> QED
    BY <2>1, <2>2
<1>9. CASE ReceiveString(t) \/ ReceiveFile(t)
  <2>1. CASE connectedID[m] = NoMachine
    BY <1>1, <1>9, <2>1
    DEF ReceiveString, ReceiveFile, Calling, Refuses, Begins, Declines, Connecting
  <2>2. CASE connectedID[m] # NoMachine
    <3> DEFINE name == Head(script[m]).call
    <3>1. /\ script[m] # <<>> /\ name \in Obtaining
          /\ script' = [script EXCEPT ![m] = Tail(@)]
          /\ UNCHANGED <<mailVars, connectedID, stopping, ret>>
          /\ call'[t] = name /\ pc'[t] = "ReceiveWait" /\ stage'[t] = 0
          /\ received' = received \/ received' = [received EXCEPT ![m] = Empty(nbPieces)]
          /\ loc'[t] = Locals(Mail(m, connectedID[m], "ACK", 0, 0), SendBox(name, 0), 0)
      BY <1>1, <1>9, <2>2
      DEF ReceiveString, ReceiveFile, Calling, Starts, ReceiveWait, Goto, Set, Domains, Obtaining, SendBox
    <3> HIDE DEF name
    <3>2. Fetches(t)'
      BY <1>1, <1>2, <2>2, <3>1, TokenAssumption
      DEF Fetches, Locals, Mail, Message, Boxes, ReceivePlaces, nbPieces
    <3> QED
      BY <2>2, <3>1, <3>2 DEF Begins, BeginsToFetch, name
  <2> QED
    BY <2>1, <2>2
<1>10. ~Loops(t)
  BY <1>1
  DEF Loops, SendWaitAgain, SendWaitGivesUp, CatchMailAgain, ReceiveWaitAgain, CatchWithAnswerAgain,
      StopP, AtStopP, SendWaitPolls, CatchMailPolls, SendWaitReturns, ReceiveWaitPolls,
      CatchWithAnswerPolls, Answer, CatchWithAnswerReturns, WaitP
<1>11. ASSUME Connection(t) PROVE SyncWithMachine(t) \/ OpenConnection(t) \/ EndConnection(t)
  BY <1>1, <1>11
  DEF Connection, SyncAnswered, SyncFails, SyncReturns, OpenReceives, ReceivesFirst, OpenAnswers,
      OpenReturns, EndReturns, ListenForEndConnection, ListenReceives, ListenReturns, Ended
<1>12. ASSUME Strings(t) \/ Files(t)
       PROVE  SendString(t) \/ SendFile(t) \/ ReceiveString(t) \/ ReceiveFile(t)
  BY <1>1, <1>12
  DEF Strings, Files, Sends, Obtains, SendInfoAnswered, SendPauses, SendNext, SendReturns, SendFails,
      SendPaused, WaitP, ReceiveInfo, Stored, ReceiveNext, ReceiveReturns, ReceiveFails, WriteCrashes, Ended
<1> QED
  BY <1>5, <1>6, <1>7, <1>8, <1>9, <1>10, <1>11, <1>12 DEF Step

(* A step of a thread that connects.                                       *)
Shakes(m) ==
    /\ UNCHANGED <<script, received, stopping>>
    /\ MailTypes'
    /\ Fewer \/ \E msg : Greeting(msg) /\ More(msg)
    /\ \A name \in Sending \cup Obtaining : ret'[m][name] = ret[m][name]
    /\ connectedID' \in [Machines -> Machines \cup {NoMachine}]
    /\ Idle(Main(m))' \/ Connects(Main(m))'

LEMMA ConnectStep ==
  ASSUME Domains, MailTypes, MailFits, Types, NEW m \in Machines, ~stopping[m],
         Connects(Main(m)), Step(Main(m))
  PROVE  Shakes(m)
<1> DEFINE t == Main(m)
<1>1. /\ t \in Threads /\ t[1] = m /\ t[2] = "main" /\ call[t] \in Connecting
      /\ "SYNC" \in Boxes /\ "ACK" \in Boxes
  BY DEF Main, Threads, Connects, Boxes
<1>2. Id[m] \in Nat /\ nbPieces \in Nat
  BY TokenAssumption DEF nbPieces
<1>3. ASSUME Loops(t), pc[t] \in SendPlaces PROVE Shakes(m)
  <2>1. loc[t].box = "ACK" /\ loc[t].out.box = "SYNC" /\ Greeting(loc[t].out)
    BY <1>3 DEF Connects, SendPlaces, ReceivePlaces, AnswerPlaces
  <2>2. /\ UNCHANGED callVars /\ MailTypes'
        /\ loc'[t].out = loc[t].out /\ loc'[t].box = "ACK"
        /\ Emits(t) \/ (\E h : Hears(t, h)) \/ EndsWait(t)
    BY <1>1, <1>3, <2>1, SendLoop DEF Greeting
  <2>3. /\ Fewer \/ More(loc[t].out)
        /\ pc'[t] \in SendPlaces \cup {"TRUE", "FALSE"}
    BY <2>2 DEF Emits, Hears, EndsWait, Took1
  <2>4. Greeting(loc'[t].out)
    BY <2>1, <2>2 DEF Greeting
  <2>5. Connects(t)'
    BY <1>1, <2>1, <2>2, <2>3, <2>4 DEF Connects, Greeting, callVars
  <2> QED
    BY <2>1, <2>2, <2>3, <2>5 DEF Shakes, callVars, Types
<1>4. ASSUME Loops(t), pc[t] \in ReceivePlaces \cup AnswerPlaces PROVE Shakes(m)
  <2>1. /\ loc[t].box = "SYNC" /\ loc[t].out.box = "ACK" /\ loc[t].out \in Message
        /\ pc[t] \in AnswerPlaces => Greeting(loc[t].out)
    BY <1>4 DEF Connects, SendPlaces, ReceivePlaces, AnswerPlaces, Greeting
  <2>2. /\ UNCHANGED callVars /\ MailTypes'
        /\ loc'[t].box = loc[t].box
        /\ Listens(t) \/ (\E h : Gets(t, h)) \/ Replies(t) \/ HasReplied(t)
    BY <1>1, <1>4, <2>1, ReceiveLoop
  <2>3. /\ Fewer \/ \E msg : Greeting(msg) /\ More(msg)
        /\ Connects(t)'
    <3>1. CASE Listens(t)
      BY <1>1, <2>1, <2>2, <3>1 DEF Listens, Connects, callVars
    <3>2. ASSUME NEW h, Gets(t, h) PROVE Fewer /\ Connects(t)'
      <4>1. Fewer /\ h \in Mails(m, "SYNC") /\ pc'[t] = "Answer"
        BY <1>1, <2>1, <3>2 DEF Gets, Took1
      <4>2. h \in Message /\ h.token >= 64 /\ h.token \in Nat
        BY <1>1, <4>1 DEF MailFits, Fits, Message
      <4>3. loc'[t].out = [loc[t].out EXCEPT !.token = h.token + 1]
        BY <3>2 DEF Gets
      <4>4. Greeting(loc'[t].out) /\ loc'[t].out.box = "ACK"
        BY <2>1, <4>2, <4>3 DEF Greeting, Message
      <4> QED
        BY <1>1, <2>1, <2>2, <4>1, <4>4 DEF Connects, callVars, AnswerPlaces
    <3>3. CASE Replies(t)
      <4>1. Greeting(loc[t].out) /\ loc'[t].out = loc[t].out /\ More(loc[t].out) /\ pc'[t] \in AnswerPlaces
        BY <2>1, <3>3 DEF Replies
      <4>2. Greeting(loc'[t].out)
        BY <4>1 DEF Greeting
      <4> QED
        BY <1>1, <2>1, <2>2, <4>1, <4>2 DEF Connects, callVars
    <3>4. CASE HasReplied(t)
      <4>1. loc'[t].out = loc[t].out /\ Fewer /\ pc'[t] = "TRUE"
        BY <2>1, <3>4 DEF HasReplied
      <4> QED
        BY <1>1, <2>1, <2>2, <4>1 DEF Connects, callVars
    <3> QED
      BY <2>2, <3>1, <3>2, <3>3, <3>4
  <2> QED
    BY <2>2, <2>3 DEF Shakes, callVars, Types
<1>5. ASSUME Loops(t) PROVE pc[t] \in SendPlaces \cup ReceivePlaces \cup AnswerPlaces
  BY <1>1, <1>5
  DEF Connects, SendPlaces, ReceivePlaces, AnswerPlaces, Loops, SendWaitAgain, SendWaitGivesUp,
      CatchMailAgain, ReceiveWaitAgain, CatchWithAnswerAgain, StopP, AtStopP, SendWaitPolls,
      CatchMailPolls, SendWaitReturns, ReceiveWaitPolls, CatchWithAnswerPolls, Answer,
      CatchWithAnswerReturns, WaitP
<1>6. CASE SyncAnswered(t)
  <2>1. loc[t].out \in Message
    BY <1>1, <1>6 DEF SyncAnswered, Ended, Connects, SendPlaces, ReceivePlaces, AnswerPlaces
  <2>2. /\ UNCHANGED <<mailVars, connectedID, stopping, script, received, ret, call>>
        /\ pc'[t] = "ReceiveWait"
        /\ loc'[t] = Locals(Mail(m, loc[t].out.to, "ACK", 0, 0), "SYNC", 0)
    BY <1>1, <1>6 DEF SyncAnswered, Continues, ReceiveWait, Goto, Set, Domains
  <2>3. Mail(m, loc[t].out.to, "ACK", 0, 0) \in Message
    BY <1>2, <2>1 DEF Mail, Message, Boxes
  <2>4. Connects(t)'
    BY <1>1, <2>2, <2>3 DEF Connects, Locals, Mail, ReceivePlaces
  <2> QED
    BY <2>2, <2>4, SameMail DEF Shakes, Types
<1>7. CASE SyncFails(t) \/ SyncReturns(t) \/ OpenReturns(t)
  <2>1. loc[t].out \in Message
    BY <1>1, <1>7
    DEF SyncFails, SyncReturns, OpenReturns, Ended, Connects, SendPlaces, ReceivePlaces, AnswerPlaces
  <2>2. loc[t].out.to \in Machines
    BY <2>1 DEF Message
  <2>3. /\ UNCHANGED <<mailVars, stopping, script, received>>
        /\ call'[t] = "idle" /\ pc'[t] = "idle"
        /\ \E value : ret' = [ret EXCEPT ![m][call[t]] = value]
        /\ connectedID' = connectedID \/ connectedID' = [connectedID EXCEPT ![m] = loc[t].out.to]
    BY <1>1, <1>7 DEF SyncFails, SyncReturns, OpenReturns, Returns, Goto, Domains
  <2>4. \A name \in Sending \cup Obtaining : ret'[m][name] = ret[m][name]
    BY <1>1, <2>3 DEF Domains, Names, Connecting, Sending, Obtaining
  <2>5. connectedID' \in [Machines -> Machines \cup {NoMachine}]
    BY <2>2, <2>3 DEF Types
  <2> QED
    BY <2>3, <2>4, <2>5, SameMail DEF Shakes, Idle
<1>8. CASE OpenReceives(t)
  <2> DEFINE h == Head(boxes[m]["SYNC"])
  <2>1. /\ M!Take(m, "SYNC")
        /\ UNCHANGED callVars /\ pc'[t] = "Answer"
        /\ loc'[t] = Locals(Mail(m, h.from, "ACK", h.token + 1, 0), "SYNC", 0)
    BY <1>1, <1>8 DEF OpenReceives, ReceivesFirst, Goto, Set, Domains
  <2>2. MailTypes' /\ Fewer /\ h \in Mails(m, "SYNC")
    BY <1>1, <2>1, TakeOne DEF Took1
  <2>3. h \in Message /\ h.token >= 64 /\ h.token \in Nat /\ h.from \in Machines
    BY <1>1, <2>2 DEF MailFits, Fits, Message
  <2> HIDE DEF h
  <2>4. /\ Mail(m, h.from, "ACK", h.token + 1, 0) \in Message
        /\ Mail(m, h.from, "ACK", h.token + 1, 0).token >= 65
    BY <1>2, <2>3 DEF Mail, Message, Boxes
  <2>5. Connects(t)'
    BY <1>1, <2>1, <2>4 DEF Connects, Greeting, Locals, Mail, AnswerPlaces, callVars
  <2> QED
    BY <2>1, <2>2, <2>5 DEF Shakes, Types, callVars
<1>9. CASE OpenAnswers(t)
  <2>1. loc[t].out \in Message
    BY <1>1, <1>9 DEF OpenAnswers, Ended, Connects, SendPlaces, ReceivePlaces, AnswerPlaces
  <2>2. /\ UNCHANGED <<mailVars, connectedID, stopping, script, received, ret, call>>
        /\ pc'[t] = "SendWait"
        /\ loc'[t] = Locals(Mail(m, loc[t].out.to, "SYNC", 64 + Id[m], 0), "ACK", MaxConnectionReemissions)
    BY <1>1, <1>9 DEF OpenAnswers, Continues, SendWait, Goto, Set, Domains
  <2>3. /\ Mail(m, loc[t].out.to, "SYNC", 64 + Id[m], 0) \in Message
        /\ Mail(m, loc[t].out.to, "SYNC", 64 + Id[m], 0).token >= 64
    BY <1>2, <2>1 DEF Mail, Message, Boxes
  <2>4. Connects(t)'
    BY <1>1, <2>2, <2>3 DEF Connects, Greeting, Locals, Mail, SendPlaces
  <2> QED
    BY <2>2, <2>4, SameMail DEF Shakes, Types
<1>10. ASSUME Connection(t)
       PROVE  \/ SyncAnswered(t) \/ SyncFails(t) \/ SyncReturns(t)
              \/ OpenReceives(t) \/ OpenAnswers(t) \/ OpenReturns(t)
  BY <1>1, <1>10
  DEF Connection, SyncWithMachine, OpenConnection, EndConnection, Calling, EndReturns,
      ListenForEndConnection, ListenReceives, ReceivesFirst, ListenReturns, Ended, Connecting
<1>11. ~(Strings(t) \/ Files(t))
  <2>1. pc[t] \notin {"gap.wait", "crashed"}
    BY DEF Connects, SendPlaces, ReceivePlaces, AnswerPlaces
  <2> QED
    BY <1>1, <2>1
    DEF Strings, Files, SendString, ReceiveString, SendFile, ReceiveFile, Calling, Sends, Obtains,
        SendInfoAnswered, SendPauses, SendNext, SendReturns, SendFails, SendPaused, WaitP, ReceiveInfo,
        Stored, ReceiveNext, ReceiveReturns, ReceiveFails, WriteCrashes, Ended, Connecting
<1> QED
  BY <1>3, <1>4, <1>5, <1>6, <1>7, <1>8, <1>9, <1>10, <1>11 DEF Step

(* A step of a thread that sends a string or a file.                       *)
SendsOn(m) ==
    LET t == Main(m) IN
    /\ Transmits(t)' /\ call'[t] = call[t] /\ stage'[t] = stage[t] /\ UNCHANGED ret
    /\ \/ More(loc[t].out) /\ loc'[t].got = loc[t].got
       \/ \E h \in Message : Took1(m, "ACK", h) /\ loc'[t].got = h.token
GoesOn(m) ==
    LET t == Main(m) IN
    /\ loc[t].got = Answered(stage[t])
    /\ stage[t] < nbPieces /\ stage'[t] = stage[t] + 1
    /\ Transmits(t)' /\ call'[t] = call[t] /\ loc'[t].got = 0
    /\ UNCHANGED ret /\ Fewer
Finishes(m) ==
    LET t == Main(m) IN
    /\ Idle(t)' /\ Fewer
    /\ \E value : /\ ret' = [ret EXCEPT ![m][call[t]] = value]
                  /\ value = "TRUE" => stage[t] = nbPieces /\ loc[t].got = Answered(nbPieces)
TransmitsMore(m) ==
    /\ UNCHANGED <<script, received, connectedID>> /\ ~stopping'[m]
    /\ MailTypes'
    /\ SendsOn(m) \/ GoesOn(m) \/ Finishes(m)

LEMMA OutFits ==
  ASSUME Types, NEW m \in Machines, connectedID[m] # NoMachine, Transmits(Main(m))
  PROVE  LET out == loc[Main(m)].out IN
         /\ out \in Message /\ Fits(out, out.box) /\ out.to = connectedID[m]
         /\ out.box = SendBox(call[Main(m)], stage[Main(m)]) /\ out.box \in Data
         /\ out.piece = stage[Main(m)] /\ out.token + 1 = Answered(stage[Main(m)])
<1> DEFINE t == Main(m)
           k == stage[t]
           box == SendBox(call[t], k)
           token == IF k = 0 THEN InfoToken ELSE Token[k]
<1>1. /\ t \in Threads /\ t[1] = m
      /\ loc[t].out = Mail(m, connectedID[m], box, token, k)
      /\ k \in 0 .. nbPieces /\ call[t] \in Sending
  BY DEF Main, Threads, Transmits
<1>2. nbPieces \in Nat /\ token \in Nat
  BY <1>1, TokenAssumption DEF nbPieces
<1>3. /\ box \in Data /\ Data \subseteq Boxes /\ "STOP" \notin Data /\ "SYNC" \notin Data
      /\ k = 0 => box \in {"STRING_INFO", "FILE_INFO"}
      /\ k > 0 => box = "MSG"
      /\ k \in Nat
  BY <1>1, <1>2 DEF SendBox, Data, Boxes
<1>4. connectedID[m] \in Machines
  BY DEF Types
<1>5. token + 1 = Answered(k)
  BY DEF Answered
<1>6. /\ k = 0 => token = InfoToken
      /\ k > 0 => token = Token[k]
  BY <1>3
<1>7. Data = {"STRING_INFO", "FILE_INFO", "MSG"}
  BY DEF Data
<1> HIDE DEF box, token
<1>8. Mail(m, connectedID[m], box, token, k) \in Message
  BY <1>1, <1>2, <1>3, <1>4 DEF Mail, Message
<1>9. Fits(Mail(m, connectedID[m], box, token, k), box)
  BY <1>3, <1>6, <1>7, <1>8 DEF Fits, Mail
<1> QED
  BY <1>1, <1>3, <1>5, <1>8, <1>9 DEF Mail, box

LEMMA TransmitStep ==
  ASSUME Domains, MailTypes, Types, NEW m \in Machines, ~stopping[m], connectedID[m] # NoMachine,
         Transmits(Main(m)), Step(Main(m))
  PROVE  TransmitsMore(m)
<1> DEFINE t == Main(m)
<1>1. /\ t \in Threads /\ t[1] = m /\ t[2] = "main" /\ call[t] \in Sending
      /\ stage[t] \in 0 .. nbPieces /\ loc[t].box = "ACK"
      /\ pc[t] \in SendPlaces \cup SentPlaces \cup {"FALSE"}
      /\ pc[t] \in SentPlaces => loc[t].got = Answered(stage[t])
  BY DEF Main, Threads, Transmits
<1>2. nbPieces \in Nat \ {0} /\ InfoToken \in Nat
  BY TokenAssumption DEF nbPieces
<1>3. loc[t].out \in Message /\ loc[t].out.token + 1 = Answered(stage[t])
  BY OutFits
<1>4. ASSUME NEW place \in SendPlaces \cup SentPlaces \cup {"FALSE"}, pc'[t] = place,
             loc'[t].out = loc[t].out, loc'[t].box = "ACK", UNCHANGED <<call, stage, connectedID>>,
             place \in SentPlaces => loc'[t].got = Answered(stage[t])
      PROVE  Transmits(t)'
  BY <1>1, <1>4 DEF Transmits
<1>5. ASSUME Loops(t), pc[t] \in SendPlaces PROVE TransmitsMore(m)
  <2>1. /\ UNCHANGED callVars /\ MailTypes'
        /\ loc'[t].out = loc[t].out /\ loc'[t].box = "ACK"
        /\ Emits(t) \/ (\E h : Hears(t, h)) \/ EndsWait(t)
    BY <1>1, <1>3, <1>5, SendLoop
  <2>2. SendPlaces \cap SentPlaces = {} /\ "TRUE" \in SentPlaces /\ "FALSE" \notin SentPlaces
    BY DEF SendPlaces, SentPlaces
  <2>3. CASE Emits(t)
    <3>1. Transmits(t)'
      BY <1>4, <2>1, <2>2, <2>3 DEF Emits, callVars
    <3> QED
      BY <2>1, <2>3, <3>1 DEF Emits, TransmitsMore, SendsOn, callVars
  <2>4. ASSUME NEW h, Hears(t, h) PROVE TransmitsMore(m)
    <3>1. Transmits(t)'
      BY <1>4, <2>1, <2>2, <2>4 DEF Hears, callVars
    <3> QED
      BY <1>1, <2>1, <2>4, <3>1 DEF Hears, TransmitsMore, SendsOn, callVars
  <2>5. CASE EndsWait(t)
    <3>1. Transmits(t)'
      BY <1>3, <1>4, <2>1, <2>2, <2>5 DEF EndsWait, callVars
    <3> QED
      BY <2>1, <2>5, <3>1, FewerMore DEF EndsWait, TransmitsMore, SendsOn, callVars
  <2> QED
    BY <2>1, <2>3, <2>4, <2>5
<1>6. ASSUME Loops(t), pc[t] \notin SendPlaces PROVE TransmitsMore(m)
  <2>1. StopP(t) /\ pc[t] = "gap.stop"
    BY <1>1, <1>6
    DEF SendPlaces, SentPlaces, Loops, SendWaitAgain, SendWaitGivesUp,
        CatchMailAgain, ReceiveWaitAgain, CatchWithAnswerAgain, StopP, AtStopP, SendWaitPolls,
        CatchMailPolls, SendWaitReturns, ReceiveWaitPolls, CatchWithAnswerPolls, Answer,
        CatchWithAnswerReturns, WaitP
  <2>2. UNCHANGED <<mailVars, callVars, loc>> /\ pc'[t] = "gap.wait"
    BY <1>1, <2>1, AfterStopIs DEF StopP, Goto, Domains
  <2>3. Transmits(t)'
    BY <1>1, <1>4, <2>1, <2>2 DEF SentPlaces, callVars
  <2> QED
    BY <2>2, <2>3, SameMail, FewerMore DEF TransmitsMore, SendsOn, callVars
<1>7. CASE SendPaused(t) \/ \E name \in Sending : SendPauses(t, name)
  <2>1. UNCHANGED <<mailVars, callVars, loc>> /\ pc[t] \in SentPlaces /\ pc'[t] \in SentPlaces
    <3>1. CASE SendPaused(t)
      BY <1>1, <3>1 DEF SendPaused, WaitP, Goto, Domains, SentPlaces
    <3>2. CASE \E name \in Sending : SendPauses(t, name)
      BY <3>2 DEF SendPauses, Ended, Goto, Domains, SentPlaces
    <3> QED
      BY <1>7, <3>1, <3>2
  <2>2. Transmits(t)'
    BY <1>1, <1>4, <2>1 DEF callVars
  <2> QED
    BY <2>1, <2>2, SameMail, FewerMore DEF TransmitsMore, SendsOn, callVars
<1>8. ASSUME NEW name \in Sending, SendInfoAnswered(t, name) \/ SendNext(t, name)
      PROVE  TransmitsMore(m)
  <2> DEFINE k == stage[t] + 1
  <2>1. /\ UNCHANGED <<mailVars, connectedID, stopping, script, received, ret, call>>
        /\ stage[t] < nbPieces /\ stage'[t] = k /\ pc'[t] = "SendWait" /\ pc[t] \in SentPlaces
        /\ loc'[t] = Locals(Mail(m, connectedID[m], "MSG", Token[k], k), "ACK", MaxReemissions)
    BY <1>1, <1>2, <1>8
    DEF SendInfoAnswered, SendNext, Ended, SendMessage, Continues, SendWait, Goto, Set, Domains, SentPlaces
  <2>2. k \in 1 .. nbPieces
    BY <1>1, <1>2, <2>1
  <2> HIDE DEF k
  <2>3. Transmits(t)' /\ loc'[t].got = 0
    BY <1>1, <1>2, <2>1, <2>2 DEF Transmits, Locals, SendBox, SendPlaces, SentPlaces
  <2> QED
    BY <1>1, <2>1, <2>3, SameMail DEF TransmitsMore, GoesOn, k
<1>9. ASSUME NEW name \in Sending, SendReturns(t, name) \/ SendFails(t, name)
      PROVE  TransmitsMore(m)
  <2>1. /\ UNCHANGED <<mailVars, connectedID, script, received>> /\ ~stopping'[m]
        /\ call'[t] = "idle" /\ pc'[t] = "idle"
    BY <1>1, <1>9 DEF SendReturns, SendFails, Returns, Goto, Domains
  <2>2. \E value : /\ ret' = [ret EXCEPT ![m][call[t]] = value]
                   /\ value = "TRUE" => stage[t] = nbPieces /\ loc[t].got = Answered(nbPieces)
    BY <1>1, <1>9 DEF SendReturns, SendFails, Returns, Ended, SentPlaces
  <2> QED
    BY <2>1, <2>2, SameMail DEF TransmitsMore, Finishes, Idle
<1>10. ~Connection(t)
  <2>1. pc[t] # "Receive"
    BY <1>1 DEF SendPlaces, SentPlaces
  <2> QED
    BY <1>1, <2>1
    DEF Connection, SyncWithMachine, SyncAnswered, SyncFails, SyncReturns, OpenConnection, OpenReceives,
        OpenAnswers, OpenReturns, EndConnection, Calling, EndReturns,
        ListenForEndConnection, ListenReceives, ReceivesFirst, ListenReturns, Ended, Sending
<1>11. ASSUME Strings(t) \/ Files(t)
       PROVE  \/ SendPaused(t)
              \/ \E name \in Sending : \/ SendPauses(t, name) \/ SendInfoAnswered(t, name)
                                       \/ SendNext(t, name) \/ SendReturns(t, name)
                                       \/ SendFails(t, name)
  BY <1>1, <1>11
  DEF Strings, Files, SendString, ReceiveString, SendFile, ReceiveFile, Calling, Sends, Obtains,
      ReceiveInfo, Stored, ReceiveNext, ReceiveReturns, ReceiveFails, WriteCrashes, Ended, Sending
<1> QED
  BY <1>5, <1>6, <1>7, <1>8, <1>9, <1>10, <1>11 DEF Step

(* A step of a thread that receives a string or a file.                    *)
ListensOn(m) ==
    LET t == Main(m) IN
    /\ Fetches(t)' /\ call'[t] = call[t] /\ stage'[t] = stage[t] /\ UNCHANGED <<ret, received>>
    /\ \/ /\ (HasTaken(t)' <=> HasTaken(t)) /\ loc'[t].piece = loc[t].piece /\ loc'[t].out = loc[t].out
          /\ Fewer \/ (HasTaken(t) /\ More(loc[t].out))
       \/ \E h \in Message :
             /\ Took1(m, loc[t].box, h)
             /\ ~HasTaken(t) /\ HasTaken(t)' /\ loc[t].piece = 0
             /\ loc'[t].piece = h.piece /\ loc'[t].out.token = h.token + 1
Keeps(m) ==
    /\ loc[Main(m)].piece \in 1 .. nbPieces /\ received[m].room # NullFile
    /\ received' = [received EXCEPT ![m] = AppendPiece(@, loc[Main(m)].piece)]
FetchesNext(m) ==
    LET t == Main(m) IN
    /\ HasTaken(t) /\ ~HasTaken(t)'
    /\ stage[t] < nbPieces /\ stage'[t] = stage[t] + 1
    /\ Fetches(t)' /\ call'[t] = call[t] /\ loc'[t].piece = 0
    /\ UNCHANGED ret /\ Fewer
    /\ \/ /\ stage[t] = 0 /\ loc[t].piece = 0
          /\ \/ received' = received
             \/ \E file \in FileMade : received' = [received EXCEPT ![m] = file]
       \/ stage[t] > 0 /\ Keeps(m)
HasFetched(m) ==
    LET t == Main(m) IN
    /\ HasTaken(t) /\ Idle(t)' /\ Fewer
    /\ stage[t] = nbPieces
    /\ ret' = [ret EXCEPT ![m][call[t]] = "TRUE"]
    /\ Keeps(m)
FetchesMore(m) ==
    /\ UNCHANGED <<script, connectedID, stopping>>
    /\ MailTypes'
    /\ ListensOn(m) \/ FetchesNext(m) \/ HasFetched(m)

LEMMA FetchStep ==
  ASSUME Domains, MailTypes, MailFits, Types, NEW m \in Machines, ~stopping[m],
         connectedID[m] # NoMachine, Fetches(Main(m)), Step(Main(m))
  PROVE  FetchesMore(m)
<1> DEFINE t == Main(m)
<1>1. /\ t \in Threads /\ t[1] = m /\ t[2] = "main" /\ call[t] \in Obtaining
      /\ stage[t] \in 0 .. nbPieces
      /\ loc[t].box = SendBox(call[t], stage[t]) /\ loc[t].out \in Message
      /\ loc[t].out.box = "ACK"
  BY DEF Main, Threads, Fetches
<1>2. nbPieces \in Nat \ {0} /\ InfoToken \in Nat
  BY TokenAssumption DEF nbPieces
<1>3. /\ stage[t] = 0 => loc[t].box \in {"STRING_INFO", "FILE_INFO"}
      /\ stage[t] > 0 => loc[t].box = "MSG"
      /\ loc[t].box \in Boxes /\ stage[t] \in Nat
  BY <1>1, <1>2 DEF SendBox, Boxes
<1>4. \/ /\ pc[t] \in ReceivePlaces /\ ~HasTaken(t) /\ loc[t].piece = 0
      \/ /\ HasTaken(t) /\ pc[t] \notin ReceivePlaces
         /\ loc[t].piece \in 0 .. nbPieces /\ (loc[t].piece = 0 <=> stage[t] = 0)
         /\ loc[t].out.token = Answered(loc[t].piece)
  BY DEF Fetches, HasTaken, ReceivePlaces, AnswerPlaces
<1>5. ASSUME HasTaken(t), HasTaken(t)', loc'[t].out = loc[t].out, loc'[t].piece = loc[t].piece,
             loc'[t].box = loc[t].box, UNCHANGED <<call, stage>>
      PROVE  Fetches(t)'
  BY <1>1, <1>4, <1>5 DEF Fetches
<1>6. ASSUME Loops(t), pc[t] \in ReceivePlaces \cup AnswerPlaces PROVE FetchesMore(m)
  <2>1. /\ UNCHANGED callVars /\ MailTypes' /\ loc'[t].box = loc[t].box
        /\ Listens(t) \/ (\E h : Gets(t, h)) \/ Replies(t) \/ HasReplied(t)
    BY <1>1, <1>3, <1>6, ReceiveLoop
  <2>2. CASE Listens(t)
    <3>1. ~HasTaken(t) /\ ~HasTaken(t)' /\ loc[t].piece = 0
      BY <1>4, <2>2 DEF Listens, HasTaken, ReceivePlaces, AnswerPlaces
    <3>2. Fetches(t)'
      BY <1>1, <2>1, <2>2, <3>1 DEF Listens, Fetches, callVars
    <3> QED
      BY <2>1, <2>2, <3>1, <3>2 DEF Listens, FetchesMore, ListensOn, callVars
  <2>3. ASSUME NEW h, Gets(t, h) PROVE FetchesMore(m)
    <3>1. Took1(m, loc[t].box, h) /\ h \in Message /\ h \in Mails(m, loc[t].box)
      BY <1>1, <2>3 DEF Gets, Took1
    <3>2. Fits(h, loc[t].box)
      BY <1>3, <3>1 DEF MailFits
    <3>3. h.piece \in 0 .. nbPieces /\ h.token \in Nat
      BY <3>1 DEF Message
    <3>4. (h.piece = 0 <=> stage[t] = 0) /\ h.token + 1 = Answered(h.piece)
      BY <1>2, <1>3, <3>2, <3>3 DEF Fits, Answered
    <3>5. /\ loc'[t].out \in Message /\ loc'[t].out.box = "ACK"
          /\ loc'[t].out.token = h.token + 1 /\ loc'[t].piece = h.piece
      BY <1>1, <2>3, <3>3 DEF Gets, Message
    <3>6. ~HasTaken(t) /\ HasTaken(t)' /\ loc[t].piece = 0
      BY <1>4, <2>3 DEF Gets, HasTaken, AnswerPlaces, ReceivePlaces
    <3>7. Fetches(t)'
      BY <1>1, <2>1, <3>3, <3>4, <3>5, <3>6 DEF Fetches, callVars
    <3> QED
      BY <2>1, <3>1, <3>5, <3>6, <3>7 DEF FetchesMore, ListensOn, callVars
  <2>4. CASE Replies(t) \/ HasReplied(t)
    <3>1. /\ HasTaken(t) /\ HasTaken(t)' /\ loc'[t].out = loc[t].out /\ loc'[t].piece = loc[t].piece
          /\ Fewer \/ More(loc[t].out)
      BY <2>4 DEF Replies, HasReplied, HasTaken
    <3>2. Fetches(t)'
      BY <1>5, <2>1, <3>1 DEF callVars
    <3>3. HasTaken(t)' <=> HasTaken(t)
      BY <3>1 DEF HasTaken
    <3> QED
      BY <2>1, <3>1, <3>2, <3>3 DEF FetchesMore, ListensOn, callVars
  <2> QED
    BY <2>1, <2>2, <2>3, <2>4
<1>7. ASSUME Loops(t) PROVE pc[t] \in ReceivePlaces \cup AnswerPlaces
  BY <1>1, <1>7
  DEF Fetches, HasTaken, ReceivePlaces, AnswerPlaces, Loops, SendWaitAgain, SendWaitGivesUp,
      CatchMailAgain, ReceiveWaitAgain, CatchWithAnswerAgain, StopP, AtStopP, SendWaitPolls,
      CatchMailPolls, SendWaitReturns, ReceiveWaitPolls, CatchWithAnswerPolls, Answer,
      CatchWithAnswerReturns, WaitP
<1>8. ASSUME NEW k \in 1 .. nbPieces, ReceiveMessage(t, k)
      PROVE  /\ Fetches(t)' /\ call'[t] = call[t] /\ stage'[t] = k /\ loc'[t].piece = 0
             /\ ~HasTaken(t)'
  <2>1. /\ call'[t] = call[t] /\ stage'[t] = k /\ pc'[t] = "ReceiveWait"
        /\ loc'[t] = Locals(Mail(m, connectedID[m], "ACK", 0, 0), "MSG", 0)
    BY <1>1, <1>8 DEF ReceiveMessage, Continues, ReceiveWait, Goto, Set, Domains
  <2>2. Mail(m, connectedID[m], "ACK", 0, 0) \in Message
    BY <1>2 DEF Types, Mail, Message, Boxes
  <2>3. ~HasTaken(t)'
    BY <2>1 DEF HasTaken, AnswerPlaces
  <2>4. Fetches(t)'
    BY <1>1, <1>2, <2>1, <2>2 DEF Fetches, Locals, Mail, SendBox, ReceivePlaces
  <2> QED
    BY <2>1, <2>3, <2>4 DEF Locals
<1>9. ASSUME NEW name \in Obtaining, ReceiveInfo(t, name) PROVE FetchesMore(m)
  <2>1. /\ HasTaken(t) /\ stage[t] = 0
        /\ UNCHANGED <<mailVars, connectedID, stopping, script, ret>>
        /\ \/ received' = received
           \/ \E file \in FileMade : received' = [received EXCEPT ![m] = file]
    BY <1>1, <1>9 DEF ReceiveInfo, Ended, HasTaken
  <2>2. /\ Fetches(t)' /\ call'[t] = call[t] /\ stage'[t] = 1 /\ loc'[t].piece = 0
        /\ ~HasTaken(t)'
    BY <1>2, <1>8, <1>9 DEF ReceiveInfo
  <2>3. loc[t].piece = 0
    BY <1>4, <2>1
  <2> QED
    BY <1>2, <2>1, <2>2, <2>3, SameMail DEF FetchesMore, FetchesNext
<1>10. ASSUME NEW name \in Obtaining, Stored(t, name)
       PROVE  HasTaken(t) /\ stage[t] > 0 /\ Keeps(m)
  <2>1. /\ HasTaken(t) /\ stage[t] > 0 /\ received[m].room # NullFile
        /\ received' = [received EXCEPT ![m] = AppendPiece(@, loc[t].piece)]
    BY <1>1, <1>10 DEF Stored, Ended, HasTaken
  <2>2. loc[t].piece \in 1 .. nbPieces
    BY <1>2, <1>4, <2>1
  <2> QED
    BY <2>1, <2>2 DEF Keeps
<1>11. ASSUME NEW name \in Obtaining, ReceiveNext(t, name) PROVE FetchesMore(m)
  <2>1. /\ stage[t] + 1 \in 1 .. nbPieces /\ stage[t] < nbPieces
        /\ UNCHANGED <<mailVars, connectedID, stopping, script, ret>>
    BY <1>1, <1>2, <1>11 DEF ReceiveNext
  <2>2. /\ Fetches(t)' /\ call'[t] = call[t] /\ stage'[t] = stage[t] + 1 /\ loc'[t].piece = 0
        /\ ~HasTaken(t)'
    BY <1>8, <1>11, <2>1 DEF ReceiveNext
  <2> QED
    BY <1>10, <1>11, <2>1, <2>2, SameMail DEF ReceiveNext, FetchesMore, FetchesNext
<1>12. ASSUME NEW name \in Obtaining, ReceiveReturns(t, name) PROVE FetchesMore(m)
  <2>1. /\ UNCHANGED <<mailVars, connectedID, stopping, script>>
        /\ stage[t] = nbPieces /\ Idle(t)'
        /\ ret' = [ret EXCEPT ![m][call[t]] = "TRUE"]
    BY <1>1, <1>12 DEF ReceiveReturns, Returns, Goto, Domains, Idle
  <2> QED
    BY <1>10, <1>12, <2>1, SameMail DEF ReceiveReturns, FetchesMore, HasFetched
<1>13. CASE WriteCrashes(t)
  <2>1. /\ UNCHANGED <<mailVars, callVars, loc>>
        /\ HasTaken(t) /\ HasTaken(t)'
    BY <1>1, <1>13 DEF WriteCrashes, Ended, Goto, Domains, HasTaken
  <2>2. Fetches(t)'
    BY <1>5, <2>1 DEF callVars
  <2>3. HasTaken(t)' <=> HasTaken(t)
    BY <2>1 DEF HasTaken
  <2> QED
    BY <2>1, <2>2, <2>3, SameMail DEF FetchesMore, ListensOn, callVars
<1>14. ~Connection(t)
  <2>1. pc[t] # "Receive"
    BY <1>4 DEF HasTaken, ReceivePlaces, AnswerPlaces
  <2> QED
    BY <1>1, <2>1
    DEF Connection, SyncWithMachine, SyncAnswered, SyncFails, SyncReturns, OpenConnection, OpenReceives,
        OpenAnswers, OpenReturns, EndConnection, Calling, EndReturns,
        ListenForEndConnection, ListenReceives, ReceivesFirst, ListenReturns, Ended, Obtaining
<1>15. ASSUME Strings(t) \/ Files(t)
       PROVE  \/ WriteCrashes(t)
              \/ \E name \in Obtaining : ReceiveInfo(t, name) \/ ReceiveNext(t, name) \/ ReceiveReturns(t, name)
  <2>1. pc[t] \notin {"FALSE", "gap.wait"}
    BY <1>4 DEF HasTaken, ReceivePlaces, AnswerPlaces
  <2> QED
    BY <1>1, <1>15, <2>1
    DEF Strings, Files, SendString, ReceiveString, SendFile, ReceiveFile, Calling, Sends, Obtains,
        SendInfoAnswered, SendPauses, SendNext, SendReturns, SendFails, SendPaused, WaitP,
        ReceiveFails, Ended, Obtaining
<1> QED
  BY <1>6, <1>7, <1>9, <1>11, <1>12, <1>13, <1>14, <1>15 DEF Step

-----------------------------------------------------------------------------
(* A step of the system, seen by the two machines of a conversation.       *)
SameView(m) == SameThread(Main(m)) /\ SameMachine(m)
Hello == Fewer \/ \E msg : Greeting(msg) /\ More(msg)
SenderSteps(a) ==
    \/ Unsent(a) /\ ~Sent(a) /\ Unsent(a)' /\ Hello
    \/ /\ Unsent(a) /\ ~Sent(a) /\ Sending_(a)' /\ Fewer
       /\ stage'[Main(a)] = 0 /\ loc'[Main(a)].got = 0
    \/ Sending_(a) /\ Sending_(a)' /\ connectedID' = connectedID /\ (SendsOn(a) \/ GoesOn(a))
    \/ Sending_(a) /\ Sent(a)' /\ connectedID' = connectedID /\ Finishes(a)
    \/ /\ Sent(a) /\ Sent(a)' /\ connectedID' = connectedID /\ Fewer
       /\ \A name \in Sending : ret'[a][name] = ret[a][name]
ReceiverSteps(b) ==
    \/ Untaken(b) /\ Untaken(b)' /\ Hello /\ received' = received
    \/ /\ Untaken(b) /\ Taking(b)' /\ Fewer
       /\ stage'[Main(b)] = 0 /\ ~HasTaken(Main(b))' /\ loc'[Main(b)].piece = 0
    \/ Taking(b) /\ Taking(b)' /\ (ListensOn(b) \/ FetchesNext(b))
    \/ Taking(b) /\ Taken(b)' /\ HasFetched(b)
    \/ Taken(b) /\ Taken(b)' /\ Fewer /\ received' = received
Moved(a, b) ==
    \/ SameView(a) /\ SameView(b) /\ Fewer
    \/ SameView(b) /\ SenderSteps(a)
    \/ SameView(a) /\ ReceiverSteps(b)

LEMMA FitsFewer ==
  ASSUME MailFits, Fewer
  PROVE  MailFits'
BY DEF MailFits, Fewer, Fits

LEMMA FitsMore ==
  ASSUME MailFits, NEW msg, More(msg), Fits(msg, msg.box)
  PROVE  MailFits'
BY DEF MailFits, More, Fits

LEMMA FitsHello ==
  ASSUME MailFits, Hello
  PROVE  MailFits'
<1>1. ASSUME NEW msg, Greeting(msg), More(msg) PROVE MailFits'
  <2>1. Fits(msg, msg.box)
    BY <1>1 DEF Greeting, Fits
  <2> QED
    BY <1>1, <2>1, FitsMore
<1> QED
  BY <1>1, FitsFewer DEF Hello

LEMMA SameSender ==
  ASSUME NEW a, SameView(a)
  PROVE  /\ Unsent(a) => Unsent(a)'
         /\ Sending_(a) => Sending_(a)'
         /\ Sent(a) => Sent(a)'
<1>1. /\ pc'[Main(a)] = pc[Main(a)] /\ loc'[Main(a)] = loc[Main(a)]
      /\ call'[Main(a)] = call[Main(a)] /\ stage'[Main(a)] = stage[Main(a)]
      /\ script'[a] = script[a] /\ connectedID'[a] = connectedID[a] /\ ret'[a] = ret[a]
  BY DEF SameView, SameThread, SameMachine
<1>2. /\ Idle(Main(a)) => Idle(Main(a))'
      /\ Connects(Main(a)) => Connects(Main(a))'
      /\ Connected(a, NotSender, Sending) => Connected(a, NotSender, Sending)'
  BY <1>1 DEF Idle, Connects, Connected
<1>3. Transmits(Main(a)) => Transmits(Main(a))'
  BY <1>1 DEF Transmits, Main
<1> QED
  BY <1>1, <1>2, <1>3 DEF Unsent, Sending_, Sent, Fresh

LEMMA SameReceiver ==
  ASSUME NEW b, SameView(b)
  PROVE  /\ Untaken(b) => Untaken(b)'
         /\ Taking(b) => Taking(b)'
         /\ Taken(b) => Taken(b)'
<1>1. /\ pc'[Main(b)] = pc[Main(b)] /\ loc'[Main(b)] = loc[Main(b)]
      /\ call'[Main(b)] = call[Main(b)] /\ stage'[Main(b)] = stage[Main(b)]
      /\ script'[b] = script[b] /\ connectedID'[b] = connectedID[b] /\ ret'[b] = ret[b]
      /\ received'[b] = received[b]
  BY DEF SameView, SameThread, SameMachine
<1>2. /\ Idle(Main(b)) => Idle(Main(b))'
      /\ Connects(Main(b)) => Connects(Main(b))'
      /\ Connected(b, NotReceiver, Obtaining) => Connected(b, NotReceiver, Obtaining)'
  BY <1>1 DEF Idle, Connects, Connected
<1>3. Fetches(Main(b)) => Fetches(Main(b))'
  BY <1>1 DEF Fetches, HasTaken
<1> QED
  BY <1>1, <1>2, <1>3 DEF Untaken, Taking, Taken, Fresh

LEMMA SameSilent ==
  ASSUME NEW m, SameView(m), Silent(m)
  PROVE  Silent(m)'
BY DEF SameView, SameThread, SameMachine, Silent, Idle

LEMMA FitsNoStop ==
  ASSUME MailFits
  PROVE  NoStop
BY DEF MailFits, Fits, NoStop, Boxes

(* A thread that is not a's nor b's main thread.                           *)
LEMMA ListenerStep ==
  ASSUME Domains, MailTypes, NoStop, Calm, NEW m \in Listeners, Step(<<m, "listener">>)
  PROVE  /\ UNCHANGED <<mailVars, connectedID, stopping, script, received, ret>>
         /\ call'[<<m, "listener">>] = "ListenForEndConnection" /\ pc'[<<m, "listener">>] = "Receive"
<1> DEFINE t == <<m, "listener">>
<1>1. /\ t \in Threads /\ t[1] = m /\ t[2] = "listener" /\ m \in Machines
      /\ call[t] \in {"idle", "ListenForEndConnection"} /\ pc[t] \in {"idle", "Receive"}
  BY MachinesAssumption DEF Threads, Calm
<1>2. ~Loops(t)
  BY <1>1
  DEF Loops, SendWaitAgain, SendWaitGivesUp, CatchMailAgain, ReceiveWaitAgain, CatchWithAnswerAgain,
      StopP, AtStopP, SendWaitPolls, CatchMailPolls, SendWaitReturns, ReceiveWaitPolls,
      CatchWithAnswerPolls, Answer, CatchWithAnswerReturns, WaitP
<1>3. ~(Strings(t) \/ Files(t))
  BY <1>1
  DEF Strings, Files, SendString, ReceiveString, SendFile, ReceiveFile, Calling, Sends, Obtains,
      SendInfoAnswered, SendPauses, SendNext, SendReturns, SendFails, SendPaused, WaitP, ReceiveInfo,
      Stored, ReceiveNext, ReceiveReturns, ReceiveFails, WriteCrashes, Ended
<1>4. ~ListenReceives(t)
  <2>1. SUFFICES ASSUME ListenReceives(t) PROVE FALSE
    OBVIOUS
  <2>2. M!Take(m, "STOP")
    BY <1>1, <2>1 DEF ListenReceives, ReceivesFirst
  <2>3. "STOP" \in Boxes
    BY DEF Boxes
  <2>4. Head(boxes[m]["STOP"]) \in Mails(m, "STOP")
    BY <1>1, <2>2, <2>3, TakeOne DEF Took1
  <2> QED
    BY <1>1, <2>4 DEF NoStop
<1>5. ASSUME Connection(t) PROVE ListenForEndConnection(t)
  BY <1>1, <1>4, <1>5
  DEF Connection, SyncWithMachine, SyncAnswered, SyncFails, SyncReturns, OpenConnection, OpenReceives,
      ReceivesFirst, OpenAnswers, OpenReturns, EndConnection, Calling, EndReturns, ListenReturns, Ended
<1>6. ListenForEndConnection(t)
  BY <1>2, <1>3, <1>5 DEF Step
<1> QED
  BY <1>1, <1>6 DEF ListenForEndConnection, Starts, Goto, Domains

LEMMA Declined ==
  ASSUME Domains, NEW m \in Machines, NEW name, Declines(m, name)
  PROVE  \A n \in Sending \cup Obtaining :
            /\ n = name => ret'[m][n] = "FALSE"
            /\ n # name => ret'[m][n] = ret[m][n]
BY DEF Declines, Domains, Names, Sending, Obtaining

LEMMA ScriptTypes ==
  ASSUME Types, NEW m \in Machines, script[m] # <<>>, script' = [script EXCEPT ![m] = Tail(@)]
  PROVE  /\ script' \in [Machines -> Seq(Calls)]
         /\ script[m] \in Seq(Calls) /\ script'[m] = Tail(script[m])
<1>1. script[m] \in Seq(Calls) /\ Tail(script[m]) \in Seq(Calls)
  BY NextCall DEF Types
<1> QED
  BY <1>1 DEF Types

LEMMA SilentStep ==
  ASSUME Domains, Types, NEW m \in Machines, Silent(m), Step(Main(m))
  PROVE  /\ UNCHANGED <<mailVars, connectedID, stopping, call, stage, received, pc, loc>>
         /\ Types' /\ Silent(m)'
<1>1. Begins(m) /\ connectedID[m] = NoMachine /\ Refused(script[m])
  BY IdleStep DEF Silent, Types
<1>2. /\ script' \in [Machines -> Seq(Calls)] /\ script'[m] = Tail(script[m])
      /\ script[m] \in Seq(Calls)
  BY <1>1, ScriptTypes DEF Begins
<1>3. Refused(script'[m]) /\ Head(script[m]).call \notin Connecting
  BY <1>1, <1>2, NextCall DEF Begins
<1>4. Declines(m, Head(script[m]).call)
  BY <1>1, <1>3 DEF Begins, BeginsToConnect, BeginsToSend, BeginsToFetch
<1> QED
  BY <1>1, <1>2, <1>3, <1>4 DEF Begins, Declines, Types, Silent, Idle

LEMMA Kinds ==
  /\ Sending \cap Connecting = {} /\ Obtaining \cap Connecting = {} /\ Sending \cap Obtaining = {}
  /\ "EndConnection" \notin Connecting
  /\ "SendFile" \in Sending
  /\ NotSender = Obtaining \cup {"EndConnection"}
  /\ NotReceiver = Sending \cup {"EndConnection"}
BY DEF Sending, Obtaining, Connecting, NotSender, NotReceiver

(* A step of a machine that is Fresh.                                      *)
LEMMA FreshStep ==
  ASSUME Domains, MailTypes, MailFits, Types, NEW m \in Machines, ~stopping[m],
         NEW never, NEW once, Fresh(m, never, once), Step(Main(m)),
         (never \cup once) \cap Connecting = {},
         Sending \cup Obtaining \cup {"EndConnection"} \subseteq never \cup once,
         "EndConnection" \in never
  PROVE  /\ MailTypes' /\ UNCHANGED stopping
         /\ \/ Fresh(m, never, once)' /\ Hello /\ received' = received /\ Types'
            \/ /\ Fewer /\ UNCHANGED <<connectedID, ret>>
               /\ script' \in [Machines -> Seq(Calls)]
               /\ Connected(m, never, once)'
               /\ \E name \in once : BeginsToSend(m, name) \/ BeginsToFetch(m, name)
<1>1. CASE Connects(Main(m))
  <2>1. Shakes(m) /\ Limited(script[m], never, once)
    BY <1>1, ConnectStep DEF Fresh, Idle, Connects, Connecting
  <2>2. /\ MailTypes' /\ UNCHANGED <<script, received, stopping>> /\ Hello
        /\ Types'
    BY <2>1 DEF Shakes, Hello, Types
  <2>3. Fresh(m, never, once)'
    BY <2>1 DEF Shakes, Fresh
  <2> QED
    BY <2>2, <2>3
<1>2. CASE Idle(Main(m))
  <2> DEFINE name == Head(script[m]).call
  <2>1. Begins(m)
    BY <1>2, IdleStep DEF Types
  <2>2. /\ MailTypes' /\ Fewer
    BY <2>1, SameMail DEF Begins
  <2>3. /\ script' \in [Machines -> Seq(Calls)] /\ script'[m] = Tail(script[m])
        /\ script[m] \in Seq(Calls) /\ script[m] # <<>> /\ connectedID' = connectedID
    BY <2>1, ScriptTypes DEF Begins
  <2>4. /\ Limited(script[m], never, once) =>
              /\ Limited(script'[m], never, once) /\ name \notin never
              /\ name \in once => Limited(script'[m], never \cup once, {})
        /\ Polite(script[m], never, once) =>
              /\ Polite(script'[m], never, once)
              /\ name \in Connecting => Limited(script'[m], never, once)
    <3>1. PICK s \in Seq(Calls) : s = script[m]
      BY <2>3
    <3>2. s # <<>>
      BY <2>3, <3>1
    <3>3. /\ Limited(s, never, once) =>
                /\ Limited(Tail(s), never, once) /\ Head(s).call \notin never
                /\ Head(s).call \in once => Limited(Tail(s), never \cup once, {})
          /\ Polite(s, never, once) =>
                /\ Polite(Tail(s), never, once)
                /\ Head(s).call \in Connecting => Limited(Tail(s), never, once)
      BY <3>2, NextCall, Zenon
    <3> QED
      BY <2>3, <3>1, <3>3
  <2>5. \/ connectedID[m] = NoMachine /\ Polite(script[m], never, once)
        \/ Limited(script[m], never, once)
    BY DEF Fresh
  <2> HIDE DEF name
  <2>6. CASE Declines(m, name)
    <3>1. UNCHANGED <<stopping, call, stage, received, pc, loc>>
      BY <2>6 DEF Declines
    <3>2. \A n \in Sending \cup Obtaining : ret'[m][n] # "TRUE"
      BY <2>6, Declined DEF Fresh
    <3>3. Types'
      BY <2>3, <3>1 DEF Types
    <3>4. Fresh(m, never, once)'
      BY <1>2, <2>3, <2>4, <2>5, <3>1, <3>2 DEF Fresh, Idle
    <3> QED
      BY <2>2, <3>1, <3>3, <3>4 DEF Hello
  <2>7. CASE BeginsToConnect(m, name)
    <3>1. UNCHANGED <<stopping, ret, received>> /\ name \in Connecting /\ Connects(Main(m))'
      BY <2>7 DEF BeginsToConnect
    <3>2. Types'
      BY <2>3, <3>1 DEF Types
    <3>3. Fresh(m, never, once)'
      BY <2>4, <2>5, <3>1 DEF Fresh
    <3> QED
      BY <2>2, <3>1, <3>2, <3>3 DEF Hello
  <2>8. CASE BeginsToSend(m, name) \/ BeginsToFetch(m, name)
    <3>1. /\ name \in Sending \cup Obtaining /\ connectedID[m] # NoMachine
          /\ UNCHANGED <<stopping, ret>>
      BY <2>8 DEF BeginsToSend, BeginsToFetch
    <3>2. name \in once /\ Connected(m, never, once)'
      BY <2>3, <2>4, <2>5, <3>1 DEF Connected
    <3> QED
      BY <2>2, <2>3, <2>8, <3>1, <3>2
  <2>9. CASE name = "EndConnection" /\ connectedID[m] # NoMachine
    BY <2>4, <2>5, <2>9
  <2> QED
    BY <2>1, <2>6, <2>7, <2>8, <2>9 DEF Begins, name
<1> QED
  BY <1>1, <1>2 DEF Fresh

(* A step of a machine that has made its call.                             *)
LEMMA ConnectedStep ==
  ASSUME Domains, MailTypes, Types, NEW m \in Machines, NEW never, NEW once,
         Connected(m, never, once), Idle(Main(m)), Step(Main(m)),
         Sending \cup Obtaining \cup {"EndConnection"} \subseteq never \cup once
  PROVE  /\ MailTypes' /\ Fewer /\ UNCHANGED <<connectedID, stopping, received>> /\ Types'
         /\ Connected(m, never, once)' /\ Idle(Main(m))'
         /\ \A n \in Sending \cup Obtaining : ret'[m][n] = ret[m][n]
<1> DEFINE name == Head(script[m]).call
<1>1. Begins(m)
  BY IdleStep DEF Types
<1>2. /\ MailTypes' /\ Fewer
  BY <1>1, SameMail DEF Begins
<1>3. /\ script' \in [Machines -> Seq(Calls)] /\ script'[m] = Tail(script[m])
      /\ script[m] \in Seq(Calls) /\ script[m] # <<>> /\ connectedID' = connectedID
  BY <1>1, ScriptTypes DEF Begins
<1>4. Limited(script'[m], never \cup once, {}) /\ name \notin never \cup once
  <2>1. PICK s \in Seq(Calls) : s = script[m]
    BY <1>3
  <2>2. PICK all : all = never \cup once
    OBVIOUS
  <2>3. s # <<>> /\ Limited(s, all, {})
    BY <1>3, <2>1, <2>2 DEF Connected
  <2>4. Limited(Tail(s), all, {}) /\ Head(s).call \notin all
    BY <2>3, NextCall, Zenon
  <2> QED
    BY <1>3, <2>1, <2>2, <2>4
<1> HIDE DEF name
<1>5. Declines(m, name) /\ name \notin Sending \cup Obtaining
  BY <1>1, <1>4 DEF Begins, BeginsToConnect, BeginsToSend, BeginsToFetch, Connected, name
<1>6. \A n \in Sending \cup Obtaining : ret'[m][n] = ret[m][n]
  BY <1>5, Declined
<1>7. UNCHANGED <<stopping, received, call, pc>>
  BY <1>5 DEF Declines
<1> QED
  BY <1>2, <1>3, <1>4, <1>6, <1>7 DEF Types, Connected, Idle

LEMMA AppendPieceIs ==
  ASSUME NEW r \in [pieces : Seq(1 .. nbPieces), room : NullFile .. nbPieces],
         NEW p \in 1 .. nbPieces
  PROVE  /\ AppendPiece(r, p) \in [pieces : Seq(1 .. nbPieces), room : NullFile .. nbPieces]
         /\ AppendPiece(r, p).room = r.room
         /\ Len(r.pieces) < r.room => AppendPiece(r, p).pieces = Append(r.pieces, p)
         /\ ~(Len(r.pieces) < r.room) => AppendPiece(r, p).pieces = r.pieces
<1>1. Append(r.pieces, p) \in Seq(1 .. nbPieces)
  OBVIOUS
<1> QED
  BY <1>1 DEF AppendPiece

LEMMA EmptyIs ==
  /\ nbPieces \in Nat \ {0}
  /\ Empty(nbPieces) \in [pieces : Seq(1 .. nbPieces), room : NullFile .. nbPieces]
  /\ Empty(nbPieces).pieces = <<>>
  /\ \A file \in FileMade : /\ file \in [pieces : Seq(1 .. nbPieces), room : NullFile .. nbPieces]
                            /\ file.pieces = <<>>
<1>1. nbPieces \in Nat \ {0}
  BY TokenAssumption DEF nbPieces
<1>2. nbPieces \in NullFile .. nbPieces /\ nbPieces - 1 \in NullFile .. nbPieces
      /\ NullFile \in NullFile .. nbPieces
  BY <1>1 DEF NullFile
<1>3. \A r \in NullFile .. nbPieces :
         /\ Empty(r) \in [pieces : Seq(1 .. nbPieces), room : NullFile .. nbPieces]
         /\ Empty(r).pieces = <<>>
  BY DEF Empty
<1> QED
  BY <1>1, <1>2, <1>3 DEF FileMade

LEMMA SenderStep ==
  ASSUME Domains, MailTypes, MailFits, Types, NEW a \in Machines, ~stopping[a],
         Unsent(a) \/ Sending_(a) \/ Sent(a), Step(Main(a))
  PROVE  /\ MailTypes' /\ MailFits' /\ Types' /\ ~stopping'[a] /\ received' = received
         /\ SenderSteps(a)
<1>1. CASE Unsent(a) /\ ~Sent(a)
  <2>1. /\ MailTypes' /\ UNCHANGED stopping
        /\ \/ Fresh(a, NotSender, Sending)' /\ Hello /\ received' = received /\ Types'
           \/ /\ Fewer /\ UNCHANGED <<connectedID, ret>>
              /\ script' \in [Machines -> Seq(Calls)]
              /\ Connected(a, NotSender, Sending)'
              /\ \E name \in Sending : BeginsToSend(a, name) \/ BeginsToFetch(a, name)
    BY <1>1, FreshStep, Kinds DEF Unsent
  <2>2. CASE Fresh(a, NotSender, Sending)' /\ Hello /\ received' = received /\ Types'
    BY <1>1, <2>1, <2>2, FitsHello DEF SenderSteps, Unsent
  <2>3. CASE /\ Fewer /\ UNCHANGED <<connectedID, ret>>
             /\ script' \in [Machines -> Seq(Calls)]
             /\ Connected(a, NotSender, Sending)'
             /\ \E name \in Sending : BeginsToSend(a, name) \/ BeginsToFetch(a, name)
    <3>1. PICK name \in Sending : BeginsToSend(a, name)
      BY <2>3, Kinds DEF BeginsToFetch
    <3>2. /\ received' = received /\ Transmits(Main(a))'
          /\ stage'[Main(a)] = 0 /\ loc'[Main(a)].got = 0
      BY <3>1 DEF BeginsToSend
    <3>3. Sending_(a)'
      BY <1>1, <2>3, <3>2 DEF Sending_, Unsent, Fresh
    <3>4. Types'
      BY <2>3, <3>2 DEF Types
    <3> QED
      BY <1>1, <2>1, <2>3, <3>2, <3>3, <3>4, FitsFewer DEF SenderSteps
  <2> QED
    BY <2>1, <2>2, <2>3
<1>2. CASE Sending_(a)
  <2>1. TransmitsMore(a) /\ connectedID[a] # NoMachine
    BY <1>2, TransmitStep DEF Sending_, Connected
  <2>2. /\ MailTypes' /\ UNCHANGED <<script, received, connectedID>> /\ ~stopping'[a]
    BY <2>1 DEF TransmitsMore
  <2>3. Types' /\ Connected(a, NotSender, Sending)'
    BY <1>2, <2>2 DEF Types, Sending_, Connected
  <2>4. Fits(loc[Main(a)].out, loc[Main(a)].out.box)
    BY <1>2, <2>1, OutFits DEF Sending_
  <2>5. CASE SendsOn(a)
    <3>1. MailFits'
      BY <2>4, <2>5, FitsMore, FitsFewer DEF SendsOn, Took1
    <3>2. Sending_(a)'
      BY <1>2, <2>3, <2>5 DEF SendsOn, Sending_
    <3> QED
      BY <1>2, <2>2, <2>3, <2>5, <3>1, <3>2 DEF SenderSteps
  <2>6. CASE GoesOn(a)
    <3>1. MailFits'
      BY <2>6, FitsFewer DEF GoesOn
    <3>2. Sending_(a)'
      BY <1>2, <2>3, <2>6 DEF GoesOn, Sending_
    <3> QED
      BY <1>2, <2>2, <2>3, <2>6, <3>1, <3>2 DEF SenderSteps
  <2>7. CASE Finishes(a)
    <3>1. MailFits' /\ Idle(Main(a))'
      BY <2>7, FitsFewer DEF Finishes
    <3> QED
      BY <1>2, <2>2, <2>3, <2>7, <3>1 DEF SenderSteps, Sent
  <2> QED
    BY <2>1, <2>5, <2>6, <2>7 DEF TransmitsMore
<1>3. CASE Sent(a)
  <2>1. /\ MailTypes' /\ Fewer /\ UNCHANGED <<connectedID, stopping, received>> /\ Types'
        /\ Connected(a, NotSender, Sending)' /\ Idle(Main(a))'
        /\ \A n \in Sending \cup Obtaining : ret'[a][n] = ret[a][n]
    BY <1>3, ConnectedStep, Kinds DEF Sent
  <2> QED
    BY <1>3, <2>1, FitsFewer DEF SenderSteps, Sent
<1> QED
  BY <1>1, <1>2, <1>3

LEMMA ReceiverStep ==
  ASSUME Domains, MailTypes, MailFits, Types, NEW b \in Machines, ~stopping[b],
         Untaken(b) \/ Taking(b) \/ Taken(b), Step(Main(b)),
         \A name \in Sending : ret[b][name] # "TRUE"
  PROVE  /\ MailTypes' /\ MailFits' /\ Types' /\ ~stopping'[b]
         /\ \A name \in Sending : ret'[b][name] # "TRUE"
         /\ received' = received \/ \E r : received' = [received EXCEPT ![b] = r]
         /\ ReceiverSteps(b)
<1>1. CASE Untaken(b)
  <2>1. /\ MailTypes' /\ UNCHANGED stopping
        /\ \/ Fresh(b, NotReceiver, Obtaining)' /\ Hello /\ received' = received /\ Types'
           \/ /\ Fewer /\ UNCHANGED <<connectedID, ret>>
              /\ script' \in [Machines -> Seq(Calls)]
              /\ Connected(b, NotReceiver, Obtaining)'
              /\ \E name \in Obtaining : BeginsToSend(b, name) \/ BeginsToFetch(b, name)
    BY <1>1, FreshStep, Kinds DEF Untaken
  <2>2. CASE Fresh(b, NotReceiver, Obtaining)' /\ Hello /\ received' = received /\ Types'
    <3>1. \A name \in Sending : ret'[b][name] # "TRUE"
      BY <2>2 DEF Fresh
    <3> QED
      BY <1>1, <2>1, <2>2, <3>1, FitsHello DEF ReceiverSteps, Untaken
  <2>3. CASE /\ Fewer /\ UNCHANGED <<connectedID, ret>>
             /\ script' \in [Machines -> Seq(Calls)]
             /\ Connected(b, NotReceiver, Obtaining)'
             /\ \E name \in Obtaining : BeginsToSend(b, name) \/ BeginsToFetch(b, name)
    <3>1. PICK name \in Obtaining : BeginsToFetch(b, name)
      BY <2>3, Kinds DEF BeginsToSend
    <3>2. /\ Fetches(Main(b))' /\ stage'[Main(b)] = 0 /\ pc'[Main(b)] = "ReceiveWait"
          /\ received' = received \/ received' = [received EXCEPT ![b] = Empty(nbPieces)]
      BY <3>1 DEF BeginsToFetch
    <3>3. ~HasTaken(Main(b))' /\ loc'[Main(b)].piece = 0
      BY <3>2 DEF Fetches, HasTaken, AnswerPlaces
    <3>4. Types' /\ received'[b].pieces = <<>>
      BY <1>1, <2>3, <3>2, EmptyIs DEF Types, Untaken
    <3>5. Taking(b)'
      BY <2>3, <3>2, <3>4 DEF Taking
    <3> QED
      BY <1>1, <2>1, <2>3, <3>2, <3>3, <3>4, <3>5, FitsFewer DEF ReceiverSteps
  <2> QED
    BY <2>1, <2>2, <2>3
<1>2. CASE Taking(b)
  <2>1. FetchesMore(b) /\ Fetches(Main(b))
    BY <1>2, FetchStep DEF Taking, Connected
  <2>2. /\ MailTypes' /\ UNCHANGED <<script, connectedID, stopping>>
    BY <2>1 DEF FetchesMore
  <2>3. Connected(b, NotReceiver, Obtaining)'
    BY <1>2, <2>2 DEF Taking, Connected
  <2>4. ASSUME Keeps(b)
        PROVE  Types' /\ \E r : received' = [received EXCEPT ![b] = r]
    BY <2>2, <2>4, AppendPieceIs DEF Keeps, Types
  <2>5. CASE ListensOn(b)
    <3>1. Types' /\ UNCHANGED <<ret, received>>
      BY <2>2, <2>5 DEF ListensOn, Types
    <3>2. Taking(b)'
      BY <1>2, <2>3, <2>5, <3>1 DEF ListensOn, Taking
    <3>3. Fewer \/ (HasTaken(Main(b)) /\ More(loc[Main(b)].out))
      BY <2>5 DEF ListensOn, Took1
    <3>4. loc[Main(b)].out \in Message /\ loc[Main(b)].out.box = "ACK"
      BY <2>1 DEF Fetches
    <3>5. MailFits'
      BY <3>3, <3>4, FitsMore, FitsFewer DEF Fits
    <3> QED
      BY <1>2, <2>2, <2>5, <3>1, <3>2, <3>5 DEF ReceiverSteps
  <2>6. CASE FetchesNext(b)
    <3>1. Types' /\ (received' = received \/ \E r : received' = [received EXCEPT ![b] = r])
      BY <2>2, <2>4, <2>6, EmptyIs DEF FetchesNext, Types
    <3>2. stage[Main(b)] \in Nat /\ stage'[Main(b)] # 0
      BY <2>1, <2>6 DEF FetchesNext, Fetches
    <3>3. Taking(b)' /\ MailFits' /\ ret' = ret
      BY <2>3, <2>6, <3>2, FitsFewer DEF FetchesNext, Taking
    <3> QED
      BY <1>2, <2>2, <2>6, <3>1, <3>3 DEF ReceiverSteps
  <2>7. CASE HasFetched(b)
    <3>1. Types' /\ (\E r : received' = [received EXCEPT ![b] = r]) /\ MailFits' /\ Idle(Main(b))'
      BY <2>4, <2>7, FitsFewer DEF HasFetched
    <3>2. /\ \A name \in Sending : ret'[b][name] # "TRUE"
          /\ \E name \in Obtaining : ret'[b][name] = "TRUE"
      BY <2>1, <2>7, Kinds DEF HasFetched, Domains, Fetches, Names, Obtaining
    <3> QED
      BY <1>2, <2>2, <2>3, <2>7, <3>1, <3>2 DEF ReceiverSteps, Taken
  <2> QED
    BY <2>1, <2>5, <2>6, <2>7 DEF FetchesMore
<1>3. CASE Taken(b)
  <2>1. /\ MailTypes' /\ Fewer /\ UNCHANGED <<connectedID, stopping, received>> /\ Types'
        /\ Connected(b, NotReceiver, Obtaining)' /\ Idle(Main(b))'
        /\ \A n \in Sending \cup Obtaining : ret'[b][n] = ret[b][n]
    BY <1>3, ConnectedStep, Kinds DEF Taken
  <2>2. Taken(b)'
    BY <1>3, <2>1 DEF Taken
  <2> QED
    BY <1>3, <2>1, <2>2, FitsFewer DEF ReceiverSteps
<1> QED
  BY <1>1, <1>2, <1>3

LEMMA OthersStep ==
  ASSUME NEW a, NEW b, Conversing(a, b), NEW t \in Threads, t # Main(a), t # Main(b), Step(t)
  PROVE  Conversing(a, b)' /\ Moved(a, b)
<1>1. /\ a \in Machines /\ b \in Machines /\ a # b
      /\ Domains /\ MailTypes /\ MailFits /\ Types /\ Calm
  BY DEF Conversing
<1>2. Domains' /\ Frame(t)
  BY <1>1, StepFrame
<1>3. ASSUME NEW m \in Machines, t = Main(m), m # a, m # b
      PROVE  Conversing(a, b)' /\ Moved(a, b)
  <2>1. Silent(m)
    BY <1>3 DEF Conversing
  <2>2. /\ UNCHANGED <<mailVars, connectedID, stopping, call, stage, received, pc, loc>>
        /\ Types' /\ Silent(m)'
    BY <1>1, <1>3, <2>1, SilentStep
  <2>3. \A n \in Machines : n # m => SameView(n)
    BY <1>2, <1>3 DEF Frame, SameView, Main, Threads
  <2>4. \A n \in Machines \ {a, b} : Silent(n)'
    BY <2>2, <2>3, SameSilent DEF Conversing
  <2>5. MailTypes' /\ Fewer /\ MailFits' /\ Calm'
    BY <1>1, <2>2, SameMail, FitsFewer DEF Calm
  <2>6. SameView(a) /\ SameView(b)
    BY <1>1, <1>3, <2>3
  <2> QED
    BY <1>1, <1>2, <2>2, <2>4, <2>5, <2>6, SameSender, SameReceiver
    DEF Conversing, Moved, SameView, SameMachine
<1>4. ASSUME NEW m \in Listeners, t = <<m, "listener">>
      PROVE  Conversing(a, b)' /\ Moved(a, b)
  <2>1. /\ UNCHANGED <<mailVars, connectedID, stopping, script, received, ret>>
        /\ call'[t] = "ListenForEndConnection" /\ pc'[t] = "Receive"
    BY <1>1, <1>4, FitsNoStop, ListenerStep
  <2>2. \A n \in Machines : SameView(n)
    BY <1>2, <1>4, <2>1 DEF Frame, SameView, SameMachine, Main, Threads
  <2>3. \A n \in Listeners : n # m => SameThread(<<n, "listener">>)
    BY <1>2, <1>4 DEF Frame, Threads
  <2>4. MailTypes' /\ Fewer /\ MailFits' /\ Calm' /\ Types'
    BY <1>1, <1>4, <2>1, <2>3, SameMail, FitsFewer DEF Calm, Types, SameThread
  <2>5. \A n \in Machines \ {a, b} : Silent(n)'
    BY <2>2, SameSilent DEF Conversing
  <2>6. SameView(a) /\ SameView(b)
    BY <1>1, <2>2
  <2> QED
    BY <1>1, <1>2, <2>4, <2>5, <2>6, SameSender, SameReceiver
    DEF Conversing, Moved, SameView, SameMachine
<1> QED
  BY <1>3, <1>4 DEF Threads, Main

(* A step of a's or b's main thread.                                       *)
LEMMA MainFrame ==
  ASSUME Domains, Calm, NEW m \in Machines, Step(Main(m)), ~stopping'[m]
  PROVE  /\ Domains' /\ Calm' /\ \A n \in Machines : n # m => SameView(n)
         /\ Main(m) \in Threads
<1>1. Main(m) \in Threads /\ Main(m)[1] = m
  BY DEF Main, Threads
<1>2. Domains' /\ Frame(Main(m))
  BY <1>1, StepFrame
<1>3. \A n \in Machines : n # m => SameView(n)
  BY <1>1, <1>2 DEF Frame, SameView, Main, Threads
<1>4. \A n \in Listeners : SameThread(<<n, "listener">>)
  BY <1>2 DEF Frame, Main, Threads
<1>5. Calm'
  BY <1>3, <1>4 DEF Calm, SameThread, SameView, SameMachine
<1> QED
  BY <1>1, <1>2, <1>3, <1>5

LEMMA ConversingStep ==
  ASSUME NEW a, NEW b, Conversing(a, b), [Next]_vars
  PROVE  Conversing(a, b)' /\ Moved(a, b)
<1>1. /\ a \in Machines /\ b \in Machines /\ a # b
      /\ Domains /\ MailTypes /\ MailFits /\ Types /\ Calm
      /\ ~stopping[a] /\ ~stopping[b]
  BY DEF Conversing, Calm
<1>2. ASSUME Step(Main(a)) PROVE Conversing(a, b)' /\ Moved(a, b)
  <2>1. /\ MailTypes' /\ MailFits' /\ Types' /\ ~stopping'[a] /\ received' = received
        /\ SenderSteps(a)
    BY <1>1, <1>2, SenderStep DEF Conversing
  <2>2. Domains' /\ Calm' /\ \A n \in Machines : n # a => SameView(n)
    BY <1>1, <1>2, <2>1, MainFrame
  <2>3. SameView(b) /\ \A n \in Machines \ {a, b} : Silent(n)'
    BY <1>1, <2>2, SameSilent DEF Conversing
  <2>4. Unsent(a)' \/ Sending_(a)' \/ Sent(a)'
    BY <2>1 DEF SenderSteps
  <2>5. Untaken(b)' \/ Taking(b)' \/ Taken(b)'
    BY <2>3, SameReceiver DEF Conversing
  <2> QED
    BY <1>1, <2>1, <2>2, <2>3, <2>4, <2>5 DEF Conversing, Moved, SameView, SameMachine
<1>3. ASSUME Step(Main(b)) PROVE Conversing(a, b)' /\ Moved(a, b)
  <2>1. /\ MailTypes' /\ MailFits' /\ Types' /\ ~stopping'[b]
        /\ \A name \in Sending : ret'[b][name] # "TRUE"
        /\ ReceiverSteps(b)
    BY <1>1, <1>3, ReceiverStep DEF Conversing
  <2>2. Domains' /\ Calm' /\ \A n \in Machines : n # b => SameView(n)
    BY <1>1, <1>3, <2>1, MainFrame
  <2>3. SameView(a) /\ \A n \in Machines \ {a, b} : Silent(n)'
    BY <1>1, <2>2, SameSilent DEF Conversing
  <2>4. Unsent(a)' \/ Sending_(a)' \/ Sent(a)'
    BY <2>3, SameSender DEF Conversing
  <2>5. Untaken(b)' \/ Taking(b)' \/ Taken(b)'
    BY <2>1 DEF ReceiverSteps
  <2>6. received'[a] = received[a]
    BY <2>3 DEF SameView, SameMachine
  <2> QED
    BY <1>1, <2>1, <2>2, <2>3, <2>4, <2>5, <2>6 DEF Conversing, Moved
<1>4. ASSUME NEW t \in Threads, Step(t) PROVE Conversing(a, b)' /\ Moved(a, b)
  BY <1>2, <1>3, <1>4, OthersStep
<1>5. ASSUME Fewer, MailTypes', UNCHANGED <<callVars, pc, loc>>
      PROVE  Conversing(a, b)' /\ Moved(a, b)
  <2>1. \A n \in Machines : SameView(n)
    BY <1>5 DEF SameView, SameThread, SameMachine, callVars
  <2>2. Domains' /\ Calm' /\ Types' /\ MailFits'
    BY <1>1, <1>5, FitsFewer DEF Domains, Calm, Types, callVars
  <2>3. \A n \in Machines \ {a, b} : Silent(n)'
    BY <2>1, SameSilent DEF Conversing
  <2> QED
    BY <1>1, <1>5, <2>1, <2>2, <2>3, SameSender, SameReceiver
    DEF Conversing, Moved, callVars
<1>6. ASSUME NEW m \in Machines, WakeUpHandler(m) \/ Deliver(m)
      PROVE  Conversing(a, b)' /\ Moved(a, b)
  <2>1. Fewer /\ MailTypes' /\ UNCHANGED <<callVars, pc, loc>>
    BY <1>1, <1>6, SameMail, DeliverFewer DEF WakeUpHandler, Deliver
  <2> QED
    BY <1>5, <2>1
<1>7. CASE UNCHANGED vars
  <2>1. Fewer /\ MailTypes' /\ UNCHANGED <<callVars, pc, loc>>
    BY <1>1, <1>7, SameMail DEF vars
  <2> QED
    BY <1>5, <2>1
<1> QED
  BY <1>4, <1>6, <1>7 DEF Next, Quiet

LEMMA NoMails ==
  ASSUME M!MailInit, NEW n \in Machines, NEW x \in Boxes
  PROVE  Mails(n, x) = {} /\ \A p, q : ~Ahead(n, x, p, q)
<1>1. DOMAIN transit[n] = {} /\ DOMAIN boxes[n][x] = {}
  BY DEF M!MailInit
<1> QED
  BY <1>1 DEF Mails, Ahead, OnTheWay

LEMMA ConversingInit ==
  ASSUME Init, NEW a \in Machines, NEW b \in Machines, Conversation(script, a, b)
  PROVE  Conversing(a, b) /\ Unsent(a) /\ Untaken(b)
<1>1. Domains
  <2>1. DOMAIN script = Machines
    BY ScriptAssumption DEF Init
  <2>2. \A t \in Threads : DOMAIN loc[t] = LocFields
    BY DEF Init, LocFields, Locals
  <2>3. \A m \in Machines : DOMAIN ret[m] = Names
    BY DEF Init, Names
  <2> QED
    BY <2>1, <2>2, <2>3 DEF Init, Domains
<1>2. MailTypes
  BY DEF Init, M!MailInit, MailTypes
<1>3. MailFits
  BY NoMails DEF Init, MailFits
<1>4. /\ Types
      /\ \A m \in Machines : received[m].pieces = <<>> /\ connectedID[m] = NoMachine
  BY ScriptAssumption, EmptyIs DEF Init, Types
<1>5. /\ \A m \in Machines : Idle(Main(m))
      /\ \A m \in Machines : \A name \in Sending \cup Obtaining : ret[m][name] # "TRUE"
  BY DEF Init, Idle, Main, Threads, Sending, Obtaining
<1>6. Calm
  BY DEF Init, Calm, Threads
<1>7. a # b /\ Unsent(a) /\ Untaken(b)
  BY <1>4, <1>5 DEF Conversation, Unsent, Untaken, Fresh
<1>8. \A m \in Machines \ {a, b} : Silent(m)
  BY <1>4, <1>5 DEF Conversation, Silent
<1> QED
  BY <1>1, <1>2, <1>3, <1>4, <1>5, <1>6, <1>7, <1>8 DEF Conversing

-----------------------------------------------------------------------------
(* PIECES IN ORDER.  What b has is sorted, and so is what is on its way to *)
(* it; and a has not sent more than the piece it is at.                    *)
Sorted(b) ==
    /\ \A i, j \in DOMAIN Got(b) : i < j => Got(b)[i] <= Got(b)[j]
    /\ \A i \in DOMAIN Got(b) : \A q \in Mails(b, "MSG") : Got(b)[i] <= q.piece
    /\ \A p, q \in Mails(b, "MSG") : Ahead(b, "MSG", p, q) => p.piece <= q.piece
Bounded(b, k) ==
    /\ \A i \in DOMAIN Got(b) : Got(b)[i] <= k
    /\ \A q \in Mails(b, "MSG") : q.piece <= k
Ordered(a, b) ==
    /\ Sorted(b)
    /\ \/ Unsent(a) /\ Bounded(b, 0)
       \/ Sending_(a) /\ Bounded(b, stage[Main(a)])
       \/ Sent(a)

LEMMA GotIs ==
  ASSUME Types, NEW b \in Machines
  PROVE  /\ Untaken(b) \/ Taken(b) => Got(b) = received[b].pieces
         /\ Taking(b) => /\ loc[Main(b)].piece \in 0 .. nbPieces
                         /\ loc[Main(b)].piece = 0 => Got(b) = received[b].pieces
                         /\ loc[Main(b)].piece > 0 =>
                               Got(b) = AppendPiece(received[b], loc[Main(b)].piece).pieces
         /\ Untaken(b) \/ Taking(b) \/ Taken(b) => Got(b) \in Seq(1 .. nbPieces)
<1>1. Untaken(b) \/ Taken(b) => call[Main(b)] \notin Obtaining
  BY DEF Untaken, Taken, Fresh, Idle, Connects, Obtaining, Connecting
<1>2. Taking(b) => call[Main(b)] \in Obtaining /\ loc[Main(b)].piece \in 0 .. nbPieces
  BY EmptyIs DEF Taking, Fetches
<1>3. received[b] \in [pieces : Seq(1 .. nbPieces), room : NullFile .. nbPieces]
  BY DEF Types
<1>4. Untaken(b) \/ Taken(b) => Got(b) = received[b].pieces
  BY <1>1 DEF Got, Receiving, Obtaining
<1>5. ASSUME Taking(b)
      PROVE  /\ loc[Main(b)].piece = 0 => Got(b) = received[b].pieces
             /\ loc[Main(b)].piece > 0 =>
                   Got(b) = AppendPiece(received[b], loc[Main(b)].piece).pieces
  BY <1>2, <1>5 DEF Got, Receiving, Obtaining
<1>6. ASSUME Taking(b) PROVE Got(b) \in Seq(1 .. nbPieces)
  <2>1. CASE loc[Main(b)].piece = 0
    BY <1>3, <1>5, <1>6, <2>1
  <2>2. CASE loc[Main(b)].piece > 0
    <3>1. loc[Main(b)].piece \in 1 .. nbPieces
      BY <1>2, <1>6, <2>2
    <3> QED
      BY <1>3, <1>5, <1>6, <2>2, <3>1, AppendPieceIs
  <2> QED
    BY <1>2, <1>6, <2>1, <2>2
<1> QED
  BY <1>2, <1>3, <1>4, <1>5, <1>6

(* The same of the next state.                                             *)
LEMMA GotIsNext ==
  ASSUME Types', NEW b \in Machines
  PROVE  /\ Untaken(b)' \/ Taken(b)' => Got(b)' = received'[b].pieces
         /\ Taking(b)' => /\ loc'[Main(b)].piece \in 0 .. nbPieces
                          /\ loc'[Main(b)].piece = 0 => Got(b)' = received'[b].pieces
                          /\ loc'[Main(b)].piece > 0 =>
                                Got(b)' = AppendPiece(received'[b], loc'[Main(b)].piece).pieces
<1>1. Untaken(b)' \/ Taken(b)' => call'[Main(b)] \notin Obtaining
  BY DEF Untaken, Taken, Fresh, Idle, Connects, Obtaining, Connecting
<1>2. Taking(b)' => call'[Main(b)] \in Obtaining /\ loc'[Main(b)].piece \in 0 .. nbPieces
  BY EmptyIs DEF Taking, Fetches
<1>3. Untaken(b)' \/ Taken(b)' => Got(b)' = received'[b].pieces
  BY <1>1 DEF Got, Receiving, Obtaining
<1>4. ASSUME Taking(b)'
      PROVE  /\ loc'[Main(b)].piece = 0 => Got(b)' = received'[b].pieces
             /\ loc'[Main(b)].piece > 0 =>
                   Got(b)' = AppendPiece(received'[b], loc'[Main(b)].piece).pieces
  BY <1>2, <1>4 DEF Got, Receiving, Obtaining
<1> QED
  BY <1>2, <1>3, <1>4

(* What a step does to what b has.                                         *)
Steady(b) == Got(b)' = Got(b) /\ received'[b].room = received[b].room
Restarts(b) == Got(b) = <<>> /\ Got(b)' = <<>>
Picks(b, h) ==
    /\ Taking(b) /\ Taking(b)' /\ Got(b) = received[b].pieces
    /\ received'[b] = received[b]
    /\ h \in Message /\ Took1(b, loc[Main(b)].box, h)
    /\ ~HasTaken(Main(b)) /\ HasTaken(Main(b))'
    /\ call'[Main(b)] = call[Main(b)] /\ stage'[Main(b)] = stage[Main(b)]
    /\ loc'[Main(b)].piece = h.piece /\ loc'[Main(b)].out.token = Answered(h.piece)
    /\ loc[Main(b)].box = SendBox(call[Main(b)], stage[Main(b)])
    /\ h.piece = 0 <=> stage[Main(b)] = 0
    /\ h.piece = 0 => Got(b)' = Got(b)
    /\ h.piece > 0 => Got(b)' = AppendPiece(received[b], h.piece).pieces

LEMMA ViewGot ==
  ASSUME NEW b, SameView(b)
  PROVE  Steady(b)
BY DEF SameView, SameThread, SameMachine, Steady, Got, Receiving

LEMMA KeepsGot ==
  ASSUME Types, NEW b \in Machines, DOMAIN received = Machines, Keeps(b), Taking(b)
  PROVE  received'[b].pieces = Got(b) /\ received'[b].room = received[b].room
<1> DEFINE t == Main(b)
<1>1. /\ loc[t].piece \in 1 .. nbPieces
      /\ received'[b] = AppendPiece(received[b], loc[t].piece)
  BY DEF Keeps
<1>2. Got(b) = AppendPiece(received[b], loc[t].piece).pieces
  BY <1>1, GotIs, EmptyIs
<1>3. received[b] \in [pieces : Seq(1 .. nbPieces), room : NullFile .. nbPieces]
  BY DEF Types
<1> QED
  BY <1>1, <1>2, <1>3, AppendPieceIs

LEMMA PicksOne ==
  ASSUME Types, Types', NEW b \in Machines, Taking(b), Taking(b)', NEW h \in Message,
         UNCHANGED received, call'[Main(b)] = call[Main(b)], stage'[Main(b)] = stage[Main(b)],
         Took1(b, loc[Main(b)].box, h),
         ~HasTaken(Main(b)), HasTaken(Main(b))', loc[Main(b)].piece = 0,
         loc'[Main(b)].piece = h.piece, loc'[Main(b)].out.token = h.token + 1
  PROVE  Picks(b, h)
<1> DEFINE t == Main(b)
<1>1. Got(b) = received[b].pieces
  BY GotIs
<1>2. /\ h.piece \in 0 .. nbPieces /\ nbPieces \in Nat
  BY EmptyIs DEF Message
<1>3. /\ h.piece = 0 => Got(b)' = received'[b].pieces
      /\ h.piece > 0 => Got(b)' = AppendPiece(received'[b], h.piece).pieces
  BY GotIs, GotIsNext DEF AppendPiece
<1>4. (h.piece = 0 <=> stage[t] = 0) /\ loc'[t].out.token = Answered(h.piece)
  <2>1. Fetches(t)' /\ HasTaken(t)'
    BY DEF Taking
  <2>2. pc'[t] \notin ReceivePlaces
    BY <2>1 DEF HasTaken, ReceivePlaces, AnswerPlaces
  <2> QED
    BY <2>1, <2>2 DEF Fetches
<1>5. loc[t].box = SendBox(call[t], stage[t])
  BY DEF Taking, Fetches
<1> QED
  BY <1>1, <1>3, <1>4, <1>5 DEF Picks

LEMMA ReceiverGot ==
  ASSUME Types, Types', NEW b \in Machines, DOMAIN received = Machines, ReceiverSteps(b)
  PROVE  \/ Steady(b) /\ (\/ Fewer
                          \/ Untaken(b) /\ Hello
                          \/ Taking(b) /\ HasTaken(Main(b)) /\ More(loc[Main(b)].out))
         \/ Restarts(b) /\ Fewer
         \/ \E h : Picks(b, h)
<1> DEFINE t == Main(b)
<1>1. CASE Untaken(b) /\ Untaken(b)' /\ Hello /\ received' = received
  BY <1>1, GotIs, GotIsNext DEF Steady
<1>2. CASE /\ Untaken(b) /\ Taking(b)' /\ Fewer
           /\ stage'[t] = 0 /\ ~HasTaken(t)' /\ loc'[t].piece = 0
  <2>1. Got(b) = <<>>
    BY <1>2, GotIs DEF Untaken
  <2>2. Got(b)' = <<>>
    BY <1>2, GotIs, GotIsNext DEF Taking
  <2> QED
    BY <1>2, <2>1, <2>2 DEF Restarts
<1>3. CASE Taking(b) /\ Taking(b)' /\ ListensOn(b)
  <2>1. received' = received /\ call'[t] = call[t] /\ stage'[t] = stage[t]
    BY <1>3 DEF ListensOn
  <2>2. CASE /\ (HasTaken(t)' <=> HasTaken(t)) /\ loc'[t].piece = loc[t].piece /\ loc'[t].out = loc[t].out
             /\ Fewer \/ (HasTaken(t) /\ More(loc[t].out))
    <3>1. Got(b)' = Got(b)
      BY <1>3, <2>1, <2>2 DEF Got, Receiving
    <3> QED
      BY <1>3, <2>1, <2>2, <3>1 DEF Steady
  <2>3. ASSUME NEW h \in Message,
               /\ Took1(b, loc[t].box, h)
               /\ ~HasTaken(t) /\ HasTaken(t)' /\ loc[t].piece = 0
               /\ loc'[t].piece = h.piece /\ loc'[t].out.token = h.token + 1
        PROVE  Picks(b, h)
    BY <1>3, <2>1, <2>3, PicksOne
  <2> QED
    BY <1>3, <2>2, <2>3 DEF ListensOn
<1>4. ASSUME Keeps(b), Taking(b) PROVE received'[b].pieces = Got(b) /\ received'[b].room = received[b].room
  BY <1>4, KeepsGot
<1>5. CASE Taking(b) /\ Taking(b)' /\ FetchesNext(b)
  <2>1. Fewer /\ loc'[t].piece = 0
    BY <1>5 DEF FetchesNext
  <2>2. Got(b)' = received'[b].pieces
    BY <1>5, <2>1, GotIs, GotIsNext
  <2>3. CASE stage[t] = 0
    <3>1. /\ loc[t].piece = 0 /\ received[b].pieces = <<>>
          /\ \/ received' = received
             \/ \E file \in FileMade : received' = [received EXCEPT ![b] = file]
      BY <1>5, <2>3 DEF FetchesNext, Taking
    <3>2. Got(b) = <<>>
      BY <1>5, <3>1, GotIs
    <3>3. received'[b].pieces = <<>>
      BY <3>1, EmptyIs
    <3> QED
      BY <2>1, <2>2, <3>2, <3>3 DEF Restarts
  <2>4. CASE stage[t] # 0
    BY <1>4, <1>5, <2>1, <2>2, <2>4 DEF FetchesNext, Steady
  <2> QED
    BY <2>3, <2>4
<1>6. CASE Taking(b) /\ Taken(b)' /\ HasFetched(b)
  <2>1. Fewer /\ Keeps(b)
    BY <1>6 DEF HasFetched
  <2>2. Got(b)' = received'[b].pieces
    BY <1>6, GotIs, GotIsNext
  <2> QED
    BY <1>4, <1>6, <2>1, <2>2 DEF Steady
<1>7. CASE Taken(b) /\ Taken(b)' /\ Fewer /\ received' = received
  BY <1>7, GotIs, GotIsNext DEF Steady
<1> QED
  BY <1>1, <1>2, <1>3, <1>5, <1>6, <1>7 DEF ReceiverSteps

(* The pieces on their way to b become fewer.                              *)
Dwindles(b) ==
    /\ \A p \in Mails(b, "MSG")' : p \in Mails(b, "MSG")
    /\ \A p, q : Ahead(b, "MSG", p, q)' => Ahead(b, "MSG", p, q)

LEMMA FewerDwindles ==
  ASSUME NEW b \in Machines, Fewer
  PROVE  Dwindles(b)
BY DEF Fewer, Dwindles, Boxes

LEMMA MoreDwindles ==
  ASSUME NEW b \in Machines, NEW msg, More(msg), msg.to # b \/ msg.box # "MSG"
  PROVE  Dwindles(b)
BY DEF More, Dwindles, Boxes

LEMMA HelloDwindles ==
  ASSUME NEW b \in Machines, Hello
  PROVE  Dwindles(b)
<1>1. ASSUME NEW msg, Greeting(msg), More(msg) PROVE Dwindles(b)
  BY <1>1, MoreDwindles DEF Greeting
<1> QED
  BY <1>1, FewerDwindles DEF Hello

LEMMA SortedDwindles ==
  ASSUME NEW b, Dwindles(b), Got(b)' = Got(b) \/ Got(b)' = <<>>
  PROVE  /\ Sorted(b) => Sorted(b)'
         /\ \A k : Bounded(b, k) => Bounded(b, k)'
<1>1. CASE Got(b)' = Got(b)
  BY <1>1 DEF Dwindles, Sorted, Bounded
<1>2. CASE Got(b)' = <<>>
  <2>1. PICK g : g = Got(b)'
    OBVIOUS
  <2>2. DOMAIN g = {}
    BY <1>2, <2>1
  <2> QED
    BY <2>1, <2>2 DEF Dwindles, Sorted, Bounded
<1> QED
  BY <1>1, <1>2

(* a sends one.                                                            *)
LEMMA SortedMore ==
  ASSUME NEW b \in Machines, NEW msg \in Message, More(msg), Got(b)' = Got(b),
         Sorted(b), Bounded(b, msg.piece)
  PROVE  Sorted(b)' /\ Bounded(b, msg.piece)'
<1>1. /\ \A p \in Mails(b, "MSG")' : p \in Mails(b, "MSG") \/ p = msg
      /\ \A p, q : Ahead(b, "MSG", p, q)' =>
            Ahead(b, "MSG", p, q) \/ (q = msg /\ p \in Mails(b, "MSG"))
  BY DEF More, Boxes
<1>2. msg.piece \in Int
  BY DEF Message
<1>3. Bounded(b, msg.piece)'
  BY <1>1, <1>2 DEF Bounded
<1>4. \A i \in DOMAIN Got(b) : \A q \in Mails(b, "MSG")' : Got(b)[i] <= q.piece
  BY <1>1 DEF Sorted, Bounded
<1>5. ASSUME NEW p \in Mails(b, "MSG")', NEW q \in Mails(b, "MSG")', Ahead(b, "MSG", p, q)'
      PROVE  p.piece <= q.piece
  <2>1. CASE Ahead(b, "MSG", p, q)
    <3>1. p \in Mails(b, "MSG") /\ q \in Mails(b, "MSG")
      BY <2>1 DEF Ahead, Mails
    <3> QED
      BY <2>1, <3>1 DEF Sorted
  <2>2. CASE q = msg /\ p \in Mails(b, "MSG")
    BY <2>2 DEF Bounded
  <2> QED
    BY <1>1, <1>5, <2>1, <2>2
<1> QED
  BY <1>3, <1>4, <1>5 DEF Sorted

(* b takes one.                                                            *)
LEMMA SortedPicks ==
  ASSUME NEW b \in Machines, Types, Types', MailFits, NEW h, Picks(b, h), Sorted(b)
  PROVE  /\ Sorted(b)'
         /\ \A k : Bounded(b, k) => Bounded(b, k)'
<1> DEFINE t == Main(b)
<1>1. /\ stage[t] \in Nat /\ received[b] \in [pieces : Seq(1 .. nbPieces), room : NullFile .. nbPieces]
      /\ Fewer /\ h \in Message /\ h.piece \in Nat /\ nbPieces \in Nat /\ h.piece \in 0 .. nbPieces
  <2>1. nbPieces \in Nat
    BY EmptyIs
  <2>2. h \in Message /\ Fewer /\ Fetches(t)
    BY DEF Picks, Took1, Taking
  <2>3. h.piece \in 0 .. nbPieces /\ stage[t] \in 0 .. nbPieces
    BY <2>2 DEF Message, Fetches
  <2> QED
    BY <2>1, <2>2, <2>3 DEF Types
<1>2. CASE Got(b)' = Got(b)
  BY <1>1, <1>2, FewerDwindles, SortedDwindles
<1>3. CASE Got(b)' # Got(b)
  <2>1. h.piece > 0 /\ Got(b)' = AppendPiece(received[b], h.piece).pieces /\ Got(b) = received[b].pieces
    BY <1>1, <1>3 DEF Picks
  <2>2. loc[t].box = "MSG"
    BY <1>1, <2>1 DEF Picks, SendBox
  <2>3. Took1(b, "MSG", h)
    BY <2>2 DEF Picks
  <2>4. PICK g : g = Got(b)
    OBVIOUS
  <2>5. PICK n : n = Got(b)'
    OBVIOUS
  <2>6. n = Append(g, h.piece) /\ g \in Seq(1 .. nbPieces)
    <3>1. h.piece \in 1 .. nbPieces
      BY <1>1, <2>1
    <3>2. \/ AppendPiece(received[b], h.piece).pieces = Append(received[b].pieces, h.piece)
          \/ AppendPiece(received[b], h.piece).pieces = received[b].pieces
      BY <1>1, <3>1, AppendPieceIs
    <3> QED
      BY <1>1, <1>3, <2>1, <2>4, <2>5, <3>2
  <2>7. /\ DOMAIN n = DOMAIN g \cup {Len(g) + 1} /\ n[Len(g) + 1] = h.piece /\ Len(g) \in Nat
        /\ \A i \in DOMAIN g : n[i] = g[i] /\ i \in Nat /\ i <= Len(g) /\ g[i] \in Nat
    BY <1>1, <2>6
  <2>8. /\ h \in Mails(b, "MSG")
        /\ \A q \in Mails(b, "MSG")' : q \in Mails(b, "MSG") /\ Ahead(b, "MSG", h, q)
        /\ \A p, q : Ahead(b, "MSG", p, q)' => Ahead(b, "MSG", p, q)
    BY <2>3 DEF Took1, Fewer, Boxes
  <2>9. /\ \A i \in DOMAIN g : g[i] <= h.piece
        /\ \A q \in Mails(b, "MSG")' : h.piece <= q.piece
    BY <2>4, <2>8 DEF Sorted
  <2>10. \A i, j \in DOMAIN n : i < j => n[i] <= n[j]
    <3>1. SUFFICES ASSUME NEW i \in DOMAIN n, NEW j \in DOMAIN n, i < j PROVE n[i] <= n[j]
      OBVIOUS
    <3>2. i \in DOMAIN g /\ n[i] = g[i]
      BY <2>7, <3>1
    <3>3. CASE j \in DOMAIN g
      BY <2>4, <2>7, <3>1, <3>2, <3>3 DEF Sorted
    <3>4. CASE j = Len(g) + 1
      BY <2>7, <2>9, <3>2, <3>4
    <3> QED
      BY <2>7, <3>3, <3>4
  <2>11. \A i \in DOMAIN n : \A q \in Mails(b, "MSG")' : n[i] <= q.piece
    BY <2>4, <2>7, <2>8, <2>9 DEF Sorted
  <2>12. \A p, q \in Mails(b, "MSG")' : Ahead(b, "MSG", p, q)' => p.piece <= q.piece
    BY <2>8 DEF Sorted
  <2>13. Sorted(b)'
    BY <2>5, <2>10, <2>11, <2>12 DEF Sorted
  <2>14. ASSUME NEW k, Bounded(b, k) PROVE Bounded(b, k)'
    <3>1. \A i \in DOMAIN n : n[i] <= k
      BY <2>4, <2>7, <2>8, <2>14 DEF Bounded
    <3> QED
      BY <2>5, <2>8, <2>14, <3>1 DEF Bounded
  <2> QED
    BY <2>13, <2>14
<1> QED
  BY <1>2, <1>3

LEMMA OrderedStep ==
  ASSUME NEW a, NEW b, Conversing(a, b), Conversing(a, b)', Moved(a, b), Ordered(a, b)
  PROVE  Ordered(a, b)'
<1>1. /\ a \in Machines /\ b \in Machines /\ Types /\ Types' /\ MailFits /\ Domains
  BY DEF Conversing
<1>2. ASSUME SameView(a), Sorted(b)', \A k : Bounded(b, k) => Bounded(b, k)'
      PROVE  Ordered(a, b)'
  BY <1>2, SameSender DEF Ordered, SameView, SameThread
<1>3. CASE SameView(a) /\ SameView(b) /\ Fewer
  BY <1>1, <1>2, <1>3, ViewGot, FewerDwindles, SortedDwindles DEF Ordered, Steady
<1>4. CASE SameView(a) /\ ReceiverSteps(b)
  <2>1. CASE Steady(b) /\ (\/ Fewer
                           \/ Untaken(b) /\ Hello
                           \/ Taking(b) /\ HasTaken(Main(b)) /\ More(loc[Main(b)].out))
    <3>1. Dwindles(b)
      BY <1>1, <2>1, FewerDwindles, HelloDwindles, MoreDwindles DEF Taking, Fetches
    <3> QED
      BY <1>2, <1>4, <2>1, <3>1, SortedDwindles DEF Ordered, Steady
  <2>2. CASE Restarts(b) /\ Fewer
    BY <1>1, <1>2, <1>4, <2>2, FewerDwindles, SortedDwindles DEF Ordered, Restarts
  <2>3. ASSUME NEW h, Picks(b, h) PROVE Ordered(a, b)'
    BY <1>1, <1>2, <1>4, <2>3, SortedPicks DEF Ordered
  <2> QED
    BY <1>1, <1>4, <2>1, <2>2, <2>3, ReceiverGot DEF Domains
<1>5. CASE SameView(b) /\ SenderSteps(a)
  <2>1. Got(b)' = Got(b)
    BY <1>5, ViewGot DEF Steady
  <2>2. ASSUME Dwindles(b) PROVE Sorted(b)' /\ \A k : Bounded(b, k) => Bounded(b, k)'
    BY <2>1, <2>2, SortedDwindles DEF Ordered
  <2>3. CASE Unsent(a) /\ ~Sent(a) /\ Unsent(a)' /\ Hello
    <3>1. Bounded(b, 0)
      BY <2>3 DEF Ordered, Sending_, Unsent, Fresh, Transmits, Idle, Connects, Sending, Connecting
    <3> QED
      BY <1>1, <2>2, <2>3, <3>1, HelloDwindles DEF Ordered
  <2>4. CASE /\ Unsent(a) /\ ~Sent(a) /\ Sending_(a)' /\ Fewer
             /\ stage'[Main(a)] = 0 /\ loc'[Main(a)].got = 0
    <3>1. Bounded(b, 0)
      BY <2>4 DEF Ordered, Sending_, Unsent, Fresh, Transmits, Idle, Connects, Sending, Connecting
    <3> QED
      BY <1>1, <2>2, <2>4, <3>1, FewerDwindles DEF Ordered
  <2>5. ASSUME Sending_(a) PROVE Bounded(b, stage[Main(a)]) /\ stage[Main(a)] \in 0 .. nbPieces
    BY <2>5 DEF Ordered, Sending_, Unsent, Sent, Fresh, Transmits, Idle, Connects, Sending, Connecting
  <2>6. CASE Sending_(a) /\ Sending_(a)' /\ SendsOn(a)
    <3>1. stage'[Main(a)] = stage[Main(a)]
      BY <2>6 DEF SendsOn
    <3>2. CASE More(loc[Main(a)].out)
      <4>1. loc[Main(a)].out \in Message /\ loc[Main(a)].out.piece = stage[Main(a)]
        BY <1>1, <2>6, OutFits DEF Sending_, Connected
      <4> QED
        BY <1>1, <2>1, <2>5, <2>6, <3>1, <3>2, <4>1, SortedMore DEF Ordered
    <3>3. CASE Fewer
      BY <1>1, <2>2, <2>5, <2>6, <3>1, <3>3, FewerDwindles DEF Ordered
    <3> QED
      BY <2>6, <3>2, <3>3 DEF SendsOn, Took1
  <2>7. CASE Sending_(a) /\ Sending_(a)' /\ GoesOn(a)
    <3>1. stage'[Main(a)] = stage[Main(a)] + 1 /\ Fewer
      BY <2>7 DEF GoesOn
    <3>2. PICK k : k = stage[Main(a)]
      OBVIOUS
    <3>3. Sorted(b)' /\ Bounded(b, k)'
      BY <1>1, <2>2, <2>5, <2>7, <3>1, <3>2, FewerDwindles
    <3>4. PICK g : g = Got(b)'
      OBVIOUS
    <3>5. g \in Seq(1 .. nbPieces)
      <4>1. Got(b) \in Seq(1 .. nbPieces)
        BY <1>1, GotIs DEF Conversing
      <4> QED
        BY <2>1, <3>4, <4>1
    <3>6. \A q \in Mails(b, "MSG")' : q.piece \in Int
      <4>1. MailFits'
        BY DEF Conversing
      <4> QED
        BY <1>1, <4>1 DEF MailFits, Fits, Boxes, Message
    <3>7. k \in Int /\ nbPieces \in Int
      BY <2>5, <2>7, <3>2, EmptyIs
    <3>8. Bounded(b, k + 1)'
      <4>1. \A i \in DOMAIN g : g[i] \in Int
        BY <3>5, <3>7
      <4>2. \A i \in DOMAIN g : g[i] <= k + 1
        BY <3>3, <3>4, <3>7, <4>1 DEF Bounded
      <4>3. \A q \in Mails(b, "MSG")' : q.piece <= k + 1
        BY <3>3, <3>6, <3>7 DEF Bounded
      <4> QED
        BY <3>4, <4>2, <4>3 DEF Bounded
    <3> QED
      BY <2>7, <3>1, <3>2, <3>3, <3>8 DEF Ordered
  <2>8. CASE Sending_(a) /\ Sent(a)' /\ Finishes(a)
    BY <1>1, <2>2, <2>8, FewerDwindles DEF Finishes, Ordered
  <2>9. CASE Sent(a) /\ Sent(a)' /\ Fewer
    BY <1>1, <2>2, <2>9, FewerDwindles DEF Ordered
  <2> QED
    BY <1>5, <2>3, <2>4, <2>6, <2>7, <2>8, <2>9 DEF SenderSteps
<1> QED
  BY <1>3, <1>4, <1>5 DEF Moved

LEMMA OrderedInOrder ==
  ASSUME NEW a, NEW b, Conversing(a, b), Ordered(a, b)
  PROVE  PiecesInOrder
<1>1. ASSUME NEW m \in Machines, m # b PROVE Got(m) = <<>>
  <2>1. received[m].pieces = <<>>
    BY <1>1 DEF Conversing, Silent
  <2>2. call[Main(m)] \notin Obtaining
    BY <1>1
    DEF Conversing, Silent, Idle, Unsent, Sending_, Sent, Fresh, Transmits, Connects, Sending,
        Connecting, Obtaining
  <2> QED
    BY <2>1, <2>2 DEF Got, Receiving, Obtaining
<1>2. ASSUME NEW m \in Machines PROVE \A i, j \in DOMAIN Got(m) : i < j => Got(m)[i] <= Got(m)[j]
  <2>1. CASE m = b
    BY <2>1 DEF Ordered, Sorted
  <2>2. CASE m # b
    BY <1>1, <2>2
  <2> QED
    BY <2>1, <2>2
<1> QED
  BY <1>2 DEF PiecesInOrder

(* What a machine has received, of the one string or file that is sent to  *)
(* it once it is connected, is in the order in which it was cut, whatever  *)
(* is lost, repeated or answered too late: pieces may be there twice or be *)
(* left out, also when they begin alike.                                   *)
THEOREM InOrder ==
  ASSUME \A s \in Scripts : \E a, b \in Machines : Conversation(s, a, b)
  PROVE  Spec => []PiecesInOrder
<1> DEFINE Inv == \E a, b \in Machines : Conversing(a, b) /\ Ordered(a, b)
<1>1. Init => Inv
  <2> SUFFICES ASSUME Init PROVE Inv
    OBVIOUS
  <2>1. PICK a \in Machines, b \in Machines : Conversation(script, a, b)
    BY DEF Init
  <2>2. Conversing(a, b) /\ Unsent(a) /\ Untaken(b)
    BY <2>1, ConversingInit
  <2>3. Mails(b, "MSG") = {} /\ Got(b) = <<>>
    BY <2>2, NoMails, GotIs DEF Init, Boxes, Conversing, Untaken
  <2>4. Ordered(a, b)
    BY <2>2, <2>3 DEF Ordered, Sorted, Bounded
  <2> QED
    BY <2>2, <2>4
<1>2. Inv /\ [Next]_vars => Inv'
  <2> SUFFICES ASSUME Inv, [Next]_vars PROVE Inv'
    OBVIOUS
  <2>1. PICK a \in Machines, b \in Machines : Conversing(a, b) /\ Ordered(a, b)
    OBVIOUS
  <2>2. Conversing(a, b)' /\ Moved(a, b)
    BY <2>1, ConversingStep
  <2>3. Ordered(a, b)'
    BY <2>1, <2>2, OrderedStep
  <2> QED
    BY <2>2, <2>3
<1>3. Inv => PiecesInOrder
  BY OrderedInOrder
<1> QED
  BY <1>1, <1>2, <1>3, PTL DEF Spec

-----------------------------------------------------------------------------
(* WHAT IS REPORTED HAS ARRIVED.  The number of messages that b has taken; *)
(* whether it is answering one; and whether the pieces among them are the  *)
(* first ones, each once.                                                  *)
Took(b) ==
    IF call[Main(b)] \in Obtaining
    THEN IF HasTaken(Main(b)) THEN stage[Main(b)] + 1 ELSE stage[Main(b)]
    ELSE IF \E name \in Obtaining : ret[b][name] = "TRUE" THEN nbPieces + 1 ELSE 0
Answering(b) == call[Main(b)] \in Obtaining /\ HasTaken(Main(b))
Whole(b) ==
    Took(b) > 0 /\ received[b].room # NullFile =>
        /\ Len(Got(b)) = (IF Took(b) - 1 < received[b].room THEN Took(b) - 1 ELSE received[b].room)
        /\ \A i \in DOMAIN Got(b) : Got(b)[i] = i

(* What a step does to them.                                               *)
Rests(b) ==
    /\ Took(b)' = Took(b) /\ (Whole(b) => Whole(b)')
    /\ Answering(b)' => /\ Answering(b) /\ loc'[Main(b)].piece = loc[Main(b)].piece
                        /\ loc'[Main(b)].out = loc[Main(b)].out
Takes(b, h) ==
    /\ Answering(b)' /\ Took(b)' = Took(b) + 1
    /\ h.piece \in 0 .. nbPieces
    /\ loc'[Main(b)].piece = h.piece /\ loc'[Main(b)].out.token = Answered(h.piece)
    /\ Took(b) = 0 => h.piece = 0 /\ \E x \in {"STRING_INFO", "FILE_INFO"} : Took1(b, x, h)
    /\ Took(b) > 0 => h.piece > 0 /\ Took1(b, "MSG", h)
    /\ Took(b) = 0 \/ (Whole(b) /\ h.piece = Took(b)) => Whole(b)'

LEMMA TookIs ==
  ASSUME NEW b
  PROVE  /\ Untaken(b) => Took(b) = 0 /\ ~Answering(b)
         /\ Taken(b) => Took(b) = nbPieces + 1 /\ ~Answering(b)
         /\ Taking(b) =>
               /\ Took(b) = (IF HasTaken(Main(b)) THEN stage[Main(b)] + 1 ELSE stage[Main(b)])
               /\ Took(b) \in 0 .. nbPieces + 1 /\ stage[Main(b)] \in Nat
               /\ Answering(b) <=> HasTaken(Main(b))
               /\ Answering(b) => /\ Took(b) > 0 /\ loc[Main(b)].piece \in 0 .. nbPieces
                                  /\ loc[Main(b)].out.token = Answered(loc[Main(b)].piece)
                                  /\ loc[Main(b)].out \in Message /\ loc[Main(b)].out.box = "ACK"
<1>1. Untaken(b) => call[Main(b)] \notin Obtaining /\ \A name \in Obtaining : ret[b][name] # "TRUE"
  BY DEF Untaken, Fresh, Idle, Connects, Obtaining, Connecting
<1>2. Taken(b) => call[Main(b)] \notin Obtaining /\ \E name \in Obtaining : ret[b][name] = "TRUE"
  BY DEF Taken, Idle, Obtaining
<1>3. Untaken(b) => Took(b) = 0 /\ ~Answering(b)
  BY <1>1 DEF Took, Answering
<1>4. Taken(b) => Took(b) = nbPieces + 1 /\ ~Answering(b)
  BY <1>2 DEF Took, Answering
<1>5. ASSUME Taking(b)
      PROVE  /\ Took(b) = (IF HasTaken(Main(b)) THEN stage[Main(b)] + 1 ELSE stage[Main(b)])
             /\ Answering(b) <=> HasTaken(Main(b))
             /\ stage[Main(b)] \in 0 .. nbPieces /\ nbPieces \in Nat
  BY <1>5, EmptyIs DEF Taking, Fetches, Took, Answering
<1>6. ASSUME Taking(b), HasTaken(Main(b))
      PROVE  /\ loc[Main(b)].piece \in 0 .. nbPieces
             /\ loc[Main(b)].out.token = Answered(loc[Main(b)].piece)
             /\ loc[Main(b)].out \in Message /\ loc[Main(b)].out.box = "ACK"
  BY <1>6 DEF Taking, Fetches, HasTaken, ReceivePlaces, AnswerPlaces
<1> QED
  BY <1>3, <1>4, <1>5, <1>6

(* The same of the next state.                                             *)
LEMMA TookIsNext ==
  ASSUME NEW b
  PROVE  /\ Untaken(b)' => Took(b)' = 0 /\ ~Answering(b)'
         /\ Taken(b)' => Took(b)' = nbPieces + 1 /\ ~Answering(b)'
         /\ Taking(b)' =>
               /\ Took(b)' = (IF HasTaken(Main(b))' THEN stage'[Main(b)] + 1 ELSE stage'[Main(b)])
               /\ Took(b)' \in 0 .. nbPieces + 1 /\ stage'[Main(b)] \in Nat
               /\ Answering(b)' <=> HasTaken(Main(b))'
<1>1. Untaken(b)' => call'[Main(b)] \notin Obtaining /\ \A name \in Obtaining : ret'[b][name] # "TRUE"
  BY DEF Untaken, Fresh, Idle, Connects, Obtaining, Connecting
<1>2. Taken(b)' => call'[Main(b)] \notin Obtaining /\ \E name \in Obtaining : ret'[b][name] = "TRUE"
  BY DEF Taken, Idle, Obtaining
<1>3. Untaken(b)' => Took(b)' = 0 /\ ~Answering(b)'
  BY <1>1 DEF Took, Answering
<1>4. Taken(b)' => Took(b)' = nbPieces + 1 /\ ~Answering(b)'
  BY <1>2 DEF Took, Answering
<1>5. ASSUME Taking(b)'
      PROVE  /\ Took(b)' = (IF HasTaken(Main(b))' THEN stage'[Main(b)] + 1 ELSE stage'[Main(b)])
             /\ Answering(b)' <=> HasTaken(Main(b))'
             /\ stage'[Main(b)] \in 0 .. nbPieces /\ nbPieces \in Nat
  BY <1>5, EmptyIs DEF Taking, Fetches, Took, Answering
<1> QED
  BY <1>3, <1>4, <1>5

LEMMA WholeSteady ==
  ASSUME NEW b, Steady(b), Took(b)' = Took(b)
  PROVE  Whole(b) => Whole(b)'
BY DEF Steady, Whole

LEMMA WholeRestarts ==
  ASSUME NEW b \in Machines, Types', Took(b)' \in {0, 1}, Got(b)' = <<>>
  PROVE  Whole(b)'
<1>1. received'[b].room \in NullFile .. nbPieces /\ nbPieces \in Nat
  BY EmptyIs DEF Types
<1>2. PICK r : r = received'[b].room
  OBVIOUS
<1>3. PICK g : g = Got(b)'
  OBVIOUS
<1>4. PICK n : n = Took(b)'
  OBVIOUS
<1>5. Len(g) = 0 /\ DOMAIN g = {} /\ n \in {0, 1} /\ r \in NullFile .. nbPieces
  BY <1>1, <1>2, <1>3, <1>4
<1>6. r # NullFile => r >= 0
  BY <1>1, <1>5 DEF NullFile
<1>7. n > 0 /\ r # NullFile => Len(g) = (IF n - 1 < r THEN n - 1 ELSE r)
  BY <1>1, <1>5, <1>6
<1> QED
  BY <1>2, <1>3, <1>4, <1>5, <1>7 DEF Whole

LEMMA WholeTakes ==
  ASSUME Types, Types', NEW b \in Machines, NEW h, Picks(b, h), Took(b)' = Took(b) + 1,
         Took(b) \in Nat \ {0}, Whole(b), h.piece = Took(b)
  PROVE  Whole(b)'
<1>1. PICK r : r = received[b].room
  OBVIOUS
<1>2. PICK g : g = Got(b)
  OBVIOUS
<1>3. PICK n : n = Got(b)'
  OBVIOUS
<1>4. PICK k : k = Took(b)
  OBVIOUS
<1>5. /\ received[b] \in [pieces : Seq(1 .. nbPieces), room : NullFile .. nbPieces]
      /\ received'[b].room = r /\ nbPieces \in Nat /\ r \in NullFile .. nbPieces
      /\ g = received[b].pieces /\ n = AppendPiece(received[b], k).pieces
      /\ k \in 1 .. nbPieces /\ g \in Seq(1 .. nbPieces)
  <2>1. received[b] \in [pieces : Seq(1 .. nbPieces), room : NullFile .. nbPieces]
    BY DEF Types
  <2>2. /\ Got(b) = received[b].pieces /\ received'[b] = received[b]
        /\ h \in Message
        /\ h.piece > 0 => Got(b)' = AppendPiece(received[b], h.piece).pieces
    BY Zenon DEF Picks
  <2>3. nbPieces \in Nat
    BY EmptyIs
  <2>4. h.piece \in 0 .. nbPieces
    BY <2>2 DEF Message
  <2>5. k \in 1 .. nbPieces /\ h.piece = k /\ h.piece > 0
    BY <1>4, <2>3, <2>4
  <2>6. received[b].pieces \in Seq(1 .. nbPieces) /\ received[b].room \in NullFile .. nbPieces
    BY <2>1
  <2>7. r = received[b].room /\ g = received[b].pieces
    BY <1>1, <1>2, <2>2
  <2>8. received'[b].room = r /\ r \in NullFile .. nbPieces /\ g \in Seq(1 .. nbPieces)
    BY <2>2, <2>6, <2>7
  <2>9. n = AppendPiece(received[b], k).pieces
    BY <1>3, <2>2, <2>5
  <2> QED
    BY <2>1, <2>3, <2>5, <2>7, <2>8, <2>9, Zenon
<1>6. CASE r = NullFile
  BY <1>5, <1>6 DEF Whole
<1>7. CASE r # NullFile
  <2>1. /\ Len(g) = (IF k - 1 < r THEN k - 1 ELSE r)
        /\ \A i \in DOMAIN g : g[i] = i
        /\ r \in Int
    BY <1>1, <1>2, <1>4, <1>5, <1>7 DEF Whole, NullFile
  <2>2. CASE k - 1 < r
    <3>1. n = Append(g, k) /\ Len(g) = k - 1
      BY <1>1, <1>5, <2>1, <2>2, AppendPieceIs
    <3>2. Len(n) = k /\ \A i \in DOMAIN n : n[i] = i
      BY <1>5, <2>1, <3>1
    <3>3. Len(n) = (IF k < r THEN k ELSE r)
      BY <1>5, <2>1, <2>2, <3>2
    <3> QED
      BY <1>3, <1>4, <1>5, <3>2, <3>3 DEF Whole
  <2>3. CASE ~(k - 1 < r)
    <3>1. n = g /\ Len(g) = r
      <4>1. Len(g) = r
        BY <2>1, <2>3
      <4>2. ~(Len(received[b].pieces) < received[b].room)
        BY <1>1, <1>5, <2>1, <4>1
      <4> QED
        BY <1>5, <4>1, <4>2, AppendPieceIs
    <3>2. Len(n) = (IF k < r THEN k ELSE r)
      BY <1>5, <2>1, <2>3, <3>1
    <3> QED
      BY <1>3, <1>4, <1>5, <2>1, <3>1, <3>2 DEF Whole
  <2> QED
    BY <2>2, <2>3
<1> QED
  BY <1>6, <1>7

(* What b does to them.                                                    *)
LEMMA ReceiverTook ==
  ASSUME Types, Types', NEW b \in Machines, DOMAIN received = Machines, ReceiverSteps(b)
  PROVE  \/ Rests(b) /\ (Fewer \/ (Answering(b) /\ More(loc[Main(b)].out)))
         \/ Took(b) = 0 /\ Took(b)' = 0 /\ ~Answering(b)' /\ Hello
         \/ \E h : Picks(b, h) /\ Takes(b, h)
<1> DEFINE t == Main(b)
<1>1. /\ Steady(b) /\ Took(b)' = Took(b) => (Whole(b) => Whole(b)')
      /\ Got(b)' = <<>> /\ Took(b)' \in {0, 1} => Whole(b)'
  BY WholeSteady, WholeRestarts
<1>2. CASE Untaken(b) /\ Untaken(b)' /\ Hello /\ received' = received
  BY <1>2, TookIs, TookIsNext
<1>3. CASE /\ Untaken(b) /\ Taking(b)' /\ Fewer
           /\ stage'[t] = 0 /\ ~HasTaken(t)' /\ loc'[t].piece = 0
  <2>1. Took(b) = 0 /\ Took(b)' = 0 /\ ~Answering(b)'
    BY <1>3, TookIs, TookIsNext
  <2> QED
    BY <1>3, <2>1 DEF Hello
<1>4. CASE Taking(b) /\ Taking(b)' /\ ListensOn(b)
  <2>1. received' = received /\ call'[t] = call[t] /\ stage'[t] = stage[t]
    BY <1>4 DEF ListensOn
  <2>2. CASE /\ (HasTaken(t)' <=> HasTaken(t)) /\ loc'[t].piece = loc[t].piece /\ loc'[t].out = loc[t].out
             /\ Fewer \/ (HasTaken(t) /\ More(loc[t].out))
    <3>1. Got(b)' = Got(b)
      BY <1>4, <2>1, <2>2 DEF Got, Receiving
    <3>2. Took(b)' = Took(b) /\ (Answering(b)' <=> Answering(b)) /\ (Answering(b) <=> HasTaken(t))
      BY <1>4, <2>1, <2>2, TookIs, TookIsNext
    <3>3. Whole(b) => Whole(b)'
      BY <1>1, <2>1, <3>1, <3>2 DEF Steady
    <3> QED
      BY <2>2, <3>2, <3>3 DEF Rests
  <2>3. ASSUME NEW h \in Message,
               /\ Took1(b, loc[t].box, h)
               /\ ~HasTaken(t) /\ HasTaken(t)' /\ loc[t].piece = 0
               /\ loc'[t].piece = h.piece /\ loc'[t].out.token = h.token + 1
        PROVE  Picks(b, h) /\ Takes(b, h)
    <3>1. Picks(b, h)
      BY <1>4, <2>1, <2>3, PicksOne
    <3>2. /\ Took(b) = stage[t] /\ Took(b)' = stage[t] + 1 /\ Answering(b)' /\ stage[t] \in Nat
          /\ h.piece \in 0 .. nbPieces /\ nbPieces \in Nat
      BY <1>4, <2>1, <2>3, TookIs, TookIsNext, EmptyIs DEF Message
    <3>3. CASE stage[t] = 0
      <4>1. h.piece = 0 /\ loc[t].box \in {"STRING_INFO", "FILE_INFO"} /\ Got(b)' = <<>>
        BY <1>4, <3>1, <3>3 DEF Picks, SendBox, Taking
      <4>2. Whole(b)'
        BY <1>1, <3>2, <3>3, <4>1
      <4> QED
        BY <2>3, <3>1, <3>2, <3>3, <4>1, <4>2 DEF Takes, Picks
    <3>4. CASE stage[t] # 0
      <4>1. h.piece > 0 /\ loc[t].box = "MSG"
        BY <3>1, <3>2, <3>4 DEF Picks, SendBox
      <4>2. Whole(b) /\ h.piece = Took(b) => Whole(b)'
        BY <3>1, <3>2, <3>4, WholeTakes
      <4> QED
        BY <2>3, <3>1, <3>2, <3>4, <4>1, <4>2 DEF Takes, Picks
    <3> QED
      BY <3>1, <3>3, <3>4
  <2> QED
    BY <1>4, <2>2, <2>3 DEF ListensOn
<1>5. CASE Taking(b) /\ Taking(b)' /\ FetchesNext(b)
  <2>1. /\ HasTaken(t) /\ ~HasTaken(t)' /\ stage'[t] = stage[t] + 1 /\ Fewer /\ loc'[t].piece = 0
    BY <1>5 DEF FetchesNext
  <2>2. /\ Took(b)' = Took(b) /\ Took(b) = stage[t] + 1 /\ stage[t] \in Nat /\ ~Answering(b)'
        /\ Got(b)' = received'[b].pieces
    BY <1>5, <2>1, TookIs, TookIsNext, GotIsNext
  <2>3. CASE stage[t] = 0
    <3>1. /\ received[b].pieces = <<>>
          /\ \/ received' = received
             \/ \E file \in FileMade : received' = [received EXCEPT ![b] = file]
      BY <1>5, <2>3 DEF FetchesNext, Taking
    <3>2. received'[b].pieces = <<>>
      BY <3>1, EmptyIs
    <3> QED
      BY <1>1, <2>1, <2>2, <2>3, <3>2 DEF Rests
  <2>4. CASE stage[t] # 0
    <3>1. Keeps(b)
      BY <1>5, <2>4 DEF FetchesNext
    <3>2. Steady(b)
      BY <1>5, <2>2, <3>1, KeepsGot DEF Steady
    <3> QED
      BY <1>1, <2>1, <2>2, <3>2 DEF Rests
  <2> QED
    BY <2>3, <2>4
<1>6. CASE Taking(b) /\ Taken(b)' /\ HasFetched(b)
  <2>1. HasTaken(t) /\ Fewer /\ Keeps(b) /\ stage[t] = nbPieces
    BY <1>6 DEF HasFetched
  <2>2. Took(b)' = Took(b) /\ ~Answering(b)' /\ Got(b)' = received'[b].pieces
    BY <1>6, <2>1, TookIs, TookIsNext, GotIsNext
  <2>3. Steady(b)
    BY <1>6, <2>1, <2>2, KeepsGot DEF Steady
  <2> QED
    BY <1>1, <2>1, <2>2, <2>3 DEF Rests
<1>7. CASE Taken(b) /\ Taken(b)' /\ Fewer /\ received' = received
  <2>1. Took(b)' = Took(b) /\ ~Answering(b)'
    BY <1>7, TookIs, TookIsNext
  <2>2. Steady(b)
    BY <1>7, GotIs, GotIsNext DEF Steady
  <2> QED
    BY <1>1, <1>7, <2>1, <2>2 DEF Rests
<1> QED
  BY <1>2, <1>3, <1>4, <1>5, <1>6, <1>7 DEF ReceiverSteps

LEMMA ViewRests ==
  ASSUME NEW b, SameView(b)
  PROVE  Rests(b)
<1>1. /\ Took(b)' = Took(b) /\ (Answering(b)' <=> Answering(b))
      /\ loc'[Main(b)] = loc[Main(b)]
  BY DEF SameView, SameThread, SameMachine, Took, Answering, HasTaken
<1>2. Whole(b) => Whole(b)'
  BY <1>1, ViewGot, WholeSteady
<1> QED
  BY <1>1, <1>2 DEF Rests

(* Whether the message a is at, the k-th, seems to be acknowledged; and    *)
(* that acknowledgements come in order: when there are some for it, none   *)
(* for another message comes after them.                                   *)
NoData(b) == \A x \in Data : Mails(b, x) = {}
Acked(a, b, k) ==
    \/ \E p \in Mails(a, "ACK") : p.token = Answered(k)
    \/ loc[Main(a)].got = Answered(k)
    \/ Answering(b) /\ loc[Main(b)].out.token = Answered(k)
AcksInOrder(a, b, k) ==
    LET e == Answered(k) IN
    /\ \A p, q \in Mails(a, "ACK") : Ahead(a, "ACK", p, q) /\ p.token = e => q.token = e
    /\ (\E p \in Mails(a, "ACK") : p.token = e) /\ Answering(b) => loc[Main(b)].out.token = e
    /\ loc[Main(a)].got = e => /\ \A q \in Mails(a, "ACK") : q.token = e
                               /\ Answering(b) => loc[Main(b)].out.token = e

(* b is about to take the k-th message, or has taken it and all before it, *)
(* each once.  Or it has taken one before it twice, and a cannot succeed   *)
(* any more: it would have to be acknowledged more than b has to take.     *)
Before(a, b, k) ==
    /\ Took(b) = k /\ Whole(b) /\ ~Acked(a, b, k)
    /\ Answering(b) => loc[Main(b)].piece = k - 1
After(b, k) ==
    /\ Took(b) = k + 1 /\ Whole(b)
    /\ Answering(b) => loc[Main(b)].piece = k
    /\ \A q \in Mails(b, "MSG") : q.piece = k
Astray(a, b, k) == Took(b) > k /\ (Acked(a, b, k) => Took(b) > k + 1)
Underway(a, b, k) ==
    /\ connectedID[a] = b \/ (Took(b) = 0 /\ NoData(b))
    /\ \A q \in Mails(b, "MSG") : q.piece \in {k - 1, k}
    /\ Answering(b) => loc[Main(b)].piece \in {k - 1, k}
    /\ Acked(a, b, k) => \A q \in Mails(b, "MSG") : q.piece = k
    /\ AcksInOrder(a, b, k)
    /\ Before(a, b, k) \/ After(b, k) \/ Astray(a, b, k)
Reliable(a, b) ==
    \/ /\ Unsent(a) /\ NoData(b) /\ Took(b) = 0
       /\ \A p \in Mails(a, "ACK") : p.token # Answered(0)
    \/ Sending_(a) /\ Underway(a, b, stage[Main(a)])
    \/ /\ Sent(a)
       /\ (\E name \in Sending : ret[a][name] = "TRUE") =>
             connectedID[a] = b /\ Took(b) = nbPieces + 1 /\ Whole(b)

LEMMA AnsweredIs ==
  ASSUME Distinct
  PROVE  /\ \A k \in 0 .. nbPieces : Answered(k) \in Nat \ {0}
         /\ \A k \in 1 .. nbPieces : Answered(k) # Answered(k - 1)
         /\ Answered(0) < 65 /\ nbPieces \in Nat
<1>1. /\ nbPieces \in Nat \ {0} /\ InfoToken \in Nat /\ \A k \in 1 .. nbPieces : Token[k] \in Nat
  BY TokenAssumption DEF nbPieces
<1>2. \A k \in 0 .. nbPieces : Answered(k) \in Nat \ {0}
  BY <1>1 DEF Answered
<1>3. ASSUME NEW k \in 1 .. nbPieces PROVE Answered(k) # Answered(k - 1)
  <2>1. CASE k = 1
    <3>1. Token[1] # InfoToken /\ Token[1] \in Nat
      BY <1>1 DEF Distinct
    <3> QED
      BY <1>1, <2>1, <3>1 DEF Answered
  <2>2. CASE k # 1
    <3>1. PICK j \in 1 .. nbPieces - 1 : j = k - 1
      BY <1>1, <2>2
    <3>2. Token[j] # Token[j + 1] /\ k = j + 1 /\ Token[k] \in Nat /\ Token[j] \in Nat
      BY <1>1, <3>1 DEF Distinct
    <3>3. Answered(k) = Token[k] + 1 /\ Answered(k - 1) = Token[j] + 1
      BY <1>1, <3>1 DEF Answered
    <3> QED
      BY <3>2, <3>3
  <2> QED
    BY <2>1, <2>2
<1> QED
  BY <1>1, <1>2, <1>3 DEF Distinct, Answered

(* Steps that leave the order of the acknowledgements.                     *)
AcksKeep(a, b, k) ==
    /\ Acked(a, b, k)' => Acked(a, b, k)
    /\ AcksInOrder(a, b, k) => AcksInOrder(a, b, k)'
AcksDwindle(a) ==
    /\ \A p \in Mails(a, "ACK")' : p \in Mails(a, "ACK")
    /\ \A p, q : Ahead(a, "ACK", p, q)' => Ahead(a, "ACK", p, q)

LEMMA QuietAcks ==
  ASSUME NEW a, NEW b, NEW k, AcksDwindle(a), Rests(b), loc'[Main(a)].got = loc[Main(a)].got
  PROVE  AcksKeep(a, b, k)
<1>1. Acked(a, b, k)' => Acked(a, b, k)
  BY DEF Acked, AcksDwindle, Rests
<1>2. AcksInOrder(a, b, k) => AcksInOrder(a, b, k)'
  BY DEF AcksInOrder, AcksDwindle, Rests
<1> QED
  BY <1>1, <1>2 DEF AcksKeep

(* b answers.                                                              *)
LEMMA ReplyAcks ==
  ASSUME NEW a \in Machines, NEW b, NEW k, Answering(b), More(loc[Main(b)].out), Rests(b),
         loc'[Main(a)].got = loc[Main(a)].got
  PROVE  AcksKeep(a, b, k)
<1> DEFINE out == loc[Main(b)].out
<1>1. /\ \A p \in Mails(a, "ACK")' : p \in Mails(a, "ACK") \/ p = out
      /\ \A p, q : Ahead(a, "ACK", p, q)' => Ahead(a, "ACK", p, q) \/ (q = out /\ p \in Mails(a, "ACK"))
  BY DEF More, Boxes
<1>2. Acked(a, b, k)' => Acked(a, b, k)
  BY <1>1 DEF Acked, Rests
<1>3. ASSUME AcksInOrder(a, b, k) PROVE AcksInOrder(a, b, k)'
  <2> DEFINE e == Answered(k)
  <2>1. /\ \A p, q \in Mails(a, "ACK") : Ahead(a, "ACK", p, q) /\ p.token = e => q.token = e
        /\ (\E p \in Mails(a, "ACK") : p.token = e) => out.token = e
        /\ loc[Main(a)].got = e => out.token = e /\ \A q \in Mails(a, "ACK") : q.token = e
    BY <1>3 DEF AcksInOrder
  <2>2. ASSUME NEW p \in Mails(a, "ACK")', NEW q \in Mails(a, "ACK")', Ahead(a, "ACK", p, q)', p.token = e
        PROVE  q.token = e
    <3>1. CASE Ahead(a, "ACK", p, q)
      BY <2>1, <2>2, <3>1 DEF Ahead, Mails
    <3>2. CASE q = out /\ p \in Mails(a, "ACK")
      BY <2>1, <2>2, <3>2
    <3> QED
      BY <1>1, <2>2, <3>1, <3>2
  <2>3. (\E p \in Mails(a, "ACK")' : p.token = e) => out.token = e
    BY <1>1, <2>1
  <2>4. loc'[Main(a)].got = e => \A q \in Mails(a, "ACK")' : q.token = e
    BY <1>1, <2>1
  <2> QED
    BY <2>1, <2>2, <2>3, <2>4 DEF AcksInOrder, Rests
<1> QED
  BY <1>2, <1>3 DEF AcksKeep

(* a takes an acknowledgement.                                             *)
LEMMA HearAcks ==
  ASSUME NEW a \in Machines, NEW b, NEW k, NEW h, Took1(a, "ACK", h), Rests(b),
         loc'[Main(a)].got = h.token
  PROVE  AcksKeep(a, b, k)
<1>1. /\ h \in Mails(a, "ACK")
      /\ \A q \in Mails(a, "ACK")' : q \in Mails(a, "ACK") /\ Ahead(a, "ACK", h, q)
      /\ \A p, q : Ahead(a, "ACK", p, q)' => Ahead(a, "ACK", p, q)
  BY DEF Took1, Fewer, Boxes
<1>2. Acked(a, b, k)' => Acked(a, b, k)
  BY <1>1 DEF Acked, Rests
<1>3. ASSUME AcksInOrder(a, b, k) PROVE AcksInOrder(a, b, k)'
  BY <1>1, <1>3 DEF AcksInOrder, Rests
<1> QED
  BY <1>2, <1>3 DEF AcksKeep

(* A step that leaves what b has taken, and sends b the k-th message only. *)
LEMMA UnderwayRests ==
  ASSUME NEW a, NEW b, NEW k \in 0 .. nbPieces, Underway(a, b, k), Rests(b), AcksKeep(a, b, k),
         connectedID'[a] = connectedID[a],
         \A q \in Mails(b, "MSG")' : q \in Mails(b, "MSG") \/ q.piece = k,
         connectedID[a] # b /\ NoData(b) => NoData(b)'
  PROVE  Underway(a, b, k)'
<1>1. /\ Acked(a, b, k)' => Acked(a, b, k)
      /\ AcksInOrder(a, b, k)'
      /\ Took(b)' = Took(b) /\ (Whole(b) => Whole(b)')
      /\ Answering(b)' => Answering(b) /\ loc'[Main(b)].piece = loc[Main(b)].piece
  BY DEF AcksKeep, Rests, Underway
<1>2. Before(a, b, k) => Before(a, b, k)'
  BY <1>1 DEF Before
<1>3. After(b, k) => After(b, k)'
  BY <1>1 DEF After
<1>4. Astray(a, b, k) => Astray(a, b, k)'
  BY <1>1 DEF Astray
<1> QED
  BY <1>1, <1>2, <1>3, <1>4 DEF Underway

LEMMA HelloMails ==
  ASSUME Distinct, NEW n \in Machines, Hello
  PROVE  /\ \A x \in Data : \A q \in Mails(n, x)' : q \in Mails(n, x)
         /\ \A p \in Mails(n, "ACK")' : p \in Mails(n, "ACK") \/ p.token # Answered(0)
<1>1. Data \subseteq Boxes /\ "ACK" \in Boxes /\ "ACK" \notin Data /\ "SYNC" \notin Data
  BY DEF Data, Boxes
<1>2. CASE Fewer
  BY <1>1, <1>2 DEF Fewer
<1>3. ASSUME NEW msg, Greeting(msg), More(msg)
      PROVE  /\ \A x \in Data : \A q \in Mails(n, x)' : q \in Mails(n, x)
             /\ \A p \in Mails(n, "ACK")' : p \in Mails(n, "ACK") \/ p.token # Answered(0)
  <2>1. /\ msg.box \notin Data
        /\ msg.box = "ACK" => msg.token >= 65 /\ msg.token \in Nat
    BY <1>1, <1>3 DEF Greeting, Message
  <2>2. msg.box = "ACK" => msg.token # Answered(0)
    BY <2>1, AnsweredIs
  <2> QED
    BY <1>1, <1>3, <2>1, <2>2 DEF More
<1> QED
  BY <1>2, <1>3 DEF Hello

(* As long as b has taken nothing, a is at the first message.              *)
LEMMA UnderwayFirst ==
  ASSUME NEW a, NEW b, NEW k \in 0 .. nbPieces, Underway(a, b, k), Took(b) = 0
  PROVE  k = 0 /\ Before(a, b, k)
BY EmptyIs DEF Underway, Before, After, Astray

LEMMA UnderwayHello ==
  ASSUME Distinct, NEW a \in Machines, NEW b \in Machines, NEW k \in 0 .. nbPieces, Underway(a, b, k),
         Took(b) = 0, Took(b)' = 0, ~Answering(b)', Hello,
         connectedID'[a] = connectedID[a], loc'[Main(a)].got = loc[Main(a)].got
  PROVE  Underway(a, b, k)'
<1>1. k = 0 /\ ~Acked(a, b, k)
  BY UnderwayFirst DEF Before
<1>2. /\ \A x \in Data : \A q \in Mails(b, x)' : q \in Mails(b, x)
      /\ \A p \in Mails(a, "ACK")' : p \in Mails(a, "ACK") \/ p.token # Answered(0)
  BY HelloMails
<1>3. ~Acked(a, b, k)'
  BY <1>1, <1>2 DEF Acked
<1>4. AcksInOrder(a, b, k)'
  BY <1>3 DEF AcksInOrder, Acked
<1>5. Before(a, b, k)'
  BY <1>1, <1>3 DEF Before, Whole
<1>6. NoData(b) => NoData(b)'
  BY <1>2 DEF NoData
<1>7. \A q \in Mails(b, "MSG")' : q.piece \in {k - 1, k}
  BY <1>2 DEF Underway, Data
<1> QED
  BY <1>3, <1>4, <1>5, <1>6, <1>7 DEF Underway

(* a goes on to the next message.                                          *)
LEMMA UnderwayNext ==
  ASSUME Distinct, NEW a \in Machines, NEW b \in Machines, NEW k \in 0 .. nbPieces, k < nbPieces,
         Underway(a, b, k), Rests(b), Fewer, connectedID'[a] = connectedID[a],
         loc[Main(a)].got = Answered(k), loc'[Main(a)].got = 0, Took(b) \in Nat,
         Answering(b) => /\ loc[Main(b)].out.token = Answered(loc[Main(b)].piece)
                         /\ loc[Main(b)].piece \in 0 .. nbPieces
  PROVE  Underway(a, b, k + 1)'
<1>1. /\ Answered(k + 1) # Answered(k) /\ Answered(k + 1) # 0
      /\ nbPieces \in Nat /\ k \in Nat /\ k + 1 \in 1 .. nbPieces
      /\ k > 0 => Answered(k) # Answered(k - 1)
  <2>1. k + 1 \in 1 .. nbPieces /\ k + 1 \in 0 .. nbPieces /\ k \in Nat /\ (k + 1) - 1 = k /\ nbPieces \in Nat
        /\ k > 0 => k \in 1 .. nbPieces
    BY EmptyIs
  <2>2. Answered(k + 1) # Answered((k + 1) - 1)
    BY <2>1, AnsweredIs
  <2> QED
    BY <2>1, <2>2, AnsweredIs
<1>2. /\ Acked(a, b, k)
      /\ \A q \in Mails(a, "ACK") : q.token = Answered(k)
      /\ Answering(b) => loc[Main(b)].out.token = Answered(k)
      /\ \A q \in Mails(b, "MSG") : q.piece = k
  BY DEF Underway, Acked, AcksInOrder
<1>3. /\ \A q \in Mails(a, "ACK")' : q \in Mails(a, "ACK")
      /\ \A x \in Data : \A q \in Mails(b, x)' : q \in Mails(b, x)
      /\ Took(b)' = Took(b) /\ (Whole(b) => Whole(b)')
      /\ Answering(b)' => /\ Answering(b) /\ loc'[Main(b)].piece = loc[Main(b)].piece
                          /\ loc'[Main(b)].out = loc[Main(b)].out
  BY DEF Fewer, Boxes, Data, Rests
<1>4. ~Acked(a, b, k + 1)'
  BY <1>1, <1>2, <1>3 DEF Acked
<1>5. AcksInOrder(a, b, k + 1)'
  BY <1>4 DEF AcksInOrder, Acked
<1>6. Answering(b) => loc[Main(b)].piece = k
  <2>1. SUFFICES ASSUME Answering(b) PROVE loc[Main(b)].piece = k
    OBVIOUS
  <2>2. loc[Main(b)].piece \in {k - 1, k} /\ loc[Main(b)].piece \in 0 .. nbPieces
    BY <2>1 DEF Underway
  <2>3. loc[Main(b)].piece = k - 1 => k > 0
    BY <1>1, <2>2
  <2> QED
    BY <1>1, <1>2, <2>1, <2>2, <2>3
<1>7. Before(a, b, k + 1)' \/ Astray(a, b, k + 1)'
  <2>1. CASE After(b, k)
    BY <1>1, <1>3, <1>4, <1>6, <2>1 DEF After, Before
  <2>2. CASE Astray(a, b, k)
    BY <1>1, <1>2, <1>3, <1>4, <2>2 DEF Astray
  <2> QED
    BY <1>2, <2>1, <2>2 DEF Underway, Before
<1>8. /\ connectedID'[a] = b \/ (Took(b)' = 0 /\ NoData(b)')
      /\ \A q \in Mails(b, "MSG")' : q.piece \in {(k + 1) - 1, k + 1}
      /\ Answering(b)' => loc'[Main(b)].piece \in {(k + 1) - 1, k + 1}
  BY <1>1, <1>2, <1>3, <1>6 DEF Underway, NoData, Data
<1> QED
  BY <1>4, <1>5, <1>7, <1>8 DEF Underway

(* b takes a message: the k-th, or the one before it once more.            *)
LEMMA UnderwayTakes ==
  ASSUME Distinct, MailFits, NEW a \in Machines, NEW b \in Machines, NEW k \in 0 .. nbPieces,
         Underway(a, b, k), Sorted(b), NEW h, Takes(b, h), Took(b) \in Nat,
         connectedID'[a] = connectedID[a], loc'[Main(a)].got = loc[Main(a)].got
  PROVE  Underway(a, b, k)'
<1> DEFINE e == Answered(k)
<1>1. /\ Answering(b)' /\ Took(b)' = Took(b) + 1 /\ loc'[Main(b)].piece = h.piece
      /\ loc'[Main(b)].out.token = Answered(h.piece)
      /\ nbPieces \in Nat /\ k \in Nat
  BY EmptyIs DEF Takes
<1>2. /\ Fewer
      /\ \E x \in Data : h \in Mails(b, x)
      /\ Took(b) > 0 => Took1(b, "MSG", h)
  BY <1>1 DEF Takes, Took1, Data
<1>3. /\ \A p \in Mails(a, "ACK")' : p \in Mails(a, "ACK")
      /\ \A p, q : Ahead(a, "ACK", p, q)' => Ahead(a, "ACK", p, q)
      /\ \A q \in Mails(b, "MSG")' : q \in Mails(b, "MSG")
  BY <1>2 DEF Fewer, Boxes
<1>4. connectedID[a] = b
  BY <1>2 DEF Underway, NoData
<1>5. \A q \in Mails(b, "MSG") : q.piece \in {k - 1, k} /\ q.piece > 0 /\ q.piece \in Nat
  BY DEF MailFits, Fits, Boxes, Underway, Message
<1>6. ASSUME h.piece = k, \A q \in Mails(b, "MSG")' : q.piece = k, After(b, k)' \/ Astray(a, b, k)'
      PROVE  Underway(a, b, k)'
  <2>1. loc'[Main(b)].out.token = e
    BY <1>1, <1>6
  <2>2. AcksInOrder(a, b, k)'
    BY <1>3, <2>1 DEF Underway, AcksInOrder
  <2> QED
    BY <1>1, <1>4, <1>6, <2>2 DEF Underway
<1>7. CASE Took(b) = 0
  <2>1. k = 0 /\ Whole(b)' /\ h.piece = 0
    BY <1>7, UnderwayFirst DEF Takes
  <2>2. \A q \in Mails(b, "MSG")' : q.piece = k
    BY <1>3, <1>5, <2>1
  <2>3. After(b, k)'
    BY <1>1, <1>7, <2>1, <2>2 DEF After
  <2> QED
    BY <1>6, <2>1, <2>2, <2>3
<1>8. CASE Took(b) > 0
  <2>1. /\ h \in Mails(b, "MSG") /\ h.piece \in {k - 1, k} /\ h.piece > 0 /\ k > 0
        /\ \A q \in Mails(b, "MSG")' : Ahead(b, "MSG", h, q)
    <3>1. Took1(b, "MSG", h)
      BY <1>2, <1>8
    <3>2. h \in Mails(b, "MSG") /\ \A q \in Mails(b, "MSG")' : Ahead(b, "MSG", h, q)
      BY <3>1 DEF Took1
    <3>3. h.piece \in {k - 1, k} /\ h.piece > 0 /\ h.piece \in Nat
      BY <1>5, <3>2
    <3> QED
      BY <1>1, <3>2, <3>3
  <2>2. CASE h.piece = k
    <3>1. \A q \in Mails(b, "MSG")' : q.piece = k
      <4>1. SUFFICES ASSUME NEW q \in Mails(b, "MSG")' PROVE q.piece = k
        OBVIOUS
      <4>2. q \in Mails(b, "MSG") /\ h.piece <= q.piece
        BY <1>3, <2>1, <4>1 DEF Sorted
      <4> QED
        BY <1>1, <1>5, <2>2, <4>2
    <3>2. CASE Before(a, b, k)
      <4>1. Whole(b)'
        BY <2>2, <3>2 DEF Before, Takes
      <4>2. After(b, k)'
        BY <1>1, <2>2, <3>1, <3>2, <4>1 DEF Before, After
      <4> QED
        BY <1>6, <2>2, <3>1, <4>2
    <3>3. CASE Took(b) > k
      <4>1. Astray(a, b, k)'
        BY <1>1, <3>3 DEF Astray
      <4> QED
        BY <1>6, <2>2, <3>1, <4>1
    <3> QED
      BY <1>1, <3>2, <3>3 DEF Underway, After, Astray
  <2>3. CASE h.piece = k - 1
    <3>1. ~Acked(a, b, k) /\ ~After(b, k)
      BY <1>1, <2>1, <2>3 DEF Underway, After
    <3>2. Answered(h.piece) # e
      BY <1>1, <2>1, <2>3, AnsweredIs
    <3>3. ~Acked(a, b, k)'
      BY <1>1, <1>3, <3>1, <3>2 DEF Acked
    <3>4. AcksInOrder(a, b, k)'
      BY <3>3 DEF AcksInOrder, Acked
    <3>5. Took(b)' > k
      BY <1>1, <3>1 DEF Underway, Before, Astray
    <3>6. Astray(a, b, k)'
      BY <3>3, <3>5 DEF Astray
    <3> QED
      BY <1>1, <1>3, <1>4, <1>5, <2>1, <3>3, <3>4, <3>6 DEF Underway
  <2> QED
    BY <2>1, <2>2, <2>3
<1> QED
  BY <1>7, <1>8

(* a begins to send.                                                       *)
LEMMA UnderwayBegins ==
  ASSUME Distinct, NEW a \in Machines, NEW b \in Machines, NoData(b), Took(b) = 0, ~Answering(b),
         \A p \in Mails(a, "ACK") : p.token # Answered(0),
         Fewer, Rests(b), loc'[Main(a)].got = 0
  PROVE  Underway(a, b, 0)'
<1>1. /\ \A p \in Mails(a, "ACK")' : p.token # Answered(0)
      /\ NoData(b)' /\ Mails(b, "MSG")' = {}
      /\ Took(b)' = 0 /\ ~Answering(b)'
      /\ Answered(0) # 0
  <2>1. Answered(0) # 0
    BY EmptyIs, AnsweredIs
  <2> QED
    BY <2>1 DEF Fewer, Boxes, Data, NoData, Rests
<1>2. ~Acked(a, b, 0)'
  BY <1>1 DEF Acked
<1>3. AcksInOrder(a, b, 0)'
  BY <1>2 DEF AcksInOrder, Acked
<1>4. Before(a, b, 0)'
  BY <1>1, <1>2 DEF Before, Whole
<1> QED
  BY <1>1, <1>2, <1>3, <1>4 DEF Underway

(* a has the last acknowledgement.                                         *)
LEMMA UnderwayEnds ==
  ASSUME NEW a \in Machines, NEW b \in Machines, Underway(a, b, nbPieces),
         Took(b) \in 0 .. nbPieces + 1, loc[Main(a)].got = Answered(nbPieces)
  PROVE  connectedID[a] = b /\ Took(b) = nbPieces + 1 /\ Whole(b)
<1>1. Acked(a, b, nbPieces)
  BY DEF Acked
<1>2. nbPieces \in Nat
  BY EmptyIs
<1>3. After(b, nbPieces)
  BY <1>1, <1>2 DEF Underway, Before, Astray
<1> QED
  BY <1>2, <1>3 DEF Underway, After

LEMMA TookTypes ==
  ASSUME NEW a, NEW b, Conversing(a, b)
  PROVE  /\ Took(b) \in 0 .. nbPieces + 1 /\ nbPieces \in Nat
         /\ Answering(b) => /\ Took(b) > 0 /\ loc[Main(b)].piece \in 0 .. nbPieces
                            /\ loc[Main(b)].out.token = Answered(loc[Main(b)].piece)
                            /\ loc[Main(b)].out.box = "ACK"
<1>1. Untaken(b) \/ Taking(b) \/ Taken(b)
  BY DEF Conversing
<1> QED
  BY <1>1, TookIs, EmptyIs

LEMMA TookTypesNext ==
  ASSUME NEW a, NEW b, Conversing(a, b)'
  PROVE  Took(b)' \in 0 .. nbPieces + 1
<1>1. Untaken(b)' \/ Taking(b)' \/ Taken(b)'
  BY DEF Conversing
<1> QED
  BY <1>1, TookIsNext, EmptyIs

LEMMA RestsFewer ==
  ASSUME NEW a \in Machines, NEW b \in Machines, NEW k \in 0 .. nbPieces, Underway(a, b, k), Rests(b),
         Fewer, connectedID'[a] = connectedID[a], loc'[Main(a)].got = loc[Main(a)].got
  PROVE  Underway(a, b, k)'
<1>1. /\ AcksDwindle(a)
      /\ \A x \in Data : \A q \in Mails(b, x)' : q \in Mails(b, x)
  BY DEF Fewer, AcksDwindle, Boxes, Data
<1>2. AcksKeep(a, b, k)
  BY <1>1, QuietAcks
<1> QED
  BY <1>1, <1>2, UnderwayRests DEF NoData, Data

LEMMA PhaseIs ==
  ASSUME NEW a
  PROVE  /\ ~(Unsent(a) /\ Sending_(a)) /\ ~(Sent(a) /\ Sending_(a))
         /\ Sending_(a) => stage[Main(a)] \in 0 .. nbPieces
         /\ Unsent(a) \/ Sending_(a) => \A name \in Sending : ret[a][name] # "TRUE"
<1>1. /\ Sending_(a) => call[Main(a)] \in Sending /\ stage[Main(a)] \in 0 .. nbPieces
      /\ Unsent(a) \/ Sent(a) => call[Main(a)] \notin Sending
  BY DEF Sending_, Unsent, Sent, Fresh, Transmits, Idle, Connects, Sending, Connecting
<1> QED
  BY <1>1 DEF Sending_, Unsent, Fresh

(* A step that a takes no part in.                                         *)
LEMMA ReliableOthers ==
  ASSUME Distinct, NEW a, NEW b, Conversing(a, b), Conversing(a, b)', SameView(a), Sorted(b),
         Reliable(a, b),
         \/ Rests(b) /\ (Fewer \/ (Answering(b) /\ More(loc[Main(b)].out)))
         \/ Took(b) = 0 /\ Took(b)' = 0 /\ ~Answering(b)' /\ Hello
         \/ \E h : Takes(b, h)
  PROVE  Reliable(a, b)'
<1>1. /\ a \in Machines /\ b \in Machines /\ MailFits
      /\ connectedID'[a] = connectedID[a] /\ loc'[Main(a)] = loc[Main(a)]
      /\ stage'[Main(a)] = stage[Main(a)] /\ ret'[a] = ret[a]
  BY DEF Conversing, SameView, SameThread, SameMachine
<1>2. /\ Took(b) \in 0 .. nbPieces + 1 /\ Took(b)' \in 0 .. nbPieces + 1 /\ nbPieces \in Nat
      /\ Answering(b) => Took(b) > 0 /\ loc[Main(b)].out.box = "ACK"
  BY TookTypes, TookTypesNext
<1>3. CASE /\ Unsent(a) /\ NoData(b) /\ Took(b) = 0
           /\ \A p \in Mails(a, "ACK") : p.token # Answered(0)
  <2>1. Unsent(a)'
    BY <1>3, SameSender
  <2>2. CASE Rests(b) /\ Fewer
    BY <1>1, <1>3, <2>1, <2>2 DEF Rests, Fewer, NoData, Data, Boxes, Reliable
  <2>3. CASE Took(b) = 0 /\ Took(b)' = 0 /\ ~Answering(b)' /\ Hello
    <3>1. /\ NoData(b)'
          /\ \A p \in Mails(a, "ACK")' : p.token # Answered(0)
      BY <1>1, <1>3, <2>3, HelloMails DEF NoData
    <3> QED
      BY <2>1, <2>3, <3>1 DEF Reliable
  <2>4. ASSUME NEW h, Takes(b, h) PROVE FALSE
    BY <1>3, <2>4 DEF Takes, Took1, NoData, Data
  <2> QED
    BY <1>2, <1>3, <2>2, <2>3, <2>4
<1>4. CASE Sending_(a) /\ Underway(a, b, stage[Main(a)])
  <2>1. PICK k \in 0 .. nbPieces : k = stage[Main(a)]
    BY <1>4, PhaseIs
  <2>2. Underway(a, b, k)'
    <3>1. Underway(a, b, k)
      BY <1>4, <2>1
    <3>2. CASE Rests(b) /\ Fewer
      BY <1>1, <3>1, <3>2, RestsFewer
    <3>3. CASE Rests(b) /\ Answering(b) /\ More(loc[Main(b)].out)
      <4>1. AcksKeep(a, b, k)
        BY <1>1, <3>3, ReplyAcks
      <4>2. \A x \in Data : \A q \in Mails(b, x)' : q \in Mails(b, x)
        BY <1>1, <1>2, <3>3 DEF More, Data, Boxes
      <4> QED
        BY <1>1, <3>1, <3>3, <4>1, <4>2, UnderwayRests DEF NoData, Data
    <3>4. CASE Took(b) = 0 /\ Took(b)' = 0 /\ ~Answering(b)' /\ Hello
      BY <1>1, <3>1, <3>4, UnderwayHello
    <3>5. ASSUME NEW h, Takes(b, h) PROVE Underway(a, b, k)'
      BY <1>1, <1>2, <3>1, <3>5, UnderwayTakes
    <3> QED
      BY <3>2, <3>3, <3>4, <3>5
  <2>3. Sending_(a)'
    BY <1>4, SameSender
  <2> QED
    BY <1>1, <2>1, <2>2, <2>3 DEF Reliable
<1>5. CASE /\ Sent(a)
           /\ (\E name \in Sending : ret[a][name] = "TRUE") =>
                 connectedID[a] = b /\ Took(b) = nbPieces + 1 /\ Whole(b)
  <2>1. Sent(a)'
    BY <1>5, SameSender
  <2>2. ASSUME \E name \in Sending : ret[a][name] = "TRUE"
        PROVE  connectedID'[a] = b /\ Took(b)' = nbPieces + 1 /\ Whole(b)'
    <3>1. connectedID[a] = b /\ Took(b) = nbPieces + 1 /\ Whole(b)
      BY <1>5, <2>2
    <3>2. CASE Rests(b)
      BY <1>1, <3>1, <3>2 DEF Rests
    <3>3. ASSUME NEW h, Takes(b, h) PROVE FALSE
      BY <1>2, <3>1, <3>3 DEF Takes
    <3> QED
      BY <1>2, <3>1, <3>2, <3>3
  <2> QED
    BY <1>1, <2>1, <2>2 DEF Reliable
<1> QED
  BY <1>3, <1>4, <1>5 DEF Reliable

(* A step of a.                                                            *)
LEMMA ReliableSender ==
  ASSUME Distinct, NEW a, NEW b, Conversing(a, b), Conversing(a, b)', SameView(b), SenderSteps(a),
         Reliable(a, b)
  PROVE  Reliable(a, b)'
<1>1. /\ a \in Machines /\ b \in Machines /\ Domains /\ Types
      /\ Rests(b) /\ Took(b)' = Took(b) /\ (Whole(b) => Whole(b)')
      /\ Took(b) \in 0 .. nbPieces + 1 /\ nbPieces \in Nat
      /\ Answering(b) => /\ Took(b) > 0 /\ loc[Main(b)].piece \in 0 .. nbPieces
                         /\ loc[Main(b)].out.token = Answered(loc[Main(b)].piece)
  BY ViewRests, TookTypes DEF Conversing, Rests
<1>2. ASSUME Unsent(a), ~Sent(a)
      PROVE  /\ NoData(b) /\ Took(b) = 0 /\ ~Answering(b)
             /\ \A p \in Mails(a, "ACK") : p.token # Answered(0)
  BY <1>1, <1>2, PhaseIs DEF Reliable
<1>3. CASE Unsent(a) /\ ~Sent(a) /\ Unsent(a)' /\ Hello
  BY <1>1, <1>2, <1>3, HelloMails DEF Reliable, NoData
<1>4. CASE /\ Unsent(a) /\ ~Sent(a) /\ Sending_(a)' /\ Fewer
           /\ stage'[Main(a)] = 0 /\ loc'[Main(a)].got = 0
  BY <1>1, <1>2, <1>4, UnderwayBegins DEF Reliable
<1>5. ASSUME Sending_(a), connectedID' = connectedID PROVE Underway(a, b, stage[Main(a)])
  BY <1>5, PhaseIs DEF Reliable
<1>6. CASE Sending_(a) /\ Sending_(a)' /\ connectedID' = connectedID /\ SendsOn(a)
  <2>1. PICK k \in 0 .. nbPieces : k = stage[Main(a)]
    BY <1>6, PhaseIs
  <2>2. Underway(a, b, k) /\ stage'[Main(a)] = k
    BY <1>5, <1>6, <2>1 DEF SendsOn
  <2>3. CASE More(loc[Main(a)].out) /\ loc'[Main(a)].got = loc[Main(a)].got
    <3> DEFINE out == loc[Main(a)].out
    <3>1. out.to = connectedID[a] /\ out.box \in Data /\ out.piece = k
      BY <1>1, <1>6, <2>1, OutFits DEF Sending_, Connected
    <3>2. /\ out.box # "ACK"
          /\ \A x \in Data : \A q \in Mails(b, x)' :
                q \in Mails(b, x) \/ (connectedID[a] = b /\ q.piece = k)
      BY <1>1, <2>3, <3>1 DEF More, Data, Boxes
    <3>3. AcksDwindle(a)
      BY <1>1, <2>3, <3>2 DEF More, AcksDwindle, Boxes
    <3>4. AcksKeep(a, b, k)
      BY <1>1, <2>3, <3>3, QuietAcks
    <3>5. Underway(a, b, k)'
      BY <1>1, <1>6, <2>2, <3>2, <3>4, UnderwayRests DEF NoData, Data
    <3> QED
      BY <1>6, <2>2, <3>5 DEF Reliable
  <2>4. ASSUME NEW h \in Message, Took1(a, "ACK", h), loc'[Main(a)].got = h.token
        PROVE  Reliable(a, b)'
    <3>1. AcksKeep(a, b, k)
      BY <1>1, <2>4, HearAcks
    <3>2. \A x \in Data : \A q \in Mails(b, x)' : q \in Mails(b, x)
      BY <1>1, <2>4 DEF Took1, Fewer, Data, Boxes
    <3>3. Underway(a, b, k)'
      BY <1>1, <1>6, <2>2, <3>1, <3>2, UnderwayRests DEF NoData, Data
    <3> QED
      BY <1>6, <2>2, <3>3 DEF Reliable
  <2> QED
    BY <1>6, <2>3, <2>4 DEF SendsOn
<1>7. CASE Sending_(a) /\ Sending_(a)' /\ connectedID' = connectedID /\ GoesOn(a)
  <2>1. PICK k \in 0 .. nbPieces : k = stage[Main(a)]
    BY <1>7, PhaseIs
  <2>2. /\ Underway(a, b, k) /\ stage'[Main(a)] = k + 1 /\ k < nbPieces /\ Fewer
        /\ loc[Main(a)].got = Answered(k) /\ loc'[Main(a)].got = 0
    BY <1>5, <1>7, <2>1 DEF GoesOn
  <2>3. Underway(a, b, k + 1)'
    BY <1>1, <1>7, <2>2, UnderwayNext
  <2> QED
    BY <1>7, <2>2, <2>3 DEF Reliable
<1>8. CASE Sending_(a) /\ Sent(a)' /\ connectedID' = connectedID /\ Finishes(a)
  <2>1. PICK value : /\ ret' = [ret EXCEPT ![a][call[Main(a)]] = value]
                     /\ value = "TRUE" => stage[Main(a)] = nbPieces /\ loc[Main(a)].got = Answered(nbPieces)
    BY <1>8 DEF Finishes
  <2>2. \A name \in Sending : ret[a][name] # "TRUE"
    BY <1>8, PhaseIs
  <2>3. \A name \in Sending : ret'[a][name] = ret[a][name] \/ ret'[a][name] = value
    BY <1>1, <2>1 DEF Domains, Names, Sending
  <2>4. ASSUME \E name \in Sending : ret'[a][name] = "TRUE"
        PROVE  connectedID'[a] = b /\ Took(b)' = nbPieces + 1 /\ Whole(b)'
    <3>1. Underway(a, b, nbPieces) /\ loc[Main(a)].got = Answered(nbPieces)
      BY <1>5, <1>8, <2>1, <2>2, <2>3, <2>4
    <3>2. connectedID[a] = b /\ Took(b) = nbPieces + 1 /\ Whole(b)
      BY <1>1, <3>1, UnderwayEnds
    <3> QED
      BY <1>1, <1>8, <3>2
  <2> QED
    BY <1>8, <2>4 DEF Reliable
<1>9. CASE /\ Sent(a) /\ Sent(a)' /\ connectedID' = connectedID /\ Fewer
           /\ \A name \in Sending : ret'[a][name] = ret[a][name]
  <2>1. ASSUME \E name \in Sending : ret[a][name] = "TRUE"
        PROVE  connectedID[a] = b /\ Took(b) = nbPieces + 1 /\ Whole(b)
    BY <1>9, <2>1, PhaseIs DEF Reliable
  <2> QED
    BY <1>1, <1>9, <2>1 DEF Reliable
<1> QED
  BY <1>3, <1>4, <1>6, <1>7, <1>8, <1>9 DEF SenderSteps

LEMMA ReliableStep ==
  ASSUME Distinct, NEW a, NEW b, Conversing(a, b), Conversing(a, b)', Moved(a, b), Sorted(b),
         Reliable(a, b)
  PROVE  Reliable(a, b)'
<1>1. CASE SameView(a) /\ SameView(b) /\ Fewer
  BY <1>1, ViewRests, ReliableOthers
<1>2. CASE SameView(b) /\ SenderSteps(a)
  BY <1>2, ReliableSender
<1>3. CASE SameView(a) /\ ReceiverSteps(b)
  <2>1. \/ Rests(b) /\ (Fewer \/ (Answering(b) /\ More(loc[Main(b)].out)))
        \/ Took(b) = 0 /\ Took(b)' = 0 /\ ~Answering(b)' /\ Hello
        \/ \E h : Takes(b, h)
    BY <1>3, ReceiverTook DEF Conversing, Domains
  <2> QED
    BY <1>3, <2>1, ReliableOthers
<1> QED
  BY <1>1, <1>2, <1>3 DEF Moved

LEMMA ReliableIs ==
  ASSUME NEW a, NEW b, Conversing(a, b), Reliable(a, b)
  PROVE  SendReliable
<1>1. SUFFICES ASSUME NEW m \in Machines, NEW n \in Machines, NEW name \in Sending,
                      connectedID[m] = n, ret[m][name] = "TRUE", received[n].room # NullFile
               PROVE  Got(n) = [k \in 1 .. received[n].room |-> k]
  BY DEF SendReliable, Sending
<1>2. m # b /\ m \notin Machines \ {a, b}
  BY <1>1, MachinesAssumption DEF Conversing, Silent
<1>3. m = a
  BY <1>2
<1>4. connectedID[a] = b /\ Took(b) = nbPieces + 1 /\ Whole(b)
  BY <1>1, <1>3, PhaseIs DEF Reliable
<1>5. /\ n = b /\ nbPieces \in Nat /\ Got(b) \in Seq(1 .. nbPieces)
      /\ received[b].room \in NullFile .. nbPieces
  BY <1>1, <1>3, <1>4, GotIs, EmptyIs DEF Conversing, Types
<1>6. PICK g : g = Got(b)
  OBVIOUS
<1>7. PICK r : r = received[b].room
  OBVIOUS
<1>8. PICK k : k = Took(b)
  OBVIOUS
<1>9. /\ g \in Seq(1 .. nbPieces) /\ r \in 0 .. nbPieces /\ k = nbPieces + 1
      /\ Len(g) = (IF k - 1 < r THEN k - 1 ELSE r)
      /\ \A i \in DOMAIN g : g[i] = i
  BY <1>1, <1>4, <1>5, <1>6, <1>7, <1>8 DEF Whole, NullFile
<1>10. Len(g) = r
  BY <1>5, <1>9
<1>11. g = [i \in 1 .. r |-> i]
  BY <1>9, <1>10
<1> QED
  BY <1>5, <1>6, <1>7, <1>11

(* When SendString or SendFile returns true, what arrived at the other     *)
(* machine is the string or file, each of its pieces once and in order, as *)
(* far as the file there has room, whatever is lost, sent again or         *)
(* answered too late, provided that no message begins like the one before. *)
THEOREM Reliability ==
  ASSUME Distinct, \A s \in Scripts : \E a, b \in Machines : Conversation(s, a, b)
  PROVE  Spec => []SendReliable
<1> DEFINE Inv == \E a, b \in Machines : Conversing(a, b) /\ Ordered(a, b) /\ Reliable(a, b)
<1>1. Init => Inv
  <2> SUFFICES ASSUME Init PROVE Inv
    OBVIOUS
  <2>1. PICK a \in Machines, b \in Machines : Conversation(script, a, b)
    BY DEF Init
  <2>2. Conversing(a, b) /\ Unsent(a) /\ Untaken(b)
    BY <2>1, ConversingInit
  <2>3. \A n \in Machines, x \in Boxes : Mails(n, x) = {}
    BY NoMails DEF Init
  <2>4. Got(b) = <<>>
    BY <2>2, GotIs DEF Conversing, Untaken
  <2>5. Ordered(a, b)
    BY <2>2, <2>3, <2>4 DEF Ordered, Sorted, Bounded, Boxes
  <2>6. Reliable(a, b)
    BY <2>2, <2>3, TookIs DEF Reliable, NoData, Data, Boxes
  <2> QED
    BY <2>2, <2>5, <2>6
<1>2. Inv /\ [Next]_vars => Inv'
  <2> SUFFICES ASSUME Inv, [Next]_vars PROVE Inv'
    OBVIOUS
  <2>1. PICK a \in Machines, b \in Machines : Conversing(a, b) /\ Ordered(a, b) /\ Reliable(a, b)
    OBVIOUS
  <2>2. Conversing(a, b)' /\ Moved(a, b)
    BY <2>1, ConversingStep
  <2>3. Ordered(a, b)'
    BY <2>1, <2>2, OrderedStep
  <2>4. Reliable(a, b)'
    BY <2>1, <2>2, ReliableStep DEF Ordered
  <2> QED
    BY <2>2, <2>3, <2>4
<1>3. Inv => SendReliable
  BY ReliableIs
<1> QED
  BY <1>1, <1>2, <1>3, PTL DEF Spec

-----------------------------------------------------------------------------
(* A MEETING.  Machines a and b connect to each other, and b, if it is     *)
(* connected, has been answered by an a that is connected or about to be.  *)

(* The machine sends its SYNC to o; it waits for o's, and answers it; and, *)
(* connected to o, it sends or receives a string or a file.                *)
Dials(m, o) ==
    LET t == Main(m) IN
    /\ \/ call[t] = "SyncWithMachine" /\ stage[t] = 0
       \/ call[t] = "OpenConnection" /\ stage[t] = 1
    /\ pc[t] \in SendPlaces \cup {"TRUE", "FALSE"}
    /\ loc[t].box = "ACK" /\ loc[t].out = Mail(m, o, "SYNC", 64 + Id[m], 0)
    /\ pc[t] = "TRUE" => loc[t].got # 0
AnswerTo(m, o, msg) == msg \in Message /\ msg.from = m /\ msg.to = o /\ msg.box = "ACK"
Awaits(m) == call[Main(m)] = "OpenConnection" /\ stage[Main(m)] = 0 /\ pc[Main(m)] = "Receive"
Heeds(m, o) ==
    LET t == Main(m) IN
    /\ \/ call[t] = "SyncWithMachine" /\ stage[t] = 1
       \/ call[t] = "OpenConnection" /\ stage[t] = 0
    /\ pc[t] \in ReceivePlaces \cup AnswerPlaces \cup {"TRUE"}
    /\ loc[t].box = "SYNC" /\ AnswerTo(m, o, loc[t].out)
Speaks(m, o) ==
    LET t == Main(m) IN
    /\ connectedID[m] = o /\ call[t] \in Sending /\ stage[t] \in Nat
    /\ pc[t] \in SendPlaces \cup SentPlaces \cup {"FALSE"}
    /\ loc[t].box = "ACK" /\ loc[t].out \in Message
    /\ loc[t].out.from = m /\ loc[t].out.to = o /\ loc[t].out.box \in Data
Minds(m, o) ==
    LET t == Main(m) IN
    /\ connectedID[m] = o /\ call[t] \in Obtaining /\ stage[t] \in Nat
    /\ pc[t] \in ReceivePlaces \cup AnswerPlaces \cup {"TRUE", "crashed"}
    /\ loc[t].box \in Data /\ AnswerTo(m, o, loc[t].out)

Targets(calls, o) ==
    /\ calls \in Seq(Calls)
    /\ \A i \in DOMAIN calls : calls[i].call = "SyncWithMachine" => calls[i].target = o
Busy(m, o) == Dials(m, o) \/ Awaits(m) \/ Heeds(m, o) \/ Speaks(m, o) \/ Minds(m, o)
Meets(m, o) ==
    /\ connectedID[m] \in {NoMachine, o} /\ Targets(script[m], o)
    /\ \/ connectedID[m] = NoMachine /\ Idle(Main(m)) /\ Polite(script[m], {"EndConnection"}, {})
       \/ (Idle(Main(m)) \/ Busy(m, o)) /\ Limited(script[m], {"EndConnection"}, {})

(* The machine is connected to o, or SyncWithMachine has had its SYNC      *)
(* answered and will connect it; and an answer has come to it from o.      *)
Engaged(m, o) ==
    connectedID[m] = o \/ (call[Main(m)] = "SyncWithMachine" /\ stage[Main(m)] = 1)
Obtained(m, o) == Dials(m, o) /\ loc[Main(m)].got # 0
Heard(m, o) == Mails(m, "ACK") # {} \/ Engaged(m, o) \/ Obtained(m, o)

From(m, o) == \A x \in Boxes : \A p \in Mails(m, x) : p.from = o
NeverOpens(m) ==
    /\ \A i \in DOMAIN script[m] : script[m][i].call # "OpenConnection"
    /\ call[Main(m)] # "OpenConnection" /\ ret[m]["OpenConnection"] = "none"
Mute(m) ==
    connectedID[m] = NoMachine /\ Idle(Main(m)) /\ script[m] \in Seq(Calls) /\ Refused(script[m])
Meet(a, b) ==
    /\ a \in Machines /\ b \in Machines /\ a # b
    /\ Domains /\ MailTypes /\ NoStop /\ Calm
    /\ Meets(a, b) /\ Meets(b, a) /\ From(a, b) /\ From(b, a)
    /\ NeverOpens(a) /\ (Heard(b, a) => Engaged(a, b))
    /\ \A m \in Machines \ {a, b} : Mute(m)

(* What a step of the machine does.                                        *)
Tells(m, o) ==
    \/ Fewer
    \/ \E msg : /\ More(msg) /\ msg.from = m /\ msg.to = o /\ msg.box # "STOP"
                /\ msg.box = "ACK" => Engaged(m, o) \/ call[Main(m)] = "OpenConnection"
Proceeds(m, o) ==
    /\ MailTypes' /\ ~stopping'[m]
    /\ Meets(m, o)' /\ Tells(m, o)
    /\ Engaged(m, o) => Engaged(m, o)'
    /\ Engaged(m, o)' \/ Obtained(m, o)' => Heard(m, o)
    /\ NeverOpens(m) => NeverOpens(m)'

LEMMA NextTarget ==
  ASSUME NEW s, NEW o, Targets(s, o), s # <<>>
  PROVE  /\ Targets(Tail(s), o)
         /\ s \in Seq(Calls) /\ Head(s) \in Calls
         /\ Head(s).call = "SyncWithMachine" => Head(s).target = o
         /\ (\A i \in DOMAIN s : s[i].call # "OpenConnection") =>
               /\ Head(s).call # "OpenConnection"
               /\ \A i \in DOMAIN Tail(s) : Tail(s)[i].call # "OpenConnection"
<1>1. /\ Tail(s) \in Seq(Calls) /\ Head(s) \in Calls /\ 1 \in DOMAIN s /\ Head(s) = s[1]
      /\ \A i \in DOMAIN Tail(s) : i + 1 \in DOMAIN s /\ Tail(s)[i] = s[i + 1]
  BY DEF Targets
<1> QED
  BY <1>1 DEF Targets

(* How a call begins.                                                      *)
TurnedDown(m, name) ==
    UNCHANGED <<call, stage, pc, loc>> /\ ret' = [ret EXCEPT ![m][name] = "FALSE"]
Entered(m, o, name) ==
    /\ ret' = ret /\ call'[Main(m)] = name
    /\ \/ name = "SyncWithMachine" /\ Dials(m, o)' /\ loc'[Main(m)].got = 0
       \/ name = "OpenConnection" /\ Awaits(m)'
       \/ connectedID[m] = o /\ (Speaks(m, o)' \/ Minds(m, o)')

LEMMA IdleMeets ==
  ASSUME Domains, NEW m \in Machines, NEW o \in Machines, ~stopping[m], Idle(Main(m)),
         connectedID[m] \in {NoMachine, o}, Targets(script[m], o), Step(Main(m)),
         connectedID[m] # NoMachine => Limited(script[m], {"EndConnection"}, {})
  PROVE  /\ script[m] # <<>> /\ script' = [script EXCEPT ![m] = Tail(@)]
         /\ UNCHANGED <<mailVars, connectedID, stopping>>
         /\ LET name == Head(script[m]).call IN
            \/ TurnedDown(m, name) /\ (connectedID[m] = NoMachine => name \notin Connecting)
            \/ Entered(m, o, name) /\ (connectedID[m] = NoMachine <=> name \in Connecting)
<1> DEFINE t == Main(m)
           name == Head(script[m]).call
<1>1. /\ t \in Threads /\ t[1] = m /\ t[2] = "main" /\ call[t] = "idle" /\ pc[t] = "idle"
  BY DEF Main, Threads, Idle
<1>2. NoMachine \notin Machines /\ Id[m] \in Nat /\ nbPieces \in Nat /\ InfoToken \in Nat
  BY MachinesAssumption, TokenAssumption DEF nbPieces
<1>3. CASE SyncWithMachine(t)
  <2>1. CASE connectedID[m] # NoMachine
    BY <1>1, <1>3, <2>1 DEF SyncWithMachine, Calling, Refuses, TurnedDown
  <2>2. CASE connectedID[m] = NoMachine
    <3>1. /\ script[m] # <<>> /\ name = "SyncWithMachine" /\ script' = [script EXCEPT ![m] = Tail(@)]
          /\ UNCHANGED <<mailVars, connectedID, stopping, ret>>
          /\ call'[t] = name /\ stage'[t] = 0 /\ pc'[t] = "SendWait"
          /\ loc'[t] = Locals(Mail(m, Head(script[m]).target, "SYNC", 64 + Id[m], 0), "ACK",
                              MaxConnectionReemissions)
      BY <1>1, <1>3, <2>2 DEF SyncWithMachine, Calling, Starts, SendWait, Goto, Set, Domains
    <3>2. Head(script[m]).target = o
      BY <3>1, NextTarget
    <3>3. Dials(m, o)' /\ loc'[t].got = 0
      BY <3>1, <3>2 DEF Dials, Locals, SendPlaces
    <3> QED
      BY <2>2, <3>1, <3>3 DEF Entered, Connecting
  <2> QED
    BY <2>1, <2>2
<1>4. CASE OpenConnection(t)
  <2>1. CASE connectedID[m] # NoMachine
    BY <1>1, <1>4, <2>1 DEF OpenConnection, Calling, Refuses, TurnedDown
  <2>2. CASE connectedID[m] = NoMachine
    BY <1>1, <1>4, <2>2
    DEF OpenConnection, Calling, Starts, Goto, Domains, Entered, Awaits, Connecting
  <2> QED
    BY <2>1, <2>2
<1>5. CASE EndConnection(t)
  <2>1. CASE connectedID[m] = NoMachine
    BY <1>1, <1>5, <2>1 DEF EndConnection, Calling, Refuses, TurnedDown, Connecting
  <2>2. CASE connectedID[m] # NoMachine
    <3>1. script[m] # <<>> /\ name = "EndConnection" /\ script[m] \in Seq(Calls)
      BY <1>1, <1>5 DEF EndConnection, Calling, Targets
    <3>2. name \notin {"EndConnection"}
      BY <2>2, <3>1, NextCall
    <3> QED
      BY <3>1, <3>2
  <2> QED
    BY <2>1, <2>2
<1>6. CASE SendString(t) \/ SendFile(t)
  <2>1. CASE Refuses(m, name)
    BY <1>1, <1>6, <2>1
    DEF SendString, SendFile, Calling, Refuses, TurnedDown, Connecting, Starts, SendWait, Goto, Domains
  <2>2. CASE ~Refuses(m, name)
    <3> HIDE DEF name
    <3>1. /\ script[m] # <<>> /\ name \in Sending
          /\ script' = [script EXCEPT ![m] = Tail(@)]
          /\ connectedID[m] # NoMachine
          /\ UNCHANGED <<mailVars, connectedID, stopping, ret>>
          /\ call'[t] = name /\ pc'[t] = "SendWait" /\ stage'[t] = 0
          /\ \E x \in Data :
                loc'[t] = Locals(Mail(m, connectedID[m], x, InfoToken, 0), "ACK", MaxReemissions)
      BY <1>1, <1>6, <2>2
      DEF SendString, SendFile, Calling, Starts, SendWait, Goto, Set, Domains, Sending, Data, name
    <3>2. connectedID[m] = o
      BY <3>1
    <3>3. PICK x \in Data : loc'[t] = Locals(Mail(m, o, x, InfoToken, 0), "ACK", MaxReemissions)
      BY <3>1, <3>2
    <3>4. Mail(m, o, x, InfoToken, 0) \in Message
      BY <1>2 DEF Mail, Message, Boxes, Data
    <3>5. Speaks(m, o)'
      BY <3>1, <3>2, <3>3, <3>4 DEF Speaks, Locals, Mail, SendPlaces
    <3> QED
      BY <3>1, <3>2, <3>5, Kinds DEF Entered, name
  <2> QED
    BY <2>1, <2>2
<1>7. CASE ReceiveString(t) \/ ReceiveFile(t)
  <2>1. CASE connectedID[m] = NoMachine
    BY <1>1, <1>7, <2>1
    DEF ReceiveString, ReceiveFile, Calling, Refuses, TurnedDown, Connecting
  <2>2. CASE connectedID[m] # NoMachine
    <3> HIDE DEF name
    <3>1. /\ script[m] # <<>> /\ name \in Obtaining
          /\ script' = [script EXCEPT ![m] = Tail(@)]
          /\ UNCHANGED <<mailVars, connectedID, stopping, ret>>
          /\ call'[t] = name /\ pc'[t] = "ReceiveWait" /\ stage'[t] = 0
          /\ \E x \in Data : loc'[t] = Locals(Mail(m, connectedID[m], "ACK", 0, 0), x, 0)
      BY <1>1, <1>7, <2>2
      DEF ReceiveString, ReceiveFile, Calling, Starts, ReceiveWait, Goto, Set, Domains, Obtaining, Data, name
    <3>2. connectedID[m] = o
      BY <2>2
    <3>3. PICK x \in Data : loc'[t] = Locals(Mail(m, o, "ACK", 0, 0), x, 0)
      BY <3>1, <3>2
    <3>4. AnswerTo(m, o, Mail(m, o, "ACK", 0, 0))
      BY <1>2 DEF Mail, Message, Boxes, AnswerTo
    <3>5. Minds(m, o)'
      BY <3>1, <3>2, <3>3, <3>4 DEF Minds, Locals, ReceivePlaces
    <3> QED
      BY <2>2, <3>1, <3>2, <3>5, Kinds DEF Entered, name
  <2> QED
    BY <2>1, <2>2
<1>8. ~Loops(t)
  BY <1>1
  DEF Loops, SendWaitAgain, SendWaitGivesUp, CatchMailAgain, ReceiveWaitAgain, CatchWithAnswerAgain,
      StopP, AtStopP, SendWaitPolls, CatchMailPolls, SendWaitReturns, ReceiveWaitPolls,
      CatchWithAnswerPolls, Answer, CatchWithAnswerReturns, WaitP
<1>9. ASSUME Connection(t) PROVE SyncWithMachine(t) \/ OpenConnection(t) \/ EndConnection(t)
  BY <1>1, <1>9
  DEF Connection, SyncAnswered, SyncFails, SyncReturns, OpenReceives, ReceivesFirst, OpenAnswers,
      OpenReturns, EndReturns, ListenForEndConnection, ListenReceives, ListenReturns, Ended
<1>10. ASSUME Strings(t) \/ Files(t)
       PROVE  SendString(t) \/ SendFile(t) \/ ReceiveString(t) \/ ReceiveFile(t)
  BY <1>1, <1>10
  DEF Strings, Files, Sends, Obtains, SendInfoAnswered, SendPauses, SendNext, SendReturns, SendFails,
      SendPaused, WaitP, ReceiveInfo, Stored, ReceiveNext, ReceiveReturns, ReceiveFails, WriteCrashes, Ended
<1> QED
  BY <1>3, <1>4, <1>5, <1>6, <1>7, <1>8, <1>9, <1>10 DEF Step

(* The loops of a call.                                                    *)
LEMMA DialLoops ==
  ASSUME Domains, MailTypes, NEW m \in Machines, NEW o \in Machines, ~stopping[m],
         Dials(m, o), Loops(Main(m))
  PROVE  /\ UNCHANGED callVars /\ MailTypes' /\ Dials(m, o)' /\ Tells(m, o)
         /\ Obtained(m, o)' => Heard(m, o)
<1> DEFINE t == Main(m)
           msg == Mail(m, o, "SYNC", 64 + Id[m], 0)
<1>1. /\ t \in Threads /\ t[1] = m /\ Id[m] \in Nat /\ nbPieces \in Nat /\ "ACK" \in Boxes
      /\ SendPlaces \cap {"TRUE", "FALSE"} = {}
  BY TokenAssumption DEF Main, Threads, nbPieces, Boxes, SendPlaces
<1>2. pc[t] \in SendPlaces
  <2>1. pc[t] \notin {"TRUE", "FALSE"}
    BY DEF Loops, SendWaitAgain, SendWaitGivesUp, CatchMailAgain, ReceiveWaitAgain,
           CatchWithAnswerAgain, StopP, AtStopP, SendWaitPolls, CatchMailPolls, SendWaitReturns,
           ReceiveWaitPolls, CatchWithAnswerPolls, Answer, CatchWithAnswerReturns, WaitP
  <2> QED
    BY <2>1 DEF Dials
<1>3. /\ msg \in Message /\ msg.from = m /\ msg.to = o /\ msg.box = "SYNC" /\ msg.token + 1 # 0
      /\ loc[t].out = msg /\ loc[t].box = "ACK"
  BY <1>1 DEF Mail, Message, Boxes, Dials
<1> HIDE DEF msg
<1>4. /\ UNCHANGED callVars /\ MailTypes'
      /\ loc'[t].out = msg /\ loc'[t].box = "ACK"
      /\ Emits(t) \/ (\E h : Hears(t, h)) \/ EndsWait(t)
  BY <1>1, <1>2, <1>3, SendLoop
<1>5. ASSUME pc'[t] \in SendPlaces \cup {"TRUE", "FALSE"}, pc'[t] = "TRUE" => loc'[t].got # 0
      PROVE  Dials(m, o)'
  BY <1>4, <1>5 DEF Dials, callVars, msg
<1>6. CASE Emits(t)
  <2>1. More(msg) /\ Tells(m, o)
    BY <1>3, <1>6 DEF Emits, Tells
  <2>2. Dials(m, o)'
    BY <1>1, <1>5, <1>6 DEF Emits
  <2>3. Obtained(m, o)' => Heard(m, o)
    BY <1>6 DEF Emits, Obtained, Heard
  <2> QED
    BY <1>4, <2>1, <2>2, <2>3
<1>7. ASSUME NEW h, Hears(t, h)
      PROVE  Dials(m, o)' /\ Tells(m, o) /\ Heard(m, o)
  <2>1. Fewer /\ h \in Mails(m, "ACK")
    BY <1>1, <1>7 DEF Hears, Took1
  <2>2. Dials(m, o)'
    BY <1>1, <1>5, <1>7 DEF Hears
  <2> QED
    BY <2>1, <2>2 DEF Tells, Heard
<1>8. CASE EndsWait(t)
  <2>1. Dials(m, o)'
    BY <1>3, <1>5, <1>8 DEF EndsWait
  <2> QED
    BY <1>4, <1>8, <2>1 DEF EndsWait, Obtained, Heard, Tells
<1> QED
  BY <1>4, <1>6, <1>7, <1>8

LEMMA AnswerLoops ==
  ASSUME Domains, MailTypes, NEW m \in Machines, NEW o \in Machines, ~stopping[m],
         Heeds(m, o) \/ Minds(m, o), Loops(Main(m))
  PROVE  /\ UNCHANGED callVars /\ MailTypes' /\ Tells(m, o)
         /\ Heeds(m, o) => Heeds(m, o)'
         /\ Minds(m, o) => Minds(m, o)'
<1> DEFINE t == Main(m)
           places == ReceivePlaces \cup AnswerPlaces
<1>1. /\ t \in Threads /\ t[1] = m /\ "SYNC" \in Boxes /\ Data \subseteq Boxes
  BY DEF Main, Threads, Boxes, Data
<1>2. pc[t] \in places
  <2>1. pc[t] \notin {"TRUE", "crashed"}
    BY DEF Loops, SendWaitAgain, SendWaitGivesUp, CatchMailAgain, ReceiveWaitAgain,
           CatchWithAnswerAgain, StopP, AtStopP, SendWaitPolls, CatchMailPolls, SendWaitReturns,
           ReceiveWaitPolls, CatchWithAnswerPolls, Answer, CatchWithAnswerReturns, WaitP
  <2> QED
    BY <2>1 DEF Heeds, Minds
<1>3. loc[t].box \in Boxes /\ AnswerTo(m, o, loc[t].out)
  BY <1>1 DEF Heeds, Minds
<1>4. /\ UNCHANGED callVars /\ MailTypes' /\ loc'[t].box = loc[t].box
      /\ Listens(t) \/ (\E h : Gets(t, h)) \/ Replies(t) \/ HasReplied(t)
  BY <1>1, <1>2, <1>3, ReceiveLoop DEF AnswerTo
<1>5. ASSUME pc'[t] \in places \cup {"TRUE"}, AnswerTo(m, o, loc'[t].out)
      PROVE  /\ Heeds(m, o) => Heeds(m, o)'
             /\ Minds(m, o) => Minds(m, o)'
  <2>1. AnswerTo(m, o, loc[t].out)'
    BY <1>5 DEF AnswerTo
  <2> QED
    BY <1>4, <1>5, <2>1 DEF Heeds, Minds, callVars
<1>6. CASE Listens(t) \/ HasReplied(t)
  <2>1. Tells(m, o)
    BY <1>6 DEF Listens, HasReplied, Tells
  <2>2. pc'[t] \in places \cup {"TRUE"} /\ AnswerTo(m, o, loc'[t].out)
    BY <1>3, <1>6 DEF Listens, HasReplied
  <2> QED
    BY <1>4, <1>5, <2>1, <2>2
<1>7. CASE Replies(t)
  <2>1. Engaged(m, o) \/ call[t] = "OpenConnection"
    BY DEF Heeds, Minds, Engaged
  <2>2. Tells(m, o)
    BY <1>3, <1>7, <2>1 DEF Replies, Tells, AnswerTo
  <2>3. pc'[t] \in places \cup {"TRUE"} /\ AnswerTo(m, o, loc'[t].out)
    BY <1>3, <1>7 DEF Replies
  <2> QED
    BY <1>4, <1>5, <2>2, <2>3
<1>8. ASSUME NEW h, Gets(t, h)
      PROVE  /\ Tells(m, o)
             /\ Heeds(m, o) => Heeds(m, o)'
             /\ Minds(m, o) => Minds(m, o)'
  <2>1. Fewer /\ h \in Message /\ h.token \in Nat
    BY <1>8 DEF Gets, Took1, Message
  <2>2. loc'[t].out = [loc[t].out EXCEPT !.token = h.token + 1] /\ pc'[t] = "Answer"
    BY <1>8 DEF Gets
  <2>3. AnswerTo(m, o, loc'[t].out)
    BY <1>3, <2>1, <2>2 DEF AnswerTo, Message
  <2> QED
    BY <1>5, <2>1, <2>2, <2>3 DEF Tells, AnswerPlaces
<1> QED
  BY <1>4, <1>6, <1>7, <1>8

LEMMA SpeakLoops ==
  ASSUME Domains, MailTypes, NEW m \in Machines, NEW o \in Machines, ~stopping[m],
         Speaks(m, o), Loops(Main(m))
  PROVE  UNCHANGED callVars /\ MailTypes' /\ Speaks(m, o)' /\ Tells(m, o)
<1> DEFINE t == Main(m)
<1>1. /\ t \in Threads /\ t[1] = m
      /\ "TRUE" \in SentPlaces /\ "gap.wait" \in SentPlaces
  BY DEF Main, Threads, SentPlaces
<1>2. /\ loc[t].out \in Message /\ loc[t].out.from = m /\ loc[t].out.to = o
      /\ loc[t].out.box \in Data /\ loc[t].box = "ACK"
  BY DEF Speaks
<1>3. ASSUME UNCHANGED callVars, loc'[t].out = loc[t].out, loc'[t].box = "ACK",
             pc'[t] \in SendPlaces \cup SentPlaces \cup {"FALSE"}
      PROVE  Speaks(m, o)'
  BY <1>2, <1>3 DEF Speaks, callVars
<1>4. CASE pc[t] \in SendPlaces
  <2>1. /\ UNCHANGED callVars /\ MailTypes'
        /\ loc'[t].out = loc[t].out /\ loc'[t].box = "ACK"
        /\ Emits(t) \/ (\E h : Hears(t, h)) \/ EndsWait(t)
    BY <1>1, <1>2, <1>4, SendLoop
  <2>2. pc'[t] \in SendPlaces \cup SentPlaces \cup {"FALSE"}
    BY <1>1, <2>1 DEF Emits, Hears, EndsWait
  <2>3. Fewer \/ More(loc[t].out)
    BY <2>1 DEF Emits, Hears, EndsWait, Took1
  <2>4. Tells(m, o)
    <3>1. loc[t].out.box # "STOP" /\ loc[t].out.box # "ACK"
      BY <1>2 DEF Data
    <3> QED
      BY <1>2, <2>3, <3>1 DEF Tells
  <2> QED
    BY <1>3, <2>1, <2>2, <2>4
<1>5. CASE pc[t] \notin SendPlaces
  <2>1. StopP(t) /\ pc[t] = "gap.stop"
    BY <1>5
    DEF Speaks, SendPlaces, SentPlaces, Loops, SendWaitAgain, SendWaitGivesUp, CatchMailAgain,
        ReceiveWaitAgain, CatchWithAnswerAgain, StopP, AtStopP, SendWaitPolls, CatchMailPolls,
        SendWaitReturns, ReceiveWaitPolls, CatchWithAnswerPolls, Answer, CatchWithAnswerReturns, WaitP
  <2>2. UNCHANGED <<mailVars, callVars, loc>> /\ pc'[t] = "gap.wait"
    BY <1>1, <2>1, AfterStopIs DEF StopP, Goto, Domains
  <2>3. Speaks(m, o)'
    BY <1>1, <1>2, <1>3, <2>2
  <2> QED
    BY <2>2, <2>3, SameMail DEF Tells
<1> QED
  BY <1>4, <1>5

(* The other steps of a call.                                              *)
Shifts(m, o) ==
    /\ MailTypes' /\ Tells(m, o) /\ script' = script /\ ~stopping'[m]
    /\ connectedID' = connectedID \/ connectedID' = [connectedID EXCEPT ![m] = o]
    /\ (Busy(m, o)' /\ call'[Main(m)] = call[Main(m)]) \/ Idle(Main(m))'
    /\ ret'[m]["OpenConnection"] = ret[m]["OpenConnection"] \/ call[Main(m)] = "OpenConnection"
    /\ Engaged(m, o) => Engaged(m, o)'
    /\ Engaged(m, o)' \/ Obtained(m, o)' => Heard(m, o)

(* What Returns does.                                                      *)
LEMMA ReturnsIdle ==
  ASSUME Domains, NEW t \in Threads, NEW value, Returns(t, value), call[t] \in Names
  PROVE  /\ call'[t] = "idle" /\ stage'[t] = 0 /\ pc'[t] = "idle"
         /\ ret'[t[1]]["OpenConnection"] = ret[t[1]]["OpenConnection"] \/ call[t] = "OpenConnection"
<1>1. t[1] \in Machines /\ "OpenConnection" \in Names
  BY OfMachine DEF Names
<1> QED
  BY <1>1 DEF Returns, Goto, Domains

LEMMA DialEnds ==
  ASSUME Domains, MailTypes, NEW m \in Machines, NEW o \in Machines, ~stopping[m],
         connectedID[m] \in {NoMachine, o},
         Dials(m, o), Step(Main(m)), ~Loops(Main(m))
  PROVE  Shifts(m, o)
<1> DEFINE t == Main(m)
<1>1. /\ t \in Threads /\ t[1] = m /\ t[2] = "main" /\ call[t] \in Connecting /\ call[t] \in Names
      /\ nbPieces \in Nat /\ NoMachine \notin Machines /\ "idle" \notin Names
  BY TokenAssumption, MachinesAssumption DEF Main, Threads, Dials, Connecting, nbPieces, Names
<1>2. loc[t].out.to = o
  BY DEF Dials, Mail
<1>3. ASSUME mailVars' = mailVars PROVE MailTypes' /\ Tells(m, o)
  BY <1>3, SameMail DEF Tells
<1>4. CASE SyncAnswered(t)
  <2>1. /\ UNCHANGED <<mailVars, connectedID, stopping, script, ret, call>>
        /\ call[t] = "SyncWithMachine" /\ pc[t] = "TRUE"
        /\ stage'[t] = 1 /\ pc'[t] = "ReceiveWait"
        /\ loc'[t] = Locals(Mail(m, o, "ACK", 0, 0), "SYNC", 0)
    BY <1>1, <1>2, <1>4 DEF SyncAnswered, Ended, Continues, ReceiveWait, Goto, Set, Domains
  <2>2. AnswerTo(m, o, Mail(m, o, "ACK", 0, 0))
    BY <1>1 DEF AnswerTo, Mail, Message, Boxes
  <2>3. Heeds(m, o)'
    BY <2>1, <2>2 DEF Heeds, AnswerTo, Locals, ReceivePlaces
  <2>4. Heard(m, o) /\ Engaged(m, o)'
    BY <2>1 DEF Dials, Heard, Obtained, Engaged
  <2> QED
    BY <1>3, <2>1, <2>3, <2>4 DEF Shifts, Busy
<1>5. CASE SyncFails(t)
  <2>1. /\ UNCHANGED <<mailVars, connectedID, stopping, script>>
        /\ call'[t] = "idle" /\ stage'[t] = 0 /\ pc'[t] = "idle"
        /\ ret'[m]["OpenConnection"] = ret[m]["OpenConnection"] \/ call[t] = "OpenConnection"
    BY <1>1, <1>5, ReturnsIdle DEF SyncFails
  <2>2. ~Obtained(m, o)'
    BY <1>1, <2>1 DEF Obtained, Dials
  <2>3. /\ Engaged(m, o)' => Engaged(m, o)
        /\ Engaged(m, o) => Engaged(m, o)'
    BY <1>5, <2>1 DEF Engaged, SyncFails, Ended
  <2> QED
    BY <1>3, <2>1, <2>2, <2>3 DEF Shifts, Idle, Heard
<1>6. CASE OpenReturns(t)
  <2>1. /\ UNCHANGED <<mailVars, stopping, script>>
        /\ call[t] = "OpenConnection" /\ stage[t] = 1
        /\ \/ pc[t] = "TRUE" /\ connectedID' = [connectedID EXCEPT ![m] = o]
           \/ connectedID' = connectedID
        /\ call'[t] = "idle" /\ stage'[t] = 0 /\ pc'[t] = "idle"
    BY <1>1, <1>2, <1>6, ReturnsIdle DEF OpenReturns, Ended
  <2>2. ~Obtained(m, o)'
    BY <1>1, <2>1 DEF Obtained, Dials
  <2>3. ASSUME pc[t] = "TRUE" PROVE Heard(m, o)
    BY <2>3 DEF Dials, Heard, Obtained
  <2>4. Engaged(m, o)' => Heard(m, o)
    BY <2>1, <2>3 DEF Engaged, Heard
  <2>5. Engaged(m, o) => Engaged(m, o)'
    BY <2>1 DEF Engaged, Domains
  <2> QED
    BY <1>3, <2>1, <2>2, <2>4, <2>5 DEF Shifts, Idle, Heard
<1>7. pc[t] \notin {"gap.wait", "crashed", "Receive"} /\ (call[t] = "OpenConnection" => stage[t] = 1)
      /\ (call[t] = "SyncWithMachine" => stage[t] = 0)
  BY DEF Dials, SendPlaces
<1>8. ASSUME Connection(t) PROVE SyncAnswered(t) \/ SyncFails(t) \/ OpenReturns(t)
  BY <1>1, <1>7, <1>8
  DEF Connection, SyncWithMachine, OpenConnection, EndConnection, Calling, EndReturns, SyncReturns,
      OpenReceives, OpenAnswers, ListenForEndConnection, ListenReceives, ReceivesFirst, ListenReturns,
      Ended, Connecting
<1>9. ~(Strings(t) \/ Files(t))
  BY <1>1, <1>7
  DEF Strings, Files, SendString, ReceiveString, SendFile, ReceiveFile, Calling, Sends, Obtains,
      SendInfoAnswered, SendPauses, SendNext, SendReturns, SendFails, SendPaused, WaitP, ReceiveInfo,
      Stored, ReceiveNext, ReceiveReturns, ReceiveFails, WriteCrashes, Ended, Connecting
<1> QED
  BY <1>4, <1>5, <1>6, <1>8, <1>9 DEF Step

LEMMA HeedEnds ==
  ASSUME Domains, MailTypes, NEW m \in Machines, NEW o \in Machines, ~stopping[m],
         connectedID[m] \in {NoMachine, o},
         Heeds(m, o), Step(Main(m)), ~Loops(Main(m))
  PROVE  Shifts(m, o)
<1> DEFINE t == Main(m)
<1>1. /\ t \in Threads /\ t[1] = m /\ t[2] = "main" /\ call[t] \in Connecting /\ call[t] \in Names
      /\ "idle" \notin Names /\ m \in DOMAIN connectedID
  BY DEF Main, Threads, Heeds, Connecting, Names, Domains
<1>2. loc[t].out.to = o
  BY DEF Heeds, AnswerTo
<1>3. ASSUME mailVars' = mailVars PROVE MailTypes' /\ Tells(m, o)
  BY <1>3, SameMail DEF Tells
<1>4. CASE SyncReturns(t)
  <2>1. /\ UNCHANGED <<mailVars, stopping, script>>
        /\ call[t] = "SyncWithMachine" /\ stage[t] = 1
        /\ connectedID' = [connectedID EXCEPT ![m] = o]
        /\ call'[t] = "idle" /\ stage'[t] = 0 /\ pc'[t] = "idle"
        /\ ret'[m]["OpenConnection"] = ret[m]["OpenConnection"] \/ call[t] = "OpenConnection"
    BY <1>1, <1>2, <1>4, ReturnsIdle DEF SyncReturns, Ended
  <2>2. Heard(m, o) /\ Engaged(m, o)'
    BY <1>1, <2>1 DEF Heard, Engaged
  <2> QED
    BY <1>3, <2>1, <2>2 DEF Shifts, Idle
<1>5. CASE OpenAnswers(t)
  <2>1. /\ UNCHANGED <<mailVars, connectedID, stopping, script, ret, call>>
        /\ call[t] = "OpenConnection" /\ stage'[t] = 1 /\ pc'[t] = "SendWait"
        /\ loc'[t] = Locals(Mail(m, o, "SYNC", 64 + Id[m], 0), "ACK", MaxConnectionReemissions)
    BY <1>1, <1>2, <1>5 DEF OpenAnswers, Ended, Continues, SendWait, Goto, Set, Domains
  <2>2. Dials(m, o)' /\ ~Obtained(m, o)'
    BY <2>1 DEF Dials, Obtained, Locals, SendPlaces
  <2>3. /\ Engaged(m, o)' => Engaged(m, o)
        /\ Engaged(m, o) => Engaged(m, o)'
    BY <2>1 DEF Engaged
  <2> QED
    BY <1>3, <2>1, <2>2, <2>3 DEF Shifts, Busy, Heard
<1>6. /\ pc[t] \notin {"gap.wait", "crashed", "Receive"}
      /\ (call[t] = "OpenConnection" => stage[t] = 0)
      /\ (call[t] = "SyncWithMachine" => stage[t] = 1)
  BY DEF Heeds, ReceivePlaces, AnswerPlaces
<1>7. ASSUME Connection(t) PROVE SyncReturns(t) \/ OpenAnswers(t)
  BY <1>1, <1>6, <1>7
  DEF Connection, SyncWithMachine, OpenConnection, EndConnection, Calling, EndReturns, SyncAnswered,
      SyncFails, OpenReceives, OpenReturns, ListenForEndConnection, ListenReceives, ReceivesFirst,
      ListenReturns, Ended, Connecting
<1>8. ~(Strings(t) \/ Files(t))
  BY <1>1, <1>6
  DEF Strings, Files, SendString, ReceiveString, SendFile, ReceiveFile, Calling, Sends, Obtains,
      SendInfoAnswered, SendPauses, SendNext, SendReturns, SendFails, SendPaused, WaitP, ReceiveInfo,
      Stored, ReceiveNext, ReceiveReturns, ReceiveFails, WriteCrashes, Ended, Connecting
<1> QED
  BY <1>4, <1>5, <1>7, <1>8 DEF Step

LEMMA AwaitEnds ==
  ASSUME Domains, MailTypes, NEW m \in Machines, NEW o \in Machines, ~stopping[m],
         Awaits(m), From(m, o), Step(Main(m))
  PROVE  Shifts(m, o)
<1> DEFINE t == Main(m)
           h == Head(boxes[m]["SYNC"])
<1>1. /\ t \in Threads /\ t[1] = m /\ t[2] = "main" /\ "SYNC" \in Boxes
      /\ call[t] = "OpenConnection" /\ stage[t] = 0 /\ pc[t] = "Receive"
      /\ nbPieces \in Nat
  BY TokenAssumption DEF Main, Threads, Boxes, Awaits, nbPieces
<1>2. OpenReceives(t)
  BY <1>1
  DEF Step, Loops, SendWaitAgain, SendWaitGivesUp, CatchMailAgain, ReceiveWaitAgain,
      CatchWithAnswerAgain, StopP, AtStopP, SendWaitPolls, CatchMailPolls, SendWaitReturns,
      ReceiveWaitPolls, CatchWithAnswerPolls, Answer, CatchWithAnswerReturns, WaitP,
      Connection, SyncWithMachine, OpenConnection, EndConnection, Calling, EndReturns, SyncAnswered,
      SyncFails, SyncReturns, OpenAnswers, OpenReturns, ListenForEndConnection, ListenReceives,
      ReceivesFirst, ListenReturns, Ended,
      Strings, Files, SendString, ReceiveString, SendFile, ReceiveFile, Sends, Obtains,
      SendInfoAnswered, SendPauses, SendNext, SendReturns, SendFails, SendPaused, ReceiveInfo,
      Stored, ReceiveNext, ReceiveReturns, ReceiveFails, WriteCrashes
<1>3. /\ M!Take(m, "SYNC")
      /\ UNCHANGED callVars /\ pc'[t] = "Answer"
      /\ loc'[t] = Locals(Mail(m, h.from, "ACK", h.token + 1, 0), "SYNC", 0)
  BY <1>1, <1>2 DEF OpenReceives, ReceivesFirst, Goto, Set, Domains
<1>4. MailTypes' /\ Fewer /\ h \in Mails(m, "SYNC") /\ h \in Message
  BY <1>1, <1>3, TakeOne DEF Took1
<1>5. h.from = o /\ h.token \in Nat
  BY <1>1, <1>4 DEF From, Message
<1> HIDE DEF h
<1>6. AnswerTo(m, o, Mail(m, o, "ACK", h.token + 1, 0))
  BY <1>1, <1>5 DEF AnswerTo, Mail, Message, Boxes
<1>7. Heeds(m, o)'
  BY <1>1, <1>3, <1>5, <1>6 DEF Heeds, AnswerTo, Locals, AnswerPlaces, callVars
<1>8. /\ Engaged(m, o)' => Engaged(m, o)
      /\ Engaged(m, o) => Engaged(m, o)'
      /\ ~Obtained(m, o)'
  BY <1>1, <1>3 DEF Engaged, Obtained, Dials, callVars
<1> QED
  BY <1>1, <1>3, <1>4, <1>7, <1>8 DEF Shifts, Busy, Tells, Heard, callVars

LEMMA SpeakEnds ==
  ASSUME Domains, MailTypes, NEW m \in Machines, NEW o \in Machines, ~stopping[m],
         Speaks(m, o), Step(Main(m)), ~Loops(Main(m))
  PROVE  Shifts(m, o)
<1> DEFINE t == Main(m)
           k == stage[t] + 1
<1>1. /\ t \in Threads /\ t[1] = m /\ t[2] = "main" /\ call[t] \in Sending /\ call[t] \in Names
      /\ nbPieces \in Nat \ {0} /\ stage[t] \in Nat /\ connectedID[m] = o
  BY TokenAssumption DEF Main, Threads, Speaks, Sending, Names, nbPieces
<1>2. ASSUME mailVars' = mailVars PROVE MailTypes' /\ Tells(m, o)
  BY <1>2, SameMail DEF Tells
<1>3. /\ Engaged(m, o) /\ Heard(m, o)
      /\ connectedID' = connectedID => Engaged(m, o)'
  BY <1>1 DEF Engaged, Heard
<1>4. ASSUME SendMessage(t, k), k <= nbPieces PROVE Shifts(m, o)
  <2>1. /\ UNCHANGED <<mailVars, connectedID, stopping, script, ret, call>>
        /\ stage'[t] = k /\ pc'[t] = "SendWait"
        /\ loc'[t] = Locals(Mail(m, o, "MSG", Token[k], k), "ACK", MaxReemissions)
    BY <1>1, <1>4 DEF SendMessage, Continues, SendWait, Goto, Set, Domains
  <2>2. Mail(m, o, "MSG", Token[k], k) \in Message
    <3>1. k \in 1 .. nbPieces
      BY <1>1, <1>4
    <3>2. Token[k] \in Nat
      BY <3>1, TokenAssumption DEF nbPieces
    <3> QED
      BY <3>1, <3>2 DEF Mail, Message, Boxes
  <2>3. Speaks(m, o)'
    BY <1>1, <2>1, <2>2 DEF Speaks, Locals, Mail, SendPlaces, Data
  <2> QED
    BY <1>2, <1>3, <2>1, <2>3 DEF Shifts, Busy
<1>5. ASSUME NEW name \in Sending, SendInfoAnswered(t, name) PROVE Shifts(m, o)
  <2>1. stage[t] = 0 /\ SendMessage(t, 1)
    BY <1>5 DEF SendInfoAnswered, Ended
  <2> QED
    BY <1>1, <1>4, <2>1
<1>6. ASSUME NEW name \in Sending, SendNext(t, name) PROVE Shifts(m, o)
  <2>1. stage[t] < nbPieces /\ SendMessage(t, k)
    BY <1>6 DEF SendNext
  <2> QED
    BY <1>1, <1>4, <2>1
<1>7. ASSUME SendPaused(t) \/ \E name \in Sending : SendPauses(t, name) PROVE Shifts(m, o)
  <2>1. UNCHANGED <<mailVars, callVars, loc>> /\ pc'[t] \in {"paused", "gap.stop"}
    BY <1>1, <1>7 DEF SendPaused, WaitP, SendPauses, Goto, Domains
  <2>2. Speaks(m, o)'
    BY <2>1 DEF Speaks, SentPlaces, callVars
  <2> QED
    BY <1>2, <1>3, <2>1, <2>2 DEF Shifts, Busy, callVars
<1>8. ASSUME NEW name \in Sending, SendReturns(t, name) \/ SendFails(t, name) PROVE Shifts(m, o)
  <2>1. PICK value : Returns(t, value)
    BY <1>8 DEF SendReturns, SendFails
  <2>2. /\ UNCHANGED <<mailVars, connectedID, script>> /\ ~stopping'[m]
    BY <1>1, <1>8 DEF SendReturns, SendFails, Domains
  <2> QED
    BY <1>1, <1>2, <1>3, <2>1, <2>2, ReturnsIdle DEF Shifts, Idle
<1>9. pc[t] \notin {"crashed", "Receive", "idle"} /\ call[t] # "idle"
  BY <1>1 DEF Speaks, SendPlaces, SentPlaces, Sending
<1>10. ~Connection(t)
  BY <1>1, <1>9
  DEF Connection, SyncWithMachine, OpenConnection, EndConnection, Calling, EndReturns, SyncAnswered,
      SyncFails, SyncReturns, OpenReceives, OpenAnswers, OpenReturns, ListenForEndConnection,
      ListenReceives, ReceivesFirst, ListenReturns, Ended, Sending
<1>11. ASSUME Strings(t) \/ Files(t) PROVE SendPaused(t) \/ \E name \in Sending : Sends(t, name)
  BY <1>1, <1>9, <1>11
  DEF Strings, Files, SendString, ReceiveString, SendFile, ReceiveFile, Calling, Obtains, ReceiveInfo,
      Stored, ReceiveNext, ReceiveReturns, ReceiveFails, WriteCrashes, Ended, Sending
<1> QED
  BY <1>5, <1>6, <1>7, <1>8, <1>10, <1>11 DEF Step, Sends

LEMMA MindEnds ==
  ASSUME Domains, MailTypes, NEW m \in Machines, NEW o \in Machines, ~stopping[m],
         Minds(m, o), Step(Main(m)), ~Loops(Main(m))
  PROVE  Shifts(m, o)
<1> DEFINE t == Main(m)
           k == stage[t] + 1
<1>1. /\ t \in Threads /\ t[1] = m /\ t[2] = "main" /\ call[t] \in Obtaining /\ call[t] \in Names
      /\ nbPieces \in Nat \ {0} /\ stage[t] \in Nat /\ connectedID[m] = o
  BY TokenAssumption DEF Main, Threads, Minds, Obtaining, Names, nbPieces
<1>2. ASSUME mailVars' = mailVars PROVE MailTypes' /\ Tells(m, o)
  BY <1>2, SameMail DEF Tells
<1>3. /\ Engaged(m, o) /\ Heard(m, o)
      /\ connectedID' = connectedID => Engaged(m, o)'
  BY <1>1 DEF Engaged, Heard
<1>4. ASSUME NEW i \in Nat, ReceiveMessage(t, i),
             UNCHANGED <<mailVars, connectedID, stopping, script, ret>>
      PROVE  Shifts(m, o)
  <2>1. /\ call' = call /\ stage'[t] = i /\ pc'[t] = "ReceiveWait"
        /\ loc'[t] = Locals(Mail(m, o, "ACK", 0, 0), "MSG", 0)
    BY <1>1, <1>4 DEF ReceiveMessage, Continues, ReceiveWait, Goto, Set, Domains
  <2>2. AnswerTo(m, o, Mail(m, o, "ACK", 0, 0))
    BY <1>1 DEF AnswerTo, Mail, Message, Boxes
  <2>3. Minds(m, o)'
    BY <1>1, <1>4, <2>1, <2>2 DEF Minds, AnswerTo, Locals, ReceivePlaces, Data
  <2> QED
    BY <1>2, <1>3, <1>4, <2>1, <2>3 DEF Shifts, Busy
<1>5. ASSUME NEW name \in Obtaining, ReceiveInfo(t, name) \/ ReceiveNext(t, name)
      PROVE  Shifts(m, o)
  <2>1. k \in Nat /\ 1 \in Nat
    BY <1>1
  <2> QED
    BY <1>4, <1>5, <2>1 DEF ReceiveInfo, ReceiveNext
<1>6. CASE WriteCrashes(t)
  <2>1. UNCHANGED <<mailVars, callVars, loc>> /\ pc'[t] = "crashed"
    BY <1>1, <1>6 DEF WriteCrashes, Goto, Domains
  <2>2. Minds(m, o)'
    BY <2>1 DEF Minds, AnswerTo, callVars
  <2> QED
    BY <1>2, <1>3, <2>1, <2>2 DEF Shifts, Busy, callVars
<1>7. ASSUME NEW name \in Obtaining, ReceiveReturns(t, name) \/ ReceiveFails(t, name)
      PROVE  Shifts(m, o)
  <2>1. PICK value : Returns(t, value)
    BY <1>7 DEF ReceiveReturns, ReceiveFails
  <2>2. /\ UNCHANGED <<mailVars, connectedID, script>> /\ ~stopping'[m]
    BY <1>1, <1>7 DEF ReceiveReturns, ReceiveFails, Domains
  <2> QED
    BY <1>1, <1>2, <1>3, <2>1, <2>2, ReturnsIdle DEF Shifts, Idle
<1>8. pc[t] \notin {"gap.wait", "paused", "Receive", "idle"} /\ call[t] # "idle"
  BY <1>1 DEF Minds, ReceivePlaces, AnswerPlaces, Obtaining
<1>9. ~Connection(t)
  BY <1>1, <1>8
  DEF Connection, SyncWithMachine, OpenConnection, EndConnection, Calling, EndReturns, SyncAnswered,
      SyncFails, SyncReturns, OpenReceives, OpenAnswers, OpenReturns, ListenForEndConnection,
      ListenReceives, ReceivesFirst, ListenReturns, Ended, Obtaining
<1>10. ASSUME Strings(t) \/ Files(t)
       PROVE  WriteCrashes(t) \/ \E name \in Obtaining : Obtains(t, name)
  BY <1>1, <1>8, <1>10
  DEF Strings, Files, SendString, ReceiveString, SendFile, ReceiveFile, Calling, Sends,
      SendInfoAnswered, SendPauses, SendNext, SendReturns, SendFails, SendPaused, WaitP, Ended, Obtaining
<1> QED
  BY <1>5, <1>6, <1>7, <1>9, <1>10 DEF Step, Obtains

(* A step of a machine that is in a meeting.                               *)
LEMMA BusyStep ==
  ASSUME Domains, MailTypes, NEW m \in Machines, NEW o \in Machines, ~stopping[m],
         connectedID[m] \in {NoMachine, o}, From(m, o), Busy(m, o), Step(Main(m))
  PROVE  Shifts(m, o)
<1>1. CASE Loops(Main(m)) /\ ~Awaits(m)
  <2>1. /\ UNCHANGED callVars /\ MailTypes' /\ Busy(m, o)' /\ Tells(m, o)
        /\ Obtained(m, o)' => Heard(m, o)
    <3>1. CASE Dials(m, o)
      BY <1>1, <3>1, DialLoops DEF Busy
    <3>2. CASE Heeds(m, o) \/ Minds(m, o)
      <4>1. /\ UNCHANGED callVars /\ MailTypes' /\ Tells(m, o)
            /\ Heeds(m, o)' \/ Minds(m, o)'
        BY <1>1, <3>2, AnswerLoops
      <4>2. Engaged(m, o) \/ (call[Main(m)] = "OpenConnection" /\ stage[Main(m)] = 0)
        BY <3>2 DEF Heeds, Minds, Engaged
      <4>3. Obtained(m, o)' => Heard(m, o)
        BY <4>1, <4>2 DEF Obtained, Dials, Heard, callVars
      <4> QED
        BY <4>1, <4>3 DEF Busy
    <3>3. CASE Speaks(m, o)
      <4>1. Heard(m, o)
        BY <3>3 DEF Speaks, Heard, Engaged
      <4> QED
        BY <1>1, <3>3, <4>1, SpeakLoops DEF Busy
    <3> QED
      BY <1>1, <3>1, <3>2, <3>3 DEF Busy
  <2>2. /\ Engaged(m, o)' => Engaged(m, o)
        /\ Engaged(m, o) => Engaged(m, o)'
    BY <2>1 DEF Engaged, callVars
  <2> QED
    BY <2>1, <2>2 DEF Shifts, Heard, callVars
<1>2. CASE Awaits(m)
  BY <1>2, AwaitEnds
<1>3. CASE ~Loops(Main(m)) /\ ~Awaits(m)
  BY <1>3, DialEnds, HeedEnds, SpeakEnds, MindEnds DEF Busy
<1> QED
  BY <1>1, <1>2, <1>3

LEMMA MeetsStep ==
  ASSUME Domains, MailTypes, NEW m \in Machines, NEW o \in Machines, ~stopping[m],
         Meets(m, o), From(m, o), Step(Main(m))
  PROVE  Proceeds(m, o)
<1> DEFINE t == Main(m)
           End == {"EndConnection"}
           name == Head(script[m]).call
<1>1. /\ connectedID[m] \in {NoMachine, o} /\ Targets(script[m], o)
      /\ \/ connectedID[m] = NoMachine /\ Idle(t) /\ Polite(script[m], End, {})
         \/ (Idle(t) \/ Busy(m, o)) /\ Limited(script[m], End, {})
      /\ NoMachine # o /\ "OpenConnection" \in Names /\ "idle" \notin Names
  BY MachinesAssumption DEF Meets, Names
<1>2. CASE Busy(m, o) /\ Limited(script[m], End, {})
  <2>1. Shifts(m, o)
    BY <1>1, <1>2, BusyStep
  <2>2. connectedID'[m] \in {NoMachine, o}
    BY <1>1, <2>1 DEF Shifts, Domains
  <2>3. Meets(m, o)'
    BY <1>1, <1>2, <2>1, <2>2 DEF Shifts, Meets, Targets, Limited
  <2>4. NeverOpens(m) => NeverOpens(m)'
    BY <2>1 DEF Shifts, NeverOpens, Idle
  <2> QED
    BY <2>1, <2>3, <2>4 DEF Shifts, Proceeds
<1>3. CASE Idle(t)
  <2>1. /\ script[m] # <<>> /\ script' = [script EXCEPT ![m] = Tail(@)]
        /\ UNCHANGED <<mailVars, connectedID, stopping>>
        /\ \/ TurnedDown(m, name) /\ (connectedID[m] = NoMachine => name \notin Connecting)
           \/ Entered(m, o, name) /\ (connectedID[m] = NoMachine <=> name \in Connecting)
    BY <1>1, <1>3, IdleMeets DEF Busy
  <2>2. script'[m] = Tail(script[m]) /\ MailTypes' /\ Tells(m, o) /\ ~stopping'[m]
    BY <2>1, SameMail DEF Domains, Tells
  <2>3. /\ Targets(Tail(script[m]), o) /\ script[m] \in Seq(Calls)
        /\ (\A i \in DOMAIN script[m] : script[m][i].call # "OpenConnection") =>
              /\ name # "OpenConnection"
              /\ \A i \in DOMAIN Tail(script[m]) : Tail(script[m])[i].call # "OpenConnection"
    BY <1>1, <2>1, NextTarget
  <2>4. /\ Limited(script[m], End, {}) => Limited(Tail(script[m]), End, {})
        /\ Polite(script[m], End, {}) =>
              /\ Polite(Tail(script[m]), End, {})
              /\ name \in Connecting => Limited(Tail(script[m]), End, {})
    BY <2>1, <2>3, NextCall
  <2> HIDE DEF name, End
  <2>5. Targets(script[m], o)'
    BY <2>2, <2>3 DEF Targets
  <2>6. /\ Limited(Tail(script[m]), End, {}) => Limited(script[m], End, {})'
        /\ Polite(Tail(script[m]), End, {}) => Polite(script[m], End, {})'
    BY <2>2 DEF Limited, Polite, End
  <2>7. CASE TurnedDown(m, name) /\ (connectedID[m] = NoMachine => name \notin Connecting)
    <3>1. Idle(t)' /\ ~Obtained(m, o)'
      BY <1>3, <2>7 DEF TurnedDown, Idle, Obtained, Dials
    <3>2. Meets(m, o)'
      BY <1>1, <2>1, <2>4, <2>5, <2>6, <3>1 DEF Meets, End
    <3>3. /\ Engaged(m, o)' => Engaged(m, o)
          /\ Engaged(m, o) => Engaged(m, o)'
      BY <2>1, <2>7 DEF Engaged, TurnedDown
    <3>4. NeverOpens(m) => NeverOpens(m)'
      <4>1. ASSUME name # "OpenConnection"
            PROVE  ret'[m]["OpenConnection"] = ret[m]["OpenConnection"]
        BY <2>7, <4>1 DEF TurnedDown, Domains
      <4> QED
        BY <2>2, <2>3, <2>7, <4>1 DEF NeverOpens, TurnedDown
    <3> QED
      BY <2>2, <3>1, <3>2, <3>3, <3>4 DEF Proceeds, Heard
  <2>8. CASE Entered(m, o, name) /\ (connectedID[m] = NoMachine <=> name \in Connecting)
    <3>1. Busy(m, o)'
      BY <2>8 DEF Entered, Busy
    <3>2. Limited(Tail(script[m]), End, {})
      BY <1>1, <2>4, <2>8
    <3>3. Meets(m, o)'
      BY <1>1, <2>1, <2>5, <2>6, <3>1, <3>2 DEF Meets, End
    <3>4. Engaged(m, o) => connectedID[m] = o
      BY <1>1, <1>3 DEF Engaged, Idle
    <3>5. Engaged(m, o)' => connectedID[m] = o
      BY <1>1, <2>1, <2>8 DEF Engaged, Entered, Dials, Awaits, Speaks, Minds, Sending, Obtaining
    <3>6. Obtained(m, o)' => connectedID[m] = o
      BY <1>1, <2>1, <2>8 DEF Obtained, Entered, Dials, Awaits
    <3>7. NeverOpens(m) => NeverOpens(m)'
      BY <2>2, <2>3, <2>8 DEF NeverOpens, Entered
    <3> QED
      BY <2>1, <2>2, <3>3, <3>4, <3>5, <3>6, <3>7 DEF Proceeds, Heard, Engaged
  <2> QED
    BY <2>1, <2>7, <2>8
<1> QED
  BY <1>1, <1>2, <1>3

(* The other threads.                                                      *)
LEMMA MuteStep ==
  ASSUME Domains, NEW m \in Machines, Mute(m), Step(Main(m))
  PROVE  UNCHANGED <<mailVars, connectedID, stopping>> /\ Mute(m)'
<1>1. Begins(m) /\ connectedID[m] = NoMachine /\ Refused(script[m]) /\ script[m] \in Seq(Calls)
  BY IdleStep DEF Mute
<1>2. script'[m] = Tail(script[m]) /\ script[m] # <<>>
  BY <1>1 DEF Begins, Domains
<1>3. /\ Tail(script[m]) \in Seq(Calls) /\ Refused(Tail(script[m]))
      /\ Head(script[m]).call \notin Connecting
  BY <1>1, <1>2, NextCall
<1>4. Declines(m, Head(script[m]).call) /\ UNCHANGED <<mailVars, connectedID>>
  BY <1>1, <1>3 DEF Begins, BeginsToConnect, BeginsToSend, BeginsToFetch
<1> QED
  BY <1>1, <1>2, <1>3, <1>4 DEF Declines, Mute, Idle, Refused

(* Of a machine that does not move, and to which no mail comes, nothing    *)
(* changes.                                                                *)
LEMMA SameMeets ==
  ASSUME NEW m \in Machines, NEW o, SameView(m)
  PROVE  /\ Meets(m, o) => Meets(m, o)'
         /\ Engaged(m, o)' <=> Engaged(m, o)
         /\ Obtained(m, o)' => Obtained(m, o)
         /\ NeverOpens(m) => NeverOpens(m)'
         /\ Mute(m) => Mute(m)'
<1>1. /\ pc'[Main(m)] = pc[Main(m)] /\ loc'[Main(m)] = loc[Main(m)]
      /\ call'[Main(m)] = call[Main(m)] /\ stage'[Main(m)] = stage[Main(m)]
      /\ script'[m] = script[m] /\ connectedID'[m] = connectedID[m] /\ ret'[m] = ret[m]
  BY DEF SameView, SameThread, SameMachine
<1>2. /\ Dials(m, o)' <=> Dials(m, o)
      /\ Awaits(m) => Awaits(m)'
      /\ Heeds(m, o) => Heeds(m, o)'
      /\ Speaks(m, o) => Speaks(m, o)'
      /\ Minds(m, o) => Minds(m, o)'
      /\ Idle(Main(m)) => Idle(Main(m))'
  BY <1>1 DEF Dials, Awaits, Heeds, Speaks, Minds, AnswerTo, Idle
<1>3. Meets(m, o) => Meets(m, o)'
  BY <1>1, <1>2 DEF Meets, Busy, Targets, Polite, Limited
<1> QED
  BY <1>1, <1>2, <1>3 DEF Engaged, Obtained, NeverOpens, Mute, Refused

LEMMA FewerFrom ==
  ASSUME Fewer, NEW m \in Machines, NEW o
  PROVE  /\ From(m, o) => From(m, o)'
         /\ Mails(m, "ACK")' # {} => Mails(m, "ACK") # {}
         /\ NoStop => NoStop'
<1>1. "ACK" \in Boxes /\ "STOP" \in Boxes
  BY DEF Boxes
<1> QED
  BY <1>1 DEF Fewer, From, NoStop

LEMMA MoreFrom ==
  ASSUME NEW m \in Machines, NEW o \in Machines, m # o,
         NEW msg, More(msg), msg.from = m, msg.to = o, msg.box # "STOP"
  PROVE  /\ From(o, m) => From(o, m)'
         /\ From(m, o) => From(m, o)'
         /\ Mails(m, "ACK")' # {} => Mails(m, "ACK") # {}
         /\ Mails(o, "ACK")' # {} => Mails(o, "ACK") # {} \/ msg.box = "ACK"
         /\ NoStop => NoStop'
<1>1. "ACK" \in Boxes /\ "STOP" \in Boxes
  BY DEF Boxes
<1> QED
  BY <1>1 DEF More, From, NoStop

LEMMA MeetInit ==
  ASSUME Init, NEW a \in Machines, NEW b \in Machines, Meeting(script, a, b)
  PROVE  Meet(a, b)
<1>1. Domains
  <2>1. DOMAIN script = Machines
    BY ScriptAssumption DEF Init
  <2>2. \A t \in Threads : DOMAIN loc[t] = LocFields
    BY DEF Init, LocFields, Locals
  <2>3. \A m \in Machines : DOMAIN ret[m] = Names
    BY DEF Init, Names
  <2> QED
    BY <2>1, <2>2, <2>3 DEF Init, Domains
<1>2. MailTypes
  BY DEF Init, M!MailInit, MailTypes
<1>3. /\ \A n \in Machines, x \in Boxes : Mails(n, x) = {}
      /\ "STOP" \in Boxes /\ "ACK" \in Boxes
  BY NoMails DEF Init, Boxes
<1>4. NoStop /\ From(a, b) /\ From(b, a)
  BY <1>3 DEF NoStop, From
<1>5. /\ \A m \in Machines : /\ connectedID[m] = NoMachine /\ script[m] \in Seq(Calls)
                             /\ Idle(Main(m)) /\ ret[m]["OpenConnection"] = "none"
      /\ NoMachine # a /\ NoMachine # b
  BY ScriptAssumption, MachinesAssumption DEF Init, Idle, Main, Threads
<1>6. Calm
  BY DEF Init, Calm, Threads
<1>7. a # b /\ Meets(a, b) /\ Meets(b, a)
  BY <1>5 DEF Meeting, Bound, Meets, Targets
<1>8. NeverOpens(a)
  BY <1>5 DEF Meeting, NeverOpens, Idle
<1>9. ~Heard(b, a)
  BY <1>3, <1>5 DEF Heard, Engaged, Obtained, Dials, Idle
<1>10. \A m \in Machines \ {a, b} : Mute(m)
  BY <1>5 DEF Meeting, Mute
<1> QED
  BY <1>1, <1>2, <1>4, <1>6, <1>7, <1>8, <1>9, <1>10 DEF Meet

LEMMA MeetStep ==
  ASSUME NEW a, NEW b, Meet(a, b), [Next]_vars
  PROVE  Meet(a, b)'
<1>1. /\ a \in Machines /\ b \in Machines /\ a # b
      /\ Domains /\ MailTypes /\ NoStop /\ Calm
      /\ Meets(a, b) /\ Meets(b, a) /\ From(a, b) /\ From(b, a)
      /\ NeverOpens(a) /\ (Heard(b, a) => Engaged(a, b))
      /\ ~stopping[a] /\ ~stopping[b]
      /\ \A m \in Machines \ {a, b} : Mute(m)
  BY DEF Meet, Calm
<1>2. ASSUME Step(Main(a)) PROVE Meet(a, b)'
  <2>1. Proceeds(a, b)
    BY <1>1, <1>2, MeetsStep
  <2>2. Domains' /\ Calm' /\ \A n \in Machines : n # a => SameView(n)
    BY <1>1, <1>2, <2>1, MainFrame DEF Proceeds
  <2>3. /\ Meets(b, a)' /\ (Engaged(b, a)' <=> Engaged(b, a)) /\ (Obtained(b, a)' => Obtained(b, a))
        /\ \A m \in Machines \ {a, b} : Mute(m)'
    BY <1>1, <2>2, SameMeets
  <2>4. /\ From(a, b)' /\ From(b, a)' /\ NoStop'
        /\ Mails(b, "ACK")' # {} => Mails(b, "ACK") # {} \/ Engaged(a, b)
    <3>1. CASE Fewer
      BY <1>1, <3>1, FewerFrom
    <3>2. CASE \E msg : /\ More(msg) /\ msg.from = a /\ msg.to = b /\ msg.box # "STOP"
                        /\ msg.box = "ACK" => Engaged(a, b) \/ call[Main(a)] = "OpenConnection"
      <4>1. PICK msg : /\ More(msg) /\ msg.from = a /\ msg.to = b /\ msg.box # "STOP"
                       /\ msg.box = "ACK" => Engaged(a, b) \/ call[Main(a)] = "OpenConnection"
        BY <3>2
      <4>2. msg.box = "ACK" => Engaged(a, b)
        BY <1>1, <4>1 DEF NeverOpens
      <4> QED
        BY <1>1, <4>1, <4>2, MoreFrom
    <3> QED
      BY <2>1, <3>1, <3>2 DEF Proceeds, Tells
  <2>5. Heard(b, a)' => Engaged(a, b)'
    BY <1>1, <2>1, <2>3, <2>4 DEF Heard, Proceeds
  <2> QED
    BY <1>1, <2>1, <2>2, <2>3, <2>4, <2>5 DEF Meet, Proceeds
<1>3. ASSUME Step(Main(b)) PROVE Meet(a, b)'
  <2>1. Proceeds(b, a)
    BY <1>1, <1>3, MeetsStep
  <2>2. Domains' /\ Calm' /\ \A n \in Machines : n # b => SameView(n)
    BY <1>1, <1>3, <2>1, MainFrame DEF Proceeds
  <2>3. /\ Meets(a, b)' /\ (Engaged(a, b)' <=> Engaged(a, b)) /\ NeverOpens(a)'
        /\ \A m \in Machines \ {a, b} : Mute(m)'
    BY <1>1, <2>2, SameMeets
  <2>4. /\ From(a, b)' /\ From(b, a)' /\ NoStop'
        /\ Mails(b, "ACK")' # {} => Mails(b, "ACK") # {}
    <3>1. CASE Fewer
      BY <1>1, <3>1, FewerFrom
    <3>2. CASE \E msg : More(msg) /\ msg.from = b /\ msg.to = a /\ msg.box # "STOP"
      BY <1>1, <3>2, MoreFrom
    <3> QED
      BY <2>1, <3>1, <3>2 DEF Proceeds, Tells
  <2>5. Heard(b, a)' => Engaged(a, b)'
    BY <1>1, <2>1, <2>3, <2>4 DEF Heard, Proceeds
  <2> QED
    BY <1>1, <2>1, <2>2, <2>3, <2>4, <2>5 DEF Meet, Proceeds
<1>4. ASSUME Fewer, MailTypes', Domains', Calm', SameView(a), SameView(b),
             \A m \in Machines \ {a, b} : Mute(m)'
      PROVE  Meet(a, b)'
  <2>1. /\ Meets(a, b)' /\ Meets(b, a)' /\ NeverOpens(a)'
        /\ Engaged(a, b)' <=> Engaged(a, b)
        /\ Engaged(b, a)' <=> Engaged(b, a)
        /\ Obtained(b, a)' => Obtained(b, a)
    BY <1>1, <1>4, SameMeets
  <2>2. /\ From(a, b)' /\ From(b, a)' /\ NoStop'
        /\ Mails(b, "ACK")' # {} => Mails(b, "ACK") # {}
    BY <1>1, <1>4, FewerFrom
  <2>3. Heard(b, a)' => Engaged(a, b)'
    BY <1>1, <2>1, <2>2 DEF Heard
  <2> QED
    BY <1>1, <1>4, <2>1, <2>2, <2>3 DEF Meet
<1>5. ASSUME NEW m \in Machines \ {a, b}, Step(Main(m)) PROVE Meet(a, b)'
  <2>1. UNCHANGED <<mailVars, connectedID, stopping>> /\ Mute(m)'
    BY <1>1, <1>5, MuteStep
  <2>2. ~stopping'[m]
    BY <1>1, <2>1 DEF Calm
  <2>3. Domains' /\ Calm' /\ \A n \in Machines : n # m => SameView(n)
    BY <1>1, <1>5, <2>2, MainFrame
  <2>4. \A n \in Machines \ {a, b} : Mute(n)'
    BY <1>1, <2>1, <2>3, SameMeets
  <2> QED
    BY <1>1, <1>4, <2>1, <2>3, <2>4, SameMail
<1>6. ASSUME NEW m \in Listeners, Step(<<m, "listener">>) PROVE Meet(a, b)'
  <2> DEFINE t == <<m, "listener">>
  <2>1. t \in Threads /\ m \in Machines
    BY MachinesAssumption DEF Threads
  <2>2. /\ UNCHANGED <<mailVars, connectedID, stopping, script, received, ret>>
        /\ call'[t] = "ListenForEndConnection" /\ pc'[t] = "Receive"
    BY <1>1, <1>6, ListenerStep
  <2>3. Domains' /\ Frame(t)
    BY <1>1, <1>6, <2>1, StepFrame
  <2>4. \A n \in Machines : SameView(n)
    BY <2>2, <2>3 DEF Frame, SameView, SameMachine, Main, Threads
  <2>5. \A n \in Listeners : n # m => SameThread(<<n, "listener">>)
    BY <2>3 DEF Frame, Threads
  <2>6. Calm'
    BY <1>1, <2>2, <2>5 DEF Calm, SameThread
  <2>7. \A n \in Machines \ {a, b} : Mute(n)'
    BY <1>1, <2>4, SameMeets
  <2> QED
    BY <1>1, <1>4, <2>2, <2>3, <2>4, <2>6, <2>7, SameMail
<1>7. ASSUME Fewer, MailTypes', UNCHANGED <<callVars, pc, loc>> PROVE Meet(a, b)'
  <2>1. \A n \in Machines : SameView(n)
    BY <1>7 DEF SameView, SameThread, SameMachine, callVars
  <2>2. Domains' /\ Calm'
    BY <1>1, <1>7 DEF Domains, Calm, callVars
  <2>3. \A n \in Machines \ {a, b} : Mute(n)'
    BY <1>1, <2>1, SameMeets
  <2> QED
    BY <1>1, <1>4, <1>7, <2>1, <2>2, <2>3
<1>8. ASSUME NEW t \in Threads, Step(t) PROVE Meet(a, b)'
  BY <1>2, <1>3, <1>5, <1>6, <1>8 DEF Threads, Main
<1>9. ASSUME NEW m \in Machines, WakeUpHandler(m) \/ Deliver(m) PROVE Meet(a, b)'
  <2>1. Fewer /\ MailTypes' /\ UNCHANGED <<callVars, pc, loc>>
    BY <1>1, <1>9, SameMail, DeliverFewer DEF WakeUpHandler, Deliver
  <2> QED
    BY <1>7, <2>1
<1>10. CASE UNCHANGED vars
  <2>1. Fewer /\ MailTypes' /\ UNCHANGED <<callVars, pc, loc>>
    BY <1>1, <1>10, SameMail DEF vars
  <2> QED
    BY <1>7, <2>1
<1> QED
  BY <1>8, <1>9, <1>10 DEF Next, Quiet

LEMMA MeetAgrees ==
  ASSUME NEW a, NEW b, Meet(a, b)
  PROVE  HandshakeAgreement
<1>1. /\ a \in Machines /\ b \in Machines /\ NoMachine \notin Machines
      /\ connectedID[a] \in {NoMachine, b} /\ connectedID[b] \in {NoMachine, a}
      /\ \A m \in Machines \ {a, b} : connectedID[m] = NoMachine
      /\ ret[a]["OpenConnection"] = "none"
  BY MachinesAssumption DEF Meet, Meets, Mute, NeverOpens
<1>2. connectedID[b] = a => Engaged(a, b)
  BY DEF Meet, Heard, Engaged
<1> QED
  BY <1>1, <1>2 DEF HandshakeAgreement, Engaged

-----------------------------------------------------------------------------
(* Two machines that meet agree on it: whatever is lost, and whoever gives *)
(* up and tries again, b is connected only if a, whose SyncWithMachine has *)
(* answered b's SYNC, is connected or about to be (OpenConnection,         *)
(* tcp.cc).                                                                *)
THEOREM Agreement ==
  ASSUME \A s \in Scripts : \E a, b \in Machines : Meeting(s, a, b)
  PROVE  Spec => []HandshakeAgreement
<1> DEFINE Inv == \E a, b \in Machines : Meet(a, b)
<1>1. Init => Inv
  <2> SUFFICES ASSUME Init PROVE Inv
    OBVIOUS
  <2>1. PICK a \in Machines, b \in Machines : Meeting(script, a, b)
    BY DEF Init
  <2> QED
    BY <2>1, MeetInit
<1>2. Inv /\ [Next]_vars => Inv'
  BY MeetStep
<1>3. Inv => HandshakeAgreement
  BY MeetAgrees
<1> QED
  BY <1>1, <1>2, <1>3, PTL DEF Spec

=============================================================================
