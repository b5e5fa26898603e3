--------------------------------- MODULE TCP --------------------------------
(***************************************************************************)
(* TCPostOffice (network/tcp.cc): connections and strings over the post    *)
(* office, with acknowledgements, time-outs and re-emissions.  The post    *)
(* office is LossyMail, which module PostOffice implements.                *)
(*                                                                         *)
(* Each machine runs a script of calls in its main thread, and may run     *)
(* ListenForEndConnection in a second one.  All waits of a machine share   *)
(* waitSem and stopSem: a thread schedules WakeUpHandler, which V()s both, *)
(* and P()s first stopSem and then waitSem.  Machines are UNIX processes   *)
(* with clocks of their own, so nothing is known of how many time-outs of  *)
(* one fit into a step of the other.                                       *)
(*                                                                         *)
(* Of the data, what is kept is the first character, "token", which is all *)
(* the code compares, and which piece of the string or file it is.  Files  *)
(* are text: no piece of them holds a null character.                      *)
(***************************************************************************)
EXTENDS Integers, Sequences, FiniteSets

CONSTANTS
    Machines,       \* the machines
    Id,             \* [Machines -> Nat], TCPostOffice::id
    NoMachine,      \* connectedID = -1
    Scripts,        \* set of [Machines -> Seq(calls)], what the main threads call
    Listeners,      \* the machines that listen for the end of a connection
    Token,          \* [1 .. number of pieces -> Nat], first characters
    InfoToken,      \* the first digit of the number of pieces
    MaxCatch,       \* MAXCATCH, 20
    MaxReemissions, \* MAXREEMISSIONS, 200
    MaxConnectionReemissions  \* MAXCONNECTIONREEMISSIONS, 50

nbPieces == Len(Token)

ASSUME LimitsAssumption ==
    /\ MaxCatch \in Nat \ {0}
    /\ MaxReemissions \in Nat \ {0}
    /\ MaxConnectionReemissions \in Nat \ {0}
ASSUME TokenAssumption ==
    /\ Token \in Seq(Nat) /\ Token # <<>>  \* CutString's out[pieces-1]
    /\ InfoToken \in Nat
    /\ Id \in [Machines -> Nat]
ASSUME MachinesAssumption == NoMachine \notin Machines /\ Listeners \subseteq Machines

Calls == [call : {"SyncWithMachine"}, target : Machines]
         \cup [call : {"OpenConnection", "EndConnection", "SendString", "ReceiveString",
                    "SendFile", "ReceiveFile"}]

ASSUME ScriptAssumption == Scripts \subseteq [Machines -> Seq(Calls)]

Boxes == {"MSG", "STRING_INFO", "FILE_INFO", "SYNC", "ACK", "STOP"}

(* A piece number of 0 marks data that is not a piece of the string.       *)
Message == [from : Machines, to : Machines, box : Boxes, token : Nat, piece : 0 .. nbPieces]
Mail(from, to, box, token, piece) ==
    [from |-> from, to |-> to, box |-> box, token |-> token, piece |-> piece]

(* A thread: a machine and a role.                                         *)
Threads == (Machines \X {"main"}) \cup (Listeners \X {"listener"})

VARIABLES
    transit, boxes, \* the post office
    connectedID,    \* [Machines -> Machines \cup {NoMachine}]
    stopping,       \* [Machines -> BOOLEAN], stoppingConnection
    stopSem,        \* [Machines -> Nat]
    waitSem,        \* [Machines -> Nat]
    timers,         \* [Machines -> Nat], WakeUpHandler interrupts scheduled
    script,         \* [Machines -> Seq(Calls)], the calls still to make
    call,           \* [Threads -> call in progress, "idle" or "done"]
    stage,          \* [Threads -> Nat], how far the call has come
    pc,             \* [Threads -> where in a loop the thread is]
    loc,            \* [Threads -> locals of the loops]
    received,       \* [Machines -> the pieces in ReceiveString's result, or
                    \*  written to ReceiveFile's file, and its room for them]
    ret             \* [Machines -> [call names -> "none", "TRUE" or "FALSE"]]

mailVars == <<transit, boxes>>
semVars == <<stopSem, waitSem, timers>>
callVars == <<connectedID, stopping, script, call, stage, received, ret>>
vars == <<mailVars, semVars, callVars, pc, loc>>

M == INSTANCE LossyMail

(* postOffice->Send: the message sets out or is lost.                      *)
Send(msg) == M!Post(msg) \/ UNCHANGED mailVars

(* The locals: the message to send or to answer with, the mailbox to look  *)
(* into, the token that came, and the loops' counters.                     *)
Locals(out, box, limit) ==
    [out |-> out, box |-> box, got |-> 0, limit |-> limit,
     attempts |-> 0, misses |-> 0, caught |-> 0, piece |-> 0]

(* The room of a string is that of its pieces; a file that already existed *)
(* may have less, and a file that cannot be opened has none.               *)
NullFile == -1
Empty(room) == [pieces |-> <<>>, room |-> room]

Goto(t, place) == pc' = [pc EXCEPT ![t] = place]
Set(t, l) == loc' = [loc EXCEPT ![t] = l]
-----------------------------------------------------------------------------
Init ==
    /\ M!MailInit
    /\ connectedID = [m \in Machines |-> NoMachine]
    /\ stopping = [m \in Machines |-> FALSE]
    /\ stopSem = [m \in Machines |-> 0]
    /\ waitSem = [m \in Machines |-> 0]
    /\ timers = [m \in Machines |-> 0]
    /\ script \in Scripts
    /\ call = [t \in Threads |-> "idle"]
    /\ stage = [t \in Threads |-> 0]
    /\ pc = [t \in Threads |-> "idle"]
    /\ loc = [t \in Threads |-> Locals(<<>>, "ACK", 0)]
    /\ received = [m \in Machines |-> Empty(nbPieces)]
    /\ ret = [m \in Machines |->
                [c \in {"SyncWithMachine", "OpenConnection", "EndConnection",
                        "SendString", "ReceiveString", "SendFile", "ReceiveFile"} |-> "none"]]

(* WakeUpHandler.                                                          *)
WakeUpHandler(m) ==
    /\ timers[m] > 0
    /\ timers' = [timers EXCEPT ![m] = @ - 1]
    /\ waitSem' = [waitSem EXCEPT ![m] = @ + 1]
    /\ stopSem' = [stopSem EXCEPT ![m] = @ + 1]
    /\ UNCHANGED <<mailVars, callVars, pc, loc>>

Deliver(m) == M!Deliver(m) /\ UNCHANGED <<semVars, callVars, pc, loc>>

(* Mutant: a machine has one timer, for whichever of its threads.          *)
ScheduleOne(m) == timers' = [timers EXCEPT ![m] = 1] /\ UNCHANGED <<stopSem, waitSem>>

Schedule(m) == timers' = [timers EXCEPT ![m] = @ + 1] /\ UNCHANGED <<stopSem, waitSem>>
-----------------------------------------------------------------------------
(* The four loops.  SendWait and ReceiveWait start, and go on to CatchMail *)
(* and CatchWithAnswer.  "Returned" is the end of all of them; loc[t].got  *)
(* is then read by what called them.                                       *)

(* The head of a loop: what it sends, and Schedule(WakeUpHandler).         *)
SendWaitAgain(t) ==
    /\ pc[t] = "SendWait"
    /\ loc[t].attempts < loc[t].limit
    /\ Send(loc[t].out)
    /\ Schedule(t[1])
    /\ Goto(t, "SendWait.stop")
    /\ UNCHANGED <<callVars, loc>>

SendWaitGivesUp(t) ==
    /\ pc[t] = "SendWait"
    /\ loc[t].attempts = loc[t].limit
    /\ Goto(t, "CatchMail")
    /\ UNCHANGED <<mailVars, semVars, callVars, loc>>

CatchMailAgain(t) ==
    /\ pc[t] = "CatchMail"
    /\ loc[t].misses < MaxCatch
    /\ loc[t].caught < loc[t].attempts
    /\ Schedule(t[1])
    /\ Goto(t, "CatchMail.stop")
    /\ UNCHANGED <<mailVars, callVars, loc>>

ReceiveWaitAgain(t) ==
    /\ pc[t] = "ReceiveWait"
    /\ Schedule(t[1])
    /\ Goto(t, "ReceiveWait.stop")
    /\ UNCHANGED <<mailVars, callVars, loc>>

CatchWithAnswerAgain(t) ==
    /\ pc[t] = "CatchWithAnswer"
    /\ loc[t].misses < MaxCatch
    /\ Schedule(t[1])
    /\ Goto(t, "CatchWithAnswer.stop")
    /\ UNCHANGED <<mailVars, callVars, loc>>

AtStopP(t) ==
    pc[t] \in {"SendWait.stop", "CatchMail.stop", "ReceiveWait.stop",
               "CatchWithAnswer.stop", "gap.stop"}
AtWaitP(t) ==
    pc[t] \in {"SendWait.wait", "CatchMail.wait", "ReceiveWait.wait",
               "CatchWithAnswer.wait", "gap.wait"}

AfterStop(place) ==
    CASE place = "SendWait.stop" -> "SendWait.wait"
      [] place = "CatchMail.stop" -> "CatchMail.wait"
      [] place = "ReceiveWait.stop" -> "ReceiveWait.wait"
      [] place = "CatchWithAnswer.stop" -> "CatchWithAnswer.wait"
      [] place = "gap.stop" -> "gap.wait"

(* Mutant: stoppingConnection is not looked at.                            *)
StopPUntested(t) ==
    /\ AtStopP(t)
    /\ stopSem[t[1]] > 0
    /\ stopSem' = [stopSem EXCEPT ![t[1]] = @ - 1]
    /\ Goto(t, AfterStop(pc[t]))
    /\ UNCHANGED <<mailVars, waitSem, timers, callVars, loc>>

(* stopSem->P() and the test of stoppingConnection, which the pause in     *)
(* SendString does not make; then comes waitSem->P().                      *)
StopP(t) ==
    /\ AtStopP(t)
    /\ stopSem[t[1]] > 0
    /\ stopSem' = [stopSem EXCEPT ![t[1]] = @ - 1]
    /\ IF stopping[t[1]] /\ pc[t] # "gap.stop"
       THEN Goto(t, "FALSE")
       ELSE Goto(t, AfterStop(pc[t]))
    /\ UNCHANGED <<mailVars, waitSem, timers, callVars, loc>>

(* waitSem->P(), and what NoBlockReceive finds in the loop's mailbox.      *)
WaitP(t, place) ==
    /\ pc[t] = place
    /\ waitSem[t[1]] > 0
    /\ waitSem' = [waitSem EXCEPT ![t[1]] = @ - 1]
    /\ UNCHANGED <<stopSem, timers, callVars>>

NoMail(t) == boxes[t[1]][loc[t].box] = <<>> /\ UNCHANGED mailVars
Receives(t) == M!Take(t[1], loc[t].box)
Received(t) == Head(boxes[t[1]][loc[t].box])

(* SendWait: any answer ends the wait; without one it sends again.         *)
SendWaitPolls(t) ==
    /\ WaitP(t, "SendWait.wait")
    /\ \/ /\ NoMail(t)
          /\ Set(t, [loc[t] EXCEPT !.attempts = @ + 1])
          /\ Goto(t, "SendWait")
       \/ /\ Receives(t)
          /\ Set(t, [loc[t] EXCEPT !.got = Received(t).token])
          /\ Goto(t, "CatchMail")

(* Mutant: the attempts are not counted.                                   *)
CatchMailPollsUncounted(t) ==
    /\ WaitP(t, "CatchMail.wait")
    /\ \/ NoMail(t) /\ UNCHANGED loc
       \/ Receives(t) /\ Set(t, [loc[t] EXCEPT !.misses = 0, !.caught = @ + 1])
    /\ Goto(t, "CatchMail")

(* CatchMail: takes the answers to the re-emissions.                       *)
CatchMailPolls(t) ==
    /\ WaitP(t, "CatchMail.wait")
    /\ \/ NoMail(t) /\ Set(t, [loc[t] EXCEPT !.misses = @ + 1])
       \/ Receives(t) /\ Set(t, [loc[t] EXCEPT !.misses = 0, !.caught = @ + 1])
    /\ Goto(t, "CatchMail")

(* Mutant: the token is not compared.                                      *)
SendWaitAnyToken(l) == l.attempts < l.limit

(* SendWait, after CatchMail: its status.                                  *)
SendWaitStatus(l) == l.attempts < l.limit /\ l.got = l.out.token + 1

SendWaitReturns(t) ==
    /\ pc[t] = "CatchMail"
    /\ loc[t].misses = MaxCatch \/ loc[t].caught >= loc[t].attempts
    /\ IF ~stopping[t[1]] /\ SendWaitStatus(loc[t]) THEN Goto(t, "TRUE") ELSE Goto(t, "FALSE")
    /\ UNCHANGED <<mailVars, semVars, callVars, loc>>

(* ReceiveWait: the answer is the token that came plus one.                *)
ReceiveWaitPolls(t) ==
    /\ WaitP(t, "ReceiveWait.wait")
    /\ \/ /\ NoMail(t)
          /\ Goto(t, "ReceiveWait")
          /\ UNCHANGED loc
       \/ /\ Receives(t)
          /\ Set(t, [loc[t] EXCEPT !.out.token = Received(t).token + 1,
                                   !.piece = Received(t).piece])
          /\ Goto(t, "Answer")

(* CatchWithAnswer: answers what looks the same, stops at what does not.   *)
CatchWithAnswerPolls(t) ==
    /\ WaitP(t, "CatchWithAnswer.wait")
    /\ \/ /\ NoMail(t)
          /\ Set(t, [loc[t] EXCEPT !.misses = @ + 1])
          /\ Goto(t, "CatchWithAnswer")
       \/ /\ Receives(t)
          /\ Received(t).token + 1 # loc[t].out.token
          /\ Goto(t, "TRUE")
          /\ UNCHANGED loc
       \/ /\ Receives(t)
          /\ Received(t).token + 1 = loc[t].out.token
          /\ Goto(t, "Answer")
          /\ UNCHANGED loc

(* The answer is sent, and CatchWithAnswer begins or goes on.              *)
Answer(t) ==
    /\ pc[t] = "Answer"
    /\ Send(loc[t].out)
    /\ Set(t, [loc[t] EXCEPT !.misses = 0])
    /\ Goto(t, "CatchWithAnswer")
    /\ UNCHANGED <<semVars, callVars>>

CatchWithAnswerReturns(t) ==
    /\ pc[t] = "CatchWithAnswer"
    /\ loc[t].misses = MaxCatch
    /\ Goto(t, "TRUE")
    /\ UNCHANGED <<mailVars, semVars, callVars, loc>>
-----------------------------------------------------------------------------
(* How a call starts one of the loops.                                     *)
SendWait(t, to, box, token, piece, limit) ==
    /\ Set(t, Locals(Mail(t[1], to, box, token, piece), "ACK", limit))
    /\ Goto(t, "SendWait")

ReceiveWait(t, from, box) ==
    /\ Set(t, Locals(Mail(t[1], from, "ACK", 0, 0), box, 0))
    /\ Goto(t, "ReceiveWait")

Main(m) == <<m, "main">>

(* The main thread makes the next call of its script.                      *)
Calling(t, name) ==
    /\ call[t] = "idle"
    /\ t[2] = "main"
    /\ script[t[1]] # <<>>
    /\ Head(script[t[1]]).call = name
    /\ script' = [script EXCEPT ![t[1]] = Tail(@)]

Starts(t, name) ==
    /\ call' = [call EXCEPT ![t] = name]
    /\ stage' = [stage EXCEPT ![t] = 0]

Refuses(m, name) ==
    /\ ret' = [ret EXCEPT ![m][name] = "FALSE"]
    /\ UNCHANGED <<mailVars, semVars, connectedID, stopping, call, stage, received, pc, loc>>

(* A loop ended, in stage s of a call.                                     *)
Ended(t, name, s, value) == call[t] = name /\ stage[t] = s /\ pc[t] = value
Continues(t, s) == stage' = [stage EXCEPT ![t] = s] /\ UNCHANGED call

Returns(t, value) ==
    /\ ret' = [ret EXCEPT ![t[1]][call[t]] = value]
    /\ call' = [call EXCEPT ![t] = "idle"]
    /\ stage' = [stage EXCEPT ![t] = 0]
    /\ Goto(t, "idle")
    /\ Set(t, Locals(<<>>, "ACK", 0))
-----------------------------------------------------------------------------
(* TCPostOffice::SyncWithMachine: the SYNC is sent until it is answered    *)
(* (stage 0), then the other machine's is waited for (stage 1).            *)
SyncWithMachine(t) ==
    /\ Calling(t, "SyncWithMachine")
    /\ \/ /\ connectedID[t[1]] # NoMachine
          /\ Refuses(t[1], "SyncWithMachine")
       \/ /\ connectedID[t[1]] = NoMachine
          /\ Starts(t, "SyncWithMachine")
          /\ SendWait(t, Head(script[t[1]]).target, "SYNC", 64 + Id[t[1]], 0,
                      MaxConnectionReemissions)
          /\ UNCHANGED <<mailVars, semVars, connectedID, stopping, received, ret>>

SyncAnswered(t) ==
    /\ Ended(t, "SyncWithMachine", 0, "TRUE")
    /\ Continues(t, 1)
    /\ ReceiveWait(t, loc[t].out.to, "SYNC")
    /\ UNCHANGED <<mailVars, semVars, connectedID, stopping, script, received, ret>>

SyncFails(t) ==
    /\ Ended(t, "SyncWithMachine", 0, "FALSE")
    /\ Returns(t, "FALSE")
    /\ UNCHANGED <<mailVars, semVars, connectedID, stopping, script, received>>

SyncReturns(t) ==
    /\ \E value \in {"TRUE", "FALSE"} : Ended(t, "SyncWithMachine", 1, value)
    /\ connectedID' = [connectedID EXCEPT ![t[1]] = loc[t].out.to]
    /\ Returns(t, "TRUE")
    /\ UNCHANGED <<mailVars, semVars, stopping, script, received>>

(* A blocking postOffice->Receive, then the first answer.                  *)
ReceivesFirst(t, name, box) ==
    /\ Ended(t, name, 0, "Receive")
    /\ M!Take(t[1], box)
    /\ LET mail == Head(boxes[t[1]][box]) IN
       Set(t, Locals(Mail(t[1], mail.from, "ACK", mail.token + 1, 0), box, 0))
    /\ Goto(t, "Answer")
    /\ UNCHANGED <<semVars, callVars>>

(* TCPostOffice::OpenConnection: a SYNC is received and answered (stage    *)
(* 0), then one is sent back (stage 1).                                    *)
OpenConnection(t) ==
    /\ Calling(t, "OpenConnection")
    /\ \/ /\ connectedID[t[1]] # NoMachine
          /\ Refuses(t[1], "OpenConnection")
       \/ /\ connectedID[t[1]] = NoMachine
          /\ Starts(t, "OpenConnection")
          /\ Goto(t, "Receive")
          /\ UNCHANGED <<mailVars, semVars, connectedID, stopping, received, ret, loc>>

OpenReceives(t) == ReceivesFirst(t, "OpenConnection", "SYNC")

OpenAnswers(t) ==
    /\ \E value \in {"TRUE", "FALSE"} : Ended(t, "OpenConnection", 0, value)
    /\ Continues(t, 1)
    /\ SendWait(t, loc[t].out.to, "SYNC", 64 + Id[t[1]], 0, MaxConnectionReemissions)
    /\ UNCHANGED <<mailVars, semVars, connectedID, stopping, script, received, ret>>

(* Mutant: connected even if the SYNC was not answered.                    *)
OpenReturnsAnyway(t) ==
    /\ \E value \in {"TRUE", "FALSE"} :
         /\ Ended(t, "OpenConnection", 1, value)
         /\ connectedID' = [connectedID EXCEPT ![t[1]] = loc[t].out.to]
         /\ Returns(t, value)
    /\ UNCHANGED <<mailVars, semVars, stopping, script, received>>

OpenReturns(t) ==
    /\ \E value \in {"TRUE", "FALSE"} :
         /\ Ended(t, "OpenConnection", 1, value)
         /\ connectedID' = IF value = "TRUE"
                           THEN [connectedID EXCEPT ![t[1]] = loc[t].out.to]
                           ELSE connectedID
         /\ Returns(t, value)
    /\ UNCHANGED <<mailVars, semVars, stopping, script, received>>

(* TCPostOffice::EndConnection.                                            *)
EndConnection(t) ==
    /\ Calling(t, "EndConnection")
    /\ \/ /\ connectedID[t[1]] = NoMachine
          /\ Refuses(t[1], "EndConnection")
       \/ /\ connectedID[t[1]] # NoMachine
          /\ Starts(t, "EndConnection")
          /\ stopping' = [stopping EXCEPT ![t[1]] = FALSE]
          /\ SendWait(t, connectedID[t[1]], "STOP", 64 + Id[t[1]], 0, MaxConnectionReemissions)
          /\ UNCHANGED <<mailVars, semVars, connectedID, received, ret>>

EndReturns(t) ==
    /\ \E value \in {"TRUE", "FALSE"} :
         /\ Ended(t, "EndConnection", 0, value)
         /\ connectedID' = IF value = "TRUE"
                           THEN [connectedID EXCEPT ![t[1]] = NoMachine]
                           ELSE connectedID
         /\ Returns(t, value)
    /\ UNCHANGED <<mailVars, semVars, stopping, script, received>>

(* TCPostOffice::ListenForEndConnection, in a thread of its own.           *)
ListenForEndConnection(t) ==
    /\ t[2] = "listener"
    /\ call[t] = "idle"
    /\ Starts(t, "ListenForEndConnection")
    /\ Goto(t, "Receive")
    /\ UNCHANGED <<mailVars, semVars, connectedID, stopping, script, received, ret, loc>>

ListenReceives(t) == ReceivesFirst(t, "ListenForEndConnection", "STOP")

ListenReturns(t) ==
    /\ \E value \in {"TRUE", "FALSE"} : Ended(t, "ListenForEndConnection", 0, value)
    /\ stopping' = [stopping EXCEPT ![t[1]] = TRUE]
    /\ stopSem' = [stopSem EXCEPT ![t[1]] = @ + 1]
    /\ call' = [call EXCEPT ![t] = "done"]
    /\ Goto(t, "idle")
    /\ UNCHANGED <<mailVars, waitSem, timers, connectedID, script, stage, received, ret, loc>>
-----------------------------------------------------------------------------
(* TCPostOffice::SendString: the number of pieces (stage 0), then each     *)
(* piece with SendMessage (its number is the stage), and a pause of        *)
(* MAXCATCH*TEMPO after each.                                              *)
SendString(t) ==
    /\ Calling(t, "SendString")
    /\ \/ /\ connectedID[t[1]] = NoMachine
          /\ Refuses(t[1], "SendString")
       \/ /\ connectedID[t[1]] # NoMachine
          /\ Starts(t, "SendString")
          /\ SendWait(t, connectedID[t[1]], "STRING_INFO", InfoToken, 0, MaxReemissions)
          /\ UNCHANGED <<mailVars, semVars, connectedID, stopping, received, ret>>

SendMessage(t, k) ==
    /\ Continues(t, k)
    /\ SendWait(t, connectedID[t[1]], "MSG", Token[k], k, MaxReemissions)
    /\ UNCHANGED <<mailVars, semVars, connectedID, stopping, script, received, ret>>

(* TCPostOffice::SendFile, of a file that may not be there.                *)
SendFile(t) ==
    /\ Calling(t, "SendFile")
    /\ \/ Refuses(t[1], "SendFile")
       \/ /\ connectedID[t[1]] # NoMachine
          /\ Starts(t, "SendFile")
          /\ SendWait(t, connectedID[t[1]], "FILE_INFO", InfoToken, 0, MaxReemissions)
          /\ UNCHANGED <<mailVars, semVars, connectedID, stopping, received, ret>>

SendInfoAnswered(t, name) ==
    /\ Ended(t, name, 0, "TRUE")
    /\ SendMessage(t, 1)

SendPauses(t, name) ==
    /\ stage[t] > 0
    /\ Ended(t, name, stage[t], "TRUE")
    /\ Schedule(t[1])
    /\ Goto(t, "gap.stop")
    /\ UNCHANGED <<mailVars, callVars, loc>>

SendPaused(t) ==
    /\ WaitP(t, "gap.wait")
    /\ Goto(t, "paused")
    /\ UNCHANGED <<mailVars, loc>>

SendNext(t, name) ==
    /\ Ended(t, name, stage[t], "paused")
    /\ stage[t] < nbPieces
    /\ SendMessage(t, stage[t] + 1)

SendReturns(t, name) ==
    /\ Ended(t, name, nbPieces, "paused")
    /\ Returns(t, "TRUE")
    /\ UNCHANGED <<mailVars, semVars, connectedID, stopping, script, received>>

SendFails(t, name) ==
    /\ Ended(t, name, stage[t], "FALSE")
    /\ stopping' = [stopping EXCEPT ![t[1]] = FALSE]
    /\ Returns(t, "FALSE")
    /\ UNCHANGED <<mailVars, semVars, connectedID, script, received>>

(* TCPostOffice::ReceiveString: the number of pieces, then the pieces,     *)
(* with ReceiveMessage.  The connection's end is noted where it interrupts *)
(* a piece, and not where it interrupts the number.                        *)
ReceiveString(t) ==
    /\ Calling(t, "ReceiveString")
    /\ \/ /\ connectedID[t[1]] = NoMachine
          /\ Refuses(t[1], "ReceiveString")
       \/ /\ connectedID[t[1]] # NoMachine
          /\ Starts(t, "ReceiveString")
          /\ ReceiveWait(t, connectedID[t[1]], "STRING_INFO")
          /\ received' = [received EXCEPT ![t[1]] = Empty(nbPieces)]
          /\ UNCHANGED <<mailVars, semVars, connectedID, stopping, ret>>

(* TCPostOffice::ReceiveMessage.  Its sprintf of a full piece, which has    *)
(* no NUL (tcp.cc:316), is taken to copy the piece.                        *)
ReceiveMessage(t, k) ==
    /\ Continues(t, k)
    /\ ReceiveWait(t, connectedID[t[1]], "MSG")

(* TCPostOffice::ReceiveFile.                                              *)
ReceiveFile(t) ==
    /\ Calling(t, "ReceiveFile")
    /\ \/ /\ connectedID[t[1]] = NoMachine
          /\ Refuses(t[1], "ReceiveFile")
       \/ /\ connectedID[t[1]] # NoMachine
          /\ Starts(t, "ReceiveFile")
          /\ ReceiveWait(t, connectedID[t[1]], "FILE_INFO")
          /\ UNCHANGED <<mailVars, semVars, connectedID, stopping, received, ret>>

(* Mutant: what came is appended in front.                                 *)
AppendInFront(result, piece) == [result EXCEPT !.pieces = <<piece>> \o @]

(* result.append(piece), or f->Write, which does nothing at the file's end.*)
AppendPiece(result, piece) ==
    IF Len(result.pieces) < result.room THEN [result EXCEPT !.pieces = Append(@, piece)]
    ELSE result

(* The result of Create is not looked at: the file may be new, or one of   *)
(* that name with a length of its own, or there is none.                   *)
FileMade == {Empty(nbPieces), Empty(nbPieces - 1), Empty(NullFile)}

ReceiveInfo(t, name) ==
    /\ Ended(t, name, 0, "TRUE")
    /\ IF name = "ReceiveFile"
       THEN \E file \in FileMade : received' = [received EXCEPT ![t[1]] = file]
       ELSE UNCHANGED received
    /\ ReceiveMessage(t, 1)
    /\ UNCHANGED <<mailVars, semVars, connectedID, stopping, script, ret>>

Stored(t, name) ==
    /\ stage[t] > 0 /\ Ended(t, name, stage[t], "TRUE")
    /\ received[t[1]].room # NullFile
    /\ received' = [received EXCEPT ![t[1]] = AppendPiece(@, loc[t].piece)]

ReceiveNext(t, name) ==
    /\ Stored(t, name)
    /\ stage[t] < nbPieces
    /\ ReceiveMessage(t, stage[t] + 1)
    /\ UNCHANGED <<mailVars, semVars, connectedID, stopping, script, ret>>

ReceiveReturns(t, name) ==
    /\ Stored(t, name)
    /\ stage[t] = nbPieces
    /\ Returns(t, "TRUE")
    /\ UNCHANGED <<mailVars, semVars, connectedID, stopping, script>>

(* f->Write of a null pointer: the machine is gone.                        *)
WriteCrashes(t) ==
    /\ stage[t] > 0 /\ Ended(t, "ReceiveFile", stage[t], "TRUE")
    /\ received[t[1]].room = NullFile
    /\ Goto(t, "crashed")
    /\ UNCHANGED <<mailVars, semVars, callVars, loc>>

ReceiveFails(t, name) ==
    /\ Ended(t, name, stage[t], "FALSE")
    /\ stopping' = IF stage[t] = 0 THEN stopping ELSE [stopping EXCEPT ![t[1]] = FALSE]
    /\ Returns(t, "FALSE")
    /\ UNCHANGED <<mailVars, semVars, connectedID, script, received>>
-----------------------------------------------------------------------------
Loops(t) ==
    \/ SendWaitAgain(t)
    \/ SendWaitGivesUp(t)
    \/ CatchMailAgain(t)
    \/ ReceiveWaitAgain(t)
    \/ CatchWithAnswerAgain(t)
    \/ StopP(t)
    \/ SendWaitPolls(t)
    \/ CatchMailPolls(t)
    \/ SendWaitReturns(t)
    \/ ReceiveWaitPolls(t)
    \/ CatchWithAnswerPolls(t)
    \/ Answer(t)
    \/ CatchWithAnswerReturns(t)

Connection(t) ==
    \/ SyncWithMachine(t)
    \/ SyncAnswered(t)
    \/ SyncFails(t)
    \/ SyncReturns(t)
    \/ OpenConnection(t)
    \/ OpenReceives(t)
    \/ OpenAnswers(t)
    \/ OpenReturns(t)
    \/ EndConnection(t)
    \/ EndReturns(t)
    \/ ListenForEndConnection(t)
    \/ ListenReceives(t)
    \/ ListenReturns(t)

Sends(t, name) ==
    \/ SendInfoAnswered(t, name)
    \/ SendPauses(t, name)
    \/ SendNext(t, name)
    \/ SendReturns(t, name)
    \/ SendFails(t, name)

Obtains(t, name) ==
    \/ ReceiveInfo(t, name)
    \/ ReceiveNext(t, name)
    \/ ReceiveReturns(t, name)
    \/ ReceiveFails(t, name)

Strings(t) ==
    \/ SendString(t) \/ Sends(t, "SendString") \/ SendPaused(t)
    \/ ReceiveString(t) \/ Obtains(t, "ReceiveString")

Files(t) ==
    \/ SendFile(t) \/ Sends(t, "SendFile")
    \/ ReceiveFile(t) \/ Obtains(t, "ReceiveFile") \/ WriteCrashes(t)

Step(t) == Loops(t) \/ Connection(t) \/ Strings(t) \/ Files(t)

(* Every script has come to its end or to a message that does not come.    *)
Waits(t) ==
    \/ call[t] = "done"
    \/ call[t] = "idle" /\ t[2] = "main" /\ script[t[1]] = <<>>
    \/ pc[t] \in {"Receive", "crashed"}
Quiet ==
    /\ \A t \in Threads : Waits(t)
    /\ UNCHANGED vars

Next ==
    \/ \E t \in Threads : Step(t)
    \/ \E m \in Machines : WakeUpHandler(m) \/ Deliver(m)
    \/ Quiet

Spec == Init /\ [][Next]_vars

(* Interrupts are delivered, a thread that can run does, and a semaphore   *)
(* wakes its waiters in FIFO order.  Mail need not arrive.                 *)
Fairness ==
    /\ \A m \in Machines : WF_vars(WakeUpHandler(m))
    /\ \A t \in Threads : SF_vars(Step(t))

FairSpec == Spec /\ Fairness
-----------------------------------------------------------------------------
TypeOK ==
    /\ transit \in [Machines -> Seq(Message)]
    /\ boxes \in [Machines -> [Boxes -> Seq(Message)]]
    /\ connectedID \in [Machines -> Machines \cup {NoMachine}]
    /\ stopping \in [Machines -> BOOLEAN]
    /\ stopSem \in [Machines -> Nat]
    /\ waitSem \in [Machines -> Nat]
    /\ timers \in [Machines -> Nat]
    /\ stage \in [Threads -> 0 .. nbPieces + 1]
    /\ received \in [Machines -> [pieces : Seq(1 .. nbPieces), room : NullFile .. nbPieces]]

AtStop(m) == {t \in Threads : t[1] = m /\ AtStopP(t)}
AtWait(m) == {t \in Threads : t[1] = m /\ AtWaitP(t)}

(* No thread waits for a wake-up that does not come: for each one that is  *)
(* at stopSem->P(), or at waitSem->P(), there is a V() or an interrupt     *)
(* that will make it, although the main thread and the listener take each  *)
(* other's.                                                                *)
WakeUpForEachWait ==
    \A m \in Machines :
        /\ timers[m] + stopSem[m] >= Cardinality(AtStop(m))
        /\ timers[m] + waitSem[m] >= Cardinality(AtStop(m)) + Cardinality(AtWait(m))

(* What a machine has of the string or file: the pieces of its result, and *)
(* the one whose ReceiveMessage has not returned yet.                      *)
Receiving(m) == call[Main(m)] \in {"ReceiveString", "ReceiveFile"}
Got(m) ==
    (IF Receiving(m) /\ loc[Main(m)].piece > 0
     THEN AppendPiece(received[m], loc[Main(m)].piece) ELSE received[m]).pieces

(* When SendString or SendFile returns true, the other machine has         *)
(* received exactly the pieces of the string or file, in order and once    *)
(* each, and written them as far as its file has room, provided that no    *)
(* two messages in a row begin with the same character: losses, time-outs  *)
(* and answers that come late can make it return false, and never make it  *)
(* return true for what did not arrive.                                    *)
SendReliable ==
    \A m, n \in Machines, name \in {"SendString", "SendFile"} :
        connectedID[m] = n /\ ret[m][name] = "TRUE" /\ received[n].room # NullFile
            => Got(n) = [k \in 1 .. received[n].room |-> k]

(* Pieces may be duplicated and left out, but not reordered.               *)
PiecesInOrder ==
    \A m \in Machines : \A i, j \in DOMAIN Got(m) : i < j => Got(m)[i] <= Got(m)[j]

(* When OpenConnection succeeds, the machine it names has had its SYNC     *)
(* answered by this one: it is connected to this one or about to be.       *)
HandshakeAgreement ==
    \A m, n \in Machines :
        connectedID[n] = m /\ ret[n]["OpenConnection"] # "none" =>
            \/ connectedID[m] = n
            \/ call[Main(m)] = "SyncWithMachine" /\ stage[Main(m)] = 1

(* Once the listener has seen the STOP, a string is not waited for in      *)
(* vain: ReceiveString leaves whichever of its waits it is in, although    *)
(* the listener's V() may be taken by a wait that does not look at         *)
(* stoppingConnection again.                                               *)
StopEndsReceive ==
    \A m \in Listeners :
        (call[<<m, "listener">>] = "done" /\ call[Main(m)] = "ReceiveString")
            ~> (call[Main(m)] = "idle")

(* "This call does not block" (tcp.cc:266): SendString, SendFile,          *)
(* EndConnection and the sending half of SyncWithMachine give up or        *)
(* succeed, whatever piece they are at.                                    *)
InSendingCall(m) ==
    \/ call[Main(m)] \in {"SendString", "SendFile", "EndConnection"}
    \/ call[Main(m)] = "SyncWithMachine" /\ stage[Main(m)] = 0
SendersReturn == \A m \in Machines : InSendingCall(m) ~> ~InSendingCall(m)
-----------------------------------------------------------------------------
(* A conversation: after they have connected, one machine sends a string   *)
(* or a file and one receives it.  What they receive next starts a result  *)
(* of its own, and the STOP of a machine that ends the connection may make *)
(* the other one drop the last piece, which it has acknowledged.           *)
Connecting == {"SyncWithMachine", "OpenConnection"}
Sending == {"SendString", "SendFile"}
Obtaining == {"ReceiveString", "ReceiveFile"}

(* No call of the first set and at most one of the second is made; or this *)
(* is so after the first call that connects.                               *)
Limited(calls, never, once) ==
    \A i \in DOMAIN calls :
        /\ calls[i].call \notin never
        /\ calls[i].call \in once => \A j \in DOMAIN calls : i < j => calls[j].call \notin once
Polite(calls, never, once) ==
    \A i, j \in DOMAIN calls : calls[i].call \in Connecting /\ i < j =>
        /\ calls[j].call \notin never
        /\ calls[j].call \in once => \A k \in DOMAIN calls : j < k => calls[k].call \notin once
Refused(calls) == \A i \in DOMAIN calls : calls[i].call \notin Connecting

(* Once machine a, or b, has tried to connect, a sends at most once and    *)
(* does not receive, b receives at most once and does not send, and        *)
(* neither ends the connection.  The other machines do not connect.        *)
NotSender == Obtaining \cup {"EndConnection"}
NotReceiver == Sending \cup {"EndConnection"}
Conversation(scripts, a, b) ==
    /\ a # b
    /\ Polite(scripts[a], NotSender, Sending)
    /\ Polite(scripts[b], NotReceiver, Obtaining)
    /\ \A m \in Machines \ {a, b} : Refused(scripts[m])

(* A meeting: machine a only calls SyncWithMachine, and b opens or syncs;  *)
(* they name each other, and once they have tried to connect neither ends  *)
(* the connection.  The other machines do not connect.                     *)
Bound(calls, target) ==
    /\ \A i \in DOMAIN calls : calls[i].call = "SyncWithMachine" => calls[i].target = target
    /\ Polite(calls, {"EndConnection"}, {})
Meeting(scripts, a, b) ==
    /\ a # b
    /\ Bound(scripts[a], b) /\ Bound(scripts[b], a)
    /\ \A i \in DOMAIN scripts[a] : scripts[a][i].call # "OpenConnection"
    /\ \A m \in Machines \ {a, b} : Refused(scripts[m])

(* InfoToken is a digit, and no message begins like the one before it.     *)
Distinct ==
    /\ InfoToken < 64 /\ Token[1] # InfoToken
    /\ \A k \in 1 .. nbPieces - 1 : Token[k] # Token[k + 1]
-----------------------------------------------------------------------------
(* "Return value indicates wether the message was sent successfully or     *)
(* not" (tcp.cc:264), whatever the data.                                   *)
SentMeansReceived == SendReliable
=============================================================================
