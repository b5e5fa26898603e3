------------------------------ MODULE Console ------------------------------
(* The simulated console, machine/console.cc, and threads of the kernel    *)
(* that use it as its handlers are meant for: a reader waits for           *)
(* readHandler's V() and calls GetChar, a writer holds a lock, calls       *)
(* PutChar and waits for writeHandler's V().                               *)
(*                                                                         *)
(* Interrupts are off or the thread is in the kernel where it must not be  *)
(* disturbed: a call of GetChar or PutChar is a step.                      *)
EXTENDS Integers, Sequences, FiniteSets

CONSTANTS
    Readers, Writers,   \* threads
    NoThread,
    Chars,              \* characters that can be typed
    EOF,                \* (char) -1: no character, and one that can be typed
    Output,             \* what each writer writes: a sequence of characters
    MaxTyped,           \* bound on the characters typed
    MaxAnnounced        \* bound on the V()s that are not taken

ASSUME ConsoleAssumption ==
    /\ Readers \cap Writers = {} /\ NoThread \notin Readers \cup Writers
    /\ IsFiniteSet(Readers)
    /\ Output \in [Writers -> Seq(Chars)]
    /\ MaxTyped \in Nat /\ MaxAnnounced \in Nat

VARIABLES
    typed,              \* what the user has typed
    keyboard,           \* what of it Nachos has not read from the file
    closed,             \* the end of the keyboard's file follows
    incoming, putBusy,
    writeInt,           \* a ConsoleWriteInt is scheduled
    readAvail, writeDone,   \* semaphores
    lock,               \* the writers' lock
    pc,
    got,                \* characters the readers have got
    display,            \* characters in the display's file
    output              \* what each writer still has to write

input == <<typed, keyboard, closed>>
vars == <<input, incoming, putBusy, writeInt, readAvail, writeDone, lock, pc, got, display, output>>

Init ==
    /\ typed = <<>> /\ keyboard = <<>> /\ closed = FALSE
    /\ incoming = EOF /\ putBusy = FALSE /\ writeInt = FALSE
    /\ readAvail = 0 /\ writeDone = 0
    /\ lock = NoThread
    /\ pc = [t \in Readers \cup Writers |-> IF t \in Readers THEN "wait" ELSE "idle"]
    /\ got = <<>> /\ display = <<>>
    /\ output = Output

Goto(t, l) == pc' = [pc EXCEPT ![t] = l]
-----------------------------------------------------------------------------
(* The user types a character, or the keyboard's file ends.                *)
Type ==
    /\ ~closed
    /\ \/ /\ Len(typed) < MaxTyped
          /\ \E c \in Chars \cup {EOF} :
                typed' = Append(typed, c) /\ keyboard' = Append(keyboard, c)
          /\ UNCHANGED closed
       \/ closed' = TRUE /\ UNCHANGED <<typed, keyboard>>
    /\ UNCHANGED <<incoming, putBusy, writeInt, readAvail, writeDone, lock, pc, got, display, output>>

(* Mutant: the buffer is not looked at.                                    *)
CheckCharAvailOverwrites ==
    /\ keyboard # <<>>
    /\ incoming' = Head(keyboard) /\ keyboard' = Tail(keyboard)
    /\ readAvail < MaxAnnounced /\ readAvail' = readAvail + 1
    /\ UNCHANGED <<typed, closed, putBusy, writeInt, writeDone, lock, pc, got, display, output>>

(* Mutant: only the first character is announced.                          *)
CheckCharAvailSilent ==
    /\ incoming = EOF
    /\ keyboard # <<>> \/ closed
    /\ keyboard' = IF keyboard = <<>> THEN keyboard ELSE Tail(keyboard)
    /\ incoming' = IF keyboard = <<>> THEN EOF ELSE Head(keyboard)
    /\ readAvail < MaxAnnounced
    /\ readAvail' = IF got = <<>> THEN readAvail + 1 ELSE readAvail
    /\ UNCHANGED <<typed, closed, putBusy, writeInt, writeDone, lock, pc, got, display, output>>

(* A ConsoleReadInt: polls the file if nothing is buffered.  A file at its *)
(* end can always be read, and gives no character.                         *)
CheckCharAvail ==
    /\ incoming = EOF
    /\ keyboard # <<>> \/ closed
    /\ keyboard' = IF keyboard = <<>> THEN keyboard ELSE Tail(keyboard)
    /\ incoming' = IF keyboard = <<>> THEN EOF ELSE Head(keyboard)
    /\ readAvail < MaxAnnounced
    /\ readAvail' = readAvail + 1
    /\ UNCHANGED <<typed, closed, putBusy, writeInt, writeDone, lock, pc, got, display, output>>

(* Mutant: the writer is woken before the device is free.                  *)
WriteDoneEarly ==
    /\ writeInt
    /\ writeInt' = FALSE
    /\ writeDone' = writeDone + 1
    /\ UNCHANGED <<input, incoming, putBusy, readAvail, lock, pc, got, display, output>>

(* A ConsoleWriteInt.                                                      *)
WriteDone ==
    /\ writeInt
    /\ writeInt' = FALSE
    /\ putBusy' = FALSE
    /\ writeDone' = writeDone + 1
    /\ UNCHANGED <<input, incoming, readAvail, lock, pc, got, display, output>>
-----------------------------------------------------------------------------
(* A reader waits, and takes what is there.                                *)
ReadP(t) ==
    /\ pc[t] = "wait" /\ readAvail > 0
    /\ readAvail' = readAvail - 1
    /\ Goto(t, "get")
    /\ UNCHANGED <<input, incoming, putBusy, writeInt, writeDone, lock, got, display, output>>

GetChar(t) ==
    /\ pc[t] = "get"
    /\ got' = IF incoming = EOF THEN got ELSE Append(got, incoming)
    /\ incoming' = EOF
    /\ Goto(t, "wait")
    /\ UNCHANGED <<input, putBusy, writeInt, readAvail, writeDone, lock, display, output>>

(* A writer, a character at a time.                                        *)
Acquire(t) ==
    /\ pc[t] = "idle" /\ output[t] # <<>>
    /\ lock = NoThread
    /\ lock' = t
    /\ Goto(t, "put")
    /\ UNCHANGED <<input, incoming, putBusy, writeInt, readAvail, writeDone, got, display, output>>

(* ASSERT(putBusy == FALSE).                                               *)
PutChar(t) ==
    /\ pc[t] = "put" /\ ~putBusy
    /\ display' = Append(display, Head(output[t]))
    /\ output' = [output EXCEPT ![t] = Tail(@)]
    /\ putBusy' = TRUE
    /\ writeInt' = TRUE
    /\ Goto(t, "written")
    /\ UNCHANGED <<input, incoming, readAvail, writeDone, lock, got>>

WriteP(t) ==
    /\ pc[t] = "written" /\ writeDone > 0
    /\ writeDone' = writeDone - 1
    /\ Goto(t, "release")
    /\ UNCHANGED <<input, incoming, putBusy, writeInt, readAvail, lock, got, display, output>>

(* Mutant: the lock is kept.                                               *)
ReleaseForgotten(t) ==
    /\ pc[t] = "release"
    /\ Goto(t, "idle")
    /\ UNCHANGED <<input, incoming, putBusy, writeInt, readAvail, writeDone, lock, got, display, output>>

Release(t) ==
    /\ pc[t] = "release"
    /\ lock' = NoThread
    /\ Goto(t, "idle")
    /\ UNCHANGED <<input, incoming, putBusy, writeInt, readAvail, writeDone, got, display, output>>

Quiet ==
    /\ closed /\ keyboard = <<>> /\ \A t \in Writers : output[t] = <<>> /\ pc[t] = "idle"
    /\ UNCHANGED vars

Reader(t) == ReadP(t) \/ GetChar(t)
Writer(t) == Acquire(t) \/ PutChar(t) \/ WriteP(t) \/ Release(t)
Device == CheckCharAvail \/ WriteDone

Next ==
    \/ Type \/ Device \/ Quiet
    \/ \E t \in Readers : Reader(t)
    \/ \E t \in Writers : Writer(t)

(* Interrupts that are scheduled come, threads that can run do; a          *)
(* semaphore and a lock serve those who wait in turn.                      *)
Fairness ==
    /\ WF_vars(CheckCharAvail) /\ WF_vars(WriteDone)
    /\ \A t \in Readers : SF_vars(ReadP(t)) /\ WF_vars(GetChar(t))
    /\ \A t \in Writers :
          SF_vars(Acquire(t)) /\ WF_vars(PutChar(t)) /\ WF_vars(WriteP(t)) /\ WF_vars(Release(t))

Spec == Init /\ [][Next]_vars /\ Fairness
-----------------------------------------------------------------------------
(* PROPERTIES.                                                             *)
(* The polling interrupt never reads over a character (console.cc:92):     *)
(* what readers have got and what is in the buffer are the characters read *)
(* from the file that do not look like EOF, each once and in order, and    *)
(* what was typed after them is still in the file.                         *)
Read == Len(typed) - Len(keyboard)
Taken == IF incoming = EOF THEN got ELSE Append(got, incoming)
NoCharLost ==
    /\ keyboard = [k \in 1 .. Len(keyboard) |-> typed[Read + k]]
    /\ \E at \in [1 .. Len(Taken) -> 1 .. Read] :
          /\ \A k, l \in 1 .. Len(Taken) : k < l => at[k] < at[l]
          /\ \A k \in 1 .. Len(Taken) : Taken[k] = typed[at[k]]
          /\ \A p \in 1 .. Read : typed[p] # EOF <=> \E k \in 1 .. Len(Taken) : at[k] = p

(* A character in the buffer has been announced by a V() that is there, or *)
(* that a reader has taken: it is never left for want of a wake-up.        *)
BufferedIsAnnounced ==
    incoming # EOF => readAvail + Cardinality({t \in Readers : pc[t] = "get"}) > 0

(* Two writers and the interrupt: no PutChar meets ASSERT(putBusy ==       *)
(* FALSE) (console.cc:139), and the wake-up is that of one's own character.*)
PutCharNotBusy ==
    \A t \in Writers :
        /\ pc[t] = "put" => ~putBusy /\ writeDone = 0
        /\ pc[t] = "written" => (writeInt /\ putBusy) \/ writeDone = 1

(* The inductive invariant: the lock is held from Acquire to Release, and  *)
(* only the one who holds it has a character at the device, or its V().    *)
TypeOK ==
    /\ putBusy \in BOOLEAN /\ writeInt \in BOOLEAN
    /\ readAvail \in Nat /\ writeDone \in Nat
    /\ pc \in [Readers \cup Writers -> {"wait", "get", "idle", "put", "written", "release"}]
LockHolder ==
    /\ lock \in Writers \cup {NoThread}
    /\ \A t \in Writers :
         pc[t] \in {"idle"} \cup (IF lock = t THEN {"put", "written", "release"} ELSE {})
    /\ lock # NoThread => pc[lock] # "idle"
AtDevice == lock # NoThread /\ pc[lock] = "written"
OneWakeUp ==
    /\ writeInt = putBusy
    /\ ~AtDevice => ~putBusy /\ writeDone = 0
    /\ AtDevice => writeDone = IF putBusy THEN 0 ELSE 1
Announced == incoming # EOF => readAvail > 0 \/ \E t \in Readers : pc[t] = "get"
IInv == TypeOK /\ LockHolder /\ OneWakeUp /\ Announced

(* Every character typed reaches a reader, every writer comes to its end.  *)
Visible(s) == SelectSeq(s, LAMBDA c : c # EOF)
CharsArrive ==
    \A n \in 1..MaxTyped : Len(Visible(typed)) >= n ~> Len(got) >= n
WritesReturn == <>(\A t \in Writers : output[t] = <<>> /\ pc[t] = "idle")
=============================================================================
