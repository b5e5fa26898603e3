----------------------------- MODULE PostOffice -----------------------------
(***************************************************************************)
(* The network device (machine/network.cc) and the post office on top of   *)
(* it (network/post.cc), on every machine of a network.                    *)
(*                                                                         *)
(* A thread in Send takes sendLock, gives its packet to the device, waits  *)
(* for the interrupt that says the next packet may be sent, and releases   *)
(* the lock.  The device drops the packet or puts it on the socket of the  *)
(* destination.  There a periodic interrupt moves one packet at a time     *)
(* from the socket to the device's inbox and wakes the postal worker, a    *)
(* thread that moves it on to its mailbox.                                 *)
(*                                                                         *)
(* Lock, Semaphore and SynchList are not part of the repository, and the   *)
(* UNIX datagram socket is outside it: a queue that keeps what it is given,*)
(* in order.  Interrupts are delivered only when simulated time advances,  *)
(* so Network::Receive is one step.                                        *)
(***************************************************************************)
EXTENDS Integers, Sequences

CONSTANTS Machines,    \* machines on the network
          Threads,     \* kernel threads that call Send
          Home,        \* [Threads -> Machines], where each thread runs
          Boxes,       \* mailbox numbers, 0 .. numBoxes-1
          MaxSends,    \* bound: calls of Send per thread
          NoThread     \* the holder of a lock that is free

ASSUME HomeAssumption == Home \in [Threads -> Machines]
ASSUME ThreadsAssumption == NoThread \notin Threads
ASSUME MaxSendsAssumption == MaxSends \in Nat

(* A mail: packet and mail header, and the sender's count for its data.    *)
Message == [from : Threads, to : Machines, box : Boxes, seq : 1 .. MaxSends]

VARIABLES
    pc,               \* [Threads -> PCs], where each sender is in Send
    sent,             \* [Threads -> 0 .. MaxSends], its calls so far
    mail,             \* [Threads -> Seq(Message)], what it sends, <<>> when idle
    sendLock,         \* [Machines -> holder], PostOffice::sendLock
    messageSent,      \* [Machines -> Nat], a semaphore's value
    sendInt,          \* [Machines -> Nat], NetworkSendInt interrupts scheduled
    sendBusy,         \* [Machines -> BOOLEAN], Network::sendBusy
    socket,           \* [Machines -> Seq(Message)], the UNIX socket
    inbox,            \* [Machines -> Seq(Message)], inHdr and inbox, <<>> when
                      \*   inHdr.length = 0
    messageAvailable, \* [Machines -> Nat], a semaphore's value
    worker,           \* [Machines -> {"P", "Receive", "Put"}], the postal worker
    buffer,           \* [Machines -> Seq(Message)], what the worker has in hand
    boxes             \* [Machines -> [Boxes -> Seq(Message)]]

senderVars == <<pc, sent, mail, sendLock, messageSent, sendInt, sendBusy>>
receiverVars == <<inbox, messageAvailable, worker, buffer, boxes>>
vars == <<senderVars, socket, receiverVars>>

PCs == {"idle", "Acquire", "Send", "P", "Release"}

Move(t, from, to) == pc[t] = from /\ pc' = [pc EXCEPT ![t] = to]
-----------------------------------------------------------------------------
(* The state the constructors of PostOffice, MailBox and Network leave.    *)
Init ==
    /\ pc = [t \in Threads |-> "idle"]
    /\ sent = [t \in Threads |-> 0]
    /\ mail = [t \in Threads |-> <<>>]
    /\ sendLock = [m \in Machines |-> NoThread]
    /\ messageSent = [m \in Machines |-> 0]
    /\ sendInt = [m \in Machines |-> 0]
    /\ sendBusy = [m \in Machines |-> FALSE]
    /\ socket = [m \in Machines |-> <<>>]
    /\ inbox = [m \in Machines |-> <<>>]
    /\ messageAvailable = [m \in Machines |-> 0]
    /\ worker = [m \in Machines |-> "P"]
    /\ buffer = [m \in Machines |-> <<>>]
    /\ boxes = [m \in Machines |-> [b \in Boxes |-> <<>>]]

(* PostOffice::Send is called with a legal header: its ASSERTs on the box  *)
(* number and the length hold, and pktHdr.from and length are filled in.   *)
Call(t, to, box) ==
    /\ sent[t] < MaxSends
    /\ Move(t, "idle", "Acquire")
    /\ sent' = [sent EXCEPT ![t] = @ + 1]
    /\ mail' = [mail EXCEPT ![t] =
                  <<[from |-> t, to |-> to, box |-> box, seq |-> sent[t] + 1]>>]
    /\ UNCHANGED <<sendLock, messageSent, sendInt, sendBusy, socket, receiverVars>>

(* Mutant: the lock is not waited for.                                     *)
AcquireUnlocked(t) ==
    /\ Move(t, "Acquire", "Send")
    /\ sendLock' = [sendLock EXCEPT ![Home[t]] = t]
    /\ UNCHANGED <<sent, mail, messageSent, sendInt, sendBusy, socket, receiverVars>>

(* sendLock->Acquire().                                                    *)
Acquire(t) ==
    /\ sendLock[Home[t]] = NoThread
    /\ Move(t, "Acquire", "Send")
    /\ sendLock' = [sendLock EXCEPT ![Home[t]] = t]
    /\ UNCHANGED <<sent, mail, messageSent, sendInt, sendBusy, socket, receiverVars>>

(* Network::Send: the interrupt is scheduled, then the packet is lost ...  *)
SendLost(t) ==
    /\ Move(t, "Send", "P")
    /\ sendInt' = [sendInt EXCEPT ![Home[t]] = @ + 1]
    /\ UNCHANGED <<sent, mail, sendLock, messageSent, sendBusy, socket, receiverVars>>

(* ... or put on the destination's socket.  sendBusy stays FALSE.          *)
Send(t) ==
    /\ Move(t, "Send", "P")
    /\ mail[t] # <<>>
    /\ sendInt' = [sendInt EXCEPT ![Home[t]] = @ + 1]
    /\ socket' = [socket EXCEPT ![Head(mail[t]).to] = Append(@, Head(mail[t]))]
    /\ UNCHANGED <<sent, mail, sendLock, messageSent, sendBusy, receiverVars>>

(* Network::SendDone, which calls PostOffice::PacketSent, which V()s.      *)
SendDone(m) ==
    /\ sendInt[m] > 0
    /\ sendInt' = [sendInt EXCEPT ![m] = @ - 1]
    /\ sendBusy' = [sendBusy EXCEPT ![m] = FALSE]
    /\ messageSent' = [messageSent EXCEPT ![m] = @ + 1]
    /\ UNCHANGED <<pc, sent, mail, sendLock, socket, receiverVars>>

(* messageSent->P().                                                       *)
P(t) ==
    /\ messageSent[Home[t]] > 0
    /\ Move(t, "P", "Release")
    /\ messageSent' = [messageSent EXCEPT ![Home[t]] = @ - 1]
    /\ UNCHANGED <<sent, mail, sendLock, sendInt, sendBusy, socket, receiverVars>>

(* Mutant: a return that forgets the lock.                                 *)
ReleaseForgotten(t) ==
    /\ Move(t, "Release", "idle")
    /\ mail' = [mail EXCEPT ![t] = <<>>]
    /\ UNCHANGED <<sent, sendLock, messageSent, sendInt, sendBusy, socket, receiverVars>>

(* sendLock->Release(), after which Send returns.                          *)
Release(t) ==
    /\ Move(t, "Release", "idle")
    /\ mail' = [mail EXCEPT ![t] = <<>>]
    /\ sendLock' = [sendLock EXCEPT ![Home[t]] = NoThread]
    /\ UNCHANGED <<sent, messageSent, sendInt, sendBusy, socket, receiverVars>>
-----------------------------------------------------------------------------
(* Mutant: the packet that is buffered is overwritten.                     *)
CheckPktAvailOverwrites(m) ==
    /\ socket[m] # <<>>
    /\ inbox' = [inbox EXCEPT ![m] = <<Head(socket[m])>>]
    /\ socket' = [socket EXCEPT ![m] = Tail(@)]
    /\ messageAvailable' = [messageAvailable EXCEPT ![m] = @ + 1]
    /\ UNCHANGED <<senderVars, worker, buffer, boxes>>

(* Mutant: the packet is not announced.                                    *)
CheckPktAvailSilent(m) ==
    \/ /\ inbox[m] # <<>> \/ socket[m] = <<>>
       /\ UNCHANGED vars
    \/ /\ inbox[m] = <<>>
       /\ socket[m] # <<>>
       /\ inbox' = [inbox EXCEPT ![m] = <<Head(socket[m])>>]
       /\ socket' = [socket EXCEPT ![m] = Tail(@)]
       /\ UNCHANGED <<senderVars, messageAvailable, worker, buffer, boxes>>

(* Network::CheckPktAvail, an interrupt that schedules itself again: it    *)
(* does nothing while a packet is buffered or when there is none to read,  *)
(* and otherwise reads one and calls PostOffice::IncomingPacket, which     *)
(* V()s.                                                                   *)
ReadPacket(m) ==
    /\ inbox[m] = <<>>
    /\ socket[m] # <<>>
    /\ inbox' = [inbox EXCEPT ![m] = <<Head(socket[m])>>]
    /\ socket' = [socket EXCEPT ![m] = Tail(@)]
    /\ messageAvailable' = [messageAvailable EXCEPT ![m] = @ + 1]
    /\ UNCHANGED <<senderVars, worker, buffer, boxes>>

CheckPktAvail(m) ==
    \/ ReadPacket(m)
    \/ (inbox[m] # <<>> \/ socket[m] = <<>>) /\ UNCHANGED vars

(* PostOffice::PostalDelivery: messageAvailable->P() ...                   *)
WorkerP(m) ==
    /\ worker[m] = "P"
    /\ messageAvailable[m] > 0
    /\ messageAvailable' = [messageAvailable EXCEPT ![m] = @ - 1]
    /\ worker' = [worker EXCEPT ![m] = "Receive"]
    /\ UNCHANGED <<senderVars, socket, inbox, buffer, boxes>>

(* Mutant: inHdr.length is not reset.                                      *)
ReceiveKeeps(m) ==
    /\ worker[m] = "Receive"
    /\ buffer' = [buffer EXCEPT ![m] = inbox[m]]
    /\ worker' = [worker EXCEPT ![m] = "Put"]
    /\ UNCHANGED <<senderVars, socket, inbox, messageAvailable, boxes>>

(* ... Network::Receive, which empties the inbox ...                       *)
Receive(m) ==
    /\ worker[m] = "Receive"
    /\ buffer' = [buffer EXCEPT ![m] = inbox[m]]
    /\ inbox' = [inbox EXCEPT ![m] = <<>>]
    /\ worker' = [worker EXCEPT ![m] = "Put"]
    /\ UNCHANGED <<senderVars, socket, messageAvailable, boxes>>

(* ... and MailBox::Put, for the mailbox the header names.                 *)
Put(m) ==
    /\ worker[m] = "Put"
    /\ buffer[m] # <<>>
    /\ boxes' = [boxes EXCEPT ![m][Head(buffer[m]).box] = Append(@, Head(buffer[m]))]
    /\ buffer' = [buffer EXCEPT ![m] = <<>>]
    /\ worker' = [worker EXCEPT ![m] = "P"]
    /\ UNCHANGED <<senderVars, socket, inbox, messageAvailable>>

(* MailBox::Get waits for a mail, MailBox::NoBlockGet returns false when   *)
(* there is none; both take the oldest one out.                            *)
Get(m, b) ==
    /\ boxes[m][b] # <<>>
    /\ boxes' = [boxes EXCEPT ![m][b] = Tail(@)]
    /\ UNCHANGED <<senderVars, socket, inbox, messageAvailable, worker, buffer>>
-----------------------------------------------------------------------------
Step(t) ==
    \/ Acquire(t)
    \/ SendLost(t)
    \/ Send(t)
    \/ P(t)
    \/ Release(t)

Device(m) ==
    \/ SendDone(m)
    \/ CheckPktAvail(m)
    \/ WorkerP(m)
    \/ Receive(m)
    \/ Put(m)

Next ==
    \/ \E t \in Threads, m \in Machines, b \in Boxes : Call(t, m, b)
    \/ \E t \in Threads : Step(t)
    \/ \E m \in Machines : Device(m)
    \/ \E m \in Machines, b \in Boxes : Get(m, b)

Spec == Init /\ [][Next]_vars

(* Interrupts that are scheduled are delivered, a thread that can run      *)
(* does, and a lock wakes its waiters in FIFO order.  Nobody has to call   *)
(* Receive, and the network may lose every packet.                         *)
Fairness ==
    /\ \A m \in Machines :
         /\ WF_vars(SendDone(m))
         /\ WF_vars(CheckPktAvail(m))
         /\ WF_vars(WorkerP(m) \/ Receive(m) \/ Put(m))
    /\ \A t \in Threads :
         /\ SF_vars(Acquire(t))
         /\ WF_vars(SendLost(t) \/ Send(t) \/ P(t) \/ Release(t))

FairSpec == Spec /\ Fairness
-----------------------------------------------------------------------------
TypeOK ==
    /\ pc \in [Threads -> PCs]
    /\ sent \in [Threads -> 0 .. MaxSends]
    /\ mail \in [Threads -> Seq(Message)]
    /\ sendLock \in [Machines -> Threads \cup {NoThread}]
    /\ messageSent \in [Machines -> Nat]
    /\ sendInt \in [Machines -> Nat]
    /\ sendBusy \in [Machines -> BOOLEAN]
    /\ socket \in [Machines -> Seq(Message)]
    /\ inbox \in [Machines -> Seq(Message)]
    /\ messageAvailable \in [Machines -> Nat]
    /\ worker \in [Machines -> {"P", "Receive", "Put"}]
    /\ buffer \in [Machines -> Seq(Message)]
    /\ boxes \in [Machines -> [Boxes -> Seq(Message)]]

(* The lock of a machine is held by exactly the thread of that machine     *)
(* that is between Acquire and Release.                                    *)
Holding(t) == pc[t] \in {"Send", "P", "Release"}
LockHolder ==
    /\ \A t \in Threads : Holding(t) <=> sendLock[Home[t]] = t
    /\ \A m \in Machines, t \in Threads : sendLock[m] = t => m = Home[t]

(* While a thread waits for the network exactly one wake-up is on its way, *)
(* otherwise none.                                                         *)
Waiting(m) == sendLock[m] # NoThread /\ pc[sendLock[m]] = "P"
OneWakeUp ==
    \A m \in Machines :
        /\ Waiting(m) => sendInt[m] + messageSent[m] = 1
        /\ ~Waiting(m) => sendInt[m] + messageSent[m] = 0

(* A thread that is to send has a mail.                                    *)
MailInHand == \A t \in Threads : pc[t] # "idle" => Len(mail[t]) = 1

(* One V() of messageAvailable for each packet that enters the inbox: the  *)
(* inbox is full exactly while the worker has been, or is yet to be, told. *)
InboxAnnounced ==
    \A m \in Machines :
        /\ Len(inbox[m]) <= 1
        /\ worker[m] = "Receive" => Len(inbox[m]) = 1 /\ messageAvailable[m] = 0
        /\ worker[m] # "Receive" => Len(inbox[m]) = messageAvailable[m]
        /\ worker[m] = "Put" => Len(buffer[m]) = 1
        /\ worker[m] # "Put" => buffer[m] = <<>>

(* The inductive invariant of the post office.                             *)
IInv ==
    /\ TypeOK
    /\ LockHolder
    /\ OneWakeUp
    /\ MailInHand
    /\ InboxAnnounced

(* "only one message can be sent to the network at any one time"           *)
(* (post.cc:292): no packet reaches Network::Send before the device has    *)
(* announced the end of the one before.                                    *)
OnePacketAtATime == \A t \in Threads : pc[t] = "Send" => sendInt[Home[t]] = 0

(* The postal worker never finds the inbox empty: what it puts in a        *)
(* mailbox is always a packet that arrived, never what its buffer held.    *)
WorkerFindsPacket == \A m \in Machines : worker[m] = "Receive" => inbox[m] # <<>>

(* Every call of Send returns, and every packet that was not lost reaches  *)
(* a mailbox, even if nobody ever reads the mail.                          *)
SendReturns == \A t \in Threads : pc[t] # "idle" ~> pc[t] = "idle"

transitBar == [m \in Machines |-> buffer[m] \o inbox[m] \o socket[m]]

PacketsDelivered ==
    \A m \in Machines, msg \in Message :
        (\E i \in DOMAIN transitBar[m] : transitBar[m][i] = msg)
            ~> ~\E i \in DOMAIN transitBar[m] : transitBar[m][i] = msg
-----------------------------------------------------------------------------
(* The post office implements the lossy mail service: what is on the way   *)
(* to a machine is in the worker's hand, the device's inbox or the socket. *)
LM == INSTANCE LossyMail WITH transit <- transitBar

LossyMailSpec == LM!MailSpec
=============================================================================
