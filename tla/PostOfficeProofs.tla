-------------------------- MODULE PostOfficeProofs --------------------------
(***************************************************************************)
(* For any machines, threads, mailboxes and number of messages: the post   *)
(* office sends one packet at a time, its worker never finds the inbox     *)
(* empty, and it implements the lossy ordered mail service LossyMail.      *)
(***************************************************************************)
EXTENDS PostOffice, TLAPS, SequenceTheorems

-----------------------------------------------------------------------------
(* What the four moves along the pipeline buffer, inbox, socket do to its  *)
(* contents.                                                               *)

(* A packet put on the socket is appended to the pipeline (Network::Send). *)
LEMMA AppendToPipeline ==
  ASSUME NEW S, NEW p \in Seq(S), NEW q \in Seq(S), NEW r \in Seq(S), NEW x \in S
  PROVE  p \o q \o Append(r, x) = Append(p \o q \o r, x)
<1>1. Append(r, x) = r \o <<x>>
  BY AppendIsConcat
<1>2. Append(p \o q \o r, x) = (p \o q \o r) \o <<x>>
  BY AppendIsConcat, ConcatProperties
<1>3. p \o q \in Seq(S)
  BY ConcatProperties
<1>4. <<x>> \in Seq(S)
  OBVIOUS
<1> QED
  BY <1>1, <1>2, <1>3, <1>4, ConcatAssociative

(* A packet read from the socket into the empty inbox stays where it was   *)
(* in the pipeline (Network::CheckPktAvail).                               *)
LEMMA SocketToInbox ==
  ASSUME NEW S, NEW p \in Seq(S), NEW r \in Seq(S), r # <<>>
  PROVE  p \o <<Head(r)>> \o Tail(r) = p \o <<>> \o r
<1>1. Head(r) \in S /\ Tail(r) \in Seq(S) /\ r = <<Head(r)>> \o Tail(r)
  BY HeadTailProperties
<1>2. p \o <<>> = p
  BY ConcatEmptySeq
<1> QED
  BY <1>1, <1>2, ConcatAssociative

(* The packet moved from the inbox to the worker's empty buffer stays      *)
(* first (Network::Receive).                                               *)
LEMMA InboxToBuffer ==
  ASSUME NEW S, NEW q \in Seq(S), NEW r \in Seq(S)
  PROVE  q \o <<>> \o r = <<>> \o q \o r
  BY ConcatEmptySeq

(* The packet in the worker's buffer is the head of the pipeline, and what *)
(* is left when it is gone is its tail (MailBox::Put).                     *)
LEMMA BufferIsHead ==
  ASSUME NEW S, NEW x \in S, NEW q \in Seq(S), NEW r \in Seq(S)
  PROVE  /\ <<x>> \o q \o r # <<>>
         /\ Head(<<x>> \o q \o r) = x
         /\ Tail(<<x>> \o q \o r) = <<>> \o q \o r
<1>1. <<x>> \o q \o r = <<x>> \o (q \o r)
  BY ConcatAssociative
<1>2. <<>> \o q \o r = q \o r
  BY ConcatEmptySeq
<1>3. q \o r \in Seq(S)
  BY ConcatProperties
<1>4. ASSUME NEW s \in Seq(S)
      PROVE  <<x>> \o s # <<>> /\ Head(<<x>> \o s) = x /\ Tail(<<x>> \o s) = s
  BY <1>4, ConcatProperties, HeadTailProperties
<1> QED
  BY <1>1, <1>2, <1>3, <1>4

(* A sequence of length one is the tuple of its head.                      *)
LEMMA Singleton ==
  ASSUME NEW S, NEW s \in Seq(S), Len(s) = 1
  PROVE  s # <<>> /\ Head(s) \in S /\ s = <<Head(s)>>
  BY HeadTailProperties, LenProperties
-----------------------------------------------------------------------------
(* The constructors establish the invariant.                               *)
LEMMA InitInv == Init => IInv
<1> SUFFICES ASSUME Init PROVE IInv
  OBVIOUS
<1>1. TypeOK
  BY MaxSendsAssumption DEF Init, TypeOK, PCs
<1>2. LockHolder
  BY HomeAssumption, ThreadsAssumption DEF Init, LockHolder, Holding
<1>3. OneWakeUp
  <2> SUFFICES ASSUME NEW m \in Machines
               PROVE  ~Waiting(m) /\ sendInt[m] + messageSent[m] = 0
    BY DEF OneWakeUp
  <2>1. sendLock[m] = NoThread /\ sendInt[m] = 0 /\ messageSent[m] = 0
    BY DEF Init
  <2> QED
    BY <2>1 DEF Waiting
<1>4. MailInHand
  BY DEF Init, MailInHand
<1>5. InboxAnnounced
  <2> SUFFICES ASSUME NEW m \in Machines
               PROVE  /\ Len(inbox[m]) <= 1 /\ Len(inbox[m]) = messageAvailable[m]
                      /\ worker[m] = "P" /\ buffer[m] = <<>>
    BY Zenon DEF InboxAnnounced
  <2>1. /\ inbox[m] = <<>> /\ messageAvailable[m] = 0
        /\ worker[m] = "P" /\ buffer[m] = <<>>
    BY DEF Init
  <2> QED
    BY <2>1, EmptySeq
<1> QED
  BY <1>1, <1>2, <1>3, <1>4, <1>5 DEF IInv

(* Every step of a sender, of a device and of a postal worker preserves    *)
(* the invariant.                                                          *)
LEMMA NextInv == IInv /\ [Next]_vars => IInv'
<1> SUFFICES ASSUME IInv, [Next]_vars PROVE IInv'
  OBVIOUS
<1> USE HomeAssumption, ThreadsAssumption, MaxSendsAssumption DEF IInv
<1>1. ASSUME NEW t \in Threads, NEW m \in Machines, NEW b \in Boxes, Call(t, m, b) PROVE IInv'
  <2>1. TypeOK'
    <3>1. [from |-> t, to |-> m, box |-> b, seq |-> sent[t] + 1] \in Message
      <4>1. sent[t] + 1 \in 1 .. MaxSends
        <5>1. sent[t] \in 0 .. MaxSends
          BY DEF TypeOK
        <5>2. sent[t] < MaxSends
          BY <1>1 DEF Call
        <5> QED
          BY <5>1, <5>2
      <4> QED
        BY <1>1, <4>1 DEF Message
    <3>2. mail' \in [Threads -> Seq(Message)]
      BY <1>1, <3>1 DEF Call, TypeOK
    <3>3. pc' \in [Threads -> PCs] /\ sent' \in [Threads -> 0 .. MaxSends]
      <4>1. /\ pc \in [Threads -> PCs] /\ pc' = [pc EXCEPT ![t] = "Acquire"]
            /\ "Acquire" \in PCs
        BY <1>1 DEF Call, Move, TypeOK, PCs
      <4>2. /\ sent \in [Threads -> 0 .. MaxSends] /\ sent' = [sent EXCEPT ![t] = sent[t] + 1]
            /\ sent[t] < MaxSends
        BY <1>1 DEF Call, TypeOK
      <4>3. sent[t] + 1 \in 0 .. MaxSends
        BY <4>2
      <4>4. pc' \in [Threads -> PCs]
        BY <4>1
      <4> QED
        BY <4>2, <4>3, <4>4
    <3> QED
      BY <1>1, <3>2, <3>3 DEF Call, receiverVars, TypeOK
  <2>2. LockHolder'
    BY <1>1 DEF Call, Move, receiverVars, TypeOK, LockHolder, Holding
  <2>3. OneWakeUp'
    <3> SUFFICES ASSUME NEW k \in Machines
                 PROVE  /\ Waiting(k)' => sendInt'[k] + messageSent'[k] = 1
                        /\ ~Waiting(k)' => sendInt'[k] + messageSent'[k] = 0
      BY DEF OneWakeUp
    <3>1. Waiting(k)' <=> Waiting(k)
      <4>1. sendLock' = sendLock /\ sendLock[k] # t
        BY <1>1 DEF Call, Move, LockHolder, Holding
      <4>2. \A u \in Threads : u # t => pc'[u] = pc[u]
        BY <1>1 DEF Call, Move, TypeOK
      <4> QED
        BY <4>1, <4>2 DEF TypeOK, Waiting
    <3> QED
      BY <1>1, <3>1 DEF Call, OneWakeUp
  <2>4. MailInHand'
    BY <1>1 DEF Call, Move, receiverVars, TypeOK, MailInHand
  <2>5. InboxAnnounced'
    BY <1>1 DEF Call, Move, receiverVars, TypeOK, InboxAnnounced
  <2> QED
    BY <2>1, <2>2, <2>3, <2>4, <2>5
<1>2. ASSUME NEW t \in Threads, Acquire(t) PROVE IInv'
  <2>1. TypeOK'
    BY <1>2 DEF Acquire, Move, receiverVars, TypeOK, PCs
  <2>2. LockHolder'
    <3>1. \A u \in Threads : Holding(u)' <=> Holding(u) \/ u = t
      BY <1>2 DEF Acquire, Move, TypeOK, Holding
    <3>2. sendLock' = [sendLock EXCEPT ![Home[t]] = t] /\ sendLock[Home[t]] = NoThread
      BY <1>2 DEF Acquire
    <3>3. \A u \in Threads : sendLock'[Home[u]] = u <=> sendLock[Home[u]] = u \/ u = t
      BY <3>2 DEF TypeOK
    <3>4. \A m \in Machines, u \in Threads : sendLock'[m] = u => m = Home[u]
      BY <3>2 DEF TypeOK, LockHolder
    <3> QED
      BY <3>1, <3>3, <3>4 DEF LockHolder
  <2>3. OneWakeUp'
    <3> SUFFICES ASSUME NEW k \in Machines
                 PROVE  /\ Waiting(k)' => sendInt'[k] + messageSent'[k] = 1
                        /\ ~Waiting(k)' => sendInt'[k] + messageSent'[k] = 0
      BY DEF OneWakeUp
    <3>1. Waiting(k)' <=> Waiting(k)
      BY <1>2 DEF Acquire, Move, TypeOK, LockHolder, Holding, Waiting
    <3> QED
      BY <1>2, <3>1 DEF Acquire, OneWakeUp
  <2>4. MailInHand'
    BY <1>2 DEF Acquire, Move, receiverVars, TypeOK, MailInHand
  <2>5. InboxAnnounced'
    BY <1>2 DEF Acquire, Move, receiverVars, TypeOK, InboxAnnounced
  <2> QED
    BY <2>1, <2>2, <2>3, <2>4, <2>5
<1>3. ASSUME NEW t \in Threads, SendLost(t) PROVE IInv'
  <2>1. TypeOK'
    BY <1>3 DEF SendLost, Move, receiverVars, TypeOK, PCs
  <2>2. LockHolder'
    BY <1>3 DEF SendLost, Move, receiverVars, TypeOK, LockHolder, Holding
  <2>3. OneWakeUp'
    <3> SUFFICES ASSUME NEW k \in Machines
                 PROVE  /\ Waiting(k)' => sendInt'[k] + messageSent'[k] = 1
                        /\ ~Waiting(k)' => sendInt'[k] + messageSent'[k] = 0
      BY DEF OneWakeUp
    <3>1. CASE k = Home[t]
      <4>1. ~Waiting(k) /\ Waiting(k)'
        BY <1>3, <3>1 DEF SendLost, Move, TypeOK, LockHolder, Holding, Waiting
      <4>2. sendInt'[k] = sendInt[k] + 1 /\ messageSent'[k] = messageSent[k]
        BY <1>3, <3>1 DEF SendLost, TypeOK
      <4> QED
        BY <4>1, <4>2 DEF TypeOK, OneWakeUp
    <3>2. CASE k # Home[t]
      <4>1. Waiting(k)' <=> Waiting(k)
        BY <1>3, <3>2 DEF SendLost, Move, TypeOK, LockHolder, Waiting
      <4>2. sendInt'[k] = sendInt[k] /\ messageSent'[k] = messageSent[k]
        BY <1>3, <3>2 DEF SendLost, TypeOK
      <4> QED
        BY <4>1, <4>2 DEF OneWakeUp
    <3> QED
      BY <3>1, <3>2
  <2>4. MailInHand'
    BY <1>3 DEF SendLost, Move, receiverVars, TypeOK, MailInHand
  <2>5. InboxAnnounced'
    BY <1>3 DEF SendLost, Move, receiverVars, TypeOK, InboxAnnounced
  <2> QED
    BY <2>1, <2>2, <2>3, <2>4, <2>5
<1>4. ASSUME NEW t \in Threads, Send(t) PROVE IInv'
  <2>1. TypeOK'
    <3>1. Head(mail[t]) \in Message
      BY <1>4, HeadTailProperties DEF Send, TypeOK
    <3>2. Head(mail[t]).to \in Machines
      BY <3>1 DEF Message
    <3>3. Append(socket[Head(mail[t]).to], Head(mail[t])) \in Seq(Message)
      BY <3>1, <3>2, AppendProperties DEF TypeOK
    <3>4. socket' \in [Machines -> Seq(Message)]
      BY <1>4, <3>3 DEF Send, TypeOK
    <3>5. pc' \in [Threads -> PCs] /\ sendInt' \in [Machines -> Nat]
      BY <1>4 DEF Send, Move, TypeOK, PCs
    <3> QED
      BY <1>4, <3>4, <3>5 DEF Send, receiverVars, TypeOK
  <2>2. LockHolder'
    BY <1>4 DEF Send, Move, receiverVars, TypeOK, LockHolder, Holding
  <2>3. OneWakeUp'
    <3> SUFFICES ASSUME NEW k \in Machines
                 PROVE  /\ Waiting(k)' => sendInt'[k] + messageSent'[k] = 1
                        /\ ~Waiting(k)' => sendInt'[k] + messageSent'[k] = 0
      BY DEF OneWakeUp
    <3>1. CASE k = Home[t]
      <4>1. ~Waiting(k) /\ Waiting(k)'
        BY <1>4, <3>1 DEF Send, Move, TypeOK, LockHolder, Holding, Waiting
      <4>2. sendInt'[k] = sendInt[k] + 1 /\ messageSent'[k] = messageSent[k]
        BY <1>4, <3>1 DEF Send, TypeOK
      <4> QED
        BY <4>1, <4>2 DEF TypeOK, OneWakeUp
    <3>2. CASE k # Home[t]
      <4>1. Waiting(k)' <=> Waiting(k)
        <5>1. sendLock' = sendLock /\ sendLock[k] # t
          BY <1>4, <3>2 DEF Send, LockHolder
        <5>2. \A u \in Threads : u # t => pc'[u] = pc[u]
          BY <1>4 DEF Send, Move, TypeOK
        <5> QED
          BY <5>1, <5>2 DEF TypeOK, Waiting
      <4>2. sendInt'[k] = sendInt[k] /\ messageSent'[k] = messageSent[k]
        BY <1>4, <3>2 DEF Send, TypeOK
      <4> QED
        BY <4>1, <4>2 DEF OneWakeUp
    <3> QED
      BY <3>1, <3>2
  <2>4. MailInHand'
    BY <1>4 DEF Send, Move, receiverVars, TypeOK, MailInHand
  <2>5. InboxAnnounced'
    BY <1>4 DEF Send, Move, receiverVars, TypeOK, InboxAnnounced
  <2> QED
    BY <2>1, <2>2, <2>3, <2>4, <2>5
<1>5. ASSUME NEW m \in Machines, SendDone(m) PROVE IInv'
  <2>1. TypeOK'
    BY <1>5 DEF SendDone, receiverVars, TypeOK, PCs
  <2>2. LockHolder'
    BY <1>5 DEF SendDone, receiverVars, TypeOK, LockHolder, Holding
  <2>3. OneWakeUp'
    BY <1>5 DEF SendDone, receiverVars, TypeOK, LockHolder, Holding, OneWakeUp, Waiting
  <2>4. MailInHand'
    BY <1>5 DEF SendDone, receiverVars, TypeOK, MailInHand
  <2>5. InboxAnnounced'
    BY <1>5 DEF SendDone, receiverVars, TypeOK, InboxAnnounced
  <2> QED
    BY <2>1, <2>2, <2>3, <2>4, <2>5
<1>6. ASSUME NEW t \in Threads, P(t) PROVE IInv'
  <2>1. TypeOK'
    BY <1>6 DEF P, Move, receiverVars, TypeOK, PCs
  <2>2. LockHolder'
    BY <1>6 DEF P, Move, receiverVars, TypeOK, LockHolder, Holding
  <2>3. OneWakeUp'
    <3> SUFFICES ASSUME NEW k \in Machines
                 PROVE  /\ Waiting(k)' => sendInt'[k] + messageSent'[k] = 1
                        /\ ~Waiting(k)' => sendInt'[k] + messageSent'[k] = 0
      BY DEF OneWakeUp
    <3>1. CASE k = Home[t]
      <4>1. Waiting(k) /\ ~Waiting(k)'
        BY <1>6, <3>1 DEF P, Move, TypeOK, LockHolder, Holding, Waiting
      <4>2. sendInt'[k] = sendInt[k] /\ messageSent'[k] = messageSent[k] - 1
        BY <1>6, <3>1 DEF P, TypeOK
      <4> QED
        BY <4>1, <4>2 DEF TypeOK, OneWakeUp
    <3>2. CASE k # Home[t]
      <4>1. Waiting(k)' <=> Waiting(k)
        BY <1>6, <3>2 DEF P, Move, TypeOK, LockHolder, Waiting
      <4>2. sendInt'[k] = sendInt[k] /\ messageSent'[k] = messageSent[k]
        BY <1>6, <3>2 DEF P, TypeOK
      <4> QED
        BY <4>1, <4>2 DEF OneWakeUp
    <3> QED
      BY <3>1, <3>2
  <2>4. MailInHand'
    BY <1>6 DEF P, Move, receiverVars, TypeOK, MailInHand
  <2>5. InboxAnnounced'
    BY <1>6 DEF P, Move, receiverVars, TypeOK, InboxAnnounced
  <2> QED
    BY <2>1, <2>2, <2>3, <2>4, <2>5
<1>7. ASSUME NEW t \in Threads, Release(t) PROVE IInv'
  <2>1. TypeOK'
    BY <1>7 DEF Release, Move, receiverVars, TypeOK, PCs
  <2>2. LockHolder'
    <3>1. /\ pc[t] = "Release" /\ sendLock[Home[t]] = t
          /\ pc' = [pc EXCEPT ![t] = "idle"]
          /\ sendLock' = [sendLock EXCEPT ![Home[t]] = NoThread]
      BY <1>7 DEF Release, Move, LockHolder, Holding
    <3>2. ASSUME NEW u \in Threads PROVE Holding(u)' <=> sendLock'[Home[u]] = u
      <4>1. CASE u = t
        BY <3>1, <4>1 DEF TypeOK, Holding
      <4>2. CASE u # t /\ Home[u] = Home[t]
        BY <3>1, <4>2 DEF TypeOK, LockHolder, Holding
      <4>3. CASE Home[u] # Home[t]
        BY <3>1, <4>3 DEF TypeOK, LockHolder, Holding
      <4> QED
        BY <4>1, <4>2, <4>3
    <3>3. ASSUME NEW m \in Machines, NEW u \in Threads, sendLock'[m] = u PROVE m = Home[u]
      BY <3>1, <3>3 DEF TypeOK, LockHolder
    <3> QED
      BY <3>2, <3>3 DEF LockHolder
  <2>3. OneWakeUp'
    BY <1>7 DEF Release, Move, receiverVars, TypeOK, LockHolder, Holding, OneWakeUp, Waiting
  <2>4. MailInHand'
    BY <1>7 DEF Release, Move, receiverVars, TypeOK, MailInHand
  <2>5. InboxAnnounced'
    BY <1>7 DEF Release, Move, receiverVars, TypeOK, InboxAnnounced
  <2> QED
    BY <2>1, <2>2, <2>3, <2>4, <2>5
<1>8. ASSUME NEW m \in Machines, ReadPacket(m) PROVE IInv'
  <2>1. TypeOK'
    <3>1. Head(socket[m]) \in Message /\ Tail(socket[m]) \in Seq(Message)
      BY <1>8, HeadTailProperties DEF ReadPacket, TypeOK
    <3>2. <<Head(socket[m])>> \in Seq(Message)
      BY <3>1
    <3>3. /\ inbox' \in [Machines -> Seq(Message)]
          /\ socket' \in [Machines -> Seq(Message)]
      BY <1>8, <3>1, <3>2 DEF ReadPacket, TypeOK
    <3>4. messageAvailable' \in [Machines -> Nat]
      BY <1>8 DEF ReadPacket, TypeOK
    <3> QED
      BY <1>8, <3>3, <3>4 DEF ReadPacket, senderVars, TypeOK
  <2>2. LockHolder'
    BY <1>8 DEF ReadPacket, senderVars, TypeOK, LockHolder, Holding
  <2>3. OneWakeUp'
    BY <1>8 DEF ReadPacket, senderVars, TypeOK, LockHolder, Holding, OneWakeUp, Waiting
  <2>4. MailInHand'
    BY <1>8 DEF ReadPacket, senderVars, TypeOK, MailInHand
  <2>5. InboxAnnounced'
    <3>1. ASSUME NEW k \in Machines, k # m
          PROVE  /\ inbox'[k] = inbox[k] /\ buffer'[k] = buffer[k]
                 /\ messageAvailable'[k] = messageAvailable[k] /\ worker'[k] = worker[k]
      BY <1>8, <3>1 DEF ReadPacket, TypeOK
    <3>2. /\ inbox[m] = <<>> /\ inbox'[m] = <<Head(socket[m])>>
          /\ messageAvailable'[m] = messageAvailable[m] + 1
          /\ worker'[m] = worker[m] /\ buffer'[m] = buffer[m]
      BY <1>8 DEF ReadPacket, TypeOK
    <3>3. /\ Len(inbox[m]) = 0 /\ Len(inbox'[m]) = 1
          /\ worker[m] # "Receive" /\ messageAvailable[m] = 0
      BY <3>2, EmptySeq DEF InboxAnnounced
    <3>4. /\ worker'[m] # "Receive" /\ Len(inbox'[m]) = messageAvailable'[m]
          /\ Len(inbox'[m]) <= 1
          /\ worker'[m] = "Put" => Len(buffer'[m]) = 1
          /\ worker'[m] # "Put" => buffer'[m] = <<>>
      BY <3>2, <3>3 DEF InboxAnnounced
    <3> QED
      BY <3>1, <3>4, Zenon DEF InboxAnnounced
  <2> QED
    BY <2>1, <2>2, <2>3, <2>4, <2>5
<1>9. ASSUME NEW m \in Machines, WorkerP(m) PROVE IInv'
  <2>1. TypeOK'
    BY <1>9 DEF WorkerP, senderVars, TypeOK, PCs
  <2>2. LockHolder'
    BY <1>9 DEF WorkerP, senderVars, TypeOK, LockHolder, Holding
  <2>3. OneWakeUp'
    BY <1>9 DEF WorkerP, senderVars, TypeOK, LockHolder, Holding, OneWakeUp, Waiting
  <2>4. MailInHand'
    BY <1>9 DEF WorkerP, senderVars, TypeOK, MailInHand
  <2>5. InboxAnnounced'
    <3>1. ASSUME NEW k \in Machines, k # m
          PROVE  /\ inbox'[k] = inbox[k] /\ buffer'[k] = buffer[k]
                 /\ messageAvailable'[k] = messageAvailable[k] /\ worker'[k] = worker[k]
      BY <1>9, <3>1 DEF WorkerP, TypeOK
    <3>2. /\ inbox'[m] = inbox[m] /\ buffer'[m] = buffer[m]
          /\ messageAvailable'[m] = messageAvailable[m] - 1
          /\ worker[m] = "P" /\ worker'[m] = "Receive"
      BY <1>9 DEF WorkerP, TypeOK
    <3>3. messageAvailable[m] = 1 /\ Len(inbox[m]) = 1
      <4>1. Len(inbox[m]) <= 1 /\ Len(inbox[m]) = messageAvailable[m]
        BY <3>2 DEF InboxAnnounced
      <4> QED
        BY <1>9, <4>1 DEF WorkerP, TypeOK
    <3> QED
      BY <3>1, <3>2, <3>3 DEF InboxAnnounced
  <2> QED
    BY <2>1, <2>2, <2>3, <2>4, <2>5
<1>10. ASSUME NEW m \in Machines, Receive(m) PROVE IInv'
  <2>1. TypeOK'
    BY <1>10 DEF Receive, senderVars, TypeOK, PCs
  <2>2. LockHolder'
    BY <1>10 DEF Receive, senderVars, TypeOK, LockHolder, Holding
  <2>3. OneWakeUp'
    BY <1>10 DEF Receive, senderVars, TypeOK, LockHolder, Holding, OneWakeUp, Waiting
  <2>4. MailInHand'
    BY <1>10 DEF Receive, senderVars, TypeOK, MailInHand
  <2>5. InboxAnnounced'
    BY <1>10 DEF Receive, senderVars, TypeOK, InboxAnnounced
  <2> QED
    BY <2>1, <2>2, <2>3, <2>4, <2>5
<1>11. ASSUME NEW m \in Machines, Put(m) PROVE IInv'
  <2>1. TypeOK'
    <3>1. Head(buffer[m]) \in Message
      BY <1>11, HeadTailProperties DEF Put, TypeOK
    <3>2. Head(buffer[m]).box \in Boxes
      BY <3>1 DEF Message
    <3>3. Append(boxes[m][Head(buffer[m]).box], Head(buffer[m])) \in Seq(Message)
      BY <3>1, <3>2, AppendProperties DEF TypeOK
    <3>4. boxes' \in [Machines -> [Boxes -> Seq(Message)]]
      BY <1>11, <3>3 DEF Put, TypeOK
    <3> QED
      BY <1>11, <3>4 DEF Put, senderVars, TypeOK
  <2>2. LockHolder'
    BY <1>11 DEF Put, senderVars, TypeOK, LockHolder, Holding
  <2>3. OneWakeUp'
    BY <1>11 DEF Put, senderVars, TypeOK, LockHolder, Holding, OneWakeUp, Waiting
  <2>4. MailInHand'
    BY <1>11 DEF Put, senderVars, TypeOK, MailInHand
  <2>5. InboxAnnounced'
    BY <1>11 DEF Put, senderVars, TypeOK, InboxAnnounced
  <2> QED
    BY <2>1, <2>2, <2>3, <2>4, <2>5
<1>12. ASSUME NEW m \in Machines, NEW b \in Boxes, Get(m, b) PROVE IInv'
  <2>1. TypeOK'
    <3>1. Tail(boxes[m][b]) \in Seq(Message)
      BY <1>12, HeadTailProperties DEF Get, TypeOK
    <3>2. boxes' \in [Machines -> [Boxes -> Seq(Message)]]
      BY <1>12, <3>1 DEF Get, TypeOK
    <3> QED
      BY <1>12, <3>2 DEF Get, senderVars, TypeOK
  <2>2. LockHolder'
    BY <1>12 DEF Get, senderVars, TypeOK, LockHolder, Holding
  <2>3. OneWakeUp'
    BY <1>12 DEF Get, senderVars, TypeOK, LockHolder, Holding, OneWakeUp, Waiting
  <2>4. MailInHand'
    BY <1>12 DEF Get, senderVars, TypeOK, MailInHand
  <2>5. InboxAnnounced'
    BY <1>12 DEF Get, senderVars, TypeOK, InboxAnnounced
  <2> QED
    BY <2>1, <2>2, <2>3, <2>4, <2>5
<1>13. CASE UNCHANGED vars
  BY <1>13 DEF vars, senderVars, receiverVars, TypeOK, LockHolder, Holding,
               OneWakeUp, Waiting, MailInHand, InboxAnnounced
<1> QED
  <2>1. ASSUME NEW m \in Machines, CheckPktAvail(m) PROVE IInv'
    BY <2>1, <1>8, <1>13 DEF CheckPktAvail
  <2> QED
    BY <1>1, <1>2, <1>3, <1>4, <1>5, <1>6, <1>7, <1>9, <1>10, <1>11, <1>12, <1>13, <2>1
    DEF Next, Step, Device

(* IInv is an invariant of the post office.                                *)
THEOREM Invariance == Spec => []IInv
  BY InitInv, NextInv, PTL DEF Spec
-----------------------------------------------------------------------------
(* No two packets of a machine are on their way into the network at once:  *)
(* when Network::Send is reached, the interrupt of the packet before has   *)
(* been delivered, although sendBusy does not say so.                      *)
THEOREM OnePacket == Spec => []OnePacketAtATime
<1>1. IInv => OnePacketAtATime
  <2> SUFFICES ASSUME IInv, NEW t \in Threads, pc[t] = "Send"
               PROVE  sendInt[Home[t]] = 0
    BY DEF OnePacketAtATime
  <2>1. ~Waiting(Home[t])
    BY DEF IInv, LockHolder, Holding, Waiting
  <2> QED
    BY <2>1, HomeAssumption DEF IInv, OneWakeUp, TypeOK
<1> QED
  BY <1>1, Invariance, PTL

(* The postal worker that was woken always finds a packet to deliver.      *)
THEOREM WorkerHasPacket == Spec => []WorkerFindsPacket
<1>1. IInv => WorkerFindsPacket
  BY EmptySeq DEF IInv, InboxAnnounced, WorkerFindsPacket
<1> QED
  BY <1>1, Invariance, PTL
-----------------------------------------------------------------------------
(* The post office delivers mail in order, without duplicates and without  *)
(* loss after Network::Send: it implements LossyMail.                      *)
THEOREM Refinement == Spec => LossyMailSpec
<1>1. Init => LM!MailInit
  <2> SUFFICES ASSUME Init PROVE LM!MailInit
    OBVIOUS
  <2>1. ASSUME NEW m \in Machines PROVE buffer[m] \o inbox[m] \o socket[m] = <<>>
    <3>1. buffer[m] = <<>> /\ inbox[m] = <<>> /\ socket[m] = <<>>
      BY DEF Init
    <3> QED
      BY <3>1, ConcatEmptySeq, EmptySeq
  <2> QED
    BY <2>1 DEF Init, LM!MailInit, transitBar
<1>2. IInv /\ [Next]_vars => [LM!MailNext]_LM!mailVars
  <2> SUFFICES ASSUME IInv, [Next]_vars PROVE [LM!MailNext]_LM!mailVars
    OBVIOUS
  <2> USE HomeAssumption DEF IInv
  <2>1. ASSUME UNCHANGED <<socket, receiverVars>> PROVE UNCHANGED LM!mailVars
    BY <2>1 DEF receiverVars, LM!mailVars, transitBar
  <2>2. ASSUME NEW t \in Threads, Send(t) PROVE LM!Post(Head(mail[t]))
    <3> DEFINE msg == Head(mail[t])
    <3>1. msg \in Message /\ msg.to \in Machines
      <4>1. Head(mail[t]) \in Message
        BY <2>2, HeadTailProperties DEF Send, TypeOK
      <4> QED
        BY <4>1 DEF Message
    <3>2. ASSUME NEW m \in Machines
          PROVE  transitBar'[m] = IF m = msg.to THEN Append(transitBar[m], msg)
                                                ELSE transitBar[m]
      <4>1. socket'[m] = IF m = msg.to THEN Append(socket[m], msg) ELSE socket[m]
        BY <2>2, <3>1 DEF Send, TypeOK
      <4>2. buffer' = buffer /\ inbox' = inbox
        BY <2>2 DEF Send, receiverVars
      <4>3. buffer[m] \o inbox[m] \o Append(socket[m], msg)
              = Append(buffer[m] \o inbox[m] \o socket[m], msg)
        <5>1. buffer[m] \in Seq(Message) /\ inbox[m] \in Seq(Message) /\ socket[m] \in Seq(Message)
          BY DEF TypeOK
        <5> HIDE DEF msg
        <5>2. \A p, q, r \in Seq(Message), x \in Message :
                p \o q \o Append(r, x) = Append(p \o q \o r, x)
          BY AppendToPipeline
        <5> QED
          BY <3>1, <5>1, <5>2, Zenon
      <4> QED
        BY <4>1, <4>2, <4>3 DEF transitBar
    <3>3. transitBar' = [transitBar EXCEPT ![msg.to] = Append(@, msg)]
      BY <3>1, <3>2 DEF transitBar
    <3> QED
      BY <2>2, <3>3 DEF Send, receiverVars, LM!Post
  <2>3. ASSUME NEW m \in Machines, ReadPacket(m) PROVE UNCHANGED LM!mailVars
    <3>1. ASSUME NEW k \in Machines PROVE transitBar'[k] = transitBar[k]
      <4>1. CASE k = m
        <5>1. /\ inbox[m] = <<>> /\ inbox'[m] = <<Head(socket[m])>>
              /\ socket[m] # <<>> /\ socket'[m] = Tail(socket[m])
              /\ buffer' = buffer
          BY <2>3 DEF ReadPacket, TypeOK
        <5>2. buffer[m] \o <<Head(socket[m])>> \o Tail(socket[m])
                = buffer[m] \o <<>> \o socket[m]
          <6>1. buffer[m] \in Seq(Message) /\ socket[m] \in Seq(Message) /\ socket[m] # <<>>
            BY <5>1 DEF TypeOK
          <6> QED
            BY <6>1, SocketToInbox
        <5> QED
          BY <4>1, <5>1, <5>2 DEF transitBar
      <4>2. CASE k # m
        BY <2>3, <4>2 DEF ReadPacket, TypeOK, transitBar
      <4> QED
        BY <4>1, <4>2
    <3> QED
      BY <2>3, <3>1 DEF ReadPacket, LM!mailVars, transitBar
  <2>4. ASSUME NEW m \in Machines, Receive(m) PROVE UNCHANGED LM!mailVars
    <3>1. ASSUME NEW k \in Machines PROVE transitBar'[k] = transitBar[k]
      <4>1. CASE k = m
        <5>1. /\ buffer[m] = <<>> /\ buffer'[m] = inbox[m]
              /\ inbox'[m] = <<>> /\ socket' = socket
          BY <2>4 DEF Receive, TypeOK, InboxAnnounced
        <5>2. inbox[m] \o <<>> \o socket[m] = <<>> \o inbox[m] \o socket[m]
          BY InboxToBuffer DEF TypeOK
        <5> QED
          BY <4>1, <5>1, <5>2 DEF transitBar
      <4>2. CASE k # m
        BY <2>4, <4>2 DEF Receive, TypeOK, transitBar
      <4> QED
        BY <4>1, <4>2
    <3> QED
      BY <2>4, <3>1 DEF Receive, LM!mailVars, transitBar
  <2>5. ASSUME NEW m \in Machines, Put(m) PROVE LM!Deliver(m)
    <3> DEFINE msg == Head(buffer[m])
    <3>1. msg \in Message /\ buffer[m] = <<msg>>
      BY <2>5, Singleton DEF Put, TypeOK, InboxAnnounced
    <3>2. /\ transitBar[m] # <<>> /\ Head(transitBar[m]) = msg
          /\ Tail(transitBar[m]) = <<>> \o inbox[m] \o socket[m]
      <4>1. transitBar[m] = <<msg>> \o inbox[m] \o socket[m]
        BY <3>1 DEF transitBar
      <4>2. inbox[m] \in Seq(Message) /\ socket[m] \in Seq(Message)
        BY DEF TypeOK
      <4> HIDE DEF msg
      <4>3. /\ <<msg>> \o inbox[m] \o socket[m] # <<>>
            /\ Head(<<msg>> \o inbox[m] \o socket[m]) = msg
            /\ Tail(<<msg>> \o inbox[m] \o socket[m]) = <<>> \o inbox[m] \o socket[m]
        <5>1. \A x \in Message, q, r \in Seq(Message) :
                /\ <<x>> \o q \o r # <<>>
                /\ Head(<<x>> \o q \o r) = x
                /\ Tail(<<x>> \o q \o r) = <<>> \o q \o r
          BY BufferIsHead
        <5> HIDE DEF IInv
        <5> QED
          BY <3>1, <4>2, <5>1, Zenon
      <4> QED
        BY <4>1, <4>3, Zenon
    <3>3. ASSUME NEW k \in Machines
          PROVE  transitBar'[k] = IF k = m THEN Tail(transitBar[m]) ELSE transitBar[k]
      <4>1. /\ buffer'[k] = IF k = m THEN <<>> ELSE buffer[k]
            /\ inbox' = inbox /\ socket' = socket
        BY <2>5 DEF Put, TypeOK
      <4> QED
        BY <3>2, <4>1 DEF transitBar
    <3>4. transitBar' = [transitBar EXCEPT ![m] = Tail(@)]
      BY <3>3 DEF transitBar
    <3> QED
      BY <2>5, <3>2, <3>4 DEF Put, LM!Deliver
  <2>6. ASSUME NEW m \in Machines, NEW b \in Boxes, Get(m, b) PROVE LM!Take(m, b)
    BY <2>6 DEF Get, LM!Take, transitBar
  <2>7. ASSUME NEW m \in Machines, Device(m) PROVE [LM!MailNext]_LM!mailVars
    <3>1. SendDone(m) => UNCHANGED <<socket, receiverVars>>
      BY DEF SendDone
    <3>2. WorkerP(m) => UNCHANGED LM!mailVars
      BY DEF WorkerP, LM!mailVars, transitBar
    <3>3. UNCHANGED vars => UNCHANGED <<socket, receiverVars>>
      BY DEF vars
    <3> QED
      BY <2>1, <2>3, <2>4, <2>5, <2>7, <3>1, <3>2, <3>3
      DEF Device, CheckPktAvail, LM!MailNext
  <2>8. ASSUME NEW t \in Threads, Step(t) PROVE [LM!MailNext]_LM!mailVars
    <3>1. Acquire(t) \/ SendLost(t) \/ P(t) \/ Release(t)
            => UNCHANGED <<socket, receiverVars>>
      BY DEF Acquire, SendLost, P, Release
    <3>2. Send(t) => Head(mail[t]) \in Message
      BY HeadTailProperties DEF Send, TypeOK
    <3> QED
      BY <2>1, <2>2, <2>8, <3>1, <3>2 DEF Step, LM!MailNext
  <2>9. ASSUME NEW t \in Threads, NEW m \in Machines, NEW b \in Boxes, Call(t, m, b)
        PROVE  UNCHANGED LM!mailVars
    BY <2>1, <2>9 DEF Call
  <2>10. CASE UNCHANGED vars
    BY <2>1, <2>10 DEF vars
  <2> QED
    BY <2>6, <2>7, <2>8, <2>9, <2>10 DEF Next, LM!MailNext
<1> QED
  BY <1>1, <1>2, Invariance, PTL DEF Spec, LossyMailSpec, LM!MailSpec
=============================================================================
