---------------------------- MODULE ConsoleProofs ---------------------------
(***************************************************************************)
(* For any readers and writers, whatever is typed and written: PutChar     *)
(* never meets its assertion, and a character in the buffer has been       *)
(* announced.  Both rest on the inductive invariant IInv.                  *)
(***************************************************************************)
EXTENDS Console, TLAPS, FiniteSetTheorems

(* The constructor, the semaphores and the lock start where it holds.      *)
LEMMA InitInv == Init => IInv
<1> SUFFICES ASSUME Init PROVE IInv
  OBVIOUS
<1>1. TypeOK
  BY DEF Init, TypeOK
<1>2. LockHolder
  BY ConsoleAssumption DEF Init, LockHolder
<1>3. OneWakeUp
  BY DEF Init, OneWakeUp, AtDevice
<1>4. Announced
  BY DEF Init, Announced
<1> QED
  BY <1>1, <1>2, <1>3, <1>4 DEF IInv

(* What a reader does leaves the writers alone.                            *)
LEMMA ReaderInv ==
  ASSUME IInv, NEW t \in Readers, Reader(t)
  PROVE  IInv'
<1> USE ConsoleAssumption DEF IInv
<1>1. /\ \A u \in Writers : pc'[u] = pc[u]
      /\ UNCHANGED <<lock, putBusy, writeInt, writeDone>>
  BY DEF Reader, ReadP, GetChar, Goto, TypeOK
<1>2. TypeOK'
  BY DEF Reader, ReadP, GetChar, Goto, TypeOK
<1>3. LockHolder'
  BY <1>1 DEF LockHolder
<1>4. OneWakeUp'
  BY <1>1 DEF OneWakeUp, AtDevice, LockHolder
<1>5. Announced'
  BY DEF Reader, ReadP, GetChar, Goto, TypeOK, Announced
<1> QED
  BY <1>2, <1>3, <1>4, <1>5

(* What a writer does leaves the readers alone.                            *)
LEMMA WriterInv ==
  ASSUME IInv, NEW t \in Writers, Writer(t)
  PROVE  IInv'
<1> USE ConsoleAssumption DEF IInv
<1>0. t # NoThread /\ lock \in Writers \cup {NoThread}
  BY DEF LockHolder
<1>1. /\ \A r \in Readers : pc'[r] = pc[r]
      /\ UNCHANGED <<incoming, readAvail>>
  BY DEF Writer, Acquire, PutChar, WriteP, Release, Goto, TypeOK
<1>2. Announced'
  BY <1>1 DEF Announced
<1>3. CASE Acquire(t)
  <2>1. TypeOK'
    BY <1>3 DEF Acquire, Goto, TypeOK
  <2>2. LockHolder'
    BY <1>3 DEF Acquire, Goto, TypeOK, LockHolder
  <2>3. OneWakeUp'
    BY <1>3, <1>0 DEF Acquire, Goto, TypeOK, OneWakeUp, AtDevice
  <2> QED
    BY <1>2, <2>1, <2>2, <2>3
<1>4. CASE PutChar(t)
  <2>1. TypeOK'
    BY <1>4 DEF PutChar, Goto, TypeOK
  <2>2. LockHolder'
    BY <1>4 DEF PutChar, Goto, TypeOK, LockHolder
  <2>3. lock = t
    BY <1>4 DEF PutChar, LockHolder
  <2>4. OneWakeUp'
    BY <1>4, <1>0, <2>3 DEF PutChar, Goto, TypeOK, OneWakeUp, AtDevice
  <2> QED
    BY <1>2, <2>1, <2>2, <2>4
<1>5. CASE WriteP(t)
  <2>1. TypeOK'
    BY <1>5 DEF WriteP, Goto, TypeOK
  <2>2. LockHolder'
    BY <1>5 DEF WriteP, Goto, TypeOK, LockHolder
  <2>3. lock = t
    BY <1>5 DEF WriteP, LockHolder
  <2>4. OneWakeUp'
    BY <1>5, <1>0, <2>3 DEF WriteP, Goto, TypeOK, OneWakeUp, AtDevice
  <2> QED
    BY <1>2, <2>1, <2>2, <2>4
<1>6. CASE Release(t)
  <2>1. TypeOK'
    BY <1>6 DEF Release, Goto, TypeOK
  <2>2. LockHolder'
    BY <1>6 DEF Release, Goto, TypeOK, LockHolder
  <2>3. lock = t
    BY <1>6 DEF Release, LockHolder
  <2>4. OneWakeUp'
    BY <1>6, <1>0, <2>3 DEF Release, Goto, TypeOK, OneWakeUp, AtDevice
  <2> QED
    BY <1>2, <2>1, <2>2, <2>4
<1> QED
  BY <1>3, <1>4, <1>5, <1>6 DEF Writer

(* The interrupts: CheckCharAvail announces what it buffers, WriteDone     *)
(* frees the device for the one who waits for it.                          *)
LEMMA DeviceInv ==
  ASSUME IInv, Device
  PROVE  IInv'
<1> USE ConsoleAssumption DEF IInv
<1>1. CASE CheckCharAvail
  <2>0. readAvail' \in Nat /\ readAvail' > 0
    BY <1>1 DEF CheckCharAvail, TypeOK
  <2>1. TypeOK' /\ Announced'
    BY <1>1, <2>0, Zenon DEF CheckCharAvail, TypeOK, Announced
  <2>2. LockHolder' /\ OneWakeUp'
    BY <1>1 DEF CheckCharAvail, LockHolder, OneWakeUp, AtDevice
  <2> QED
    BY <2>1, <2>2
<1>2. CASE WriteDone
  <2>0. writeDone' \in Nat
    BY <1>2 DEF WriteDone, TypeOK
  <2>1. TypeOK'
    <3>1. UNCHANGED <<readAvail, pc>> /\ writeInt' = FALSE /\ putBusy' = FALSE
      BY <1>2 DEF WriteDone
    <3> QED
      BY <2>0, <3>1 DEF TypeOK
  <2>2. writeInt /\ writeInt' = FALSE /\ putBusy' = FALSE /\ writeDone' = writeDone + 1
    BY <1>2 DEF WriteDone
  <2>3. AtDevice /\ AtDevice' /\ putBusy /\ writeDone = 0
    <3>1. putBusy = TRUE
      BY <2>2 DEF OneWakeUp, TypeOK
    <3>2. AtDevice
      BY <3>1, Zenon DEF OneWakeUp
    <3>3. writeDone = 0
      BY <3>1, <3>2 DEF OneWakeUp
    <3>4. AtDevice' = AtDevice
      BY <1>2 DEF WriteDone, AtDevice
    <3> QED
      BY <3>1, <3>2, <3>3, <3>4
  <2>4. OneWakeUp'
    <3>1. writeDone' = 1
      BY <2>2, <2>3
    <3> QED
      BY <2>2, <2>3, <3>1, Zenon DEF OneWakeUp
  <2>5. LockHolder' /\ Announced'
    BY <1>2 DEF WriteDone, LockHolder, Announced
  <2> QED
    BY <2>1, <2>4, <2>5
<1> QED
  BY <1>1, <1>2 DEF Device

(* Every step preserves the invariant.                                     *)
LEMMA NextInv == IInv /\ [Next]_vars => IInv'
<1> SUFFICES ASSUME IInv, [Next]_vars PROVE IInv'
  OBVIOUS
<1>1. CASE Type
  BY <1>1 DEF Type, IInv, TypeOK, LockHolder, OneWakeUp, AtDevice, Announced
<1>2. CASE UNCHANGED vars
  BY <1>2 DEF vars, IInv, TypeOK, LockHolder, OneWakeUp, AtDevice, Announced
<1> QED
  BY <1>1, <1>2, ReaderInv, WriterInv, DeviceInv DEF Next, Quiet

-----------------------------------------------------------------------------
(* The invariant always holds.                                             *)
THEOREM Invariance == Spec => []IInv
<1> QED
  BY InitInv, NextInv, PTL DEF Spec

(* Console::PutChar's ASSERT(putBusy == FALSE) holds whenever a writer     *)
(* gets there, and the V() that wakes it is that of its own character.     *)
THEOREM NeverBusy == Spec => []PutCharNotBusy
<1>1. ASSUME IInv, NEW t \in Writers
      PROVE  /\ pc[t] = "put" => ~putBusy /\ writeDone = 0
             /\ pc[t] = "written" => (writeInt /\ putBusy) \/ writeDone = 1
  <2>1. pc[t] \in {"put", "written"} => lock = t /\ lock # NoThread
    BY <1>1, ConsoleAssumption DEF IInv, LockHolder
  <2> QED
    BY <1>1, <2>1 DEF IInv, OneWakeUp, AtDevice
<1>2. IInv => PutCharNotBusy
  BY <1>1 DEF PutCharNotBusy
<1> QED
  BY <1>2, Invariance, PTL

(* Console::CheckCharAvail never leaves a character without a wake-up for  *)
(* it: one is still there, or a reader that took one has yet to GetChar.   *)
THEOREM NeverLeft == Spec => []BufferedIsAnnounced
<1> DEFINE taken == {t \in Readers : pc[t] = "get"}
<1>1. ASSUME IInv, incoming # EOF
      PROVE  readAvail + Cardinality(taken) > 0
  <2>1. IsFiniteSet(taken)
    BY ConsoleAssumption, FS_Subset
  <2>2. /\ Cardinality(taken) \in Nat
        /\ Cardinality(taken) = 0 <=> taken = {}
    BY <2>1, FS_CardinalityType, FS_EmptySet
  <2>3. readAvail \in Nat
    BY <1>1 DEF IInv, TypeOK
  <2>4. readAvail > 0 \/ taken # {}
    BY <1>1 DEF IInv, Announced
  <2> QED
    BY <2>2, <2>3, <2>4
<1>2. IInv => BufferedIsAnnounced
  BY <1>1 DEF BufferedIsAnnounced
<1> QED
  BY <1>2, Invariance, PTL

-----------------------------------------------------------------------------
(* Where the characters are.                                               *)
Streams ==
    /\ typed \in Seq(Chars \cup {EOF}) /\ keyboard \in Seq(Chars \cup {EOF})
    /\ got \in Seq(Chars \cup {EOF}) /\ incoming \in Chars \cup {EOF}
    /\ Len(keyboard) <= Len(typed)

(* The shown characters s are those of the first n typed.                  *)
Shows(at, s, n) ==
    /\ at \in [1 .. Len(s) -> 1 .. n]
    /\ \A k, l \in 1 .. Len(s) : k < l => at[k] < at[l]
    /\ \A k \in 1 .. Len(s) : s[k] = typed[at[k]]
    /\ \A p \in 1 .. n : typed[p] # EOF <=> \E k \in 1 .. Len(s) : at[k] = p

LEMMA NoCharLostIs ==
  NoCharLost <=> /\ keyboard = [k \in 1 .. Len(keyboard) |-> typed[Read + k]]
                 /\ \E at : Shows(at, Taken, Read)
BY Zenon DEF NoCharLost, Shows

(* One more character has been typed, or read from the file.               *)
LEMMA ShowsMore ==
  ASSUME NEW s \in Seq(Chars \cup {EOF}), NEW n \in Nat, NEW at, Shows(at, s, n)
  PROVE  /\ typed[n + 1] = EOF => \E b : Shows(b, s, n + 1)
         /\ \A c \in Chars \cup {EOF} : c # EOF /\ typed[n + 1] = c => \E b : Shows(b, Append(s, c), n + 1)
<1>1. /\ at \in [1 .. Len(s) -> 1 .. n] /\ Len(s) \in Nat
      /\ \A k, l \in 1 .. Len(s) : k < l => at[k] < at[l]
      /\ \A k \in 1 .. Len(s) : s[k] = typed[at[k]]
      /\ \A p \in 1 .. n : typed[p] # EOF <=> \E k \in 1 .. Len(s) : at[k] = p
  BY DEF Shows
<1>2. \A p : p \in 1 .. n + 1 <=> p \in 1 .. n \/ p = n + 1
  OBVIOUS
<1>3. ASSUME typed[n + 1] = EOF PROVE Shows(at, s, n + 1)
  <2>1. \A k \in 1 .. Len(s) : at[k] # n + 1
    BY <1>1
  <2>2. \A p \in 1 .. n + 1 : typed[p] # EOF <=> \E k \in 1 .. Len(s) : at[k] = p
    BY <1>1, <1>2, <1>3, <2>1
  <2> QED
    BY <1>1, <1>2, <2>2 DEF Shows
<1>4. ASSUME NEW c \in Chars \cup {EOF}, c # EOF, typed[n + 1] = c
      PROVE  \E b : Shows(b, Append(s, c), n + 1)
  <2>1. PICK r : r = Append(s, c)
    OBVIOUS
  <2>2. /\ Len(r) = Len(s) + 1 /\ r[Len(s) + 1] = c
        /\ \A k \in 1 .. Len(s) : r[k] = s[k]
    BY <1>1, <2>1
  <2>3. PICK b : b = [k \in 1 .. Len(s) + 1 |-> IF k = Len(s) + 1 THEN n + 1 ELSE at[k]]
    OBVIOUS
  <2>4. /\ b[Len(s) + 1] = n + 1
        /\ \A k \in 1 .. Len(s) : b[k] = at[k] /\ b[k] \in 1 .. n
        /\ \A k : k \in 1 .. Len(r) <=> (k \in 1 .. Len(s) \/ k = Len(s) + 1)
    <3>1. b[Len(s) + 1] = n + 1
      BY <1>1, <2>3
    <3>2. ASSUME NEW k \in 1 .. Len(s) PROVE b[k] = at[k] /\ at[k] \in 1 .. n
      <4>1. k \in 1 .. Len(s) + 1 /\ k # Len(s) + 1
        BY <1>1
      <4> QED
        BY <1>1, <2>3, <4>1
    <3>3. \A k : k \in 1 .. Len(r) <=> (k \in 1 .. Len(s) \/ k = Len(s) + 1)
      BY <1>1, <2>2
    <3> QED
      BY <3>1, <3>2, <3>3
  <2>5. b \in [1 .. Len(r) -> 1 .. n + 1]
    <3>1. b = [k \in 1 .. Len(r) |-> b[k]]
      BY <2>2, <2>3
    <3>2. \A k \in 1 .. Len(r) : b[k] \in 1 .. n + 1
      BY <1>2, <2>4
    <3> QED
      BY <3>1, <3>2
  <2>6. \A k, l \in 1 .. Len(r) : k < l => b[k] < b[l]
    BY <1>1, <2>2, <2>4
  <2>7. \A k \in 1 .. Len(r) : r[k] = typed[b[k]]
    BY <1>1, <1>4, <2>2, <2>4
  <2>8. \A p \in 1 .. n + 1 : typed[p] # EOF <=> \E k \in 1 .. Len(r) : b[k] = p
    <3> SUFFICES ASSUME NEW p \in 1 .. n + 1
                 PROVE  typed[p] # EOF <=> \E k \in 1 .. Len(r) : b[k] = p
      OBVIOUS
    <3>1. CASE p = n + 1
      BY <3>1, <1>1, <1>4, <2>4
    <3>2. CASE p \in 1 .. n
      <4>1. typed[p] # EOF <=> \E k \in 1 .. Len(s) : at[k] = p
        BY <1>1, <3>2
      <4>2. (\E k \in 1 .. Len(r) : b[k] = p) <=> \E k \in 1 .. Len(s) : at[k] = p
        <5>1. p # n + 1
          BY <3>2
        <5> QED
          BY <2>4, <5>1
      <4> QED
        BY <4>1, <4>2
    <3> QED
      BY <1>2, <3>1, <3>2
  <2>9. Shows(b, r, n + 1)
    BY <2>5, <2>6, <2>7, <2>8 DEF Shows
  <2> QED
    BY <2>1, <2>9
<1> QED
  BY <1>3, <1>4

LEMMA StreamsInv == Streams /\ [Next]_vars => Streams'
<1> SUFFICES ASSUME Streams, [Next]_vars PROVE Streams'
  OBVIOUS
<1>1. CASE Type
  <2>1. got' = got /\ incoming' = incoming
    BY <1>1 DEF Type
  <2>2. CASE UNCHANGED <<typed, keyboard>>
    BY <2>1, <2>2 DEF Streams
  <2>3. CASE \E c \in Chars \cup {EOF} : typed' = Append(typed, c) /\ keyboard' = Append(keyboard, c)
    <3>1. PICK c \in Chars \cup {EOF} : typed' = Append(typed, c) /\ keyboard' = Append(keyboard, c)
      BY <2>3
    <3>2. /\ typed' \in Seq(Chars \cup {EOF}) /\ keyboard' \in Seq(Chars \cup {EOF})
          /\ Len(typed') = Len(typed) + 1 /\ Len(keyboard') = Len(keyboard) + 1
          /\ Len(typed) \in Nat /\ Len(keyboard) \in Nat
      BY <3>1 DEF Streams
    <3> QED
      BY <2>1, <3>2 DEF Streams
  <2> QED
    BY <1>1, <2>2, <2>3 DEF Type
<1>2. CASE CheckCharAvail
  BY <1>2 DEF CheckCharAvail, Streams
<1>3. ASSUME NEW t \in Readers, GetChar(t) PROVE Streams'
  <2>1. UNCHANGED <<typed, keyboard>> /\ incoming' = EOF
        /\ got' = IF incoming = EOF THEN got ELSE Append(got, incoming)
    BY <1>3 DEF GetChar, input
  <2>2. got' \in Seq(Chars \cup {EOF})
    BY <2>1 DEF Streams
  <2> QED
    BY <2>1, <2>2 DEF Streams
<1>4. CASE UNCHANGED <<typed, keyboard, got, incoming>>
  BY <1>4 DEF Streams
<1> QED
  BY <1>1, <1>2, <1>3, <1>4
  DEF Next, Device, Quiet, vars, input, Reader, Writer, WriteDone, ReadP, Acquire, PutChar, WriteP,
      Release

LEMMA LostInv == Streams /\ NoCharLost /\ [Next]_vars => NoCharLost'
<1> SUFFICES ASSUME Streams, NoCharLost, [Next]_vars PROVE NoCharLost'
  OBVIOUS
<1>1. /\ keyboard = [k \in 1 .. Len(keyboard) |-> typed[Read + k]]
      /\ Read \in Nat /\ Len(keyboard) \in Nat /\ Len(typed) \in Nat
      /\ Read + Len(keyboard) = Len(typed)
  BY NoCharLostIs DEF Streams, Read
<1>2. PICK at : Shows(at, Taken, Read)
  BY NoCharLostIs
<1>3. Taken \in Seq(Chars \cup {EOF})
  BY DEF Taken, Streams
<1>4. CASE UNCHANGED <<typed, keyboard, got, incoming>>
  <2>1. Read' = Read /\ Taken' = Taken
    BY <1>4 DEF Read, Taken
  <2> QED
    BY <1>4, <2>1 DEF NoCharLost
<1>5. CASE Type
  <2>1. CASE UNCHANGED <<typed, keyboard>>
    BY <1>4, <1>5, <2>1 DEF Type
  <2>2. CASE \E c \in Chars \cup {EOF} : typed' = Append(typed, c) /\ keyboard' = Append(keyboard, c)
    <3>1. PICK c \in Chars \cup {EOF} : typed' = Append(typed, c) /\ keyboard' = Append(keyboard, c)
      BY <2>2
    <3>2. /\ Len(typed') = Len(typed) + 1 /\ Len(keyboard') = Len(keyboard) + 1
          /\ Read' = Read /\ Taken' = Taken
          /\ \A k \in 1 .. Len(typed) : typed'[k] = typed[k]
          /\ typed'[Len(typed) + 1] = c
      <4>1. Len(typed') = Len(typed) + 1 /\ Len(keyboard') = Len(keyboard) + 1
        BY <3>1 DEF Streams
      <4>2. Read' = Read
        BY <1>1, <4>1 DEF Read
      <4>3. Taken' = Taken
        BY <1>5 DEF Type, Taken
      <4>4. typed \in Seq(Chars \cup {EOF})
        BY DEF Streams
      <4>5. /\ \A k \in 1 .. Len(typed) : typed'[k] = typed[k]
            /\ typed'[Len(typed) + 1] = c
        BY <3>1, <4>4
      <4> QED
        BY <4>1, <4>2, <4>3, <4>5
    <3>3. keyboard' = [k \in 1 .. Len(keyboard') |-> typed'[Read' + k]]
      <4>1. \A k \in 1 .. Len(keyboard) : keyboard'[k] = typed'[Read + k]
        <5> SUFFICES ASSUME NEW k \in 1 .. Len(keyboard) PROVE keyboard'[k] = typed'[Read + k]
          OBVIOUS
        <5>1. Read + k \in 1 .. Len(typed)
          BY <1>1
        <5>2. keyboard[k] = typed[Read + k]
          BY <1>1
        <5>3. keyboard'[k] = keyboard[k]
          BY <3>1 DEF Streams
        <5> QED
          BY <3>2, <5>1, <5>2, <5>3
      <4>2. keyboard'[Len(keyboard) + 1] = typed'[Read + (Len(keyboard) + 1)]
        BY <1>1, <3>1, <3>2 DEF Streams
      <4>3. \A k \in 1 .. Len(keyboard') : keyboard'[k] = typed'[Read' + k]
        BY <1>1, <3>2, <4>1, <4>2
      <4>4. keyboard' = [k \in 1 .. Len(keyboard') |-> keyboard'[k]]
        <5>1. keyboard' \in Seq(Chars \cup {EOF})
          BY <3>1 DEF Streams
        <5> QED
          BY <5>1
      <4> QED
        BY <4>3, <4>4
    <3>4. Shows(at, Taken, Read)'
      <4>1. \A p \in 1 .. Read : typed'[p] = typed[p]
        BY <1>1, <3>2
      <4>2. at \in [1 .. Len(Taken) -> 1 .. Read]
        BY <1>2 DEF Shows
      <4>3. \A k \in 1 .. Len(Taken) : typed'[at[k]] = typed[at[k]]
        BY <4>1, <4>2
      <4> QED
        BY <1>2, <3>2, <4>1, <4>2, <4>3 DEF Shows
    <3> QED
      BY <3>3, <3>4 DEF NoCharLost, Shows
  <2> QED
    BY <1>5, <2>1, <2>2 DEF Type
<1>6. CASE CheckCharAvail
  <2>1. incoming = EOF /\ typed' = typed /\ got' = got /\ Taken = got
    BY <1>6 DEF CheckCharAvail, Taken
  <2>2. CASE keyboard = <<>>
    BY <1>4, <1>6, <2>1, <2>2 DEF CheckCharAvail
  <2>3. CASE keyboard # <<>>
    <3>1. keyboard' = Tail(keyboard) /\ incoming' = Head(keyboard)
      BY <1>6, <2>3 DEF CheckCharAvail
    <3>2. Len(keyboard) > 0 /\ Len(keyboard') = Len(keyboard) - 1 /\ Read' = Read + 1
      BY <1>1, <2>1, <2>3, <3>1 DEF Streams, Read
    <3>3. incoming' = typed[Read + 1] /\ incoming' \in Chars \cup {EOF}
      <4>1. keyboard[1] = typed[Read + 1]
        BY <1>1, <3>2
      <4> QED
        BY <2>3, <3>1, <4>1 DEF Streams
    <3>4. keyboard' = [k \in 1 .. Len(keyboard') |-> typed'[Read' + k]]
      <4>1. keyboard' = [k \in 1 .. Len(keyboard') |-> keyboard[k + 1]]
        <5>1. keyboard \in Seq(Chars \cup {EOF})
          BY DEF Streams
        <5>2. /\ keyboard' \in Seq(Chars \cup {EOF})
              /\ \A k \in 1 .. Len(keyboard) - 1 : keyboard'[k] = keyboard[k + 1]
          BY <2>3, <3>1, <5>1
        <5> QED
          BY <3>2, <5>2
      <4>2. \A k \in 1 .. Len(keyboard') : keyboard[k + 1] = typed'[Read' + k]
        <5> SUFFICES ASSUME NEW k \in 1 .. Len(keyboard') PROVE keyboard[k + 1] = typed'[Read' + k]
          OBVIOUS
        <5>1. k + 1 \in 1 .. Len(keyboard) /\ Read' + k = Read + (k + 1)
          BY <1>1, <3>2
        <5> QED
          BY <1>1, <2>1, <5>1
      <4> QED
        BY <4>1, <4>2
    <3>5. PICK b : Shows(b, IF incoming' = EOF THEN got ELSE Append(got, incoming'), Read + 1)
      BY <1>1, <1>2, <1>3, <2>1, <3>3, ShowsMore
    <3>6. Taken' = IF incoming' = EOF THEN got ELSE Append(got, incoming')
      BY <2>1 DEF Taken
    <3>7. Shows(b, Taken, Read)'
      BY <2>1, <3>2, <3>5, <3>6 DEF Shows
    <3> QED
      BY <3>4, <3>7 DEF NoCharLost, Shows
  <2> QED
    BY <2>2, <2>3
<1>7. ASSUME NEW t \in Readers, GetChar(t) PROVE NoCharLost'
  <2>1. typed' = typed /\ keyboard' = keyboard /\ Taken' = Taken /\ Read' = Read
    BY <1>7 DEF GetChar, Taken, Read, input
  <2> QED
    BY <2>1 DEF NoCharLost
<1> QED
  BY <1>4, <1>5, <1>6, <1>7
  DEF Next, Device, Quiet, vars, input, Reader, Writer, WriteDone, ReadP, Acquire, PutChar, WriteP,
      Release

(* Console::CheckCharAvail reads no character over the one in its buffer,  *)
(* and GetChar hands each on once: whatever is typed, and whenever readers *)
(* are switched in, none is lost, repeated or overtaken.                   *)
THEOREM NoneLost == Spec => []NoCharLost
<1>1. Init => Streams /\ NoCharLost
  <2> SUFFICES ASSUME Init PROVE Streams /\ NoCharLost
    OBVIOUS
  <2>1. typed = <<>> /\ keyboard = <<>> /\ got = <<>> /\ incoming = EOF
    BY DEF Init
  <2>2. Streams /\ Read = 0 /\ Taken = <<>>
    BY <2>1 DEF Streams, Read, Taken
  <2>3. Shows(<<>>, Taken, Read)
    BY <2>2 DEF Shows
  <2>4. keyboard = [k \in 1 .. Len(keyboard) |-> typed[Read + k]]
    BY <2>1
  <2> QED
    BY <2>2, <2>3, <2>4, NoCharLostIs
<1> QED
  BY <1>1, StreamsInv, LostInv, PTL DEF Spec

=============================================================================
