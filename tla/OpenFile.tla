------------------------------ MODULE OpenFile ------------------------------
(***************************************************************************)
(* Open files (filesys/openfile.cc) and the kernel threads that use them   *)
(* (filesys/fstest.cc).                                                    *)
(*                                                                         *)
(* A handle is an OpenFile: a file header in memory and a position.        *)
(* ReadAt and WriteAt go through the sectors of their range one at a time, *)
(* and other threads run while a sector is transferred (module SynchDisk   *)
(* shows that a transfer is atomic).  A sector that is written in part is  *)
(* read first.  The sector of a byte comes from the header itself for the  *)
(* files of the file system (mode 0), or from one of the index blocks the  *)
(* header leads to (mode 1); index blocks do not change while a file is    *)
(* open, so that an index block and the sector it leads to are read in one *)
(* step.  Sectors are named by what Allocate gave them to (module          *)
(* FileSystem), and a thread runs a script of commands.                    *)
(***************************************************************************)
EXTENDS Integers, Sequences

CONSTANTS
    Threads,
    Handles,        \* the OpenFile objects
    SectorSize,     \* disk.h, 128
    FanOut,         \* SectorSize / sizeof(int), pointers of an index block, 32
    Length,         \* [files -> Nat], numBytes of the headers
    Direct,         \* the files that are used with mode 0
    Unix,           \* [files -> Seq], the UNIX files that Copy reads
    Blank,          \* [files -> Seq], what the data sectors hold at first
    Present,        \* the files that exist at first
    NoRoom,         \* the files that Create has no room for
    Scripts,        \* [Threads -> sets of scripts]
    TransferSize,   \* bytes that Print asks for, 10
    Contents,       \* what FileWrite writes again and again
    Junk,           \* a byte that was never written
    NoFile

Files == DOMAIN Length
Offset == 0 .. SectorSize - 1
NumSectors(f) == (Length[f] + SectorSize - 1) \div SectorSize
NumIndexBlocks(f) == (NumSectors(f) + FanOut - 1) \div FanOut

ASSUME OpenFileAssumption ==
    /\ SectorSize \in Nat \ {0} /\ FanOut \in Nat \ {0}
    /\ \A f \in Files :
          /\ Length[f] \in Nat /\ Len(Blank[f]) = Length[f]
          /\ Unix[f] = [k \in 1 .. Length[f] |-> Unix[f][k]]
    /\ TransferSize \in Nat \ {0}
    /\ Len(Contents) \in Nat \ {0} /\ Contents = [k \in 1 .. Len(Contents) |-> Contents[k]]
    /\ Present \subseteq Files /\ NoFile \notin Files

VARIABLES
    disk,           \* [sectors -> [Offset -> bytes] or index blocks]
    created,        \* the files in the directory
    handle,         \* [Handles -> [file, seekPosition]]
    script, pc,     \* the commands of a thread, and where it is in them
    call,           \* the ReadAt, WriteAt or Copy it is in
    answer,         \* what its last call returned
    done,           \* the i of the loops of FileWrite and FileRead
    output,         \* what it has printed of files
    complained,     \* it has printed that a test failed
    aborted         \* the process has died

vars == <<disk, created, handle, script, pc, call, answer, done, output, complained, aborted>>
-----------------------------------------------------------------------------
DataSector(f, i) == <<f, "data", i>>
IndexSector(f, j) == <<f, "index", j>>
DataSectors == UNION {{DataSector(f, i) : i \in 0 .. NumSectors(f) - 1} : f \in Files}
IndexSectors ==
    UNION {{IndexSector(f, j) : j \in 0 .. NumIndexBlocks(f) - 1} : f \in Files \ Direct}

(* FileHeader::dataSectors, and what an index block holds.                 *)
dataSectors(f) ==
    IF f \in Direct THEN [i \in 0 .. NumSectors(f) - 1 |-> DataSector(f, i)]
    ELSE [j \in 0 .. NumIndexBlocks(f) - 1 |-> IndexSector(f, j)]
IndexBlock(f, j) == [k \in 0 .. FanOut - 1 |-> DataSector(f, j * FanOut + k)]

(* FileHeader::ByteToSector, of the i-th sector of the file; the mode is   *)
(* that of the file.                                                       *)
ByteToSector(f, i) ==
    IF f \in Direct THEN dataSectors(f)[i]
    ELSE disk[dataSectors(f)[i \div FanOut]][i % FanOut]

Sector(f, bytes, i) ==
    [k \in Offset |-> IF i * SectorSize + k < Length[f] THEN bytes[i * SectorSize + k + 1]
                      ELSE Junk]
-----------------------------------------------------------------------------
(* The commands of scripts.  One that fails leaves out the "skip" commands *)
(* after it, those of the function it is in.  Read and Write in a loop     *)
(* come again until the loop of their function ends.                       *)
Abort == -1
CreateC(f, skip) == [do |-> "Create", f |-> f, skip |-> skip]
OpenC(h, f, skip) == [do |-> "Open", h |-> h, f |-> f, skip |-> skip]
SeekC(h, at) == [do |-> "Seek", h |-> h, at |-> at]
ReadC(h, n, loop) == [do |-> "Read", h |-> h, n |-> n, loop |-> loop]
WriteC(h, data, loop) == [do |-> "Write", h |-> h, from |-> data, n |-> Len(data), loop |-> loop]
ReadAtC(h, n, at) == [do |-> "ReadAt", h |-> h, n |-> n, at |-> at, loop |-> "once"]
WriteAtC(h, data, at) ==
    [do |-> "WriteAt", h |-> h, from |-> data, n |-> Len(data), at |-> at, loop |-> "once"]
CopyC(h) == [do |-> "Copy", h |-> h, loop |-> "once"]
CloseC(h) == [do |-> "Close", h |-> h]
RemoveC(f) == [do |-> "Remove", f |-> f]

(* The functions of fstest.cc.                                             *)
Copy(h, f) == <<CreateC(f, 3), OpenC(h, f, Abort), CopyC(h), CloseC(h)>>
PrintFile(h, f) == <<OpenC(h, f, 2), ReadC(h, TransferSize, "print"), CloseC(h)>>
FileWrite(h, f) == <<CreateC(f, 3), OpenC(h, f, 2), WriteC(h, Contents, "write"), CloseC(h)>>
FileRead(h, f) == <<OpenC(h, f, 2), ReadC(h, Len(Contents), "check"), CloseC(h)>>
PerformanceTest(h, f) == FileWrite(h, f) \o FileRead(h, f) \o <<RemoveC(f)>>
Test2(opens1, opens2, opens3, med, small, abc, num) ==
    Copy(opens1, small) \o Copy(opens1, med)
    \o <<OpenC(opens1, med, 0), OpenC(opens2, small, 0), OpenC(opens3, med, 0),
         WriteC(opens1, Contents, "once"), WriteC(opens2, Contents, "once"),
         WriteC(opens3, abc, "once"), WriteC(opens1, num, "once"),
         CloseC(opens1), CloseC(opens2), CloseC(opens3)>>
    \o PrintFile(opens1, med) \o PrintFile(opens1, small)

(* What scripts have in common with those functions.  Positions are not    *)
(* negative, a handle is a local variable of the thread that uses it, and  *)
(* Copy goes on only with the file it has just opened, which is not one of *)
(* the system's.                                                           *)
OnHandle == {"Open", "Seek", "Close", "Read", "Write", "ReadAt", "WriteAt", "Copy"}
WellFormed(c) ==
    /\ c.do \in {"Create", "Open"} => c.f \in Files
    /\ c.do = "Create" => c.skip \in Nat
    /\ c.do = "Open" => c.skip \in Nat \cup {Abort}
    /\ c.do \in OnHandle => c.h \in Handles
    /\ c.do \in {"Seek", "ReadAt", "WriteAt"} => c.at \in Nat
    /\ c.do \in {"Read", "Write", "ReadAt", "WriteAt"} => c.n \in Int
CopiesWhatItOpened(s, k) ==
    /\ s[k].do = "Copy" =>
        /\ k > 1 /\ s[k - 1].do = "Open" /\ s[k - 1].h = s[k].h
        /\ s[k - 1].skip = Abort /\ s[k - 1].f \notin Direct
    /\ s[k].do \in {"Create", "Open"} /\ s[k].skip # Abort /\ k + 1 + s[k].skip \in DOMAIN s
        => s[k + 1 + s[k].skip].do # "Copy"

(* Read and Write always go by index blocks (openfile.cc:70, 76), so they  *)
(* are for files; the mode of ReadAt and WriteAt is the file's.            *)
ReadsThroughIndex(s, k) ==
    s[k].do \in {"Read", "Write"} =>
        \A j \in DOMAIN s : s[j].do = "Open" /\ s[j].h = s[k].h => s[j].f \notin Direct

ASSUME ScriptAssumption ==
    /\ \A t \in Threads : \A s \in Scripts[t] :
          /\ Len(s) \in Nat /\ DOMAIN s = 1 .. Len(s)
          /\ \A k \in DOMAIN s : /\ WellFormed(s[k]) /\ CopiesWhatItOpened(s, k)
                                /\ ReadsThroughIndex(s, k)
    /\ \A t, u \in Threads : t # u =>
          \A s \in Scripts[t], r \in Scripts[u] : \A k \in DOMAIN s, j \in DOMAIN r :
             s[k].do \in OnHandle /\ r[j].do \in OnHandle => s[k].h # r[j].h

(* The files that a script creates, removes, or writes to.                 *)
Opens(s, h, f) == \E k \in DOMAIN s : s[k].do = "Open" /\ s[k].h = h /\ s[k].f = f
Alters(s, f) == \E k \in DOMAIN s :
    \/ s[k].do \in {"Create", "Remove"} /\ s[k].f = f
    \/ s[k].do \in {"Write", "WriteAt", "Copy"} /\ Opens(s, s[k].h, f)

(* A file that is copied and printed, or that the performance test uses,   *)
(* is altered by nobody else.  Only the performance test complains of what *)
(* it meets; its file is new, there is room for it, and FileSize is so     *)
(* many times ContentSize (fstest.cc:129).                                 *)
ASSUME TestAssumption ==
    \A t \in Threads : \A s \in Scripts[t] :
        /\ \A h \in Handles, f \in Files :
              /\ s \in {Copy(h, f) \o PrintFile(h, f), PerformanceTest(h, f)} =>
                    \A u \in Threads \ {t} : \A r \in Scripts[u] : ~Alters(r, f)
              /\ s = PerformanceTest(h, f) =>
                    /\ f \notin Present \cup NoRoom
                    /\ \E n \in 1 .. Length[f] : Length[f] = n * Len(Contents)
        /\ \A k \in DOMAIN s :
              \/ s[k].do = "Remove"
              \/ /\ s[k].do \in {"Read", "Write", "ReadAt", "WriteAt", "Copy"}
                 /\ s[k].loop \in {"write", "check"}
           => \E h \in Handles, f \in Files : s = PerformanceTest(h, f)
-----------------------------------------------------------------------------
Closed == [file |-> NoFile, seekPosition |-> 0]
NoCall == [kind |-> "none"]

Init ==
    /\ disk = [s \in DataSectors \cup IndexSectors |->
                  IF s[2] = "data" THEN Sector(s[1], Blank[s[1]], s[3]) ELSE IndexBlock(s[1], s[3])]
    /\ created = Present
    /\ handle = [h \in Handles |-> Closed]
    /\ script \in {s \in [Threads -> UNION {Scripts[t] : t \in Threads}] :
                    \A t \in Threads : s[t] \in Scripts[t]}
    /\ pc = [t \in Threads |-> 1]
    /\ call = [t \in Threads |-> NoCall]
    /\ answer = [t \in Threads |-> [n |-> 0, into |-> <<>>]]
    /\ done = [t \in Threads |-> 0]
    /\ output = [t \in Threads |-> <<>>]
    /\ complained = [t \in Threads |-> FALSE]
    /\ aborted = FALSE

Finished(t) == pc[t] > Len(script[t])
At(t) == script[t][pc[t]]
Runs(t) == ~aborted /\ ~Finished(t) /\ call[t] = NoCall
Does(t, what) == Runs(t) /\ At(t).do \in what
Goto(t, n) == pc' = [pc EXCEPT ![t] = n]
-----------------------------------------------------------------------------
(* FileSystem::Create fails if the name is there, or without room.         *)
Create(t) ==
    /\ Does(t, {"Create"})
    /\ IF At(t).f \in created \cup NoRoom
       THEN Goto(t, pc[t] + 1 + At(t).skip) /\ UNCHANGED created
       ELSE Goto(t, pc[t] + 1) /\ created' = created \cup {At(t).f}
    /\ UNCHANGED <<disk, handle, script, call, answer, done, output, complained, aborted>>

(* FileSystem::Open, and the constructor of OpenFile.                      *)
Open(t) ==
    /\ Does(t, {"Open"})
    /\ IF At(t).f \in created
       THEN /\ handle' = [handle EXCEPT ![At(t).h] = [file |-> At(t).f, seekPosition |-> 0]]
            /\ Goto(t, pc[t] + 1)
            /\ UNCHANGED aborted
       ELSE /\ aborted' = (At(t).skip = Abort)
            /\ Goto(t, pc[t] + 1 + At(t).skip)
            /\ UNCHANGED handle
    /\ UNCHANGED <<disk, created, script, call, answer, done, output, complained>>

Seek(t) ==
    /\ Does(t, {"Seek"})
    /\ handle' = [handle EXCEPT ![At(t).h].seekPosition = At(t).at]
    /\ Goto(t, pc[t] + 1)
    /\ UNCHANGED <<disk, created, script, call, answer, done, output, complained, aborted>>

Close(t) ==
    /\ Does(t, {"Close"})
    /\ handle' = [handle EXCEPT ![At(t).h] = Closed]
    /\ Goto(t, pc[t] + 1)
    /\ UNCHANGED <<disk, created, script, call, answer, done, output, complained, aborted>>

(* FileSystem::Remove.  Clients do not remove a file that is open.         *)
Remove(t) ==
    /\ Does(t, {"Remove"})
    /\ \A h \in Handles : handle[h].file # At(t).f
    /\ created' = created \ {At(t).f}
    /\ complained' = [complained EXCEPT ![t] = @ \/ At(t).f \notin created]
    /\ Goto(t, pc[t] + 1)
    /\ UNCHANGED <<disk, handle, script, call, answer, done, output, aborted>>
-----------------------------------------------------------------------------
Todo(op, i) == [op |-> op, i |-> i]
Each(op, first, last) == [k \in 1 .. last - first + 1 |-> Todo(op, first + k - 1)]

Span(c) == {p \in c.at .. c.at + c.n - 1 : p < Length[c.f]}
numBytes(c) == IF c.n <= 0 \/ c.at >= Length[c.f] THEN 0
               ELSE IF c.at + c.n > Length[c.f] THEN Length[c.f] - c.at ELSE c.n
firstSector(c) == c.at \div SectorSize
lastSector(c) == (c.at + numBytes(c) - 1) \div SectorSize
firstAligned(c) == c.at = firstSector(c) * SectorSize
lastAligned(c) == c.at + numBytes(c) = (lastSector(c) + 1) * SectorSize

(* Mutant: the last sector is taken to be whole if it is the first.        *)
PartsOtherEndOnly(c) ==
    (IF firstAligned(c) THEN <<>> ELSE <<firstSector(c)>>)
    \o (IF ~lastAligned(c) /\ firstSector(c) # lastSector(c) THEN <<lastSector(c)>> ELSE <<>>)

(* The sectors of a WriteAt that are read because they are kept in part.   *)
Parts(c) ==
    (IF firstAligned(c) THEN <<>> ELSE <<firstSector(c)>>)
    \o (IF ~lastAligned(c) /\ (firstSector(c) # lastSector(c) \/ firstAligned(c))
        THEN <<lastSector(c)>> ELSE <<>>)

(* What ReadAt and WriteAt transfer, sector by sector.                     *)
Transfers(c) ==
    IF numBytes(c) = 0 THEN <<>>
    ELSE IF c.kind = "read" THEN Each("get", firstSector(c), lastSector(c))
    ELSE IF c.kind = "write"
         THEN [k \in DOMAIN Parts(c) |-> Todo("fill", Parts(c)[k])]
              \o Each("put", firstSector(c), lastSector(c))
         ELSE Each("put", 0, NumSectors(c.f) - 1)
buffer(c) ==
    [p \in firstSector(c) * SectorSize .. (lastSector(c) + 1) * SectorSize - 1 |-> Junk]

Kept(c) == IF c.kind # "write" \/ numBytes(c) = 0 THEN {}
           ELSE {Parts(c)[k] : k \in DOMAIN Parts(c)}
Written(c) == IF c.kind = "read" \/ numBytes(c) = 0 THEN {} ELSE firstSector(c) .. lastSector(c)

(* Clients do not write to a sector while it is between being read and     *)
(* written back by the WriteAt of another thread.                          *)
Careful(t, c) ==
    \A u \in Threads \ {t} : call[u] # NoCall /\ call[u].f = c.f =>
        Kept(c) \cap Written(call[u]) = {} /\ Written(c) \cap Kept(call[u]) = {}

Begin(t, c, hdrReader) ==
    /\ Careful(t, c)
    /\ call' = [call EXCEPT ![t] =
           [kind |-> c.kind, h |-> c.h, f |-> c.f, n |-> c.n, at |-> c.at,
            advances |-> c.advances, from |-> c.from, hdrReader |-> hdrReader,
            queue |-> Transfers(c), buf |-> buffer(c)]]

(* OpenFile::Read and Write start at seekPosition, ReadAt and WriteAt      *)
(* where they are told.  There is no file behind a null pointer.           *)
Transfer(t) ==
    /\ Does(t, {"Read", "Write", "ReadAt", "WriteAt"})
    /\ LET c == At(t)
           fd == handle[c.h]
           advances == c.do \in {"Read", "Write"}
       IN  IF fd.file = NoFile THEN aborted' = TRUE /\ UNCHANGED call
           ELSE /\ Begin(t, [kind |-> IF c.do \in {"Read", "ReadAt"} THEN "read" ELSE "write",
                             h |-> c.h, f |-> fd.file, n |-> c.n, advances |-> advances,
                             at |-> IF advances THEN fd.seekPosition ELSE c.at,
                             from |-> IF c.do \in {"Write", "WriteAt"} THEN c.from ELSE <<>>], Junk)
                /\ UNCHANGED aborted
    /\ UNCHANGED <<disk, created, handle, script, pc, answer, done, output, complained>>

(* Copy fetches an index block into hdrReader before the first sector and  *)
(* after each FanOut sectors.  One past the last is a header's garbage:    *)
(* the disk refuses the number (ASSERT in ReadRequest), or reads something *)
(* that is not used.                                                       *)
Fetch(f, j) == IF j < NumIndexBlocks(f) THEN {disk[IndexSector(f, j)]} ELSE {NoFile, Junk}

StartCopy(t) ==
    /\ Does(t, {"Copy"})
    /\ LET f == handle[At(t).h].file
       IN  \E hdrReader \in Fetch(f, 0) :
              /\ Begin(t, [kind |-> "copy", h |-> At(t).h, f |-> f, n |-> Length[f], at |-> 0,
                           advances |-> FALSE, from |-> Unix[f]], hdrReader)
              /\ aborted' = (hdrReader = NoFile)
    /\ UNCHANGED <<disk, created, handle, script, pc, answer, done, output, complained>>

Advance(c) == [c EXCEPT !.queue = Tail(@)]
Doing(t, op) == ~aborted /\ call[t] # NoCall /\ call[t].queue # <<>> /\ Head(call[t].queue).op = op
OffsetsIn(i) == i * SectorSize .. (i + 1) * SectorSize - 1

(* ReadSector, for ReadAt or for a part that is kept: no more than what is *)
(* before the end of the file is copied out.                               *)
ReadSector(t) ==
    /\ Doing(t, "get") \/ Doing(t, "fill")
    /\ LET c == call[t]
           i == Head(c.queue).i
           data == disk[ByteToSector(c.f, i)]
       IN  call' = [call EXCEPT ![t] = [Advance(c) EXCEPT !.buf =
              [p \in DOMAIN @ |-> IF p \in OffsetsIn(i) /\ p < Length[c.f]
                                  THEN data[p % SectorSize] ELSE @[p]]]]
    /\ UNCHANGED <<disk, created, handle, script, pc, answer, done, output, complained, aborted>>

(* Mutant: bytes of the sector that are not written become garbage.        *)
BytesOfBare(c, i) ==
    [k \in Offset |-> IF i * SectorSize + k \in Span(c)
                      THEN c.from[i * SectorSize + k - c.at + 1] ELSE Junk]

(* What WriteSector is given: the caller's bytes over those of the buffer. *)
BytesOf(c, i) ==
    [k \in Offset |-> IF i * SectorSize + k \in Span(c)
                      THEN c.from[i * SectorSize + k - c.at + 1]
                      ELSE c.buf[i * SectorSize + k]]

WriteSector(t) ==
    /\ Doing(t, "put") /\ call[t].kind = "write"
    /\ LET c == call[t]
           i == Head(c.queue).i
       IN  /\ disk' = [disk EXCEPT ![ByteToSector(c.f, i)] = BytesOf(c, i)]
           /\ call' = [call EXCEPT ![t] = Advance(c)]
    /\ UNCHANGED <<created, handle, script, pc, answer, done, output, complained, aborted>>

(* Mutant: the first index block serves for the whole file.                *)
CopySectorNoFetch(t) ==
    /\ Doing(t, "put") /\ call[t].kind = "copy"
    /\ LET c == call[t]
           i == Head(c.queue).i
       IN  /\ disk' = [disk EXCEPT ![c.hdrReader[i % FanOut]] = BytesOf(c, i)]
           /\ call' = [call EXCEPT ![t] = Advance(c)]
    /\ UNCHANGED <<created, handle, script, pc, answer, done, output, complained, aborted>>

CopySector(t) ==
    /\ Doing(t, "put") /\ call[t].kind = "copy"
    /\ LET c == call[t]
           i == Head(c.queue).i
       IN  /\ disk' = [disk EXCEPT ![c.hdrReader[i % FanOut]] = BytesOf(c, i)]
           /\ \E hdrReader \in IF (i + 1) % FanOut = 0 THEN Fetch(c.f, (i + 1) \div FanOut)
                               ELSE {c.hdrReader} :
                 /\ call' = [call EXCEPT ![t] = [Advance(c) EXCEPT !.hdrReader = hdrReader]]
                 /\ aborted' = (hdrReader = NoFile)
    /\ UNCHANGED <<created, handle, script, pc, answer, done, output, complained>>
-----------------------------------------------------------------------------
(* The caller's loop, given what Read or Write returned: a test fails, the *)
(* loop goes on.                                                           *)
Fails(c, n, into) ==
    \/ c.loop = "write" /\ n < Len(Contents)
    \/ c.loop = "check" /\ into # Contents
Counted(t) == done[t] + Len(Contents)

(* Mutant: the end of the file, a read of nothing, does not end the loop.  *)
GoesOnAtEnd(t, c, n, failed) ==
    \/ c.loop = "print" /\ n >= 0
    \/ c.loop \in {"write", "check"} /\ ~failed /\ Counted(t) < Length[call[t].f]

GoesOn(t, c, n, failed) ==
    \/ c.loop = "print" /\ n > 0
    \/ c.loop \in {"write", "check"} /\ ~failed /\ Counted(t) < Length[call[t].f]

Loop(t, c, n, into) ==
    LET failed == Fails(c, n, into)
        again == GoesOn(t, c, n, failed)
    IN  /\ Goto(t, IF again THEN pc[t] ELSE pc[t] + 1)
        /\ done' = [done EXCEPT ![t] = IF again /\ c.loop # "print" THEN Counted(t) ELSE 0]
        /\ complained' = [complained EXCEPT ![t] = @ \/ failed]
        /\ output' = IF c.loop = "print" THEN [output EXCEPT ![t] = @ \o into] ELSE output

Return(t) ==
    /\ ~aborted /\ call[t] # NoCall /\ call[t].queue = <<>>
    /\ LET c == call[t]
           n == numBytes(c)
           into == [k \in 1 .. IF c.kind = "read" THEN n ELSE 0 |-> c.buf[c.at + k - 1]]
       IN  /\ answer' = [answer EXCEPT ![t] = [n |-> n, into |-> into]]
           /\ handle' = IF c.advances THEN [handle EXCEPT ![c.h].seekPosition = @ + n] ELSE handle
           /\ Loop(t, At(t), n, into)
    /\ call' = [call EXCEPT ![t] = NoCall]
    /\ UNCHANGED <<disk, created, script, aborted>>

Quiet == (aborted \/ \A t \in Threads : Finished(t)) /\ UNCHANGED vars

Step(t) ==
    \/ Create(t) \/ Open(t) \/ Seek(t) \/ Close(t) \/ Remove(t)
    \/ Transfer(t) \/ StartCopy(t)
    \/ ReadSector(t) \/ WriteSector(t) \/ CopySector(t) \/ Return(t)

Next == Quiet \/ \E t \in Threads : Step(t)

(* The scheduler gives every thread that can run its turn.                 *)
Spec == Init /\ [][Next]_vars /\ \A t \in Threads : WF_vars(Step(t))
-----------------------------------------------------------------------------
(* PROPERTIES.                                                             *)
(* A handle is an array of bytes with a position, for every interleaving   *)
(* of the sectors of several calls: partial sectors are merged with what   *)
(* was there and no other byte is touched (openfile.cc:87-98).             *)
content == [f \in Files |-> [p \in 0 .. Length[f] - 1 |->
                disk[DataSector(f, p \div SectorSize)][p % SectorSize]]]
Left(c) == {p \in Span(c) : \E k \in DOMAIN c.queue :
                c.queue[k] \in {Todo("get", p \div SectorSize), Todo("put", p \div SectorSize)}}
Seen(c) ==
    [kind |-> IF c.kind = "read" THEN "read" ELSE "write", h |-> c.h, f |-> c.f,
     at |-> c.at, n |-> c.n, from |-> c.from, advances |-> c.advances, todo |-> Left(c),
     into |-> [p \in IF c.kind = "read" THEN Span(c) \ Left(c) ELSE {} |-> c.buf[p]]]
Flat == INSTANCE FlatFile WITH
    on <- [h \in Handles |-> handle[h].file],
    position <- [h \in Handles |-> handle[h].seekPosition],
    call <- [t \in Threads |-> IF call[t] = NoCall THEN NoCall ELSE Seen(call[t])]
FlatFileSpec == Flat!FSpec

(* What the refinement rests on.  Index blocks stay what they were.        *)
TypeOK ==
    /\ created \subseteq Files
    /\ handle \in [Handles -> [file : Files \cup {NoFile}, seekPosition : Nat]]
    /\ DOMAIN script = Threads /\ pc \in [Threads -> Nat \ {0}]
    /\ DOMAIN call = Threads /\ DOMAIN answer = Threads
    /\ \A t \in Threads : script[t] \in Scripts[t]
    /\ aborted \in BOOLEAN
OnDisk ==
    /\ DOMAIN disk = DataSectors \cup IndexSectors
    /\ \A f \in Files \ Direct : \A j \in 0 .. NumIndexBlocks(f) - 1 :
          disk[IndexSector(f, j)] = IndexBlock(f, j)

(* Copy finds the file open that it has created.                           *)
AtCopy ==
    \A t \in Threads : ~Finished(t) /\ At(t).do = "Copy" =>
        handle[At(t).h].file \in Files \ Direct

(* A call is at a sector of its range: what it reads for merging comes     *)
(* before what it writes, and every sector once.                           *)
Fields == {"kind", "h", "f", "n", "at", "advances", "from", "hdrReader", "queue", "buf"}
Request(c) ==
    /\ DOMAIN c = Fields
    /\ c.kind \in {"read", "write", "copy"} /\ c.h \in Handles /\ c.f \in Files
    /\ c.n \in Int /\ c.at \in Nat /\ c.advances \in BOOLEAN
    /\ c.kind = "copy" => c.f \notin Direct /\ c.at = 0 /\ c.n = Length[c.f]
    /\ DOMAIN c.buf = DOMAIN buffer(c)
Queue(c) ==
    /\ c.queue \in Seq([op : {"get", "fill", "put"}, i : Nat])
    /\ c.queue # <<>> => numBytes(c) > 0
    /\ \A k \in DOMAIN c.queue :
          /\ c.queue[k].op = "get" <=> c.kind = "read"
          /\ c.queue[k].op = "fill" => c.kind = "write"
          /\ c.queue[k].i \in firstSector(c) .. lastSector(c)
          /\ \A l \in DOMAIN c.queue : k < l =>
                /\ c.queue[l].op = "fill" => c.queue[k].op = "fill"
                /\ c.queue[k].op = c.queue[l].op => c.queue[k].i < c.queue[l].i
Copying(c) == c.kind = "copy" /\ c.queue # <<>> =>
    /\ \A k \in DOMAIN c.queue : c.queue[k].i = Head(c.queue).i + k - 1
    /\ c.hdrReader = IndexBlock(c.f, Head(c.queue).i \div FanOut)

(* A part that is kept and has been read is still what the file holds.     *)
Holds(c, op, i) == \E k \in DOMAIN c.queue : c.queue[k] = Todo(op, i)
Merged(c) ==
    \A p \in 0 .. Length[c.f] - 1 :
        LET i == p \div SectorSize
        IN  p \notin Span(c) /\ Holds(c, "put", i) /\ ~Holds(c, "fill", i)
            => c.buf[p] = content[c.f][p]
InCall ==
    \A t \in Threads : call[t] # NoCall =>
        Request(call[t]) /\ Queue(call[t]) /\ Copying(call[t]) /\ Merged(call[t])
Apart ==
    \A t, u \in Threads : t # u /\ call[t] # NoCall /\ call[u] # NoCall /\ call[t].f = call[u].f
        => Kept(call[t]) \cap Written(call[u]) = {}
SectorInv == TypeOK /\ OnDisk /\ AtCopy /\ InCall /\ Apart

(* A thread is in a call for the command it is at.                         *)
InCommand ==
    \A t \in Threads : call[t] # NoCall =>
        ~Finished(t) /\ At(t).do \in {"Read", "Write", "ReadAt", "WriteAt", "Copy"}
IInv == SectorInv /\ InCommand

(* What Copy takes through the index blocks is what Print shows of it      *)
(* through ByteToSector, to the last byte and no further.                  *)
CopyIsPrinted ==
    \A t \in Threads, h \in Handles, f \in Files :
        script[t] = Copy(h, f) \o PrintFile(h, f) /\ Finished(t) /\ f \in created \ Present
            => output[t] = Unix[f]

(* Nobody but the performance test writes to its file: it reads back what  *)
(* it has written and removes the file, whoever prints the file meanwhile. *)
PerformanceTestPasses == \A t \in Threads : ~complained[t]

(* The loops over a file come to its end.                                  *)
ScriptsEnd == <>(aborted \/ \A t \in Threads : Finished(t))
=============================================================================
