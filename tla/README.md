# A TLA+ model of the Nachos file system, network and machine

This directory holds TLA+ specifications of the program in `src/code`: a Nachos
operating system kernel whose own parts are a file system (`filesys/`), a
network stack (`network/`) and the simulated hardware they run on (`machine/`).
The thread system (`threads/`), the user-program kernel (`userprog/`) and `vm/`
are not in the repository. What the code uses of them (`Lock`, `Semaphore`,
`SynchList`, `List`, `BitMap`, `Thread`, the scheduler) is modelled from how it is
used and marked external in `PROJECT.json`.

## 1. Inventory

| Component | State | Operations | Talks to |
|---|---|---|---|
| Disk (`machine/disk.cc`) | UNIX file, `active`, head position | `ReadRequest`, `WriteRequest`, `HandleInterrupt`, `ComputeLatency` | Interrupt (schedules `DiskInt`), SynchDisk (callback) |
| SynchDisk (`filesys/synchdisk.cc`) | `lock`, `semaphore` | `ReadSector`, `WriteSector`, `RequestDone` | Disk |
| FileHeader (`filesys/filehdr.cc`) | size, pointers to index blocks (files) or data (directories) | `Allocate`, `AllocateDirectory`, `Deallocate`, `DeallocateDirectory`, `ByteToSector`, `FetchFrom`, `WriteBack` | SynchDisk, BitMap |
| Directory (`filesys/directory.cc`) | table of entries, `.` and `..` first | `Find`, `Add`, `AddDirectory`, `Remove`, `isEmpty`, `FetchFrom`, `WriteBack` | OpenFile |
| OpenFile (`filesys/openfile.cc`) | cached header, seek position | `ReadAt`, `WriteAt`, `Read`, `Write`, `Seek`, `Length` | FileHeader, SynchDisk |
| FileSystem (`filesys/filesys.cc`) | `freeMapFile`, `currentDir` | `Create`, `Open`, `Remove`, `CreateDirectory`, `RemoveDirectory`, `ChangeDirectory`, format, mount | all of the above |
| Network (`machine/network.cc`) | `sendBusy`, `inHdr`/`inbox`, a UNIX socket | `Send`, `SendDone`, `CheckPktAvail`, `Receive` | Interrupt, PostOffice (callbacks) |
| PostOffice (`network/post.cc`) | mailboxes, `sendLock`, `messageSent`, `messageAvailable` | `Send`, `Receive`, `NoBlockReceive`, `PostalDelivery`, `PacketSent`, `IncomingPacket` | Network |
| TCPostOffice (`network/tcp.cc`) | `connectedID`, `stoppingConnection`, `waitSem`, `stopSem` | connect, end, send and receive strings and files; `SendWait`, `ReceiveWait`, `CatchMail`, `CatchWithAnswer` | PostOffice, Interrupt (timeouts), FileSystem |
| Interrupt, Timer (`machine/interrupt.cc`, `timer.cc`) | level, sorted list of pending interrupts, clock, `inHandler`, `yieldOnReturn`, status | `SetLevel`, `OneTick`, `Idle`, `Schedule`, `CheckIfDue`, `YieldOnReturn`, `TimerExpired` | every device |
| Console (`machine/console.cc`) | `putBusy`, `incoming` | `CheckCharAvail`, `WriteDone`, `GetChar`, `PutChar` | Interrupt |
| Machine (`machine/machine.cc`, `mipssim.cc`, `translate.cc`) | registers, memory, TLB or page table | one instruction, delayed loads, `Translate`, `RaiseException` | Interrupt |

### What is hard
* **Interleaving.** Threads share one disk and one network device, and an interrupt
  says when a request is complete. Interrupts are delivered only when simulated time
  advances (`SetLevel`, `Idle`), between any two such points.
* **Crashes.** `filesys.cc` warns that a crash in the middle of an operation can
  corrupt the disk; there is no recovery code. Every operation writes several sectors.
* **State kept twice.** `currentDir` is a copy in memory of a table on disk.
* **Limits.** A full disk, a full directory, a header with all pointers used.
* **Restarts.** An instruction that traps starts again, with a delayed load or a branch
  half done, after the kernel has changed the tables.
* **Loss and time.** The network drops packets; TCP re-sends on a timeout and tells
  messages apart by their first character only.

`PROJECT.json` lists these as hazards, each at the line where it bites.

### What makes each component correct
* Disk: a request takes as long as its sector needs to pass the head, no less and no more.
* SynchDisk: to its callers, an atomic disk; no overlapping requests; every call returns.
* File system: files and directories are disjoint, marked in the free map and readable;
  `currentDir` agrees with the disk; a crash hurts at most what was being worked on; no
  client costs the free map before it has made the code misread a sector.
* Network and post office: one packet at a time; the mail that is not lost arrives once,
  in order, in the right mailbox; every `Send` returns.
* TCP: what is reported as sent has arrived, strings and files alike; pieces are in order;
  no thread waits without a wake-up to come; sending calls return.
* Interrupts: none is late, none is left behind when interrupts are enabled; a thread finds
  its own machine status; a ready thread runs; Nachos halts only when all is done.
* OpenFile: a handle is an array of bytes with a position, whichever sectors a request
  starts and ends in and whoever else uses the disk between two of them.
* Machine: to its program it is a MIPS with a flat memory of its own, whatever is paged
  out, restarted or switched in between.
* Console: no character is read over or left without a wake-up, no `PutChar` is refused.

## 2. Plan

Done, in this order:

1. **SynchDisk** over the disk device, and the abstract **AtomicDisk** it implements; proofs.
2. **FileSystem** on an atomic disk: every directory operation, formatting, restarts, crashes.
3. **PostOffice** over the network device, and the abstract **LossyMail** it implements; proofs.
4. **TCP** on LossyMail: connections, strings and files.
5. **Interrupt** and timer under threads.
6. **Machine**: every instruction, translation and traps, and the abstract **FlatMips** it implements.
7. **Console** under threads that read and write.
8. **OpenFile** under the scripts of `fstest.cc`, and the abstract **FlatFile** it implements.
9. **DiskTiming**: the latency of the disk, against where its head is.

Then the proofs, one component after the other: SynchDisk, PostOffice, Interrupt, Console, FileSystem
(its free map), DiskTiming, TCP, OpenFile, FileSystem (its tree), the scripts of OpenFile, Machine (memory and traps).

No module uses a RECURSIVE operator, so that all can be proved about; constants have
named assumptions as weak as the code allows, one action stands for one operation or
one step between two points where another actor may come in, and invariants are
conjunctions of named parts.

## 3. The modules

```
   FileSystem   (sector transfers are atomic)   OpenFile == implements ==> FlatFile
        \                                         /
         AtomicDisk <== implemented by == SynchDisk          Machine == implements ==> FlatMips
                                             |                  |  (Words, MipsCode)
   TCP                                  Disk, Interrupt      Interrupt
    |  (M == INSTANCE LossyMail)
   LossyMail <== implemented by == PostOffice                Console
                                       |                        |
                                 Network, Interrupt          Interrupt
```

| Module | Models | State and actions |
|---|---|---|
| `AtomicDisk` | what `ReadSector` and `WriteSector` promise | a call takes effect in one step between its start and its return |
| `SynchDisk` | `synchdisk.cc`, requests and interrupt of `disk.cc` | `lock`, `semaphore`, `active`, one program counter for each thread; `ReadRequest` transfers and schedules, `HandleInterrupt` V()s |
| `DiskTiming` | `ComputeLatency`, `TimeToSeek`, `ModuloDiff`, `UpdateLast` of `disk.cc` | the clock, `lastSector`, `bufferInit`, the request that is served; when the head came to its track is a history variable |
| `FileSystem` | `filesys.cc`, `directory.cc`, `filehdr.cc` | the disk as tagged sectors, `currentDir`, the writes still to come; an operation computes its writes in the order of the code, `WriteSector` performs one, `Crash` loses the rest |
| `FlatFile` | what `openfile.h` promises | files as arrays of bytes, handles as a file and a position; the bytes of one call are read or written in any order |
| `OpenFile` | `openfile.cc`, and the loops of `fstest.cc` as scripts | data sectors and index blocks, handles, the `ReadAt`, `WriteAt` or `Copy` a thread is in and the sectors it has left; one step transfers one sector |
| `LossyMail` | what `post.h` promises | mail in transit to a machine, mailboxes |
| `PostOffice` | `post.cc`, `network.cc` | socket, inbox, worker's buffer, mailboxes; `Send` and `SendLost` are the two outcomes of `Network::Send`, `CheckPktAvail` the polling interrupt, `WorkerP`, `Receive`, `Put` the three steps of `PostalDelivery` |
| `TCP` | `tcp.cc` | a script of calls for each machine's main thread, and the listener's thread; `pc` says where in `SendWait`, `CatchMail`, `ReceiveWait` or `CatchWithAnswer` a thread is, `stage` which of a call's waits this is |
| `Interrupt` | `interrupt.cc`, `timer.cc`, user mode entry and exit | pending interrupts by their distance from the clock, the threads' stacks of kernel calls, level, status, `inHandler`, `yieldOnReturn`; handlers are actions of their own |
| `Words` | the `int` arithmetic of `mipssim.cc`: signs, shifts, bit operations, fields of a word | operators on integers below `2^W`, and `Mult` as the code multiplies, bit by bit |
| `MipsCode` | `mipssim.h`, `bin/encode.h` | the operations and how they are grouped |
| `FlatMips` | what `machine.h` promises to user programs | registers, program counter with a delay slot, one memory of bytes for each process |
| `Machine` | `machine.cc`, `mipssim.cc`, `translate.cc` | registers with the pending load, frames, TLB or page table; `OneInstruction` executes or traps, the kernel's actions serve the trap |
| `Console` | `console.cc` | `incoming`, `putBusy`, the keyboard's file, the announcements (V()) not yet taken; `CheckCharAvail` and `WriteDone` are the interrupts |
| `MC...` | instances for TLC: bounds, scripts, programs | |
| `...Proofs` | theorems | |

Choices a reader should know of:

* **Where steps end.** Nachos threads are switched only at `P()`, `Acquire()`,
  `Yield()` and when interrupts are enabled. Steps of `SynchDisk`, `PostOffice` and `Console` end
  where the thread may be switched out, and a lock or semaphore operation is a step of its own. In
  `Interrupt` a step ends wherever another handler or thread can be next. In `OpenFile` it
  ends with each sector, in `Machine` with each instruction: `Machine::Run` calls
  `OneTick` after each.
* **Disk.** The simulated disk transfers a request's data at once and only the interrupt
  is delayed, so a request takes effect at `ReadRequest` or `WriteRequest`; the
  refinement to `AtomicDisk` relies on it.
  How long that takes does not matter to `SynchDisk`, whose other threads may take any number of
  steps in between. `DiskTiming` is about the time alone: the disk turns, the properties say which
  sectors pass the head, and the code's numbers must agree. Conversions to `int` wrap, `/` and
  `%` round as in C.
* **File system on disk.** A sector holds a header, an index block, a slice of a
  directory table, the free map or data. A header of a directory and of a file are the same
  struct: reading one as the other is possible in the model as in the code. The code then goes on with
  bytes that mean something else (`ChangeDirectory` takes a file's index blocks for a table, `filesys.cc:482`; `Create` and
  `Remove` take a client's data for a header, `filesys.cc:214`, `294`) and may write anywhere, over the free map too. The
  model does not follow it: the step (`Misreads`) loses a sector, any one, and goes to status `"undefined"`, in which
  nothing is claimed and nothing more happens. File contents are left out, sizes count sectors; `WriteAt` writes
  one sector of a file with data (`Raw`), where the file's pointers lead.
* **Clients.** `AllHabits` lists what a careful client does not do (remove a directory as a file,
  enter a file, write to a directory, ask for more than there is room for, go on after a crash...). For a client with
  none (`Careful`) the file system must behave, and no sector is ever misread. Each of the habits, alone, leads to a misread
  sector; what holds of such a client is that the free map is whole until then. A client keeps no handle of a file that it has removed.
* **Open files.** Where a file's sectors are is what `FileSystem` shows (no two files share
  one), so `OpenFile` names a sector by its file and index. Index blocks do not change while a
  file is open: reading one and the sector it leads to is one step. Threads do not
  share a handle, nor remove a file that is open, and do not write to a sector of which the `WriteAt`
  of another keeps a part (`Careful`): it keeps it as it
  was when it read it, and without this rule `FlatFileSpec` does not hold. What the C heap
  gives (an index past the header, bytes past a file's end) is a choice: a command dies, or goes on with `Junk`.
  The mode of `ReadAt` and `WriteAt` is the file's; `Read` and `Write`, whose mode is always 1 (`openfile.cc:70`), are for
  files only (`ReadsThroughIndex`).
* **Mail.** A message's bytes are an identity: its sender, mailbox and number. In `TCP` the
  first character stays, as the code compares it, with the piece it belongs to.
* **TCP's machines are asynchronous.** Each is a UNIX process with a simulated clock
  of its own, so any number of one's time-outs may fit into a step of the other.
* **Loss.** `Network::Send` draws a random number; the model may lose any packet.
* **TCP's strings and files.** They have a piece (`TokenAssumption`): `SendString` of an empty
  string writes before an array (`tcp.cc:28`). A file is text, as `strlen` cuts what follows a NUL
  (`tcp.cc:498`), its room on the receiver is counted in whole pieces, and a machine that
  writes to a file it could not open is gone. `ReceiveMessage` is taken to copy its piece; the `sprintf` it does this with
  reads past a full one, which has no NUL (`tcp.cc:316`).
* **Machine words.** `W` bits are four bytes of `ByteBits` each, 8 instead of 32 for TLC; fields of
  an instruction, immediates and jump regions shrink in proportion. An instruction word is a record of its fields, and
  programs neither read text as data nor execute data. `DIV` of the least integer by -1
  stops Nachos, as on the hosts it is built for; negating that integer wraps.
* **Programs keep to the MIPS's rules** that compilers keep to: they do not touch a
  register in the delay slot of its load (`LWR` after `LW` excepted). `LWL`, `LWR`, `SWL` and `SWR` at an address
  that is not aligned stop Nachos (an ASSERT), and the model with it (`crashed`); at one that is, `FlatMips`
  moves the bytes that the code does.
* **The kernel above the machine** is not in the repository. The model's pages on
  demand, keeps a copy of every page in a backing store, writes a frame back if its dirty bit
  is set, and switches processes between instructions, when an interrupt has come (`CheckIfDue`, which first does the load
  that is under way, `interrupt.cc:307`).
* **The keyboard** is a file: when it is closed, `PollFile` goes on announcing, and a
  character of code 255 is `EOF` (`console.cc:99`).

## 4. The runs

| Run | Question and answer | Bounds |
|---|---|---|
| `synch_disk` | The device never gets two requests at once, a caller is woken by its own interrupt, reads and writes are atomic, every call returns. | 2 threads, 2 sectors, 2 data values; the proofs hold for any number |
| `disk_timing` | A request takes until its sector has passed the head, or is served from the track buffer if that holds the sector, and no longer. | 3 tracks of 4 sectors, 3 ticks for a sector and 2 for a track (so that seeks end within sectors), 90 ticks: seven turns; pauses add up to any phase |
| `file_system` | A careful client, with restarts and crashes: files and directories never share a sector, all in use are marked, `currentDir` agrees with the disk, no ASSERT is met, what an operation answers is what it did, and a crash costs at most the entry that was worked on. A client with every bad habit: until it has made the code misread a sector, the free map can be read and is marked in itself. | 14 sectors, 2 pointers in a header and in an index block, 3 free entries in 2 sectors, sizes 1, 3 and (too much for a header) 5: nested directories, a file with two index blocks, full directories and a full disk; two names, which are symmetric; 5 operations of the second client, since what one corrupts must be used by a later one |
| `open_file` | Every handle is an array of bytes with a position, while two threads work sector by sector; `Copy` followed by `Print` shows the copied file; the performance test passes; every loop ends. | sectors of 2 bytes, index blocks of 2 pointers, `Print` by 3 bytes, files of 0 to 6 bytes: full and half-full last sectors and index blocks; a request may start and end anywhere in a sector and past the end |
| `post_office` | One packet at a time on its way out, none overwritten on its way in; mail is delivered once and in order; every `Send` returns; packets that are not lost arrive. | 3 threads on 2 machines, 1 mail each; the proofs hold for any number |
| `interrupt` | None is overlooked when interrupts are enabled; a thread finds its own status; with the timer every ready thread runs; Nachos halts when all is done. `IInv` contains what a proof needs: a handler runs on time, a switch is made when it is asked for. | 3 threads; ticks of 2 and 1, delays of 1, 2 and 5, so that interrupts are due during, between and after ticks; stacks of 4 calls |
| `tcp` | A string or file reported as sent has arrived, if first characters differ; pieces are in order; a machine whose `OpenConnection` has succeeded is connected to one that is connected to it or about to be (of the other direction see section 7). | a string and a file of 2 pieces, 2 re-emissions, 1 attempt to catch; calls are also made where they are refused |
| `tcp_stop` | Every sending call returns, of strings and of files, at whichever piece it is; a STOP ends `ReceiveString`; no wait is without a wake-up, while a machine's main thread and its listener wait on the same two semaphores and take each other's. | a string and a file of 2 pieces, 1 re-emission, one listener |
| `machine` | With page table or TLB, alone or two at a time, programs see the registers and memory of `FlatMips`; a page that differs from its copy is marked dirty; a process's memory changes where the process stores and nowhere else. | words of 8 bits; every operation with operands at the edges of their range; every access at offsets -8 to 7; two processes with 4 pages each on 2 frames and 2 TLB entries |
| `console` | No character is read over or left without a wake-up, the device is free when `PutChar` is called; all that is typed arrives and all writes return. | 2 readers, 2 writers of 2 and 1 characters, 3 characters typed with any of them `EOF`, 2 announcements ahead |
| `fs_leak`, `tcp_same_token` | The first two disagreements of section 7. | as small as shows them |

**Why the bounds are enough.** Geometry is scaled and keeps the relations that
matter: a directory takes more than one sector, a file needs more than one index
block, the disk fills up before the client runs out of names. Limits of TCP (20, 50 and
200 in the code) are 1 and 2: what a loop does at its limit and before it is covered, and since
machines are asynchronous, longer loops are only more of the same steps. `MaxFrames` in
`Interrupt` bounds how deep calls of `OneTick` nest inside the `Yield` of another; at
the bound the timer's handler does not ask for a switch.
`MaxOperations` of the client with bad habits, `MaxTicks` of the disk, `MaxSends` of the post office and `MaxTyped` of
the console bound the number of calls; `MaxAnnounced` keeps a closed keyboard from
announcing without end. Frames and TLB entries are fewer than the pages of one program, so that
pages are written back, and an entry replaced, in the middle of an instruction. Programs in `machine` have at most
four instructions: what an instruction leaves to the next is registers, a delayed load and a
branch, all of which last one instruction.

**Fairness.** An interrupt that is scheduled is delivered: simulated time advances as long
as Nachos runs (weak fairness of the handlers). A thread that can run does: the
scheduler's ready list is a FIFO (weak fairness of its steps, in `OpenFile` too, where nothing blocks).
A thread waiting for a lock or a
semaphore gets it if it becomes free again and again: their queues are FIFOs (strong
fairness of `Acquire`, of `P` where readers of the console compete, and of a thread's steps in TCP, whose semaphores have two
waiters). `interrupt` assumes only that kernel code comes to its end, while user code
need not; that a ready thread gets the processor is what it shows. It has a timer of fixed
period, longer than a kernel tick, as the code's 100 is longer than 10.
Nothing is assumed of the network: it may lose everything. `PacketsDelivered` speaks of packets
that were put into the socket. Nobody need type.

**Deadlock** is checked in every run. Where a system may stop (`Halted`, `Stopped`,
`Quiet`), an action says when, and any other stop is an error.

## 5. What is proved

For all values of the constants, with TLAPS:

* `DiskProofs`, the synchronous disk. `Invariance`: `IInv` is an invariant. Safety alone is not
  inductive; what carries it is that the thread inside the critical section holds
  the lock (`LockHolder`), that the wake-ups that exist, the semaphore's value and the interrupt to
  come, are one exactly if that thread waits and none otherwise (`OneWakeUp`), and that a
  thread has a request while it is in a call (`RequestWhileCalled`). `NoOverlap`,
  `OwnInterrupt` follow. `Atomicity`: SynchDisk implements AtomicDisk; a request
  maps to the step in which the call takes effect, all else to starts, returns and stutters.
* `PostOfficeProofs`. `Invariance`, from `LockHolder`, `OneWakeUp`, `MailInHand` (a
  thread in `Send` has its mail) and `InboxAnnounced` (a packet is in the inbox
  exactly if `messageAvailable` is up or the worker is about to receive it: this is why the
  device, which reads no packet while the inbox is occupied, never overwrites one).
  `OnePacket`, `WorkerHasPacket` follow. `Refinement`: PostOffice implements LossyMail, where
  what is in transit is the worker's buffer, the inbox and the socket, in this order.

* `InterruptProofs`. `Invariance`: the 7 parts of `IInv`, for any threads, delays and tick lengths. What
  `OneTick` promises holds only if whatever calls it has left the machine as it should be, so the
  invariant says for each place in the nested calls what the calls below it still have to restore
  (`StackShape`, `StatusSaved`, `InLoop`), how late an interrupt may be there (`Overdue`), and where a thread is that
  does not run (`Scheduled`: in the ready list, finished, or in a queue with an interrupt to come).
  `NoneDue`, `OnTime`, `OwnStatus`, `YieldsAtOnce` follow; `HaltsLast` follows from `Scheduled`.
* `ConsoleProofs`. `Invariance`, along the post office's argument (`LockHolder`, `OneWakeUp`, `Announced`), gives
  `NeverBusy` and `NeverLeft`. `NoneLost`: `NoCharLost` is inductive by itself once the types of the streams are known;
  it names the place of each character in what was typed (`at`) instead of filtering the
  sequence, since what a filter computes is an induction.
* `FileSystemProofs`. `Invariance`: `IInv`, that is, either a sector has been misread, and then nothing is claimed, or
  `MapInv`: no entry, header or index block on disk, in `currentDir` or among the writes
  still to come leads to the free map's two sectors (`SafeDisk`, `SafeWrites`), and these are marked.
  `MapSurvives` follows, for any habits, any sizes and crashes between any two writes: it says how far the free map is safe with a client that
  is not careful, up to the first sector that is misread. That a careful client never gets there is `CarefulNeverDies`. The free map must be
  safe on the disk as each write leaves it and in the writes together, as an operation computes what
  it writes from the disk it found. That `Find` takes a clear bit rests on a well-founded choice of the
  lowest (`Smallest`, `NthIsFree`).
  `Consistency`, `Coherence`, `CrashesSpareOthers`, `CarefulNeverDies` and `Truthfulness` follow from a second invariant, `FsInv`, for a
  client with none of the bad habits (section 7 says what those lead to) and any sizes, names and restarts; it is what
  every header and table holds in the middle of an operation. The disk at rest is `Good(disk, D)`, for a set D of directories: D is
  `Reached` from the root and no larger, each lists what is whole, on sectors of its own that the map has marked
  (`Sound`), has its two links, and each name once (`Linked`). While an operation runs, the disk
  is the Good one it started from, with what it `May` write to it: anything to a sector that was free, the map without
  the sectors of other objects, and the table of its directory with one entry changed (`Altered`). So the order of the
  writes does not matter to the others: from that alone follows that all but the one entry is sound wherever the operation
  is stopped (`AlteredSound`). With all its writes it leaves a Good disk again
  (`Succeeds`, `GoodAfter`), for which the new object must be on sectors that were free, all different and no longer free
  (`NewFileObject`, `NewDirectoryObject`, from `Finds` and the places of index and data blocks in the calls of `Find`, `Places`),
  and each part of the writes must find the headers it goes by untouched by the parts before it (`DirectoryParts`).
  What a client writes to a file goes to a sector of that file's data, in no table, header or index block (`FileData`),
  and leaves the disk Good (`DataKeeps`); while that write is to come the state is a fourth one, `Fills`.
  `Consistent` is stated with `Dirs`, a search to a fixed depth; `DirsAll` shows that it is deep enough, by counting how many
  directories fit on the disk (`FramesFit`). FsInv speaks of a disk of the past and of a set D that it does not
  name, so TLC cannot evaluate it; it checks what follows from it, run `file_system`.
* `DiskProofs`, the disk below it. `TimingInvariance`, `NeverTooSoon`, `NeverTooLate`, for any geometry, any speed and any
  pauses, under one hypothesis, `ClockFits`: no request ends after the last tick an `int` holds. The code
  does not look after that (section 7), and without it both are false. `TimingInv` adds when the track buffer was begun
  (`BufferStart`, which is whole sectors) and since when the head is where it is (`HeadSettles`). The lemmas are about rounding: C's
  `/` and `%` on the naturals, `ModuloDiff`, and sectors as intervals of the rotation.
* `TCPProofs`. `NoLostWakeUp`: `WakeUpForEachWait` with the types of the counters is inductive, for any machines,
  scripts, limits and listeners. `InOrder` and `Reliability`, for any machines, tokens, limits and listeners, under
  the hypothesis that two of the scripts are the two ends of a `Conversation`: once they have tried to connect, one
  machine sends at most once, the other receives at most once, and neither ends the connection. (A second `ReceiveString`
  starts a new result, and a STOP makes the receiver drop a piece it has acknowledged, section 7.) `Reliability` assumes
  tokens to be `Distinct` from the one before, and the first to be a digit, as it is in the code: an acknowledgement of a
  SYNC that is late is at least 65 and cannot be taken for one of the number of pieces. Both run scripts satisfy this, as TLC checks (`MCTCP`).
  The argument is in three layers. `Conversing` says what each thread may be doing, and `Moved` sums up what a
  step does to the two machines: what they send, what they take, and how far they have come. `Ordered`: what has
  been received, what waits in the mailbox and what is in transit form one sorted sequence, which ends at the piece
  the sender is at. `Reliable`: the sender's k-th message is not acknowledged and the receiver has taken the k before it (`Before`), or
  it has taken that one too (`After`), or it has taken one of them twice and is `Astray`; it then has one message less to take than
  the sender has to send, so the last one is never acknowledged. This needs acknowledgements to come in order
  (`AcksInOrder`), and messages on their way to be the k-th or the one before.
  `Agreement`, for any machines, tokens, limits and listeners: `HandshakeAgreement` holds if two of the scripts are a
  `Meeting`, in which one machine only calls `SyncWithMachine` and the other may also open, they name each other, neither
  ends the connection once it has tried to connect, and the others do not connect. `EndConnection` forgets the
  connection at one end first, and with a third machine its answer could be taken for the peer's, as the sender of an ACK
  is not looked at. The invariant `Meet` follows the answer back: if one has come to b, waits for it or has connected it (`Heard`),
  then a is connected, or between b's SYNC and being so (`Engaged`), which a is before it answers and remains.
  `Busy` says of each place in a call to whom its messages go. TLC checks the hypothesis of both run scripts.
* `OpenFileProofs`. `Invariance`: `IInv`. `Refinement`: OpenFile implements FlatFile, for any sizes of sectors, index blocks and
  files, any threads and scripts. A step that reads or writes a sector maps to the bytes of it which the
  call is about; a sector that is read only to be merged maps to a stutter. For that, what a call has read and will write back must still
  be on the disk (`Merged`), and it is because nobody writes to a sector another keeps a part of (`Apart`, from `Careful`). `Copying` has the
  index block for the next sector, `OnDisk` the index blocks as they were. `ScriptAssumption` says what the scripts have in common with
  `fstest.cc`: handles are not shared, and a file is copied to by the thread that created it.
  `CopiesArePrinted`: `CopyIsPrinted`. `TestsPass`: `PerformanceTestPasses`. For any interleaving, what Copy takes through the
  index blocks is what Print shows, and FileRead finds what FileWrite wrote. `Commanded` says that
  a call is that of the command its thread is at and that a handle is on a file its own script opens. `TestInv` follows the two
  functions command by command: which bytes of the file have their value, which the call under way has got, and
  how far the loop is. They need `TestAssumption`: no other script creates, removes or writes to the file (others
  may read it), the file of the performance test is new and has room, and its length is a multiple of that of `Contents`
  (`FileSize` in `fstest.cc:129`). `Contents` and the UNIX files are arbitrary.

* `MachineProofs`. `Tracking`: `DirtyTracked`. `Isolation`: `OwnMemory`. For any programs, page size, number of pages and frames,
  TLB or page table: what `Translate` writes into an entry is enough for a kernel to share frames among processes.
  By itself neither is inductive. `IInv` adds that no two pages are in one frame (`OneOwner`), that entry v of a table is about
  page v (`Named`), and that the TLB says of a page what the table of the running process says (`Cached`). A
  step that only sets bits keeps all of it (`GrownInv`): every instruction but a store is one, and so is the first half of a store, whose
  bytes go to the frame of a page that nobody else has (`StoreIs`). The kernel's steps keep the contents of every page,
  wherever they move it (`Kept`): before the kernel looks at its tables it takes the bits over from the TLB (`SynchronizedIs`), so a page it
  throws out without writing it back equals its copy (`PageInInv`).
  `Restart` says the same of the registers: what a process sees of them changes where it completes an instruction, or its
  system call is served, and not where an instruction traps, although `RaiseException` then does a delayed load early
  (`RaiseExceptionIs`), so that it can start again, nor where an interrupt comes (`CheckIfDueIs`). Its hypothesis, `FiveBits`, is that field `rt` of what is fetched is in 0..31, as what
  `Decode` cuts out of a word is; words are abstracted to their fields here. With `Isolation` this is what
  `FlatMipsSpec` asks of the steps that complete no instruction: they stutter. `WorkloadAssumption` has register 0 start with 0, as the constructor leaves it.

They assume the constants' named assumptions and the hypotheses that are mentioned here only: threads, machines,
sectors, mailboxes and characters are arbitrary sets.

## 6. What is only model-checked

* Liveness: it is out of the prover's reach. `SynchDisk`, `PostOffice`, `Interrupt`, `Console`, `TCP` and `OpenFile` each have
  a run for it.
* The machine's instructions: `FlatMipsSpec` is an equivalence of some sixty operations on words, whose multiplication is a recursion on bits.

The external parts are modelled from how the code uses
them: locks and semaphores as in Nachos, `BitMap::Find` takes the lowest clear bit or
returns -1, `SynchList` is a FIFO.

## 7. Disagreements between code and comments

With a run that shows it:

1. `FileHeader::Deallocate` clears no data block (`filehdr.cc:104`), run `fs_leak`.
2. TCP drops a message that begins like the one before, and says it was sent (`tcp.cc:619`), run `tcp_same_token`.

In the models as they are in the code, without a run of their own. The file system:

* A failed `Create` leaves its entry in `currentDir` (`filesys.cc:200`), and the next operation
  writes it to disk. A careful client does not ask for more than there is room for.
* `Allocate` does not count index blocks (`filehdr.cc:44`), so it may find no sector for one.
* `Allocate` does not test that the index blocks of a file fit in its header (`filehdr.cc:51`): from 961 sectors on it writes
  past `dataSectors`, a misread in the model.
* `ChangeDirectory`, `Create`, `Remove` and `Open` do not look at what a sector holds before they take it for a table or a
  header (`filesys.cc:482`, `214`, `294`, `252`): after `Remove` of a directory, `ChangeDirectory` to a file or a write to a directory they
  go on with bytes that mean something else, and what they write on account of them may be sectors 0 or 2, the free map's.
* `RemoveDirectory` tests the current directory for emptiness instead of the one to
  remove (`filesys.cc:443`), so it answers -1 for every directory that has a name.
* A handle that outlives `Remove` leads to sectors of later files (`filesys.cc:252`).
* Two writers of different bytes of one sector lose one another's bytes (`openfile.cc:162`).
* `Copy` fetches one index block after the last (`fstest.cc:72`); `Test2` uses handles without looking
  whether `Open` returned any.

The disk:

* `ComputeLatency` keeps the clock in an `int` (`disk.cc:223`), which was made a `long long` "to cope
  with long runs" (`stats.h:25`). From tick 2^31 on the rotation is wrong, and requests are complete before their
  sector has passed the head: both properties of `disk_timing` fail
  with `IntMax = 31`. The run has ints the clock fits in, and so do the theorems (`ClockFits`).

The network:

* When the last acknowledgement of the handshake is lost, `SyncWithMachine` has connected and `OpenConnection` fails
  (`tcp.cc:188`); nothing tells the first machine. `HandshakeAgreement` is about the other direction.
* TCP takes a late acknowledgement of SYNC for one of STOP (`tcp.cc:211`).
* A STOP that comes while `ReceiveString` looks for re-emissions of the last piece makes it return false
  (`tcp.cc:616`, `tcp.cc:661`), although it has acknowledged that piece and the sender has reported the string as sent.
* A TCP re-emission that is late is taken for the next message (`tcp.cc:392`): `PiecesInOrder`
  allows the duplicate, and `ReceiveString` returns true.
* `SendString` resets `stoppingConnection` when it fails because of it (`tcp.cc:349`), nothing resets
  `connectedID`, and a `ReceiveString` after it waits forever. `EndConnection` does the same at
  its start (`tcp.cc:217`).
* `ReceiveFile` looks at no result of `Create` or `Open` and returns true for a file that
  was there and is too short (`tcp.cc:485`), though its comment says it tells whether the
  file was received (`tcp.cc:463`). It puts a NUL one past its buffer (`tcp.cc:497`).
* `Network::Send` asserts `!sendBusy` and nothing ever sets it (`network.cc:108`).
* `network.h:48` calls `reliability` the chance that a packet is lost, it is the chance that it
  is not; `network.h:67-69` says that `Send` fills in the `from` field, `PostOffice::Send`
  does (`post.cc:285`); `Directory::isFull` has the body of `isEmpty` and is not used.

The machine, of which "user programs shouldn't be able to tell" that it is not the real hardware (`machine.h:98`):

* `LWL`, `LWR`, `SWL` and `SWR` stop Nachos at any address that is not aligned (`mipssim.cc:309`
  and after), and at one that is they move the bytes of a big-endian machine, which this is not (`mipssim.cc:4`).
* `DIV` of the least integer by -1 is left to the host, which may stop Nachos (`mipssim.cc:218`).
* A delayed load overwrites what the instruction in its delay slot wrote to the same register
  (`mipssim.cc:639`).
* A console character of code 255 is taken for `EOF` (`console.cc:99`).

## 8. What is not modelled

* `openfileTable` of `openfile.cc`: nothing in the repository uses it.
* `Test1` and `Test3` of `fstest.cc`, `nettest.cc` and `netringtest.cc`: drivers whose calls the
  modules `FileSystem` and `PostOffice` make in any order.
* The debugger, `DumpState` and all printing; statistics; UNIX wrappers (`sysdep.cc`): no state anything
  depends on. The progress bar and the timing of TCP's files are output too.
* `bin/`: stand-alone converters of executables and an interpreter that is not part of the
  kernel, sequential, file in and file out. Their encodings of instructions are in `MipsCode`.
* Floating point and privileged instructions, which the machine does not have: they trap.
