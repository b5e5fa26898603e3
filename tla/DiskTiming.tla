----------------------------- MODULE DiskTiming -----------------------------
(* How long the simulated disk takes (machine/disk.cc).                    *)
(*                                                                         *)
(* The disk turns past its head by one sector every RotationTime ticks,    *)
(* and the head moves by one track every SeekTime ticks.  ComputeLatency   *)
(* works out from the clock, the last sector and the start of the track    *)
(* buffer when a request will be complete.  The clock is a long long, what *)
(* ComputeLatency keeps of it an int.  Requests come one at a time (module *)
(* SynchDisk), with any pause between them.                                *)
(* What SynchDisk has too is named Timing... or Timed... here, so that one *)
(* module can prove about both.                                            *)
EXTENDS Integers

CONSTANTS
    SectorsPerTrack, NumTracks,     \* disk.h, 32 and 32
    RotationTime, SeekTime,         \* stats.h, 500 and 500
    IntMax,                         \* the largest int, 2^31 - 1
    MaxDelay,       \* bound on the pause between two requests, and on the
                    \* lateness of an interrupt
    MaxTicks        \* no request is made after this time

ASSUME DiskAssumption ==
    /\ SectorsPerTrack \in Nat \ {0} /\ NumTracks \in Nat \ {0}
    /\ RotationTime \in Nat \ {0} /\ SeekTime \in Nat \ {0}
    /\ IntMax \in Nat /\ MaxDelay \in Nat /\ MaxTicks \in Nat

DiskSectors == 0 .. SectorsPerTrack * NumTracks - 1
NoRequest == [sector |-> -1, writing |-> FALSE, at |-> -1]

VARIABLES
    totalTicks,     \* the clock
    lastSector,     \* Disk::lastSector
    bufferInit,     \* Disk::bufferInit, when the track buffer started being loaded
    serving,        \* the request that is being served
    due,            \* when its interrupt fires
    settled         \* history: when the head came to the track it is on

timingVars == <<totalTicks, lastSector, bufferInit, serving, due, settled>>
-----------------------------------------------------------------------------
(* What an int keeps of a number, and the quotient and remainder of C.     *)
AsInt(n) == ((n + IntMax + 1) % (2 * IntMax + 2)) - (IntMax + 1)
Quot(a, b) == IF a >= 0 THEN a \div b ELSE -((-a) \div b)
Rem(a, b) == a - b * Quot(a, b)
Abs(n) == IF n < 0 THEN -n ELSE n

Track(s) == s \div SectorsPerTrack

(* The time to the track of a sector, and from there to the next boundary. *)
Seek(s) == Abs(Track(s) - Track(lastSector)) * SeekTime
Rotation(s) ==
    LET over == (totalTicks + Seek(s)) % RotationTime
    IN  IF over > 0 THEN RotationTime - over ELSE 0

ModuloDiff(to, from) ==
    Rem(Rem(to, SectorsPerTrack) - Rem(from, SectorsPerTrack) + SectorsPerTrack, SectorsPerTrack)

TimeAfter(s) == AsInt(totalTicks + Seek(s) + Rotation(s))

(* Mutant: the sector that the head is about to come to is in the buffer.  *)
InTrackBufferTooSoon(s) ==
    /\ Seek(s) = 0
    /\ Quot(AsInt(TimeAfter(s) - bufferInit), RotationTime)
           >= ModuloDiff(s, Quot(bufferInit, RotationTime))

(* The sector has gone past the head since the buffer is being loaded.     *)
InTrackBuffer(s) ==
    /\ Seek(s) = 0
    /\ Quot(AsInt(TimeAfter(s) - bufferInit), RotationTime)
           > ModuloDiff(s, Quot(bufferInit, RotationTime))

ComputeLatency(s, writing) ==
    IF ~writing /\ InTrackBuffer(s) THEN RotationTime
    ELSE Seek(s) + Rotation(s) + RotationTime
         + ModuloDiff(s, Quot(TimeAfter(s), RotationTime)) * RotationTime

(* Mutant: every request empties the track buffer.                         *)
UpdateLastAlways(s) ==
    /\ bufferInit' = TimeAfter(s)
    /\ lastSector' = s

(* The buffer is discarded when the head moves to another track.          *)
UpdateLast(s) ==
    /\ bufferInit' = IF Seek(s) # 0 THEN TimeAfter(s) ELSE bufferInit
    /\ lastSector' = s
-----------------------------------------------------------------------------
TimingInit ==
    /\ totalTicks = 0 /\ lastSector = 0 /\ bufferInit = 0
    /\ serving = NoRequest /\ due = 0 /\ settled = 0

(* Disk::ReadRequest and WriteRequest.                                     *)
TimedRequest(s, writing) ==
    /\ serving = NoRequest
    /\ totalTicks <= MaxTicks
    /\ serving' = [sector |-> s, writing |-> writing, at |-> totalTicks]
    /\ due' = totalTicks + ComputeLatency(s, writing)
    /\ UpdateLast(s)
    /\ settled' = IF Seek(s) # 0 THEN totalTicks + Seek(s) ELSE settled
    /\ UNCHANGED totalTicks

(* The interrupt is delivered when it is due, or somewhat later.           *)
TimedInterrupt(late) ==
    /\ serving # NoRequest
    /\ totalTicks' = due + late
    /\ serving' = NoRequest /\ due' = 0
    /\ UNCHANGED <<lastSector, bufferInit, settled>>

(* Nobody uses the disk for a while.                                       *)
Pause(ticks) ==
    /\ serving = NoRequest
    /\ totalTicks <= MaxTicks
    /\ totalTicks' = totalTicks + ticks
    /\ UNCHANGED <<lastSector, bufferInit, serving, due, settled>>

Quiet == serving = NoRequest /\ totalTicks > MaxTicks /\ UNCHANGED timingVars

TimingNext ==
    \/ \E s \in DiskSectors, writing \in BOOLEAN : TimedRequest(s, writing)
    \/ \E late \in 0 .. MaxDelay : TimedInterrupt(late)
    \/ \E ticks \in 1 .. MaxDelay : Pause(ticks)
    \/ Quiet

TimingSpec == TimingInit /\ [][TimingNext]_timingVars
-----------------------------------------------------------------------------
(* PROPERTIES.                                                             *)

TimingTypeOK ==
    /\ totalTicks \in Nat /\ lastSector \in DiskSectors /\ bufferInit \in Nat
    /\ settled \in Nat /\ due \in Nat
    /\ serving \in {NoRequest} \cup [sector : DiskSectors, writing : BOOLEAN, at : Nat]

(* In the n-th interval of RotationTime ticks the sector n of a track, up  *)
(* to whole turns, goes past the head.  A sector s does between two times: *)
Passes(s, from, to) ==
    \E n \in 0 .. to \div RotationTime :
        /\ n % SectorsPerTrack = s % SectorsPerTrack
        /\ from <= n * RotationTime /\ (n + 1) * RotationTime <= to

(* The time from which the head is ready for the request.                  *)
HeadReady == IF settled > serving.at THEN settled ELSE serving.at

(* A request is complete only when all of its sector has gone past the     *)
(* head (disk.cc:208-211): since the request for a write, and since the    *)
(* head came to the track, the requests before this one included, for a    *)
(* read, which the track buffer may serve.                                 *)
TransferUnderHead ==
    serving # NoRequest =>
        Passes(serving.sector, IF serving.writing THEN HeadReady ELSE settled, due)

(* It is complete no later than its sector's first pass, and a read of a   *)
(* sector that is in the track buffer takes one RotationTime, as disk.cc   *)
(* promises ("satisfied more quickly", 213-216).                           *)
NoLongerThanNeeded ==
    serving # NoRequest =>
        /\ ~Passes(serving.sector, HeadReady, due - 1)
        /\ ~serving.writing /\ Passes(serving.sector, settled, serving.at)
               => due = serving.at + RotationTime

(* The inductive invariant of the two: the buffer is loaded from the first *)
(* sector boundary after the head came to the track, which it did before   *)
(* the next request.                                                       *)
BufferStart ==
    /\ bufferInit % RotationTime = 0
    /\ settled <= bufferInit /\ bufferInit < settled + RotationTime
    /\ bufferInit <= IntMax
HeadSettles == settled <= (IF serving = NoRequest THEN totalTicks ELSE due)
TimingInv == TimingTypeOK /\ BufferStart /\ HeadSettles /\ TransferUnderHead /\ NoLongerThanNeeded

(* No request is made so late that its end is beyond what an int holds.    *)
ClockFits == MaxTicks + NumTracks * SeekTime + RotationTime <= IntMax
=============================================================================
