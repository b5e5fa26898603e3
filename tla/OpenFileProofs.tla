--------------------------- MODULE OpenFileProofs ---------------------------
(* Proofs about module OpenFile: the sectors of several calls, interleaved *)
(* in any way, are reads and writes of flat files (module FlatFile), and   *)
(* the tests of fstest.cc read back what they have written.                *)
EXTENDS OpenFile, FiniteSetTheorems, TLAPS

-----------------------------------------------------------------------------
(* Sectors and offsets.                                                    *)

(* A quotient and remainder of naturals.                                   *)
LEMMA Division ==
  ASSUME NEW a \in Nat, NEW k \in Nat \ {0}
  PROVE  /\ a \div k \in Nat /\ a % k \in 0 .. k - 1 /\ (a \div k) * k \in Nat
         /\ a = (a \div k) * k + (a % k)
<1>1. a \div k \in Nat /\ a % k \in 0 .. k - 1
  OBVIOUS
<1>2. (a \div k) * k \in Nat
  BY <1>1
<1>3. a = (a \div k) * k + (a % k)
  OBVIOUS
<1> QED
  BY <1>1, <1>2, <1>3

LEMMA Within ==
  ASSUME NEW a \in Nat, NEW k \in Nat \ {0}
  PROVE  /\ a \div k \in Nat /\ (a \div k) * k \in Nat
         /\ (a \div k) * k <= a /\ a < (a \div k) * k + k
<1> DEFINE m == (a \div k) * k
<1>1. /\ a \div k \in Nat /\ m \in Nat
      /\ a % k \in 0 .. k - 1 /\ a = m + (a % k)
  BY Division
<1> HIDE DEF m
<1>2. m <= a /\ a < m + k
  BY <1>1
<1> QED
  BY <1>1, <1>2 DEF m

(* Multiples of k are in order, and k apart.                               *)
LEMMA Multiples ==
  ASSUME NEW i \in Nat, NEW j \in Nat, NEW k \in Nat \ {0}
  PROVE  /\ i * k \in Nat /\ i <= i * k /\ (i + 1) * k = i * k + k
         /\ (i <= j <=> i * k <= j * k) /\ (i < j <=> i * k + k <= j * k)
         /\ (i <= j <=> i * k < j * k + k)
<1>1. i * k \in Nat /\ j * k \in Nat /\ (i + 1) * k = i * k + k
  OBVIOUS
<1>2. i <= i * k
  OBVIOUS
<1>3. i <= j => i * k <= j * k
  OBVIOUS
<1>4. i < j => i * k + k <= j * k
  OBVIOUS
<1>5. j < i => j * k + k <= i * k
  OBVIOUS
<1> QED
  BY <1>1, <1>2, <1>3, <1>4, <1>5

(* The i-th block of k numbers holds those whose quotient is i.            *)
LEMMA Blocks ==
  ASSUME NEW a \in Nat, NEW i \in Nat, NEW k \in Nat \ {0}
  PROVE  /\ (i * k <= a /\ a < i * k + k) <=> a \div k = i
         /\ i * k <= a => i <= a \div k
         /\ a < i * k + k => a \div k <= i
<1> DEFINE q == a \div k
           m == q * k
           n == i * k
<1>1. q \in Nat /\ m \in Nat /\ n \in Nat /\ m <= a /\ a < m + k
  BY Division, Multiples
<1>2. /\ q <= i <=> m < n + k
      /\ i <= q <=> n < m + k
  <2> q \in Nat
    BY <1>1
  <2> HIDE DEF q
  <2> QED
    BY Multiples
<1>3. m < n + k /\ n < m + k => q = i
  BY <1>1, <1>2
<1>4. q = i => m = n
  OBVIOUS
<1> HIDE DEF q, m, n
<1>5. /\ n <= a /\ a < n + k <=> q = i
      /\ n <= a => i <= q
      /\ a < n + k => q <= i
  BY <1>1, <1>2, <1>3, <1>4
<1> QED
  BY <1>5 DEF q, n

(* Rounding up: the blocks that n numbers take.                            *)
LEMMA RoundUp ==
  ASSUME NEW n \in Nat, NEW k \in Nat \ {0}, NEW i \in Nat
  PROVE  /\ (n + k - 1) \div k \in Nat
         /\ i < (n + k - 1) \div k <=> i * k < n
<1> DEFINE a == n + k - 1
           j == i + 1
<1>1. a \in Nat /\ j \in Nat /\ j * k = i * k + k /\ i * k \in Nat
  BY Multiples
<1>2. a \div k \in Nat
  BY <1>1, Division
<1>3. j * k <= a <=> i * k < n
  BY <1>1
<1> HIDE DEF a, j
<1>4. /\ j * k <= a => j <= a \div k
      /\ a < j * k + k => a \div k <= j
      /\ (j * k <= a /\ a < j * k + k) <=> a \div k = j
  BY <1>1, Blocks
<1>5. a < j * k => a \div k < j
  BY <1>1, <1>2, <1>4
<1>6. j <= a \div k <=> j * k <= a
  BY <1>1, <1>2, <1>4, <1>5
<1> QED
  BY <1>1, <1>2, <1>3, <1>6 DEF a, j

-----------------------------------------------------------------------------
(* Sectors of files.                                                       *)
LEMMA Constants == SectorSize \in Nat \ {0} /\ FanOut \in Nat \ {0}
  BY OpenFileAssumption

(* The lengths of headers.                                                 *)
LEMMA LengthsAre == \A f \in Files : Length[f] \in Nat
BY OpenFileAssumption

(* OffsetsIn and \div say the same.                                        *)
LEMMA InSector ==
  ASSUME NEW p \in Nat, NEW i \in Nat
  PROVE  /\ p \div SectorSize \in Nat /\ p % SectorSize \in Offset
         /\ p \in OffsetsIn(i) <=> p \div SectorSize = i
         /\ p \in OffsetsIn(i) => p = i * SectorSize + (p % SectorSize)
<1> DEFINE n == i * SectorSize
           m == (p \div SectorSize) * SectorSize
<1>1. n \in Nat /\ (i + 1) * SectorSize = n + SectorSize
  BY Constants, Multiples
<1>2. p \div SectorSize \in Nat /\ p % SectorSize \in 0 .. SectorSize - 1 /\ p = m + (p % SectorSize)
      /\ m \in Nat
  BY Constants, Division
<1>3. (n <= p /\ p < n + SectorSize) <=> p \div SectorSize = i
  BY Constants, Blocks
<1>4. p \div SectorSize = i => m = n
  OBVIOUS
<1> HIDE DEF n, m
<1>5. p \in n .. (n + SectorSize) - 1 <=> p \div SectorSize = i
  BY <1>1, <1>3, Constants
<1>6. OffsetsIn(i) = n .. (n + SectorSize) - 1
  BY <1>1 DEF OffsetsIn, n
<1>7. p \div SectorSize = i => p = n + (p % SectorSize)
  BY <1>2, <1>4
<1> QED
  BY <1>2, <1>5, <1>6, <1>7 DEF Offset, n

(* The k-th offset of sector i.                                            *)
LEMMA AtOffset ==
  ASSUME NEW i \in Nat, NEW k \in Offset
  PROVE  /\ i * SectorSize + k \in OffsetsIn(i) /\ i * SectorSize + k \in Nat
         /\ (i * SectorSize + k) % SectorSize = k
<1> DEFINE n == i * SectorSize
           p == n + k
<1>1. n \in Nat /\ (i + 1) * SectorSize = n + SectorSize
  BY Constants, Multiples
<1>2. p \in Nat /\ p \in n .. (n + SectorSize) - 1
  BY <1>1, Constants DEF Offset
<1>3. p \in OffsetsIn(i)
  BY <1>1, <1>2 DEF OffsetsIn
<1>4. p = n + (p % SectorSize) /\ p % SectorSize \in 0 .. SectorSize - 1
  <2> HIDE DEF p
  <2> QED
    BY <1>2, <1>3, InSector DEF Offset
<1>5. p % SectorSize = k
  BY <1>1, <1>4, Constants DEF Offset
<1> QED
  BY <1>2, <1>3, <1>5

(* The sectors of a file cover it.                                         *)
LEMMA SectorsOfFile ==
  ASSUME NEW f \in Files, NEW i \in Nat
  PROVE  /\ Length[f] \in Nat /\ NumSectors(f) \in Nat
         /\ i < NumSectors(f) <=> i * SectorSize < Length[f]
         /\ \A p \in Nat : p < Length[f] => p \div SectorSize < NumSectors(f)
<1>1. Length[f] \in Nat
  BY LengthsAre
<1>2. NumSectors(f) \in Nat /\ (i < NumSectors(f) <=> i * SectorSize < Length[f])
  BY <1>1, Constants, RoundUp DEF NumSectors
<1>3. ASSUME NEW p \in Nat, p < Length[f] PROVE p \div SectorSize < NumSectors(f)
  <2> DEFINE j == p \div SectorSize
  <2>1. j \in Nat /\ j * SectorSize <= p /\ j * SectorSize \in Nat
    BY Constants, Division
  <2> HIDE DEF j
  <2>2. j * SectorSize < Length[f]
    BY <1>1, <1>3, <2>1
  <2>3. j < NumSectors(f)
    BY <1>1, <2>1, <2>2, Constants, RoundUp DEF NumSectors
  <2> QED
    BY <2>3 DEF j
<1> QED
  BY <1>1, <1>2, <1>3

(* So do the index blocks its sectors.                                     *)
LEMMA IndexBlocksOfFile ==
  ASSUME NEW f \in Files, NEW i \in 0 .. NumSectors(f) - 1
  PROVE  /\ i \div FanOut \in 0 .. NumIndexBlocks(f) - 1 /\ i % FanOut \in 0 .. FanOut - 1
         /\ IndexBlock(f, i \div FanOut)[i % FanOut] = DataSector(f, i)
<1> DEFINE j == i \div FanOut
           k == i % FanOut
<1>1. NumSectors(f) \in Nat /\ i \in Nat /\ i < NumSectors(f)
  BY SectorsOfFile
<1>2. j \in Nat /\ j * FanOut \in Nat /\ k \in 0 .. FanOut - 1 /\ i = j * FanOut + k
  BY <1>1, Constants, Division
<1> HIDE DEF j, k
<1>3. j * FanOut < NumSectors(f)
  BY <1>1, <1>2, Constants
<1>4. NumIndexBlocks(f) \in Nat /\ j < NumIndexBlocks(f)
  BY <1>1, <1>2, <1>3, Constants, RoundUp DEF NumIndexBlocks
<1>5. IndexBlock(f, j)[k] = DataSector(f, i)
  BY <1>2 DEF IndexBlock
<1> QED
  BY <1>2, <1>4, <1>5 DEF j, k

(* ByteToSector finds the file's own sectors, in both modes.               *)
LEMMA ByteToSectorIs ==
  ASSUME OnDisk, NEW f \in Files, NEW i \in 0 .. NumSectors(f) - 1
  PROVE  ByteToSector(f, i) = DataSector(f, i)
<1>1. CASE f \in Direct
  BY <1>1 DEF ByteToSector, dataSectors
<1>2. CASE f \notin Direct
  <2> DEFINE j == i \div FanOut
             k == i % FanOut
  <2>1. j \in 0 .. NumIndexBlocks(f) - 1 /\ IndexBlock(f, j)[k] = DataSector(f, i)
    BY IndexBlocksOfFile
  <2> HIDE DEF j, k
  <2>2. disk[IndexSector(f, j)] = IndexBlock(f, j)
    BY <1>2, <2>1 DEF OnDisk
  <2>3. dataSectors(f)[j] = IndexSector(f, j)
    BY <1>2, <2>1 DEF dataSectors
  <2> QED
    BY <1>2, <2>1, <2>2, <2>3 DEF ByteToSector, j, k
<1> QED
  BY <1>1, <1>2

-----------------------------------------------------------------------------
(* What a call transfers.                                                  *)

(* The fields of a call that tell its range, as in Request.                *)
Asks(c) == c.f \in Files /\ c.n \in Int /\ c.at \in Nat

(* The bytes that numBytes counts are those of the range.                  *)
LEMMA RangeIs ==
  ASSUME NEW c, Asks(c)
  PROVE  /\ numBytes(c) \in Nat /\ Span(c) = c.at .. c.at + numBytes(c) - 1
         /\ numBytes(c) > 0 => c.at + numBytes(c) <= Length[c.f]
         /\ Span(c) \subseteq {p \in Nat : p < Length[c.f]}
<1> DEFINE len == Length[c.f]
           n == numBytes(c)
<1>1. len \in Nat /\ c.n \in Int /\ c.at \in Nat
  BY LengthsAre DEF Asks
<1>2. n = IF c.n <= 0 \/ c.at >= len THEN 0 ELSE IF c.at + c.n > len THEN len - c.at ELSE c.n
  BY DEF numBytes
<1>3. Span(c) = {p \in c.at .. c.at + c.n - 1 : p < len}
  BY DEF Span
<1> HIDE DEF len, n
<1>4. n \in Nat /\ (n > 0 => c.at + n <= len)
  BY <1>1, <1>2
<1>5. ASSUME NEW p PROVE p \in Span(c) <=> p \in c.at .. c.at + n - 1
  BY <1>1, <1>2, <1>3
<1>6. Span(c) = c.at .. c.at + n - 1
  BY <1>5
<1>7. Span(c) \subseteq {p \in Nat : p < len}
  BY <1>1, <1>3
<1> QED
  BY <1>4, <1>6, <1>7 DEF len, n

(* Its sectors are those from the first to the last.                       *)
LEMMA SectorsOfRange ==
  ASSUME NEW c, Asks(c), numBytes(c) > 0
  PROVE  /\ firstSector(c) \in Nat /\ lastSector(c) \in 0 .. NumSectors(c.f) - 1
         /\ firstSector(c) <= lastSector(c)
         /\ \A p \in Span(c) : p \div SectorSize \in firstSector(c) .. lastSector(c)
         /\ \A i \in firstSector(c) .. lastSector(c) :
               \E p \in Span(c) : p \div SectorSize = i
<1> DEFINE first == firstSector(c)
           last == lastSector(c)
           end == c.at + numBytes(c) - 1
<1>1. /\ c.at \in Nat /\ end \in Nat /\ c.at <= end /\ end < Length[c.f]
      /\ Span(c) = c.at .. end
  BY RangeIs DEF Asks
<1>2. /\ first \in Nat /\ first * SectorSize \in Nat
      /\ first * SectorSize <= c.at /\ c.at < first * SectorSize + SectorSize
  BY <1>1, Constants, Within DEF firstSector
<1>3. /\ last \in Nat /\ last * SectorSize \in Nat
      /\ last * SectorSize <= end /\ end < last * SectorSize + SectorSize
  <2>1. last = end \div SectorSize /\ end \in Nat
    BY <1>1 DEF lastSector
  <2> HIDE DEF last, end
  <2> QED
    BY <2>1, Constants, Within
<1>4. last < NumSectors(c.f) /\ NumSectors(c.f) \in Nat
  <2>1. c.f \in Files
    BY DEF Asks
  <2>2. end \div SectorSize < NumSectors(c.f) /\ NumSectors(c.f) \in Nat
    <3> HIDE DEF end
    <3> QED
      BY <1>1, <2>1, SectorsOfFile
  <2> QED
    BY <2>2 DEF lastSector
<1> HIDE DEF first, last, end
<1>5. ASSUME NEW p \in Span(c) PROVE p \div SectorSize \in first .. last
  <2>1. p \in Nat /\ c.at <= p /\ p <= end
    BY <1>1
  <2>2. first * SectorSize <= p /\ p < last * SectorSize + SectorSize
    BY <1>1, <1>2, <1>3, <2>1, Constants
  <2>3. first <= p \div SectorSize /\ p \div SectorSize <= last
    BY <1>2, <1>3, <2>1, <2>2, Constants, Blocks
  <2> QED
    BY <1>2, <1>3, <2>1, <2>3, InSector
<1>6. ASSUME NEW i \in first .. last PROVE \E p \in Span(c) : p \div SectorSize = i
  <2>1. i \in Nat /\ i * SectorSize \in Nat
    BY <1>2, <1>3, Constants, Multiples
  <2>2. CASE i = first
    <3>1. c.at \div SectorSize = i
      BY <2>2 DEF first, firstSector
    <3> QED
      BY <1>1, <3>1
  <2>3. CASE i > first
    <3> DEFINE p == i * SectorSize
    <3>1. first * SectorSize + SectorSize <= p /\ p <= last * SectorSize
      BY <1>2, <1>3, <2>1, <2>3, Constants, Multiples
    <3>2. p \in Span(c)
      BY <1>1, <1>2, <1>3, <2>1, <3>1, Constants
    <3>3. i * SectorSize <= p /\ p < i * SectorSize + SectorSize /\ p \in Nat
      BY <2>1, Constants
    <3> HIDE DEF p
    <3>4. p \div SectorSize = i
      BY <2>1, <3>3, Constants, Blocks
    <3> QED
      BY <3>2, <3>4
  <2> QED
    BY <1>2, <1>3, <2>1, <2>2, <2>3
<1>7. first <= last
  <2>1. c.at \in Span(c)
    BY <1>1
  <2> QED
    BY <1>2, <1>3, <1>5, <2>1
<1> QED
  BY <1>2, <1>3, <1>4, <1>5, <1>6, <1>7 DEF first, last

(* What is in a sector of the range and not in the range is kept.          *)
LEMMA PartsAreKept ==
  ASSUME NEW c, Asks(c), numBytes(c) > 0, c.kind = "write",
         NEW p \in Nat, p < Length[c.f], p \notin Span(c),
         p \div SectorSize \in firstSector(c) .. lastSector(c)
  PROVE  p \div SectorSize \in Kept(c)
<1> DEFINE first == firstSector(c)
           last == lastSector(c)
           end == c.at + numBytes(c)
           i == p \div SectorSize
<1>1. /\ c.at \in Nat /\ numBytes(c) \in Nat /\ end \in Nat /\ c.at < end
      /\ Span(c) = c.at .. end - 1
  BY RangeIs DEF Asks
<1>2. first \in Nat /\ last \in Nat
  BY SectorsOfRange
<1>3. /\ i \in Nat /\ first <= i /\ i <= last
      /\ i * SectorSize \in Nat /\ i * SectorSize <= p /\ p < i * SectorSize + SectorSize
  <2>1. i \in Nat /\ i * SectorSize \in Nat /\ i * SectorSize <= p /\ p < i * SectorSize + SectorSize
    BY Constants, Within
  <2> QED
    BY <2>1, <1>2
<1>4. first * SectorSize \in Nat /\ last * SectorSize \in Nat
      /\ (last + 1) * SectorSize = last * SectorSize + SectorSize
  BY <1>2, Constants, Multiples
<1>5. c.at < first * SectorSize + SectorSize /\ first * SectorSize <= c.at
  BY <1>1, Constants, Within DEF firstSector
<1>6. last * SectorSize < end /\ end <= last * SectorSize + SectorSize
  <2> DEFINE e == c.at + numBytes(c) - 1
  <2>1. e \in Nat /\ end = e + 1
    BY <1>1
  <2>2. last = e \div SectorSize
    BY DEF lastSector
  <2> HIDE DEF e
  <2>3. last * SectorSize <= e /\ e < last * SectorSize + SectorSize
    BY <2>1, <2>2, Constants, Within
  <2> QED
    BY <1>1, <1>4, <2>1, <2>3, Constants
<1> HIDE DEF i
<1>7. CASE p < c.at
  <2>1. i = first
    <3>1. i * SectorSize < first * SectorSize + SectorSize
      <4> DEFINE m == i * SectorSize
                 n == first * SectorSize
      <4>1. m \in Nat /\ n \in Nat /\ m <= p /\ c.at < n + SectorSize
        BY <1>3, <1>4, <1>5
      <4> HIDE DEF m, n
      <4>2. m < n + SectorSize
        BY <1>1, <1>7, <4>1, Constants
      <4> QED
        BY <4>2 DEF m, n
    <3>2. i <= first
      BY <1>2, <1>3, <3>1, Constants, Multiples
    <3> QED
      BY <1>2, <1>3, <3>2
  <2>2. first * SectorSize <= p
    BY <1>3, <2>1
  <2>3. c.at # first * SectorSize
    BY <1>1, <1>4, <1>7, <2>2
  <2>4. ~firstAligned(c)
    BY <2>3 DEF firstAligned
  <2>5. Parts(c)[1] = first /\ 1 \in DOMAIN Parts(c)
    BY <2>4 DEF Parts
  <2> QED
    BY <2>1, <2>5 DEF Kept, i
<1>8. CASE end <= p
  <2>1. i = last
    <3>1. last * SectorSize < i * SectorSize + SectorSize
      BY <1>1, <1>3, <1>4, <1>6, <1>8, Constants, SMTT(30)
    <3>2. last <= i
      BY <1>2, <1>3, <3>1, Constants, Multiples
    <3> QED
      BY <1>2, <1>3, <3>2
  <2>2. p < last * SectorSize + SectorSize
    BY <1>3, <2>1
  <2>3. end # (last + 1) * SectorSize
    BY <1>1, <1>4, <1>8, <2>2
  <2>4. ~lastAligned(c)
    BY <2>3 DEF lastAligned
  <2>5. \E k \in DOMAIN Parts(c) : Parts(c)[k] = last
    <3>1. CASE first = last /\ ~firstAligned(c)
      <4>1. Parts(c)[1] = first /\ 1 \in DOMAIN Parts(c)
        BY <3>1 DEF Parts
      <4> QED
        BY <3>1, <4>1
    <3>2. CASE firstAligned(c)
      <4>1. Parts(c)[1] = last /\ 1 \in DOMAIN Parts(c)
        BY <3>2, <2>4 DEF Parts
      <4> QED
        BY <4>1
    <3>3. CASE first # last /\ ~firstAligned(c)
      <4>1. Parts(c) = <<first>> \o <<last>>
        BY <3>3, <2>4 DEF Parts
      <4>2. 2 \in DOMAIN (<<first>> \o <<last>>) /\ (<<first>> \o <<last>>)[2] = last
        BY <1>2
      <4> QED
        BY <4>1, <4>2
    <3> QED
      BY <3>1, <3>2, <3>3
  <2> QED
    BY <2>1, <2>5 DEF Kept, i
<1> QED
  BY <1>1, <1>7, <1>8

(* Calls that ask for the same transfer it.                                *)
LEMMA SameRange ==
  ASSUME NEW c, NEW d, d.kind = c.kind, d.f = c.f, d.n = c.n, d.at = c.at
  PROVE  /\ numBytes(d) = numBytes(c) /\ Span(d) = Span(c)
         /\ firstSector(d) = firstSector(c) /\ lastSector(d) = lastSector(c)
         /\ Kept(d) = Kept(c) /\ Written(d) = Written(c) /\ buffer(d) = buffer(c)
<1>1. numBytes(d) = numBytes(c) /\ Span(d) = Span(c) /\ firstSector(d) = firstSector(c)
  BY Zenon DEF numBytes, Span, firstSector
<1>2. lastSector(d) = lastSector(c)
  BY <1>1, Zenon DEF lastSector
<1>3. firstAligned(d) = firstAligned(c) /\ lastAligned(d) = lastAligned(c)
  BY <1>1, <1>2, Zenon DEF firstAligned, lastAligned
<1>4. Parts(d) = Parts(c)
  BY <1>1, <1>2, <1>3 DEF Parts
<1>5. Kept(d) = Kept(c) /\ Written(d) = Written(c)
  BY <1>1, <1>2, <1>4 DEF Kept, Written
<1>6. buffer(d) = buffer(c)
  BY <1>1, <1>2, Zenon DEF buffer
<1> QED
  BY <1>1, <1>2, <1>5, <1>6

(* The parts that are kept are at the ends, and in order.                  *)
LEMMA PartsAre ==
  ASSUME NEW c, Asks(c), numBytes(c) > 0
  PROVE  /\ Parts(c) \in Seq(Nat)
         /\ \A k \in DOMAIN Parts(c) :
               /\ Parts(c)[k] \in firstSector(c) .. lastSector(c)
               /\ \A l \in DOMAIN Parts(c) : k < l => Parts(c)[k] < Parts(c)[l]
<1> DEFINE first == firstSector(c)
           last == lastSector(c)
<1>1. first \in Nat /\ last \in Nat /\ first <= last
  BY SectorsOfRange
<1> HIDE DEF first, last
<1>2. \/ Parts(c) = <<>> \o <<>>
      \/ Parts(c) = <<first>> \o <<>>
      \/ Parts(c) = <<>> \o <<last>>
      \/ Parts(c) = <<first>> \o <<last>> /\ first # last
  BY DEF Parts, first, last
<1>3. CASE Parts(c) = <<>> \o <<>>
  BY <1>3
<1>4. CASE Parts(c) = <<first>> \o <<>>
  <2>1. Parts(c) = <<first>>
    BY <1>1, <1>4
  <2> QED
    BY <1>1, <2>1 DEF first, last
<1>5. CASE Parts(c) = <<>> \o <<last>>
  <2>1. Parts(c) = <<last>>
    BY <1>1, <1>5
  <2> QED
    BY <1>1, <2>1 DEF first, last
<1>6. CASE Parts(c) = <<first>> \o <<last>> /\ first # last
  <2>1. /\ <<first>> \in Seq(Nat) /\ <<last>> \in Seq(Nat)
        /\ Len(<<first>>) = 1 /\ Len(<<last>>) = 1 /\ <<first>>[1] = first /\ <<last>>[1] = last
    BY <1>1
  <2>2. Parts(c) \in Seq(Nat) /\ Len(Parts(c)) = 2 /\ Parts(c)[1] = first /\ Parts(c)[2] = last
    BY <1>6, <2>1
  <2>3. first < last
    BY <1>1, <1>6
  <2> QED
    BY <1>1, <2>2, <2>3 DEF first, last
<1> QED
  BY <1>2, <1>3, <1>4, <1>5, <1>6

(* One item for each of the sectors.                                       *)
Item == [op : {"get", "fill", "put"}, i : Nat]

LEMMA EachIs ==
  ASSUME NEW op \in {"get", "fill", "put"}, NEW first \in Nat, NEW last \in Nat, first <= last
  PROVE  /\ Each(op, first, last) \in Seq(Item)
         /\ Len(Each(op, first, last)) = last - first + 1
         /\ \A k \in 1 .. last - first + 1 : Each(op, first, last)[k] = Todo(op, first + k - 1)
<1>1. last - first + 1 \in Nat
  OBVIOUS
<1>2. \A k \in 1 .. last - first + 1 : Todo(op, first + k - 1) \in Item
  BY DEF Todo, Item
<1> QED
  BY <1>1, <1>2 DEF Each

(* What is on the way to do: one kind of item, sector by sector.           *)
Lists(q, op, first, last) ==
  /\ q \in Seq(Item)
  /\ \A k \in DOMAIN q : /\ q[k].op = op /\ q[k].i \in first .. last
                         /\ \A l \in DOMAIN q : k < l => q[k].i < q[l].i

LEMMA EachLists ==
  ASSUME NEW op \in {"get", "fill", "put"}, NEW first \in Nat, NEW last \in Nat, first <= last
  PROVE  /\ Lists(Each(op, first, last), op, first, last)
         /\ \A i \in first .. last :
               \E k \in DOMAIN Each(op, first, last) : Each(op, first, last)[k] = Todo(op, i)
<1> DEFINE q == Each(op, first, last)
<1>1. /\ q \in Seq(Item) /\ Len(q) = last - first + 1
      /\ \A k \in 1 .. last - first + 1 : q[k] = Todo(op, first + k - 1)
  BY EachIs
<1> HIDE DEF q
<1>2. DOMAIN q = 1 .. last - first + 1
  BY <1>1
<1>3. \A k \in DOMAIN q : q[k].op = op /\ q[k].i = first + k - 1
  BY <1>1, <1>2 DEF Todo
<1>4. Lists(q, op, first, last)
  BY <1>1, <1>2, <1>3 DEF Lists
<1>5. ASSUME NEW i \in first .. last PROVE \E k \in DOMAIN q : q[k] = Todo(op, i)
  <2>1. i - first + 1 \in 1 .. last - first + 1 /\ first + (i - first + 1) - 1 = i
    OBVIOUS
  <2> QED
    BY <1>1, <1>2, <2>1
<1> QED
  BY <1>4, <1>5 DEF q

(* What Queue says of a queue q of a call.                                 *)
Proceeds(q, kind, first, last) ==
  /\ q \in Seq(Item)
  /\ \A k \in DOMAIN q :
        /\ q[k].op = "get" <=> kind = "read"
        /\ q[k].op = "fill" => kind = "write"
        /\ q[k].i \in first .. last
        /\ \A l \in DOMAIN q : k < l =>
              /\ q[l].op = "fill" => q[k].op = "fill"
              /\ q[k].op = q[l].op => q[k].i < q[l].i

LEMMA ListProceeds ==
  ASSUME NEW q, NEW op, NEW first, NEW last, Lists(q, op, first, last), NEW kind,
         (op = "get" /\ kind = "read") \/ (op = "put" /\ kind \in {"write", "copy"})
  PROVE  Proceeds(q, kind, first, last)
  BY DEF Lists, Proceeds

LEMMA FillsAndPuts ==
  ASSUME NEW q, NEW r, NEW first, NEW last,
         Lists(q, "fill", first, last), Lists(r, "put", first, last),
         NEW s, s = q \o r
  PROVE  /\ Proceeds(s, "write", first, last)
         /\ \A k \in DOMAIN q : \E l \in DOMAIN s : s[l] = q[k]
<1> DEFINE m == Len(q)
<1>1. q \in Seq(Item) /\ r \in Seq(Item)
  BY DEF Lists
<1>2. /\ s \in Seq(Item) /\ Len(s) = m + Len(r) /\ m \in Nat /\ Len(r) \in Nat
      /\ \A k \in 1 .. m : s[k] = q[k]
      /\ \A k \in 1 .. Len(r) : s[m + k] = r[k]
      /\ DOMAIN q = 1 .. m /\ DOMAIN r = 1 .. Len(r) /\ DOMAIN s = 1 .. m + Len(r)
  BY <1>1
<1> HIDE DEF m
<1>3. ASSUME NEW k \in DOMAIN s
      PROVE  \/ k \in DOMAIN q /\ s[k] = q[k]
             \/ k > m /\ k - m \in DOMAIN r /\ s[k] = r[k - m]
  <2>1. CASE k <= m
    BY <1>2, <2>1
  <2>2. CASE k > m
    <3>1. k - m \in 1 .. Len(r) /\ m + (k - m) = k
      BY <1>2, <2>2
    <3> QED
      BY <1>2, <2>2, <3>1
  <2> QED
    BY <1>2, <2>1, <2>2
<1>4. Proceeds(s, "write", first, last)
  <2>1. ASSUME NEW k \in DOMAIN s
        PROVE  /\ (k \in DOMAIN q /\ s[k].op = "fill") \/ (k > m /\ s[k].op = "put")
               /\ s[k].i \in first .. last
    BY <1>3 DEF Lists
  <2>2. ASSUME NEW k \in DOMAIN s, NEW l \in DOMAIN s, k < l
        PROVE  /\ s[l].op = "fill" => s[k].op = "fill"
               /\ s[k].op = s[l].op => s[k].i < s[l].i
    <3>1. k \in Nat /\ l \in Nat
      BY <1>2
    <3>2. CASE l \in DOMAIN q
      <4>1. k \in DOMAIN q /\ s[k] = q[k] /\ s[l] = q[l]
        BY <1>2, <2>2, <3>1, <3>2
      <4> QED
        BY <2>2, <3>2, <4>1 DEF Lists
    <3>3. CASE l \notin DOMAIN q /\ k \in DOMAIN q
      BY <1>2, <1>3, <2>1, <3>3
    <3>4. CASE l \notin DOMAIN q /\ k \notin DOMAIN q
      <4>1. /\ k - m \in DOMAIN r /\ s[k] = r[k - m]
            /\ l - m \in DOMAIN r /\ s[l] = r[l - m]
        BY <1>3, <3>4
      <4>2. k - m < l - m
        BY <1>2, <2>2, <3>1
      <4> QED
        BY <4>1, <4>2 DEF Lists
    <3> QED
      BY <3>2, <3>3, <3>4
  <2> QED
    BY <1>2, <2>1, <2>2 DEF Proceeds
<1>5. ASSUME NEW k \in DOMAIN q PROVE k \in DOMAIN s /\ s[k] = q[k]
  BY <1>2
<1> QED
  BY <1>4, <1>5

LEMMA PartsList ==
  ASSUME NEW c, Asks(c), numBytes(c) > 0, c.kind = "write",
         NEW q, q = [k \in DOMAIN Parts(c) |-> Todo("fill", Parts(c)[k])]
  PROVE  /\ Lists(q, "fill", firstSector(c), lastSector(c))
         /\ \A i \in Kept(c) : \E k \in DOMAIN q : q[k] = Todo("fill", i)
<1>1. Parts(c) \in Seq(Nat) /\ DOMAIN Parts(c) = 1 .. Len(Parts(c)) /\ Len(Parts(c)) \in Nat
  BY PartsAre
<1>2. \A k \in DOMAIN Parts(c) : Todo("fill", Parts(c)[k]) \in Item
  BY <1>1 DEF Todo, Item
<1>3. q \in Seq(Item) /\ DOMAIN q = DOMAIN Parts(c)
  BY <1>1, <1>2
<1>4. \A k \in DOMAIN q : q[k].op = "fill" /\ q[k].i = Parts(c)[k]
  BY <1>3 DEF Todo
<1>5. Lists(q, "fill", firstSector(c), lastSector(c))
  BY <1>3, <1>4, PartsAre DEF Lists
<1>6. \A i \in Kept(c) : \E k \in DOMAIN q : q[k] = Todo("fill", i)
  BY <1>3 DEF Kept
<1> QED
  BY <1>5, <1>6

(* The queue of a new call.                                                *)
LEMMA NewQueue ==
  ASSUME NEW c, Asks(c), c.kind \in {"read", "write", "copy"},
         c.kind = "copy" => c.at = 0 /\ c.n = Length[c.f]
  PROVE  LET q == Transfers(c) IN
         /\ q # <<>> => numBytes(c) > 0
         /\ Proceeds(q, c.kind, firstSector(c), lastSector(c))
         /\ \A i \in Written(c) : \E k \in DOMAIN q : q[k] = Todo("put", i)
         /\ \A i \in Kept(c) : \E k \in DOMAIN q : q[k] = Todo("fill", i)
         /\ \A p \in Span(c) : \E k \in DOMAIN q :
               q[k] \in {Todo("get", p \div SectorSize), Todo("put", p \div SectorSize)}
         /\ c.kind = "copy" =>
               \A k \in DOMAIN q : q[k].i = k - 1 /\ q[k].i < NumSectors(c.f)
<1> DEFINE q == Transfers(c)
           first == firstSector(c)
           last == lastSector(c)
           puts == Each("put", first, last)
<1>1. CASE numBytes(c) = 0
  <2>1. q = <<>> /\ Written(c) = {} /\ Kept(c) = {}
    BY <1>1 DEF Transfers, Written, Kept
  <2>2. Span(c) = {}
    BY <1>1, RangeIs DEF Asks
  <2>3. Proceeds(<<>>, c.kind, first, last)
    BY DEF Proceeds
  <2> QED
    BY <2>1, <2>2, <2>3
<1>2. CASE numBytes(c) > 0
  <2>1. /\ first \in Nat /\ last \in 0 .. NumSectors(c.f) - 1 /\ first <= last
        /\ \A p \in Span(c) : p \div SectorSize \in first .. last
        /\ \A i \in first .. last : \E p \in Span(c) : p \div SectorSize = i
    BY <1>2, SectorsOfRange
  <2>2. numBytes(c) # 0
    BY <1>2
  <2> HIDE DEF first, last
  <2>3. last \in Nat /\ NumSectors(c.f) \in Nat
    BY <2>1, SectorsOfFile DEF Asks
  <2>4. /\ Lists(puts, "put", first, last)
        /\ \A i \in first .. last : \E k \in DOMAIN puts : puts[k] = Todo("put", i)
    BY <2>1, <2>3, EachLists
  <2>5. CASE c.kind = "read"
    <3>1. q = Each("get", first, last) /\ Kept(c) = {} /\ Written(c) = {}
      BY <2>2, <2>5 DEF Transfers, Kept, Written, first, last
    <3>2. /\ Lists(q, "get", first, last)
          /\ \A i \in first .. last : \E k \in DOMAIN q : q[k] = Todo("get", i)
      BY <2>1, <2>3, <3>1, EachLists
    <3>3. Proceeds(q, c.kind, first, last)
      BY <2>5, <3>2, ListProceeds
    <3> HIDE DEF q
    <3> QED
      BY <1>2, <2>1, <2>5, <3>1, <3>2, <3>3 DEF q, first, last
  <2>6. CASE c.kind = "write"
    <3> DEFINE fills == [k \in DOMAIN Parts(c) |-> Todo("fill", Parts(c)[k])]
    <3>1. q = fills \o puts /\ Written(c) = first .. last
      BY <2>2, <2>6 DEF Transfers, Written, first, last
    <3>2. /\ Lists(fills, "fill", first, last)
          /\ \A i \in Kept(c) : \E k \in DOMAIN fills : fills[k] = Todo("fill", i)
      BY <1>2, <2>6, PartsList DEF first, last
    <3> HIDE DEF fills, puts, q
    <3>3. /\ Proceeds(q, c.kind, first, last)
          /\ \A k \in DOMAIN fills : \E l \in DOMAIN q : q[l] = fills[k]
          /\ \A k \in DOMAIN puts : \E l \in DOMAIN q : q[l] = puts[k]
      <4>1. Lists(fills, "fill", first, last) /\ Lists(puts, "put", first, last)
        BY <2>4, <3>2
      <4>2. Proceeds(q, "write", first, last)
        BY <3>1, <4>1, FillsAndPuts
      <4>3. \A k \in DOMAIN fills : \E l \in DOMAIN q : q[l] = fills[k]
        BY <3>1, <4>1, FillsAndPuts
      <4>4. \A k \in DOMAIN puts : \E l \in DOMAIN q : q[l] = puts[k]
        <5>1. fills \in Seq(Item) /\ puts \in Seq(Item)
          BY <4>1 DEF Lists
        <5>2. ASSUME NEW k \in DOMAIN puts
              PROVE  Len(fills) + k \in DOMAIN q /\ q[Len(fills) + k] = puts[k]
          BY <3>1, <5>1
        <5> QED
          BY <5>2
      <4> QED
        BY <2>6, <4>2, <4>3, <4>4
    <3>4. \A i \in first .. last : \E k \in DOMAIN q : q[k] = Todo("put", i)
      BY <2>4, <3>3
    <3>5. \A i \in Kept(c) : \E k \in DOMAIN q : q[k] = Todo("fill", i)
      BY <3>2, <3>3
    <3> QED
      BY <1>2, <2>1, <2>6, <3>1, <3>3, <3>4, <3>5 DEF q, first, last
  <2>7. CASE c.kind = "copy"
    <3> DEFINE n == NumSectors(c.f) - 1
    <3>1. first = 0
      BY <2>7, Constants DEF firstSector, first
    <3>2. last = n
      <4>1. n \in Nat /\ n < NumSectors(c.f) /\ c.f \in Files
        BY <2>1, <2>3 DEF Asks
      <4>2. n * SectorSize < Length[c.f] /\ Length[c.f] \in Nat /\ n * SectorSize \in Nat
        <5> HIDE DEF n
        <5> QED
          BY <4>1, Constants, SectorsOfFile, Multiples
      <4>3. n * SectorSize \in Span(c)
        BY <2>7, <4>1, <4>2 DEF Span
      <4>4. (n * SectorSize) \div SectorSize = n
        <5> DEFINE p == n * SectorSize
        <5>1. p \in Nat /\ n * SectorSize <= p /\ p < n * SectorSize + SectorSize
          BY <4>2, Constants
        <5> HIDE DEF n, p
        <5>2. p \div SectorSize = n
          BY <4>1, <5>1, Constants, Blocks
        <5> QED
          BY <5>2 DEF p
      <4>5. n \in first .. last
        BY <2>1, <4>3, <4>4
      <4> QED
        BY <2>1, <2>3, <4>1, <4>5
    <3>3. q = puts /\ Written(c) = first .. last /\ Kept(c) = {}
      BY <2>2, <2>7, <3>1, <3>2 DEF Transfers, Written, Kept, first, last
    <3>4. Proceeds(q, c.kind, first, last)
      BY <2>4, <2>7, <3>3, ListProceeds
    <3>5. \A k \in DOMAIN puts : puts[k].i = k - 1 /\ puts[k].i < NumSectors(c.f)
      BY <2>1, <2>3, <3>1, <3>2 DEF Each, Todo
    <3> HIDE DEF q, puts, n
    <3> QED
      BY <1>2, <2>1, <2>4, <2>7, <3>3, <3>4, <3>5 DEF q, first, last
  <2> QED
    BY <2>5, <2>6, <2>7
<1> QED
  BY <1>1, <1>2, RangeIs

(* The queue when its first item is done.                                  *)
OnList(q, x) == \E k \in DOMAIN q : q[k] = x

LEMMA Behind ==
  ASSUME NEW q, NEW kind, NEW first, NEW last, Proceeds(q, kind, first, last), q # <<>>
  PROVE  /\ Proceeds(Tail(q), kind, first, last)
         /\ Head(q) \in Item /\ Head(q).i \in first .. last /\ OnList(q, Head(q))
         /\ Head(q).op = "get" <=> kind = "read"
         /\ Head(q).op = "fill" => kind = "write"
         /\ \A x : OnList(Tail(q), x) <=> OnList(q, x) /\ x # Head(q)
         /\ Head(q).op = "put" => \A k \in DOMAIN q : q[k].op # "fill"
         /\ DOMAIN Tail(q) = 1 .. Len(q) - 1
         /\ \A k \in DOMAIN Tail(q) : Tail(q)[k] = q[k + 1]
<1> DEFINE r == Tail(q)
<1>1. q \in Seq(Item)
  BY DEF Proceeds
<1>2. /\ Len(q) \in Nat \ {0} /\ DOMAIN q = 1 .. Len(q) /\ Head(q) = q[1]
      /\ r \in Seq(Item) /\ DOMAIN r = 1 .. Len(q) - 1
      /\ \A k \in DOMAIN r : r[k] = q[k + 1]
  BY <1>1
<1> HIDE DEF r
<1>3. \A k \in DOMAIN r : k + 1 \in DOMAIN q /\ k + 1 > 1 /\ r[k] = q[k + 1] /\ k \in Nat
  BY <1>2
<1>4. 1 \in DOMAIN q /\ Head(q) = q[1] /\ q[1] \in Item
  BY <1>1, <1>2
<1>5. Proceeds(r, kind, first, last)
  <2>1. ASSUME NEW k \in DOMAIN r, NEW l \in DOMAIN r, k < l PROVE k + 1 < l + 1
    BY <1>3, <2>1
  <2>2. ASSUME NEW k \in DOMAIN r
        PROVE  /\ r[k].op = "get" <=> kind = "read"
               /\ r[k].op = "fill" => kind = "write"
               /\ r[k].i \in first .. last
    BY <1>3 DEF Proceeds
  <2>3. ASSUME NEW k \in DOMAIN r, NEW l \in DOMAIN r, k < l
        PROVE  /\ r[l].op = "fill" => r[k].op = "fill"
               /\ r[k].op = r[l].op => r[k].i < r[l].i
    <3>1. k + 1 \in DOMAIN q /\ l + 1 \in DOMAIN q /\ k + 1 < l + 1
      BY <1>3, <2>1, <2>3
    <3>2. /\ q[l + 1].op = "fill" => q[k + 1].op = "fill"
          /\ q[k + 1].op = q[l + 1].op => q[k + 1].i < q[l + 1].i
      BY <3>1 DEF Proceeds
    <3> QED
      BY <1>3, <3>2
  <2> QED
    BY <1>2, <2>2, <2>3 DEF Proceeds
<1>6. ASSUME NEW k \in DOMAIN q, k > 1 PROVE k - 1 \in DOMAIN r /\ r[k - 1] = q[k] /\ q[k] # q[1]
  <2>1. k - 1 \in DOMAIN r /\ (k - 1) + 1 = k
    BY <1>2, <1>6
  <2>2. q[k].op = q[1].op => q[1].i < q[k].i
    BY <1>4, <1>6 DEF Proceeds
  <2>3. q[1].i \in Nat /\ q[k].i \in Nat
    <3>1. q[k] \in Item
      BY <1>1
    <3> QED
      BY <1>4, <3>1 DEF Item
  <2> QED
    BY <1>2, <2>1, <2>2, <2>3
<1>7. ASSUME NEW x PROVE OnList(r, x) <=> OnList(q, x) /\ x # Head(q)
  <2>1. ASSUME NEW k \in DOMAIN r, r[k] = x PROVE OnList(q, x) /\ x # Head(q)
    BY <1>3, <1>4, <1>6, <2>1 DEF OnList
  <2>2. ASSUME NEW k \in DOMAIN q, q[k] = x, x # Head(q) PROVE OnList(r, x)
    <3>1. k > 1
      BY <1>2, <1>4, <2>2
    <3> QED
      BY <1>6, <2>2, <3>1 DEF OnList
  <2> QED
    BY <2>1, <2>2 DEF OnList
<1>8. ASSUME Head(q).op = "put", NEW k \in DOMAIN q PROVE q[k].op # "fill"
  <2>1. k = 1 \/ k > 1
    BY <1>2
  <2> QED
    BY <1>4, <1>8, <2>1 DEF Proceeds
<1>9. /\ Head(q).i \in first .. last
      /\ Head(q).op = "get" <=> kind = "read"
      /\ Head(q).op = "fill" => kind = "write"
  BY <1>4 DEF Proceeds
<1> QED
  BY <1>2, <1>4, <1>5, <1>7, <1>8, <1>9 DEF r, OnList

-----------------------------------------------------------------------------
(* Calls and what they do to the disk.                                     *)
CallInv(c) == Request(c) /\ Queue(c) /\ Copying(c) /\ Merged(c)

LEMMA RequestAsks ==
  ASSUME NEW c, Request(c)
  PROVE  Asks(c) /\ c.kind \in {"read", "write", "copy"} /\ c # NoCall
<1>1. c.kind # "none"
  BY DEF Request
<1> QED
  BY <1>1 DEF Request, Asks, NoCall

LEMMA QueueProceeds ==
  ASSUME NEW c
  PROVE  Queue(c) <=> /\ Proceeds(c.queue, c.kind, firstSector(c), lastSector(c))
                      /\ c.queue # <<>> => numBytes(c) > 0
  BY Zenon DEF Queue, Proceeds, Item

(* What of a call does not change while it is under way.                   *)
Same(c, d) ==
  /\ d.kind = c.kind /\ d.h = c.h /\ d.f = c.f /\ d.n = c.n /\ d.at = c.at
  /\ d.advances = c.advances /\ d.from = c.from

LEMMA AdvanceIs ==
  ASSUME NEW c, Request(c), NEW d,
         \/ d = Advance(c)
         \/ \E b : d = [Advance(c) EXCEPT !.buf = b] /\ DOMAIN b = DOMAIN c.buf
         \/ \E r : d = [Advance(c) EXCEPT !.hdrReader = r]
  PROVE  Same(c, d) /\ d.queue = Tail(c.queue) /\ Request(d)
<1>1. DOMAIN c = Fields
  BY DEF Request
<1>2. Same(c, d) /\ d.queue = Tail(c.queue) /\ DOMAIN d = Fields /\ DOMAIN d.buf = DOMAIN c.buf
  BY <1>1 DEF Advance, Same, Fields
<1>3. DOMAIN buffer(d) = DOMAIN buffer(c)
  BY <1>2, SameRange DEF Same
<1> QED
  BY <1>2, <1>3 DEF Same, Request

(* The item at hand.                                                       *)
LEMMA AtHand ==
  ASSUME NEW c, Request(c), Queue(c), c.queue # <<>>
  PROVE  /\ Asks(c) /\ numBytes(c) > 0
         /\ Head(c.queue) = Todo(Head(c.queue).op, Head(c.queue).i)
         /\ Head(c.queue).op \in {"get", "fill", "put"}
         /\ Head(c.queue).i \in firstSector(c) .. lastSector(c)
         /\ Head(c.queue).i \in 0 .. NumSectors(c.f) - 1
         /\ Head(c.queue).op = "get" <=> c.kind = "read"
         /\ Head(c.queue).op = "fill" => c.kind = "write"
         /\ Holds(c, Head(c.queue).op, Head(c.queue).i)
<1>1. Asks(c) /\ numBytes(c) > 0
  BY RequestAsks DEF Queue
<1>2. /\ Head(c.queue) \in Item /\ OnList(c.queue, Head(c.queue))
      /\ Head(c.queue).i \in firstSector(c) .. lastSector(c)
      /\ Head(c.queue).op = "get" <=> c.kind = "read"
      /\ Head(c.queue).op = "fill" => c.kind = "write"
  BY QueueProceeds, Behind
<1>3. /\ firstSector(c) \in Nat /\ lastSector(c) \in 0 .. NumSectors(c.f) - 1
      /\ NumSectors(c.f) \in Nat
  BY <1>1, SectorsOfRange, SectorsOfFile DEF Asks
<1>4. /\ Head(c.queue) = Todo(Head(c.queue).op, Head(c.queue).i)
      /\ Head(c.queue).op \in {"get", "fill", "put"}
  BY <1>2 DEF Item, Todo
<1> QED
  BY <1>1, <1>2, <1>3, <1>4 DEF Holds, OnList

(* When it is done.                                                        *)
LEMMA HoldsLess ==
  ASSUME NEW c, Request(c), Queue(c), c.queue # <<>>, NEW d, Same(c, d), d.queue = Tail(c.queue)
  PROVE  /\ Queue(d)
         /\ \A op, i : Holds(d, op, i) <=> Holds(c, op, i) /\ Todo(op, i) # Head(c.queue)
         /\ Head(c.queue).op = "put" => \A i : ~Holds(c, "fill", i)
<1>1. Proceeds(c.queue, c.kind, firstSector(c), lastSector(c)) /\ numBytes(c) > 0
  BY QueueProceeds
<1>2. /\ d.kind = c.kind /\ numBytes(d) = numBytes(c)
      /\ firstSector(d) = firstSector(c) /\ lastSector(d) = lastSector(c)
  BY SameRange DEF Same
<1>3. Queue(d)
  BY <1>1, <1>2, Behind, QueueProceeds
<1>4. ASSUME NEW op, NEW i
      PROVE  Holds(d, op, i) <=> Holds(c, op, i) /\ Todo(op, i) # Head(c.queue)
  <2>1. OnList(Tail(c.queue), Todo(op, i))
          <=> OnList(c.queue, Todo(op, i)) /\ Todo(op, i) # Head(c.queue)
    BY <1>1, Behind
  <2>2. Holds(d, op, i) = OnList(Tail(c.queue), Todo(op, i)) /\ Holds(c, op, i) = OnList(c.queue, Todo(op, i))
    BY Zenon DEF Holds, OnList
  <2> QED
    BY <2>1, <2>2, Zenon
<1>5. ASSUME Head(c.queue).op = "put", NEW i PROVE ~Holds(c, "fill", i)
  <2>1. \A k \in DOMAIN c.queue : c.queue[k].op # "fill"
    BY <1>1, <1>5, Behind
  <2> QED
    BY <2>1 DEF Holds, Todo
<1> QED
  BY <1>3, <1>4, <1>5

(* The buffer has room for the sectors of the range.                       *)
LEMMA InBuffer ==
  ASSUME NEW c, Asks(c), numBytes(c) > 0, NEW p \in Nat,
         p \div SectorSize \in firstSector(c) .. lastSector(c)
  PROVE  p \in DOMAIN buffer(c)
<1> DEFINE first == firstSector(c)
           last == lastSector(c)
           i == p \div SectorSize
<1>1. first \in Nat /\ last \in Nat /\ i \in first .. last
  BY SectorsOfRange
<1>2. i \in Nat /\ i * SectorSize \in Nat /\ i * SectorSize <= p /\ p < i * SectorSize + SectorSize
  BY Constants, Within
<1> HIDE DEF first, last, i
<1>3. first * SectorSize <= i * SectorSize /\ i * SectorSize <= last * SectorSize
  BY <1>1, <1>2, Constants, Multiples
<1>4. /\ first * SectorSize \in Nat /\ last * SectorSize \in Nat
      /\ (last + 1) * SectorSize = last * SectorSize + SectorSize
  BY <1>1, Constants, Multiples
<1>5. p \in first * SectorSize .. (last + 1) * SectorSize - 1
  BY <1>2, <1>3, <1>4, Constants
<1> QED
  BY <1>5 DEF buffer, first, last

(* A byte of a file is where its sector is.                                *)
LEMMA ContentIs ==
  ASSUME NEW f \in Files, NEW p \in Nat, p < Length[f]
  PROVE  content[f][p] = disk[DataSector(f, p \div SectorSize)][p % SectorSize]
<1>1. Length[f] \in Nat
  BY LengthsAre
<1> QED
  BY <1>1 DEF content

LEMMA SectorOnDisk ==
  ASSUME OnDisk, NEW f \in Files, NEW i \in 0 .. NumSectors(f) - 1
  PROVE  DataSector(f, i) \in DOMAIN disk
  BY DEF OnDisk, DataSectors

(* A call stores the bytes of its range that are in a sector, and nothing  *)
(* else changes.                                                           *)
LEMMA BytesAre ==
  ASSUME NEW c, c.at \in Nat, NEW i \in Nat, NEW k \in Offset, NEW p \in Nat,
         p = i * SectorSize + k
  PROVE  BytesOf(c, i)[k] = IF p \in Span(c) THEN c.from[p - c.at + 1] ELSE c.buf[p]
<1> DEFINE n == i * SectorSize
<1>1. BytesOf(c, i)[k] = IF n + k \in Span(c) THEN c.from[n + k - c.at + 1] ELSE c.buf[n + k]
  BY Zenon DEF BytesOf
<1>2. n \in Nat /\ p = n + k /\ k \in Nat
  BY Constants, Multiples DEF Offset
<1> HIDE DEF n
<1>3. n + k - c.at + 1 = p - c.at + 1
  BY <1>2
<1> QED
  BY <1>1, <1>2, <1>3, Zenon

Stores(c, i) == disk' = [disk EXCEPT ![DataSector(c.f, i)] = BytesOf(c, i)]

LEMMA Stored ==
  ASSUME OnDisk, NEW c, Request(c), Queue(c), Merged(c), c.queue # <<>>,
         Head(c.queue).op = "put", Stores(c, Head(c.queue).i)
  PROVE  /\ OnDisk'
         /\ \A f \in Files : \A p \in Nat : p < Length[f] =>
               content'[f][p] = IF f = c.f /\ p \div SectorSize = Head(c.queue).i /\ p \in Span(c)
                                THEN c.from[p - c.at + 1] ELSE content[f][p]
<1> DEFINE i == Head(c.queue).i
<1>1. /\ Asks(c) /\ c.f \in Files /\ i \in 0 .. NumSectors(c.f) - 1 /\ i \in Nat
      /\ Holds(c, "put", i) /\ Head(c.queue) = Todo("put", i)
  BY AtHand, SectorsOfFile DEF Asks
<1>2. DataSector(c.f, i) \in DOMAIN disk
  BY <1>1, SectorOnDisk
<1>3. ~Holds(c, "fill", i)
  <2>1. Same(c, Advance(c)) /\ Advance(c).queue = Tail(c.queue)
    BY AdvanceIs
  <2> QED
    BY <2>1, HoldsLess
<1> HIDE DEF i
<1>4. disk' = [disk EXCEPT ![DataSector(c.f, i)] = BytesOf(c, i)]
  BY DEF Stores, i
<1>5. OnDisk'
  BY <1>4 DEF OnDisk, DataSector, IndexSector
<1>6. ASSUME NEW f \in Files, NEW p \in Nat, p < Length[f]
      PROVE  content'[f][p] = IF f = c.f /\ p \div SectorSize = i /\ p \in Span(c)
                              THEN c.from[p - c.at + 1] ELSE content[f][p]
  <2> DEFINE j == p \div SectorSize
             k == p % SectorSize
  <2>1. /\ content[f][p] = disk[DataSector(f, j)][k]
        /\ content'[f][p] = disk'[DataSector(f, j)][k]
    <3>1. Length[f] \in Nat
      BY LengthsAre
    <3> QED
      BY <1>6, <3>1 DEF content
  <2>2. CASE f # c.f \/ j # i
    <3>1. DataSector(f, j) # DataSector(c.f, i)
      BY <2>2 DEF DataSector
    <3>2. disk'[DataSector(f, j)] = disk[DataSector(f, j)]
      <4> HIDE DEF j
      <4> QED
        BY <1>4, <3>1
    <3> QED
      BY <2>1, <2>2, <3>2
  <2>3. CASE f = c.f /\ j = i
    <3>1. disk'[DataSector(f, j)] = BytesOf(c, i)
      BY <1>2, <1>4, <2>3
    <3>2. k \in Offset /\ p = i * SectorSize + k
      BY <1>1, <2>3, InSector
    <3> HIDE DEF j, k
    <3>3. BytesOf(c, i)[k] = IF p \in Span(c) THEN c.from[p - c.at + 1] ELSE c.buf[p]
      BY <1>1, <3>2, BytesAre DEF Asks
    <3>4. p \notin Span(c) => c.buf[p] = content[f][p]
      BY <1>1, <1>3, <1>6, <2>3, LengthsAre DEF Merged, j
    <3> QED
      BY <2>1, <2>3, <3>1, <3>3, <3>4 DEF j
  <2> QED
    BY <2>2, <2>3
<1> QED
  BY <1>5, <1>6 DEF i

(* The part that another call keeps is not among those bytes.              *)
OnlyAt(file, i) ==
  \A f \in Files : \A p \in Nat : p < Length[f] =>
     content'[f][p] = content[f][p] \/ (f = file /\ p \div SectorSize = i)

LEMMA OthersMerged ==
  ASSUME NEW c, NEW i, NEW e, Request(e), Queue(e), Merged(e),
         OnlyAt(c.f, i),
         e.f = c.f => i \notin Kept(e)
  PROVE  Merged(e)'
<1>1. Asks(e) /\ e.f \in Files /\ Length[e.f] \in Nat /\ e.kind \in {"read", "write", "copy"}
  BY RequestAsks, LengthsAre DEF Asks
<1>2. ASSUME NEW p \in 0 .. Length[e.f] - 1, p \notin Span(e),
             Holds(e, "put", p \div SectorSize), ~Holds(e, "fill", p \div SectorSize)
      PROVE  e.buf[p] = content'[e.f][p]
  <2> DEFINE j == p \div SectorSize
  <2>1. p \in Nat /\ p < Length[e.f] /\ e.buf[p] = content[e.f][p]
    BY <1>1, <1>2 DEF Merged
  <2>2. PICK k \in DOMAIN e.queue : e.queue[k] = Todo("put", j)
    BY <1>2 DEF Holds
  <2>3. numBytes(e) > 0 /\ e.kind # "read" /\ j \in firstSector(e) .. lastSector(e)
    <3>1. e.queue # <<>> /\ e.queue[k].op = "put" /\ e.queue[k].i = j
      BY <2>2 DEF Todo
    <3> HIDE DEF j
    <3> QED
      BY <3>1 DEF Queue
  <2>4. e.kind = "write"
    <3>1. e.kind = "copy" => e.at = 0 /\ e.n = Length[e.f]
      BY DEF Request
    <3>2. e.kind = "copy" => p \in Span(e)
      BY <1>1, <2>1, <3>1 DEF Span
    <3> QED
      BY <1>1, <1>2, <2>3, <3>2
  <2>5. j \in Kept(e)
    BY <1>1, <1>2, <2>1, <2>3, <2>4, PartsAreKept
  <2>6. ~(e.f = c.f /\ j = i)
    BY <2>5
  <2> QED
    BY <1>1, <2>1, <2>6 DEF OnlyAt
<1> QED
  BY <1>2 DEF Merged

(* The sector just written needs no merging any more, others of the call   *)
(* are as they were.                                                       *)
LEMMA OwnMerged ==
  ASSUME NEW c, Request(c), Queue(c), Merged(c), c.queue # <<>>, NEW i,
         Head(c.queue) = Todo("put", i),
         NEW d, Same(c, d), d.queue = Tail(c.queue), d.buf = c.buf,
         OnlyAt(c.f, i)
  PROVE  Merged(d)'
<1>1. c.f \in Files /\ Length[c.f] \in Nat /\ d.f = c.f /\ Span(d) = Span(c)
  BY SameRange, LengthsAre DEF Request, Same
<1>2. ASSUME NEW p \in 0 .. Length[d.f] - 1, p \notin Span(d),
             Holds(d, "put", p \div SectorSize), ~Holds(d, "fill", p \div SectorSize)
      PROVE  d.buf[p] = content'[d.f][p]
  <2> DEFINE j == p \div SectorSize
  <2>1. Holds(c, "put", j) /\ Todo("put", j) # Todo("put", i)
    BY <1>2, HoldsLess
  <2>2. ~Holds(c, "fill", j)
    <3>1. Head(c.queue).op = "put"
      BY DEF Todo
    <3> QED
      BY <3>1, HoldsLess
  <2>3. j # i
    BY <2>1
  <2>4. p \in 0 .. Length[c.f] - 1 /\ p \notin Span(c) /\ p \in Nat /\ p < Length[c.f]
    BY <1>1, <1>2
  <2>5. c.buf[p] = content[c.f][p]
    BY <2>1, <2>2, <2>4 DEF Merged
  <2>6. content'[c.f][p] = content[c.f][p]
    BY <1>1, <2>3, <2>4 DEF OnlyAt
  <2> QED
    BY <1>1, <2>5, <2>6
<1> QED
  BY <1>2 DEF Merged

(* A sector is read: what comes into the buffer is the file's.             *)
Reads(c, i) ==
  [p \in DOMAIN c.buf |-> IF p \in OffsetsIn(i) /\ p < Length[c.f]
                          THEN disk[ByteToSector(c.f, i)][p % SectorSize] ELSE c.buf[p]]

LEMMA ReadIs ==
  ASSUME OnDisk, NEW c, Request(c), Queue(c), c.queue # <<>>, NEW i, i = Head(c.queue).i
  PROVE  /\ DOMAIN Reads(c, i) = DOMAIN c.buf
         /\ \A p \in Nat : p < Length[c.f] /\ p \div SectorSize = i
               => Reads(c, i)[p] = content[c.f][p]
         /\ \A p \in Nat : p < Length[c.f] /\ p \div SectorSize # i /\ p \in DOMAIN c.buf
               => Reads(c, i)[p] = c.buf[p]
<1>1. /\ Asks(c) /\ numBytes(c) > 0 /\ c.f \in Files /\ Length[c.f] \in Nat
      /\ i \in firstSector(c) .. lastSector(c) /\ i \in 0 .. NumSectors(c.f) - 1 /\ i \in Nat
  BY AtHand, SectorsOfFile DEF Asks
<1>2. ByteToSector(c.f, i) = DataSector(c.f, i)
  BY <1>1, ByteToSectorIs
<1>3. ASSUME NEW p \in Nat, p < Length[c.f], p \div SectorSize = i
      PROVE  Reads(c, i)[p] = content[c.f][p]
  <2>1. p \in DOMAIN buffer(c)
    BY <1>1, <1>3, InBuffer
  <2>2. p \in DOMAIN c.buf
    BY <2>1 DEF Request
  <2>3. p \in OffsetsIn(i)
    BY <1>1, <1>3, InSector
  <2>4. content[c.f][p] = disk[DataSector(c.f, i)][p % SectorSize]
    BY <1>1, <1>3, ContentIs
  <2> QED
    BY <1>2, <1>3, <2>2, <2>3, <2>4 DEF Reads
<1>4. ASSUME NEW p \in Nat, p < Length[c.f], p \div SectorSize # i, p \in DOMAIN c.buf
      PROVE  Reads(c, i)[p] = c.buf[p]
  <2>1. p \notin OffsetsIn(i)
    BY <1>1, <1>4, InSector
  <2> QED
    BY <1>4, <2>1 DEF Reads
<1> QED
  BY <1>3, <1>4 DEF Reads

LEMMA FilledMerged ==
  ASSUME OnDisk, NEW c, Request(c), Queue(c), Merged(c), c.queue # <<>>, NEW i,
         Head(c.queue).i = i, Head(c.queue).op # "put",
         NEW d, Same(c, d), d.queue = Tail(c.queue), d.buf = Reads(c, i)
  PROVE  Merged(d)
<1>1. /\ c.f \in Files /\ Length[c.f] \in Nat /\ d.f = c.f /\ Span(d) = Span(c)
      /\ Asks(c) /\ numBytes(c) > 0
  BY SameRange, LengthsAre, AtHand DEF Request, Same
<1>2. ASSUME NEW p \in 0 .. Length[d.f] - 1, p \notin Span(d),
             Holds(d, "put", p \div SectorSize), ~Holds(d, "fill", p \div SectorSize)
      PROVE  d.buf[p] = content[d.f][p]
  <2> DEFINE j == p \div SectorSize
  <2>1. p \in 0 .. Length[c.f] - 1 /\ p \notin Span(c) /\ p \in Nat /\ p < Length[c.f]
    BY <1>1, <1>2
  <2>2. CASE j = i
    BY <1>1, <2>1, <2>2, ReadIs
  <2>3. CASE j # i
    <3>1. Holds(c, "put", j)
      BY <1>2, HoldsLess
    <3>2. ~Holds(c, "fill", j)
      <4>1. Todo("fill", j).i # Head(c.queue).i
        BY <2>3 DEF Todo
      <4> QED
        BY <1>2, <4>1, HoldsLess
    <3>3. c.buf[p] = content[c.f][p]
      BY <2>1, <3>1, <3>2 DEF Merged
    <3>4. j \in firstSector(c) .. lastSector(c)
      <4>1. PICK k \in DOMAIN c.queue : c.queue[k] = Todo("put", j)
        BY <3>1 DEF Holds
      <4>2. c.queue[k].i = j
        BY <4>1 DEF Todo
      <4> HIDE DEF j
      <4> QED
        BY <4>2 DEF Queue
    <3>5. p \in DOMAIN c.buf
      BY <1>1, <2>1, <3>4, InBuffer DEF Request
    <3> QED
      BY <1>1, <2>1, <2>3, <3>3, <3>5, ReadIs
  <2> QED
    BY <2>2, <2>3
<1> QED
  BY <1>2 DEF Merged

-----------------------------------------------------------------------------
(* Copy and its index block.                                               *)
LEMMA SameBlock ==
  ASSUME NEW i \in Nat, NEW k \in Nat \ {0}, (i + 1) % k # 0
  PROVE  (i + 1) \div k = i \div k
<1> DEFINE q == i \div k
           n == q * k
           a == i + 1
<1>1. q \in Nat /\ n \in Nat /\ n <= i /\ i < n + k
  BY Within
<1>2. CASE a < n + k
  <2>1. n <= a /\ a \in Nat
    BY <1>1
  <2> HIDE DEF a, q
  <2>2. a \div k = q
    BY <1>1, <1>2, <2>1, Blocks
  <2> QED
    BY <2>2 DEF a, q
<1>3. CASE a = n + k
  <2> DEFINE r == q + 1
  <2>1. r \in Nat /\ r * k = n + k /\ a \in Nat
    BY <1>1, Multiples
  <2>2. r * k <= a /\ a < r * k + k
    BY <1>1, <1>3, <2>1
  <2> HIDE DEF a, r
  <2>3. a \div k = r
    BY <2>1, <2>2, Blocks
  <2>4. a = r * k + (a % k) /\ a % k \in 0 .. k - 1
    BY <2>1, <2>3, Division
  <2> HIDE DEF n
  <2>5. a % k = 0
    BY <1>1, <1>3, <2>1, <2>4
  <2> QED
    BY <2>5 DEF a
<1> QED
  BY <1>1, <1>2, <1>3

LEMMA FetchIs ==
  ASSUME OnDisk, NEW f \in Files \ Direct, NEW i \in 0 .. NumSectors(f) - 1,
         NEW r \in Fetch(f, i \div FanOut)
  PROVE  r = IndexBlock(f, i \div FanOut)
<1> DEFINE j == i \div FanOut
<1>1. j \in 0 .. NumIndexBlocks(f) - 1 /\ NumIndexBlocks(f) \in Nat
  <2>1. NumSectors(f) \in Nat
    BY SectorsOfFile
  <2> QED
    BY <2>1, IndexBlocksOfFile, Constants, RoundUp DEF NumIndexBlocks
<1> HIDE DEF j
<1>2. r \in Fetch(f, j)
  BY DEF j
<1>3. Fetch(f, j) = {disk[IndexSector(f, j)]}
  BY <1>1 DEF Fetch
<1>4. disk[IndexSector(f, j)] = IndexBlock(f, j)
  BY <1>1 DEF OnDisk
<1> QED
  BY <1>2, <1>3, <1>4 DEF j

(* After each sector the index block is that of the next.                  *)
LEMMA CopyingNext ==
  ASSUME OnDisk, NEW c, Request(c), Queue(c), Copying(c), c.queue # <<>>, c.kind = "copy",
         NEW i, i = Head(c.queue).i,
         NEW d, Same(c, d), d.queue = Tail(c.queue), Request(d),
         d.hdrReader \in IF (i + 1) % FanOut = 0 THEN Fetch(c.f, (i + 1) \div FanOut)
                         ELSE {c.hdrReader}
  PROVE  Copying(d)
<1> SUFFICES ASSUME d.queue # <<>>
             PROVE  /\ \A k \in DOMAIN d.queue : d.queue[k].i = Head(d.queue).i + k - 1
                    /\ d.hdrReader = IndexBlock(d.f, Head(d.queue).i \div FanOut)
  BY DEF Copying
<1>1. /\ i \in Nat /\ c.f \in Files \ Direct /\ d.f = c.f
      /\ \A k \in DOMAIN c.queue : c.queue[k].i = i + k - 1
      /\ c.hdrReader = IndexBlock(c.f, i \div FanOut)
  <2>1. c.f \in Files /\ i \in 0 .. NumSectors(c.f) - 1
    BY AtHand DEF Request
  <2>2. NumSectors(c.f) \in Nat
    BY <2>1, SectorsOfFile
  <2> QED
    BY <2>1, <2>2 DEF Copying, Request, Same
<1>2. /\ DOMAIN d.queue = 1 .. Len(c.queue) - 1 /\ Len(c.queue) \in Nat
      /\ \A k \in DOMAIN d.queue : d.queue[k] = c.queue[k + 1]
      /\ DOMAIN c.queue = 1 .. Len(c.queue)
  <2>1. c.queue \in Seq(Item)
    BY DEF Queue, Item
  <2>2. Proceeds(c.queue, c.kind, firstSector(c), lastSector(c))
    BY QueueProceeds
  <2> QED
    BY <2>1, <2>2, Behind
<1>3. \A k \in DOMAIN d.queue : d.queue[k].i = i + k
  <2> TAKE k \in DOMAIN d.queue
  <2>1. k + 1 \in DOMAIN c.queue /\ k \in Nat /\ i + (k + 1) - 1 = i + k
    BY <1>1, <1>2, SMTT(30)
  <2> QED
    BY <1>1, <1>2, <2>1
<1>4. Queue(d)
  BY HoldsLess
<1>5. Head(d.queue) = d.queue[1] /\ 1 \in DOMAIN d.queue
  <2>1. d.queue \in Seq(Item)
    BY <1>4 DEF Queue, Item
  <2> QED
    BY <2>1
<1>6. Head(d.queue).i = i + 1
  BY <1>3, <1>5
<1>7. i + 1 \in 0 .. NumSectors(c.f) - 1
  <2>1. Head(d.queue).i \in 0 .. NumSectors(d.f) - 1
    BY <1>4, AtHand
  <2> QED
    BY <1>1, <1>6, <2>1
<1>8. d.hdrReader = IndexBlock(c.f, (i + 1) \div FanOut)
  <2>1. CASE (i + 1) % FanOut = 0
    <3>1. d.hdrReader \in Fetch(c.f, (i + 1) \div FanOut)
      BY <2>1
    <3> DEFINE a == i + 1
    <3> HIDE DEF a
    <3>2. a \in 0 .. NumSectors(c.f) - 1 /\ d.hdrReader \in Fetch(c.f, a \div FanOut)
      BY <1>7, <3>1 DEF a
    <3>3. d.hdrReader = IndexBlock(c.f, a \div FanOut)
      BY <1>1, <3>2, FetchIs
    <3> QED
      BY <3>3 DEF a
  <2>2. CASE (i + 1) % FanOut # 0
    BY <1>1, <2>2, SameBlock, Constants
  <2> QED
    BY <2>1, <2>2
<1>9. ASSUME NEW k \in DOMAIN d.queue PROVE d.queue[k].i = (i + 1) + k - 1
  <2>1. k \in Nat
    BY <1>2
  <2>2. i + k = (i + 1) + k - 1
    BY <1>1, <2>1, SMTT(30)
  <2> QED
    BY <1>3, <2>2
<1> QED
  BY <1>1, <1>6, <1>8, <1>9

-----------------------------------------------------------------------------
(* A new call.                                                             *)
Call(c, hdrReader) ==
  [kind |-> c.kind, h |-> c.h, f |-> c.f, n |-> c.n, at |-> c.at,
   advances |-> c.advances, from |-> c.from, hdrReader |-> hdrReader,
   queue |-> Transfers(c), buf |-> buffer(c)]

LEMMA NewCall ==
  ASSUME OnDisk, NEW c, Asks(c), c.kind \in {"read", "write", "copy"}, c.h \in Handles,
         c.advances \in BOOLEAN, NEW hdrReader,
         c.kind = "copy" => /\ c.f \notin Direct /\ c.at = 0 /\ c.n = Length[c.f]
                            /\ hdrReader \in Fetch(c.f, 0),
         NEW d, d = Call(c, hdrReader)
  PROVE  CallInv(d) /\ Same(c, d) /\ Left(d) = Span(d)
<1> DEFINE q == Transfers(c)
           first == firstSector(c)
           last == lastSector(c)
<1>1. /\ Same(c, d) /\ DOMAIN d = Fields /\ d.hdrReader = hdrReader
      /\ d.queue = q /\ d.buf = buffer(c)
  BY DEF Call, Same, Fields
<1>2. /\ numBytes(d) = numBytes(c) /\ Span(d) = Span(c) /\ d.f = c.f
      /\ firstSector(d) = first /\ lastSector(d) = last /\ buffer(d) = buffer(c)
      /\ Kept(d) = Kept(c) /\ Written(d) = Written(c) /\ d.kind = c.kind
  BY <1>1, SameRange DEF Same
<1>3. Request(d)
  BY <1>1, <1>2 DEF Request, Asks, Same
<1>4. /\ q # <<>> => numBytes(c) > 0
      /\ Proceeds(q, c.kind, first, last)
      /\ \A i \in Kept(c) : \E k \in DOMAIN q : q[k] = Todo("fill", i)
      /\ \A p \in Span(c) : \E k \in DOMAIN q :
            q[k] \in {Todo("get", p \div SectorSize), Todo("put", p \div SectorSize)}
      /\ c.kind = "copy" => \A k \in DOMAIN q : q[k].i = k - 1 /\ q[k].i < NumSectors(c.f)
  BY NewQueue
<1> HIDE DEF q, first, last
<1>5. Queue(d)
  BY <1>1, <1>2, <1>4, QueueProceeds
<1>6. Copying(d)
  <2> SUFFICES ASSUME d.kind = "copy", d.queue # <<>>
               PROVE  /\ \A k \in DOMAIN d.queue : d.queue[k].i = Head(d.queue).i + k - 1
                      /\ d.hdrReader = IndexBlock(d.f, Head(d.queue).i \div FanOut)
    BY DEF Copying
  <2>1. q \in Seq(Item) /\ q # <<>>
    BY <1>1, <1>4 DEF Proceeds
  <2>2. 1 \in DOMAIN q /\ Head(q) = q[1]
    BY <2>1
  <2>3. Head(q).i = 0 /\ 0 < NumSectors(c.f)
    BY <1>2, <1>4, <2>2
  <2>4. \A k \in DOMAIN q : q[k].i = 0 + k - 1
    <3> TAKE k \in DOMAIN q
    <3>1. k \in Nat
      BY <2>1
    <3> QED
      BY <1>2, <1>4, <3>1
  <2>5. c.f \in Files \ Direct /\ 0 \in 0 .. NumSectors(c.f) - 1
    BY <1>2, <2>3, SectorsOfFile DEF Asks
  <2>6. 0 \div FanOut = 0
    <3>1. 0 * FanOut <= 0 /\ 0 < 0 * FanOut + FanOut
      BY Constants
    <3> QED
      BY <3>1, Constants, Blocks
  <2>7. hdrReader = IndexBlock(c.f, 0 \div FanOut)
    BY <1>2, <2>5, <2>6, FetchIs
  <2> QED
    BY <1>1, <1>2, <2>3, <2>4, <2>7
<1>7. Merged(d)
  <2>1. ASSUME NEW p \in 0 .. Length[d.f] - 1, p \notin Span(d),
               Holds(d, "put", p \div SectorSize), ~Holds(d, "fill", p \div SectorSize)
        PROVE  FALSE
    <3> DEFINE j == p \div SectorSize
    <3>1. Length[c.f] \in Nat /\ p \in Nat /\ p < Length[c.f]
      BY <1>2, <2>1, LengthsAre DEF Asks
    <3>2. PICK k \in DOMAIN q : q[k] = Todo("put", j)
      BY <1>1, <2>1 DEF Holds
    <3>3. q # <<>> /\ q[k].op = "put" /\ q[k].i = j
      BY <3>2 DEF Todo
    <3> HIDE DEF j
    <3>4. numBytes(c) > 0 /\ c.kind # "read" /\ j \in first .. last
      BY <1>4, <3>3 DEF Proceeds
    <3>5. CASE c.kind = "copy"
      <4>1. p \in Span(c)
        BY <3>1, <3>5 DEF Span
      <4> QED
        BY <1>2, <2>1, <4>1
    <3>6. CASE c.kind = "write"
      <4>1. p \notin Span(c) /\ p \div SectorSize \in firstSector(c) .. lastSector(c)
        BY <1>2, <2>1, <3>4 DEF j, first, last
      <4>2. j \in Kept(c)
        BY <3>1, <3>4, <3>6, <4>1, PartsAreKept DEF j
      <4>3. Holds(d, "fill", j)
        BY <1>1, <1>4, <4>2 DEF Holds
      <4> QED
        BY <2>1, <4>3 DEF j
    <3> QED
      BY <3>4, <3>5, <3>6
  <2> QED
    BY <2>1 DEF Merged
<1>8. Left(d) = Span(d)
  BY <1>1, <1>2, <1>4 DEF Left
<1> QED
  BY <1>1, <1>3, <1>5, <1>6, <1>7, <1>8 DEF CallInv

-----------------------------------------------------------------------------
(* Scripts.                                                                *)

(* The command a thread is at.                                             *)
LEMMA Command ==
  ASSUME TypeOK, NEW t \in Threads, ~Finished(t)
  PROVE  /\ pc[t] \in DOMAIN script[t] /\ pc[t] \in Nat \ {0} /\ script[t] \in Scripts[t]
         /\ DOMAIN script[t] = 1 .. Len(script[t]) /\ Len(script[t]) \in Nat
         /\ WellFormed(At(t)) /\ CopiesWhatItOpened(script[t], pc[t])
<1>1. /\ pc[t] \in Nat \ {0} /\ script[t] \in Scripts[t]
      /\ DOMAIN script[t] = 1 .. Len(script[t]) /\ Len(script[t]) \in Nat
  BY ScriptAssumption DEF TypeOK
<1>2. pc[t] \in DOMAIN script[t]
  BY <1>1 DEF Finished
<1> QED
  BY <1>1, <1>2, ScriptAssumption DEF At

(* Handles are local.                                                      *)
LEMMA HandlesApart ==
  ASSUME TypeOK, NEW t \in Threads, NEW u \in Threads, t # u, ~Finished(t), ~Finished(u),
         At(t).do \in OnHandle, At(u).do \in OnHandle
  PROVE  At(t).h # At(u).h
<1>1. /\ script[t] \in Scripts[t] /\ pc[t] \in DOMAIN script[t]
      /\ script[u] \in Scripts[u] /\ pc[u] \in DOMAIN script[u]
  BY Command
<1> QED
  BY <1>1, ScriptAssumption DEF At

(* Copy comes after the Open that it depends on, and in no other way.      *)
LEMMA BeforeCopy ==
  ASSUME TypeOK, NEW t \in Threads, ~Finished(t), NEW n \in DOMAIN script[t],
         script[t][n].do = "Copy"
  PROVE  /\ n = pc[t] + 1 => /\ At(t).do = "Open" /\ At(t).h = script[t][n].h
                             /\ At(t).skip = Abort /\ At(t).f \notin Direct
         /\ At(t).do \in {"Create", "Open"} /\ At(t).skip # Abort => n # pc[t] + 1 + At(t).skip
<1>1. /\ pc[t] \in DOMAIN script[t] /\ pc[t] \in Nat \ {0} /\ script[t] \in Scripts[t]
      /\ CopiesWhatItOpened(script[t], pc[t])
  BY Command
<1>2. CopiesWhatItOpened(script[t], n)
  BY <1>1, ScriptAssumption
<1>3. ASSUME n = pc[t] + 1
      PROVE  /\ At(t).do = "Open" /\ At(t).h = script[t][n].h
             /\ At(t).skip = Abort /\ At(t).f \notin Direct
  <2>1. n - 1 = pc[t]
    BY <1>1, <1>3
  <2> QED
    BY <1>2, <2>1 DEF CopiesWhatItOpened, At
<1>4. ASSUME At(t).do \in {"Create", "Open"}, At(t).skip # Abort
      PROVE  n # pc[t] + 1 + At(t).skip
  BY <1>1, <1>4 DEF CopiesWhatItOpened, At
<1> QED
  BY <1>3, <1>4

(* A thread goes on, and what it comes to finds its file open.             *)
LEMMA AtCopyStep ==
  ASSUME TypeOK, AtCopy, NEW t \in Threads, NEW n \in Nat \ {0}, Goto(t, n), script' = script,
         n \in DOMAIN script[t] /\ script[t][n].do = "Copy"
            => handle'[script[t][n].h].file \in Files \ Direct,
         \A u \in Threads \ {t} : ~Finished(u) /\ At(u).do = "Copy"
            => handle'[At(u).h].file = handle[At(u).h].file
  PROVE  AtCopy'
<1> SUFFICES ASSUME NEW u \in Threads, ~Finished(u)', At(u)'.do = "Copy"
             PROVE  handle'[At(u)'.h].file \in Files \ Direct
  BY DEF AtCopy
<1>1. pc' = [pc EXCEPT ![t] = n] /\ pc \in [Threads -> Nat \ {0}]
  BY DEF Goto, TypeOK
<1>2. CASE u = t
  <2>1. pc'[t] = n /\ DOMAIN script[t] = 1 .. Len(script[t]) /\ Len(script[t]) \in Nat
    BY <1>1, ScriptAssumption DEF TypeOK
  <2>2. n \in DOMAIN script[t]
    BY <1>2, <2>1 DEF Finished
  <2> QED
    BY <1>2, <2>1, <2>2 DEF At
<1>3. CASE u # t
  <2>1. pc'[u] = pc[u]
    BY <1>1, <1>3
  <2>2. ~Finished(u) /\ At(u) = At(u)'
    BY <2>1 DEF Finished, At
  <2> QED
    BY <1>3, <2>2 DEF AtCopy
<1> QED
  BY <1>2, <1>3

-----------------------------------------------------------------------------
(* The invariant.                                                          *)
LEMMA CallsInv ==
  ASSUME TypeOK, InCall, Apart, NEW t \in Threads, NEW d, call' = [call EXCEPT ![t] = d],
         d # NoCall => Request(d) /\ Queue(d) /\ Copying(d) /\ Merged(d)',
         \A u \in Threads \ {t} : \A e : e = call[u] /\ e # NoCall => Merged(e)',
         \A u \in Threads \ {t} : call[u] # NoCall /\ d # NoCall /\ call[u].f = d.f
            => Kept(d) \cap Written(call[u]) = {} /\ Kept(call[u]) \cap Written(d) = {}
  PROVE  InCall' /\ Apart' /\ DOMAIN call' = Threads
<1>1. DOMAIN call = Threads
  BY DEF TypeOK
<1>2. call'[t] = d /\ DOMAIN call' = Threads /\ \A u \in Threads \ {t} : call'[u] = call[u]
  BY <1>1
<1>3. InCall'
  <2> SUFFICES ASSUME NEW u \in Threads, call'[u] # NoCall
               PROVE  /\ Request(call'[u]) /\ Queue(call'[u]) /\ Copying(call'[u])
                      /\ Merged(call[u])'
    BY DEF InCall
  <2>1. CASE u = t
    BY <1>2, <2>1 DEF Merged
  <2>2. CASE u # t
    <3>1. call'[u] = call[u] /\ call[u] # NoCall
      BY <1>2, <2>2
    <3>2. Request(call[u]) /\ Queue(call[u]) /\ Copying(call[u])
      BY <3>1 DEF InCall
    <3> QED
      BY <2>2, <3>1, <3>2 DEF Merged
  <2> QED
    BY <2>1, <2>2
<1>4. Apart'
  <2> SUFFICES ASSUME NEW u \in Threads, NEW w \in Threads, u # w,
                      call'[u] # NoCall, call'[w] # NoCall, call'[u].f = call'[w].f
               PROVE  Kept(call'[u]) \cap Written(call'[w]) = {}
    BY DEF Apart
  <2>1. CASE u # t /\ w # t
    BY <1>2, <2>1 DEF Apart
  <2>2. CASE u = t
    BY <1>2, <2>2
  <2>3. CASE w = t
    BY <1>2, <2>3
  <2> QED
    BY <2>1, <2>2, <2>3
<1> QED
  BY <1>2, <1>3, <1>4

(* Steps that concern no sector.                                           *)
LEMMA SilentInv ==
  ASSUME InCall, Apart, OnDisk, disk' = disk, call' = call
  PROVE  InCall' /\ Apart' /\ OnDisk'
<1>1. content' = content
  BY DEF content
<1>2. OnDisk' /\ Apart'
  BY DEF OnDisk, Apart
<1>3. InCall'
  BY <1>1 DEF InCall, Merged
<1> QED
  BY <1>2, <1>3

LEMMA InitInv == Init => SectorInv
<1> SUFFICES ASSUME Init PROVE SectorInv
  OBVIOUS
<1>1. TypeOK
  <2>1. DOMAIN script = Threads /\ \A t \in Threads : script[t] \in Scripts[t]
    BY DEF Init
  <2>2. handle \in [Handles -> [file : Files \cup {NoFile}, seekPosition : Nat]]
    BY DEF Init, Closed
  <2>3. pc \in [Threads -> Nat \ {0}]
    <3>1. pc = [t \in Threads |-> 1]
      BY DEF Init
    <3> QED
      BY <3>1
  <2>4. DOMAIN call = Threads /\ DOMAIN answer = Threads
    BY DEF Init
  <2>5. created \subseteq Files
    BY OpenFileAssumption DEF Init
  <2>6. aborted = FALSE
    BY DEF Init
  <2>7. aborted \in BOOLEAN
    BY <2>6
  <2> QED
    BY <2>1, <2>2, <2>3, <2>4, <2>5, <2>7 DEF TypeOK
<1>2. OnDisk
  <2>1. disk = [s \in DataSectors \cup IndexSectors |->
                  IF s[2] = "data" THEN Sector(s[1], Blank[s[1]], s[3]) ELSE IndexBlock(s[1], s[3])]
    BY DEF Init
  <2>2. ASSUME NEW f \in Files \ Direct, NEW j \in 0 .. NumIndexBlocks(f) - 1
        PROVE  disk[IndexSector(f, j)] = IndexBlock(f, j)
    <3>1. IndexSector(f, j) \in DataSectors \cup IndexSectors
      BY DEF IndexSectors
    <3>2. IndexSector(f, j)[1] = f /\ IndexSector(f, j)[2] = "index" /\ IndexSector(f, j)[3] = j
      BY DEF IndexSector
    <3> HIDE DEF IndexSector
    <3> QED
      BY <2>1, <3>1, <3>2
  <2> QED
    BY <2>1, <2>2 DEF OnDisk
<1>3. AtCopy
  <2> SUFFICES ASSUME NEW t \in Threads, ~Finished(t), At(t).do = "Copy" PROVE FALSE
    BY DEF AtCopy
  <2>1. pc[t] = 1
    BY DEF Init
  <2> QED
    BY <1>1, <2>1, Command DEF CopiesWhatItOpened, At
<1>4. InCall /\ Apart
  BY DEF Init, InCall, Apart
<1> QED
  BY <1>1, <1>2, <1>3, <1>4 DEF SectorInv

(* Steps that concern handles and the directory only.                      *)
LEMMA OthersHandles ==
  ASSUME TypeOK, NEW t \in Threads, ~Finished(t), At(t).do \in OnHandle,
         NEW v, handle' = [handle EXCEPT ![At(t).h] = v]
  PROVE  \A u \in Threads \ {t} : ~Finished(u) /\ At(u).do = "Copy"
            => handle'[At(u).h].file = handle[At(u).h].file
<1> SUFFICES ASSUME NEW u \in Threads \ {t}, ~Finished(u), At(u).do = "Copy"
             PROVE  handle'[At(u).h] = handle[At(u).h]
  OBVIOUS
<1>1. At(u).do \in OnHandle
  BY DEF OnHandle
<1>2. At(t).h # At(u).h
  BY <1>1, HandlesApart
<1>3. At(u).h \in Handles
  BY <1>1, Command DEF WellFormed
<1> QED
  BY <1>2, <1>3 DEF TypeOK

LEMMA Goes ==
  ASSUME TypeOK, NEW t \in Threads, NEW n \in Nat \ {0}, Goto(t, n)
  PROVE  pc' \in [Threads -> Nat \ {0}]
BY DEF TypeOK, Goto

LEMMA CreateInv == ASSUME SectorInv, NEW t \in Threads, Create(t) PROVE SectorInv'
<1>1. /\ TypeOK /\ OnDisk /\ AtCopy /\ InCall /\ Apart
  BY DEF SectorInv
<1>2. /\ ~Finished(t) /\ At(t).do = "Create"
      /\ handle' = handle /\ script' = script /\ call' = call /\ disk' = disk
      /\ answer' = answer /\ aborted' = aborted
  BY DEF Create, Does, Runs
<1>3. /\ pc[t] \in Nat \ {0} /\ At(t).skip \in Nat /\ At(t).f \in Files
  BY <1>1, <1>2, Command DEF WellFormed
<1>4. PICK n \in Nat \ {0} :
        Goto(t, n) /\ (n = pc[t] + 1 \/ n = pc[t] + 1 + At(t).skip)
  <2>1. pc[t] + 1 \in Nat \ {0} /\ pc[t] + 1 + At(t).skip \in Nat \ {0}
    BY <1>3
  <2> QED
    BY <2>1 DEF Create
<1>5. created' \subseteq Files
  BY <1>1, <1>3 DEF Create, TypeOK
<1>6. TypeOK'
  BY <1>1, <1>2, <1>4, <1>5, Goes DEF TypeOK
<1>7. ~(n \in DOMAIN script[t] /\ script[t][n].do = "Copy")
  BY <1>1, <1>2, <1>3, <1>4, BeforeCopy DEF Abort
<1>8. AtCopy'
  BY <1>1, <1>2, <1>4, <1>7, AtCopyStep
<1> QED
  BY <1>1, <1>2, <1>6, <1>8, SilentInv DEF SectorInv

LEMMA OpenInv == ASSUME SectorInv, NEW t \in Threads, Open(t) PROVE SectorInv'
<1>1. /\ TypeOK /\ OnDisk /\ AtCopy /\ InCall /\ Apart
  BY DEF SectorInv
<1>2. /\ ~Finished(t) /\ At(t).do = "Open"
      /\ script' = script /\ call' = call /\ disk' = disk
      /\ answer' = answer /\ created' = created
  BY DEF Open, Does, Runs
<1>3. /\ pc[t] \in Nat \ {0} /\ At(t).skip \in Nat \cup {Abort} /\ At(t).f \in Files
      /\ At(t).do \in OnHandle /\ At(t).h \in Handles
  BY <1>1, <1>2, Command DEF WellFormed, OnHandle
<1>4. CASE At(t).f \in created
  <2>1. /\ handle' = [handle EXCEPT ![At(t).h] = [file |-> At(t).f, seekPosition |-> 0]]
        /\ Goto(t, pc[t] + 1) /\ aborted' = aborted
    BY <1>4 DEF Open
  <2>2. pc[t] + 1 \in Nat \ {0}
    BY <1>3
  <2>3. handle' \in [Handles -> [file : Files \cup {NoFile}, seekPosition : Nat]]
    BY <1>1, <1>3, <2>1 DEF TypeOK
  <2>4. TypeOK'
    BY <1>1, <1>2, <2>1, <2>2, <2>3, Goes DEF TypeOK
  <2>5. ASSUME pc[t] + 1 \in DOMAIN script[t], script[t][pc[t] + 1].do = "Copy"
        PROVE  handle'[script[t][pc[t] + 1].h].file \in Files \ Direct
    <3>1. script[t][pc[t] + 1].h = At(t).h /\ At(t).f \notin Direct
      BY <1>1, <1>2, <2>5, BeforeCopy
    <3>2. handle'[At(t).h].file = At(t).f
      BY <1>1, <1>3, <2>1 DEF TypeOK
    <3> QED
      BY <1>3, <3>1, <3>2
  <2>6. \A u \in Threads \ {t} : ~Finished(u) /\ At(u).do = "Copy"
           => handle'[At(u).h].file = handle[At(u).h].file
    BY <1>1, <1>2, <1>3, <2>1, OthersHandles
  <2>7. AtCopy'
    BY <1>1, <1>2, <2>1, <2>2, <2>5, <2>6, AtCopyStep
  <2> QED
    BY <1>1, <1>2, <2>4, <2>7, SilentInv DEF SectorInv
<1>5. CASE At(t).f \notin created
  <2>1. /\ aborted' = (At(t).skip = Abort) /\ Goto(t, pc[t] + 1 + At(t).skip) /\ handle' = handle
    BY <1>5 DEF Open
  <2>2. pc[t] + 1 + At(t).skip \in Nat \ {0}
    BY <1>3 DEF Abort
  <2>3. aborted' \in BOOLEAN
    BY <2>1
  <2>4. TypeOK'
    BY <1>1, <1>2, <2>1, <2>2, <2>3, Goes DEF TypeOK
  <2>5. ~(pc[t] + 1 + At(t).skip \in DOMAIN script[t]
          /\ script[t][pc[t] + 1 + At(t).skip].do = "Copy")
    <3>1. CASE At(t).skip = Abort
      <4>1. pc[t] + 1 + At(t).skip = pc[t]
        BY <1>3, <3>1 DEF Abort
      <4>2. script[t][pc[t]].do = "Open"
        BY <1>2 DEF At
      <4> QED
        BY <4>1, <4>2
    <3>2. CASE At(t).skip # Abort
      BY <1>1, <1>2, <3>2, BeforeCopy
    <3> QED
      BY <3>1, <3>2
  <2>6. AtCopy'
    BY <1>1, <1>2, <2>1, <2>2, <2>5, AtCopyStep
  <2> QED
    BY <1>1, <1>2, <2>4, <2>6, SilentInv DEF SectorInv
<1> QED
  BY <1>4, <1>5

LEMMA OnwardInv ==
  ASSUME SectorInv, NEW t \in Threads, ~Finished(t), At(t).do \notin {"Create", "Open"},
         Goto(t, pc[t] + 1), script' = script, call' = call, disk' = disk,
         answer' = answer, aborted' = aborted, created' \subseteq Files,
         handle' \in [Handles -> [file : Files \cup {NoFile}, seekPosition : Nat]],
         \A u \in Threads \ {t} : ~Finished(u) /\ At(u).do = "Copy"
            => handle'[At(u).h].file = handle[At(u).h].file
  PROVE  SectorInv'
<1>1. /\ TypeOK /\ OnDisk /\ AtCopy /\ InCall /\ Apart
  BY DEF SectorInv
<1>2. pc[t] + 1 \in Nat \ {0}
  BY <1>1 DEF TypeOK
<1>3. TypeOK'
  BY <1>1, <1>2, Goes DEF TypeOK
<1>4. ~(pc[t] + 1 \in DOMAIN script[t] /\ script[t][pc[t] + 1].do = "Copy")
  BY <1>1, BeforeCopy
<1>5. AtCopy'
  BY <1>1, <1>2, <1>4, AtCopyStep
<1> QED
  BY <1>1, <1>3, <1>5, SilentInv DEF SectorInv

LEMMA SeekInv == ASSUME SectorInv, NEW t \in Threads, Seek(t) PROVE SectorInv'
<1>1. TypeOK
  BY DEF SectorInv
<1>2. /\ ~Finished(t) /\ At(t).do = "Seek"
      /\ Goto(t, pc[t] + 1) /\ script' = script /\ call' = call /\ disk' = disk
      /\ answer' = answer /\ aborted' = aborted /\ created' = created
      /\ handle' = [handle EXCEPT ![At(t).h].seekPosition = At(t).at]
  BY DEF Seek, Does, Runs
<1>3. At(t).do \in OnHandle /\ At(t).h \in Handles /\ At(t).at \in Nat
  BY <1>1, <1>2, Command DEF WellFormed, OnHandle
<1>4. handle' \in [Handles -> [file : Files \cup {NoFile}, seekPosition : Nat]]
  BY <1>1, <1>2, <1>3 DEF TypeOK
<1>5. \A h \in Handles : handle'[h].file = handle[h].file
  BY <1>1, <1>2 DEF TypeOK
<1>6. \A u \in Threads : ~Finished(u) /\ At(u).do = "Copy" => At(u).h \in Handles
  BY <1>1, Command DEF WellFormed, OnHandle
<1>7. created' \subseteq Files
  BY <1>1, <1>2 DEF TypeOK
<1> QED
  BY <1>2, <1>4, <1>5, <1>6, <1>7, OnwardInv

LEMMA CloseInv == ASSUME SectorInv, NEW t \in Threads, Close(t) PROVE SectorInv'
<1>1. TypeOK
  BY DEF SectorInv
<1>2. /\ ~Finished(t) /\ At(t).do = "Close"
      /\ Goto(t, pc[t] + 1) /\ script' = script /\ call' = call /\ disk' = disk
      /\ answer' = answer /\ aborted' = aborted /\ created' = created
      /\ handle' = [handle EXCEPT ![At(t).h] = Closed]
  BY DEF Close, Does, Runs
<1>3. At(t).do \in OnHandle /\ At(t).h \in Handles
  BY <1>1, <1>2, Command DEF WellFormed, OnHandle
<1>4. handle' \in [Handles -> [file : Files \cup {NoFile}, seekPosition : Nat]]
  BY <1>1, <1>2, <1>3 DEF TypeOK, Closed
<1>5. \A u \in Threads \ {t} : ~Finished(u) /\ At(u).do = "Copy"
         => handle'[At(u).h].file = handle[At(u).h].file
  BY <1>1, <1>2, <1>3, OthersHandles
<1>6. created' \subseteq Files
  BY <1>1, <1>2 DEF TypeOK
<1> QED
  BY <1>2, <1>4, <1>5, <1>6, OnwardInv

LEMMA RemoveInv == ASSUME SectorInv, NEW t \in Threads, Remove(t) PROVE SectorInv'
<1>1. TypeOK
  BY DEF SectorInv
<1>2. /\ ~Finished(t) /\ At(t).do = "Remove"
      /\ Goto(t, pc[t] + 1) /\ script' = script /\ call' = call /\ disk' = disk
      /\ answer' = answer /\ aborted' = aborted /\ handle' = handle
      /\ created' = created \ {At(t).f}
  BY DEF Remove, Does, Runs
<1>3. /\ created' \subseteq Files
      /\ handle' \in [Handles -> [file : Files \cup {NoFile}, seekPosition : Nat]]
  BY <1>1, <1>2 DEF TypeOK
<1> QED
  BY <1>2, <1>3, OnwardInv

(* A call begins: what it keeps nobody writes, and the other way round.    *)
LEMMA BeginInv ==
  ASSUME SectorInv, NEW t \in Threads, NEW c, Asks(c), c.kind \in {"read", "write", "copy"},
         c.h \in Handles, c.advances \in BOOLEAN, NEW hdrReader,
         c.kind = "copy" => /\ c.f \notin Direct /\ c.at = 0 /\ c.n = Length[c.f]
                            /\ hdrReader \in Fetch(c.f, 0),
         Begin(t, c, hdrReader), disk' = disk, created' = created, handle' = handle,
         script' = script, pc' = pc, answer' = answer, aborted' \in BOOLEAN
  PROVE  SectorInv'
<1>1. /\ TypeOK /\ OnDisk /\ AtCopy /\ InCall /\ Apart
  BY DEF SectorInv
<1>2. PICK d : d = Call(c, hdrReader)
  OBVIOUS
<1>3. Careful(t, c) /\ call' = [call EXCEPT ![t] = d]
  BY <1>2 DEF Begin, Call
<1>4. CallInv(d) /\ Same(c, d)
  BY <1>1, <1>2, NewCall
<1>5. content' = content
  BY DEF content
<1>6. Request(d) /\ Queue(d) /\ Copying(d) /\ Merged(d)'
  BY <1>4, <1>5 DEF CallInv, Merged
<1>7. \A u \in Threads \ {t} : \A e : e = call[u] /\ e # NoCall => Merged(e)'
  BY <1>1, <1>5 DEF InCall, Merged
<1>8. d.f = c.f /\ Kept(d) = Kept(c) /\ Written(d) = Written(c)
  BY <1>4, SameRange DEF Same
<1>9. \A u \in Threads \ {t} : call[u] # NoCall /\ d # NoCall /\ call[u].f = d.f
         => Kept(d) \cap Written(call[u]) = {} /\ Kept(call[u]) \cap Written(d) = {}
  BY <1>3, <1>8 DEF Careful
<1>10. InCall' /\ Apart' /\ DOMAIN call' = Threads
  <2>1. /\ TypeOK /\ InCall /\ Apart /\ call' = [call EXCEPT ![t] = d]
        /\ d # NoCall => Request(d) /\ Queue(d) /\ Copying(d) /\ Merged(d)'
    BY <1>1, <1>3, <1>6, Zenon
  <2> QED
    BY <1>7, <1>9, <2>1, CallsInv, ZenonT(40)
<1>11. TypeOK' /\ OnDisk' /\ AtCopy'
  BY <1>1, <1>10 DEF TypeOK, OnDisk, AtCopy, Finished, At
<1> QED
  BY <1>10, <1>11 DEF SectorInv

(* What Transfer and StartCopy begin is a call on the file of the handle.  *)
Starts(t, c, hdrReader) ==
  /\ Asks(c) /\ c.kind \in {"read", "write", "copy"} /\ c.h \in Handles /\ c.advances \in BOOLEAN
  /\ c.kind = "copy" => /\ c.f \notin Direct /\ c.at = 0 /\ c.n = Length[c.f]
                        /\ hdrReader \in Fetch(c.f, 0)
  /\ c.f = handle[c.h].file
  /\ c.advances => c.at = handle[c.h].seekPosition
  /\ Begin(t, c, hdrReader)

LEMMA TransferStarts ==
  ASSUME SectorInv, NEW t \in Threads, Transfer(t)
  PROVE  /\ call[t] = NoCall /\ aborted' \in BOOLEAN
         /\ (call' = call \/ \E c, r : Starts(t, c, r))
         /\ UNCHANGED <<disk, created, handle, script, pc, answer>>
<1>1. TypeOK
  BY DEF SectorInv
<1>2. /\ ~Finished(t) /\ At(t).do \in {"Read", "Write", "ReadAt", "WriteAt"} /\ call[t] = NoCall
      /\ UNCHANGED <<disk, created, handle, script, pc, answer>>
  BY DEF Transfer, Does, Runs
<1>3. /\ At(t).h \in Handles /\ At(t).n \in Int
      /\ At(t).do \notin {"Read", "Write"} => At(t).at \in Nat
  BY <1>1, <1>2, Command DEF WellFormed, OnHandle
<1>4. handle[At(t).h].file \in Files \cup {NoFile} /\ handle[At(t).h].seekPosition \in Nat
  BY <1>1, <1>3 DEF TypeOK
<1>5. CASE handle[At(t).h].file = NoFile
  <2>1. aborted' = TRUE /\ call' = call
    BY <1>5 DEF Transfer
  <2>2. aborted' \in BOOLEAN
    BY <2>1
  <2> QED
    BY <1>2, <2>1, <2>2
<1>6. CASE handle[At(t).h].file # NoFile
  <2>1. PICK adv : adv = (At(t).do \in {"Read", "Write"})
    OBVIOUS
  <2>2. PICK at : at = IF adv THEN handle[At(t).h].seekPosition ELSE At(t).at
    OBVIOUS
  <2>3. PICK kind : kind = IF At(t).do \in {"Read", "ReadAt"} THEN "read" ELSE "write"
    OBVIOUS
  <2>4. PICK from : from = IF At(t).do \in {"Write", "WriteAt"} THEN At(t).from ELSE <<>>
    OBVIOUS
  <2>5. PICK c : c = [kind |-> kind, h |-> At(t).h, f |-> handle[At(t).h].file, n |-> At(t).n,
                      advances |-> adv, at |-> at, from |-> from]
    OBVIOUS
  <2>6. Begin(t, c, Junk) /\ aborted' = aborted
    BY <1>6, <2>1, <2>2, <2>3, <2>4, <2>5 DEF Transfer
  <2>7. adv \in BOOLEAN
    BY <2>1
  <2>8. at \in Nat /\ (adv => at = handle[At(t).h].seekPosition)
    BY <1>3, <1>4, <2>1, <2>2
  <2>9. kind \in {"read", "write"}
    BY <2>3
  <2>10. /\ c.kind = kind /\ c.h = At(t).h /\ c.f = handle[At(t).h].file /\ c.n = At(t).n
         /\ c.advances = adv /\ c.at = at
    BY <2>5
  <2>11. c.advances \in BOOLEAN
    BY <2>7, <2>10
  <2>12. Asks(c)
    BY <1>3, <1>4, <1>6, <2>8, <2>10 DEF Asks
  <2>13. c.kind \in {"read", "write", "copy"} /\ c.kind # "copy" /\ c.h \in Handles
    BY <1>3, <2>9, <2>10
  <2>14. c.f = handle[c.h].file
    BY <2>10
  <2>15. c.advances => c.at = handle[c.h].seekPosition
    BY <2>8, <2>10, Zenon
  <2>16. Starts(t, c, Junk)
    BY <2>6, <2>11, <2>12, <2>13, <2>14, <2>15 DEF Starts
  <2>17. aborted' \in BOOLEAN
    BY <1>1, <2>6 DEF TypeOK
  <2> QED
    BY <1>2, <2>16, <2>17
<1> QED
  BY <1>5, <1>6

LEMMA StartCopyStarts ==
  ASSUME SectorInv, NEW t \in Threads, StartCopy(t)
  PROVE  /\ call[t] = NoCall /\ aborted' \in BOOLEAN
         /\ \E c, r : Starts(t, c, r)
         /\ UNCHANGED <<disk, created, handle, script, pc, answer>>
<1>1. TypeOK /\ AtCopy
  BY DEF SectorInv
<1>2. /\ ~Finished(t) /\ At(t).do = "Copy" /\ call[t] = NoCall
      /\ UNCHANGED <<disk, created, handle, script, pc, answer>>
  BY DEF StartCopy, Does, Runs
<1>3. At(t).h \in Handles
  BY <1>1, <1>2, Command DEF WellFormed, OnHandle
<1>4. PICK f : f = handle[At(t).h].file
  OBVIOUS
<1>5. f \in Files \ Direct /\ Length[f] \in Nat
  BY <1>1, <1>2, <1>4, LengthsAre DEF AtCopy
<1>6. PICK r \in Fetch(f, 0) :
        /\ Begin(t, [kind |-> "copy", h |-> At(t).h, f |-> f, n |-> Length[f], at |-> 0,
                     advances |-> FALSE, from |-> Unix[f]], r)
        /\ aborted' = (r = NoFile)
  BY <1>4 DEF StartCopy
<1>7. aborted' \in BOOLEAN
  BY <1>6
<1>8. PICK c : c = [kind |-> "copy", h |-> At(t).h, f |-> f, n |-> Length[f], at |-> 0,
                    advances |-> FALSE, from |-> Unix[f]]
  OBVIOUS
<1>9. c.kind = "copy" /\ c.h = At(t).h /\ c.f = f /\ c.n = Length[f] /\ c.at = 0
      /\ c.advances = FALSE
  BY <1>8
<1>10. Asks(c)
  BY <1>5, <1>9 DEF Asks
<1>11. c.advances \in BOOLEAN /\ ~c.advances
  BY <1>9, Zenon
<1>12. Starts(t, c, r)
  BY <1>3, <1>4, <1>5, <1>6, <1>8, <1>9, <1>10, <1>11 DEF Starts
<1> QED
  BY <1>2, <1>7, <1>12

LEMMA TransferInv == ASSUME SectorInv, NEW t \in Threads, Transfer(t) PROVE SectorInv'
<1>1. /\ call[t] = NoCall /\ aborted' \in BOOLEAN
      /\ (call' = call \/ \E c, r : Starts(t, c, r))
      /\ UNCHANGED <<disk, created, handle, script, pc, answer>>
  BY TransferStarts
<1>2. CASE call' = call
  <2>1. TypeOK' /\ AtCopy'
    BY <1>1, <1>2 DEF SectorInv, TypeOK, AtCopy, Finished, At
  <2> QED
    BY <1>1, <1>2, <2>1, SilentInv DEF SectorInv
<1>3. ASSUME NEW c, NEW r, Starts(t, c, r) PROVE SectorInv'
  BY <1>1, <1>3, BeginInv DEF Starts
<1> QED
  BY <1>1, <1>2, <1>3

LEMMA StartCopyInv == ASSUME SectorInv, NEW t \in Threads, StartCopy(t) PROVE SectorInv'
<1>1. /\ aborted' \in BOOLEAN /\ \E c, r : Starts(t, c, r)
      /\ UNCHANGED <<disk, created, handle, script, pc, answer>>
  BY StartCopyStarts
<1>2. ASSUME NEW c, NEW r, Starts(t, c, r) PROVE SectorInv'
  BY <1>1, <1>2, BeginInv DEF Starts
<1> QED
  BY <1>1, <1>2

(* A call proceeds from c to d by the sector i.                            *)
Works(t, c, d, i) ==
  /\ c = call[t] /\ c # NoCall /\ CallInv(c) /\ c.queue # <<>> /\ i = Head(c.queue).i
  /\ Same(c, d) /\ d.queue = Tail(c.queue) /\ Request(d) /\ Queue(d) /\ Copying(d)
  /\ call' = [call EXCEPT ![t] = d]

LEMMA ReadSectorWorks ==
  ASSUME SectorInv, NEW t \in Threads, ReadSector(t)
  PROVE  /\ \E c, d, i : /\ Works(t, c, d, i) /\ d.buf = Reads(c, i)
                         /\ Head(c.queue).op # "put" /\ Merged(d)
         /\ UNCHANGED <<disk, created, handle, script, pc, answer, aborted>>
<1>1. TypeOK /\ OnDisk /\ InCall
  BY DEF SectorInv
<1>2. PICK c : c = call[t]
  OBVIOUS
<1>3. PICK i : i = Head(c.queue).i
  OBVIOUS
<1>4. c # NoCall /\ c.queue # <<>> /\ Head(c.queue).op \in {"get", "fill"}
  BY <1>2 DEF ReadSector, Doing
<1>5. CallInv(c) /\ Request(c) /\ Queue(c) /\ Copying(c) /\ Merged(c)
  BY <1>1, <1>2, <1>4 DEF InCall, CallInv
<1>6. DOMAIN c = Fields
  BY <1>5 DEF Request
<1>7. Advance(c).buf = c.buf
  BY <1>6 DEF Advance, Fields
<1>8. PICK d : d = [Advance(c) EXCEPT !.buf = Reads(c, i)]
  OBVIOUS
<1>9. call' = [call EXCEPT ![t] = d]
  BY <1>2, <1>3, <1>7, <1>8 DEF ReadSector, Reads
<1>10. DOMAIN Reads(c, i) = DOMAIN c.buf
  BY DEF Reads
<1>11. Same(c, d) /\ d.queue = Tail(c.queue) /\ Request(d)
  BY <1>5, <1>8, <1>10, AdvanceIs
<1>12. d.buf = Reads(c, i)
  <2>1. "buf" \in DOMAIN Advance(c)
    BY <1>6 DEF Advance, Fields
  <2> QED
    BY <1>8, <2>1
<1>13. Queue(d)
  BY <1>4, <1>5, <1>11, HoldsLess
<1>14. d.kind # "copy"
  BY <1>4, <1>5, <1>11, AtHand DEF Same
<1>15. Merged(d)
  BY <1>1, <1>3, <1>4, <1>5, <1>11, <1>12, FilledMerged
<1>16. Works(t, c, d, i)
  BY <1>2, <1>3, <1>4, <1>5, <1>9, <1>11, <1>13, <1>14 DEF Works, Copying
<1> QED
  BY <1>4, <1>12, <1>15, <1>16 DEF ReadSector

LEMMA ReadSectorInv == ASSUME SectorInv, NEW t \in Threads, ReadSector(t) PROVE SectorInv'
<1>1. /\ TypeOK /\ OnDisk /\ AtCopy /\ InCall /\ Apart
  BY DEF SectorInv
<1>2. UNCHANGED <<disk, created, handle, script, pc, answer, aborted>>
  BY ReadSectorWorks
<1>3. PICK c, d, i : Works(t, c, d, i) /\ Merged(d)
  BY ReadSectorWorks
<1>4. content' = content
  BY <1>2 DEF content
<1>5. Request(d) /\ Queue(d) /\ Copying(d) /\ Merged(d)'
  BY <1>3, <1>4 DEF Works, Merged
<1>6. \A u \in Threads \ {t} : \A e : e = call[u] /\ e # NoCall => Merged(e)'
  BY <1>1, <1>4 DEF InCall, Merged
<1>7. d.f = c.f /\ Kept(d) = Kept(c) /\ Written(d) = Written(c)
  BY <1>3, SameRange DEF Works, Same
<1>8. \A u \in Threads \ {t} : call[u] # NoCall /\ d # NoCall /\ call[u].f = d.f
         => Kept(d) \cap Written(call[u]) = {} /\ Kept(call[u]) \cap Written(d) = {}
  BY <1>1, <1>3, <1>7 DEF Works, Apart
<1>9. InCall' /\ Apart' /\ DOMAIN call' = Threads
  BY <1>1, <1>3, <1>5, <1>6, <1>8, CallsInv DEF Works
<1>10. TypeOK' /\ OnDisk' /\ AtCopy'
  BY <1>1, <1>2, <1>9 DEF TypeOK, OnDisk, AtCopy, Finished, At
<1> QED
  BY <1>9, <1>10 DEF SectorInv

(* A sector is written, by WriteAt or by Copy.                             *)
LEMMA WriteSectorWorks ==
  ASSUME SectorInv, NEW t \in Threads, WriteSector(t)
  PROVE  /\ \E c, d, i : /\ Works(t, c, d, i) /\ d.buf = c.buf
                         /\ Head(c.queue).op = "put" /\ Stores(c, i)
         /\ UNCHANGED <<created, handle, script, pc, answer>> /\ aborted' \in BOOLEAN
<1>1. TypeOK /\ OnDisk /\ InCall
  BY DEF SectorInv
<1>2. PICK c : c = call[t]
  OBVIOUS
<1>3. PICK i : i = Head(c.queue).i
  OBVIOUS
<1>4. c # NoCall /\ c.queue # <<>> /\ Head(c.queue).op = "put" /\ c.kind = "write"
  BY <1>2 DEF WriteSector, Doing
<1>5. CallInv(c) /\ Request(c) /\ Queue(c) /\ Copying(c) /\ Merged(c)
  BY <1>1, <1>2, <1>4 DEF InCall, CallInv
<1>6. PICK d : d = Advance(c)
  OBVIOUS
<1>7. Same(c, d) /\ d.queue = Tail(c.queue) /\ Request(d)
  BY <1>5, <1>6, AdvanceIs
<1>8. d.buf = c.buf
  BY <1>5, <1>6 DEF Advance, Fields, Request
<1>9. Queue(d)
  BY <1>4, <1>5, <1>7, HoldsLess
<1>10. d.kind # "copy"
  BY <1>4, <1>7 DEF Same
<1>11. call' = [call EXCEPT ![t] = d]
  BY <1>2, <1>6 DEF WriteSector
<1>12. Works(t, c, d, i)
  BY <1>2, <1>3, <1>4, <1>5, <1>7, <1>9, <1>10, <1>11 DEF Works, Copying
<1>13. c.f \in Files /\ i \in 0 .. NumSectors(c.f) - 1
  BY <1>3, <1>4, <1>5, AtHand DEF Asks
<1>14. ByteToSector(c.f, i) = DataSector(c.f, i)
  BY <1>1, <1>13, ByteToSectorIs
<1>15. Stores(c, i)
  BY <1>2, <1>3, <1>14 DEF WriteSector, Stores
<1>16. UNCHANGED <<created, handle, script, pc, answer>> /\ aborted' \in BOOLEAN
  BY <1>1 DEF WriteSector, TypeOK
<1> QED
  BY <1>4, <1>8, <1>12, <1>15, <1>16

LEMMA CopySectorWorks ==
  ASSUME SectorInv, NEW t \in Threads, CopySector(t)
  PROVE  /\ \E c, d, i : /\ Works(t, c, d, i) /\ d.buf = c.buf
                         /\ Head(c.queue).op = "put" /\ Stores(c, i)
         /\ UNCHANGED <<created, handle, script, pc, answer>> /\ aborted' \in BOOLEAN
<1>1. TypeOK /\ OnDisk /\ InCall
  BY DEF SectorInv
<1>2. PICK c : c = call[t]
  OBVIOUS
<1>3. PICK i : i = Head(c.queue).i
  OBVIOUS
<1>4. c # NoCall /\ c.queue # <<>> /\ Head(c.queue).op = "put" /\ c.kind = "copy"
  BY <1>2 DEF CopySector, Doing
<1>5. CallInv(c) /\ Request(c) /\ Queue(c) /\ Copying(c) /\ Merged(c)
  BY <1>1, <1>2, <1>4 DEF InCall, CallInv
<1>6. PICK r \in IF (i + 1) % FanOut = 0 THEN Fetch(c.f, (i + 1) \div FanOut) ELSE {c.hdrReader} :
        /\ call' = [call EXCEPT ![t] = [Advance(c) EXCEPT !.hdrReader = r]]
        /\ aborted' = (r = NoFile)
  BY <1>2, <1>3 DEF CopySector
<1>7. PICK d : d = [Advance(c) EXCEPT !.hdrReader = r]
  OBVIOUS
<1>8. Same(c, d) /\ d.queue = Tail(c.queue) /\ Request(d)
  BY <1>5, <1>7, AdvanceIs
<1>9. d.buf = c.buf /\ d.hdrReader = r
  BY <1>5, <1>7 DEF Advance, Fields, Request
<1>10. Queue(d)
  BY <1>4, <1>5, <1>8, HoldsLess
<1>11. Copying(d)
  BY <1>1, <1>3, <1>4, <1>5, <1>6, <1>8, <1>9, CopyingNext
<1>12. call' = [call EXCEPT ![t] = d]
  BY <1>6, <1>7
<1>13. Works(t, c, d, i)
  BY <1>2, <1>3, <1>4, <1>5, <1>8, <1>10, <1>11, <1>12 DEF Works
<1>14. c.f \in Files /\ i \in 0 .. NumSectors(c.f) - 1
  BY <1>3, <1>4, <1>5, AtHand DEF Asks
<1>15. c.hdrReader = IndexBlock(c.f, i \div FanOut)
  BY <1>3, <1>4, <1>5 DEF Copying
<1>16. c.hdrReader[i % FanOut] = DataSector(c.f, i)
  BY <1>14, <1>15, IndexBlocksOfFile
<1>17. Stores(c, i)
  BY <1>2, <1>3, <1>16 DEF CopySector, Stores
<1>18. aborted' \in BOOLEAN
  BY <1>6
<1>19. UNCHANGED <<created, handle, script, pc, answer>>
  BY DEF CopySector
<1> QED
  BY <1>4, <1>9, <1>13, <1>17, <1>18, <1>19

LEMMA PutInv ==
  ASSUME SectorInv, NEW t \in Threads, NEW c, NEW d, NEW i, Works(t, c, d, i), d.buf = c.buf,
         Head(c.queue).op = "put", Stores(c, i),
         UNCHANGED <<created, handle, script, pc, answer>>, aborted' \in BOOLEAN
  PROVE  SectorInv'
<1>1. /\ TypeOK /\ OnDisk /\ AtCopy /\ InCall /\ Apart
  BY DEF SectorInv
<1>2. /\ c = call[t] /\ c # NoCall /\ c.queue # <<>> /\ i = Head(c.queue).i
      /\ Request(c) /\ Queue(c) /\ Merged(c)
      /\ Same(c, d) /\ d.queue = Tail(c.queue) /\ Request(d) /\ Queue(d) /\ Copying(d)
      /\ call' = [call EXCEPT ![t] = d]
  BY DEF Works, CallInv
<1>3. /\ Head(c.queue) = Todo("put", i) /\ c.kind # "read" /\ numBytes(c) > 0
      /\ i \in firstSector(c) .. lastSector(c)
  BY <1>2, AtHand
<1>4. i \in Written(c)
  BY <1>3 DEF Written
<1>5. OnDisk' /\ OnlyAt(c.f, i)
  BY <1>1, <1>2, Stored DEF OnlyAt
<1>6. Merged(d)'
  BY <1>2, <1>3, <1>5, OwnMerged
<1>7. ASSUME NEW u \in Threads \ {t}, NEW e, e = call[u], e # NoCall PROVE Merged(e)'
  <2>1. Request(e) /\ Queue(e) /\ Merged(e)
    BY <1>1, <1>7 DEF InCall
  <2>2. e.f = c.f => i \notin Kept(e)
    BY <1>1, <1>2, <1>4, <1>7 DEF Apart
  <2> QED
    BY <1>5, <2>1, <2>2, OthersMerged
<1>8. d.f = c.f /\ Kept(d) = Kept(c) /\ Written(d) = Written(c)
  BY <1>2, SameRange DEF Same
<1>9. \A u \in Threads \ {t} : call[u] # NoCall /\ d # NoCall /\ call[u].f = d.f
         => Kept(d) \cap Written(call[u]) = {} /\ Kept(call[u]) \cap Written(d) = {}
  BY <1>1, <1>2, <1>8 DEF Apart
<1>10. InCall' /\ Apart' /\ DOMAIN call' = Threads
  BY <1>1, <1>2, <1>6, <1>7, <1>9, CallsInv
<1>11. TypeOK' /\ AtCopy'
  BY <1>1, <1>10 DEF TypeOK, AtCopy, Finished, At
<1> QED
  BY <1>5, <1>10, <1>11 DEF SectorInv

LEMMA WriteSectorInv == ASSUME SectorInv, NEW t \in Threads, WriteSector(t) PROVE SectorInv'
<1>1. UNCHANGED <<created, handle, script, pc, answer>> /\ aborted' \in BOOLEAN
  BY WriteSectorWorks
<1>2. PICK c, d, i : /\ Works(t, c, d, i) /\ d.buf = c.buf
                     /\ Head(c.queue).op = "put" /\ Stores(c, i)
  BY WriteSectorWorks
<1> QED
  BY <1>1, <1>2, PutInv

LEMMA CopySectorInv == ASSUME SectorInv, NEW t \in Threads, CopySector(t) PROVE SectorInv'
<1>1. UNCHANGED <<created, handle, script, pc, answer>> /\ aborted' \in BOOLEAN
  BY CopySectorWorks
<1>2. PICK c, d, i : /\ Works(t, c, d, i) /\ d.buf = c.buf
                     /\ Head(c.queue).op = "put" /\ Stores(c, i)
  BY CopySectorWorks
<1> QED
  BY <1>1, <1>2, PutInv

(* The position of the handle goes on, and the thread with it.             *)
LEMMA ReturnInv == ASSUME IInv, NEW t \in Threads, Return(t) PROVE SectorInv'
<1>1. /\ TypeOK /\ OnDisk /\ AtCopy /\ InCall /\ Apart /\ InCommand
  BY DEF IInv, SectorInv
<1>2. PICK c : c = call[t]
  OBVIOUS
<1>3. /\ c # NoCall /\ call' = [call EXCEPT ![t] = NoCall]
      /\ UNCHANGED <<disk, created, script, aborted>>
  BY <1>2 DEF Return
<1>4. Request(c) /\ Asks(c) /\ c.h \in Handles
  BY <1>1, <1>2, <1>3, RequestAsks DEF InCall, Request
<1>5. PICK n : n = numBytes(c)
  OBVIOUS
<1>6. n \in Nat
  BY <1>4, <1>5, RangeIs
<1>7. handle' = IF c.advances THEN [handle EXCEPT ![c.h].seekPosition = @ + n] ELSE handle
  BY <1>2, <1>5 DEF Return
<1>8. /\ handle' \in [Handles -> [file : Files \cup {NoFile}, seekPosition : Nat]]
      /\ \A h \in Handles : handle'[h].file = handle[h].file
  <2>1. handle \in [Handles -> [file : Files \cup {NoFile}, seekPosition : Nat]]
    BY <1>1 DEF TypeOK
  <2>2. CASE c.advances
    BY <1>4, <1>6, <1>7, <2>1, <2>2
  <2>3. CASE ~c.advances
    BY <1>7, <2>1, <2>3
  <2> QED
    BY <2>2, <2>3
<1>9. ~Finished(t) /\ At(t).do \in {"Read", "Write", "ReadAt", "WriteAt", "Copy"}
  BY <1>1, <1>2, <1>3 DEF InCommand
<1>10. pc[t] \in Nat \ {0}
  BY <1>1 DEF TypeOK
<1>11. PICK m \in Nat \ {0} : Goto(t, m) /\ (m = pc[t] \/ m = pc[t] + 1)
  <2>1. pc[t] + 1 \in Nat \ {0}
    BY <1>10
  <2> QED
    BY <1>10, <2>1 DEF Return, Loop
<1>12. answer' = [answer EXCEPT ![t] = answer'[t]]
  BY <1>1 DEF Return, TypeOK
<1>13. DOMAIN call' = Threads /\ DOMAIN answer' = Threads
  BY <1>1, <1>3, <1>12 DEF TypeOK
<1>14. TypeOK'
  BY <1>1, <1>3, <1>8, <1>11, <1>13, Goes DEF TypeOK
<1>15. \A u \in Threads : ~Finished(u) /\ At(u).do = "Copy" => At(u).h \in Handles
  BY <1>1, Command DEF WellFormed, OnHandle
<1>16. ASSUME m \in DOMAIN script[t], script[t][m].do = "Copy"
       PROVE  handle'[script[t][m].h].file \in Files \ Direct
  <2>1. m = pc[t]
    BY <1>1, <1>9, <1>11, <1>16, BeforeCopy
  <2>2. At(t).do = "Copy" /\ At(t).h = script[t][m].h
    BY <1>16, <2>1 DEF At
  <2> QED
    BY <1>1, <1>8, <1>9, <1>15, <2>2 DEF AtCopy
<1>17. AtCopy'
  BY <1>1, <1>3, <1>8, <1>11, <1>15, <1>16, AtCopyStep
<1>18. content' = content
  BY <1>3 DEF content
<1>19. \A u \in Threads \ {t} : \A e : e = call[u] /\ e # NoCall => Merged(e)'
  BY <1>1, <1>18 DEF InCall, Merged
<1>20. InCall' /\ Apart'
  BY <1>1, <1>3, <1>19, CallsInv
<1>21. OnDisk'
  BY <1>1, <1>3 DEF OnDisk
<1> QED
  BY <1>14, <1>17, <1>20, <1>21 DEF SectorInv

LEMMA InCommandNext ==
  ASSUME TypeOK, InCommand, NEW t \in Threads, Step(t)
  PROVE  InCommand'
<1>1. DOMAIN call = Threads
  BY DEF TypeOK
<1>2. CASE Create(t) \/ Open(t) \/ Seek(t) \/ Close(t) \/ Remove(t)
  <2>1. call[t] = NoCall /\ call' = call /\ script' = script
    BY <1>2 DEF Create, Open, Seek, Close, Remove, Does, Runs
  <2>2. \A u \in Threads \ {t} : pc'[u] = pc[u]
    BY <1>2 DEF Create, Open, Seek, Close, Remove, Goto, TypeOK
  <2> QED
    BY <2>1, <2>2 DEF InCommand, Finished, At
<1>3. CASE Transfer(t) \/ StartCopy(t)
  <2>1. /\ ~Finished(t) /\ At(t).do \in {"Read", "Write", "ReadAt", "WriteAt", "Copy"}
        /\ pc' = pc /\ script' = script
    BY <1>3 DEF Transfer, StartCopy, Does, Runs
  <2>2. \A u \in Threads \ {t} : call'[u] = call[u]
    BY <1>1, <1>3 DEF Transfer, StartCopy, Begin
  <2> QED
    BY <2>1, <2>2 DEF InCommand, Finished, At
<1>4. CASE ReadSector(t) \/ WriteSector(t) \/ CopySector(t)
  <2>1. call[t] # NoCall /\ pc' = pc /\ script' = script
    BY <1>4 DEF ReadSector, WriteSector, CopySector, Doing
  <2>2. \A u \in Threads \ {t} : call'[u] = call[u]
    BY <1>1, <1>4 DEF ReadSector, WriteSector, CopySector
  <2> QED
    BY <2>1, <2>2 DEF InCommand, Finished, At
<1>5. CASE Return(t)
  <2>1. /\ call'[t] = NoCall /\ script' = script
        /\ \A u \in Threads \ {t} : call'[u] = call[u]
    BY <1>1, <1>5 DEF Return
  <2>2. \A u \in Threads \ {t} : pc'[u] = pc[u]
    BY <1>5 DEF Return, Loop, Goto, TypeOK
  <2> QED
    BY <2>1, <2>2 DEF InCommand, Finished, At
<1> QED
  BY <1>2, <1>3, <1>4, <1>5 DEF Step

LEMMA StepInv == ASSUME IInv, NEW t \in Threads, Step(t) PROVE IInv'
<1>1. SectorInv /\ InCommand /\ TypeOK
  BY DEF IInv, SectorInv
<1>2. SectorInv'
  BY <1>1, CreateInv, OpenInv, SeekInv, CloseInv, RemoveInv, TransferInv, StartCopyInv,
     ReadSectorInv, WriteSectorInv, CopySectorInv, ReturnInv DEF Step
<1> QED
  BY <1>1, <1>2, InCommandNext DEF IInv

LEMMA StutterInv == ASSUME IInv, UNCHANGED vars PROVE IInv'
<1>1. /\ TypeOK /\ OnDisk /\ AtCopy /\ InCall /\ Apart /\ InCommand
  BY DEF IInv, SectorInv
<1>2. UNCHANGED <<disk, created, handle, script, pc, call, answer, aborted>>
  BY DEF vars
<1>3. TypeOK' /\ AtCopy' /\ InCommand'
  BY <1>1, <1>2 DEF TypeOK, AtCopy, InCommand, Finished, At
<1>4. InCall' /\ Apart' /\ OnDisk'
  BY <1>1, <1>2, SilentInv
<1> QED
  BY <1>3, <1>4 DEF IInv, SectorInv

(* Every sector a call has read to merge it holds the file's bytes until   *)
(* the call has written it, whatever other threads do between its sectors  *)
(* (openfile.cc:87-98), and Copy has the index block of its next sector.   *)
THEOREM Invariance == Spec => []IInv
<1>1. Init => IInv
  <2>1. Init => InCommand
    BY DEF Init, InCommand
  <2> QED
    BY <2>1, InitInv DEF IInv
<1>2. IInv /\ [Next]_vars => IInv'
  BY StepInv, StutterInv DEF Next, Quiet
<1> QED
  BY <1>1, <1>2, PTL DEF Spec

-----------------------------------------------------------------------------
(* The refinement.                                                         *)
Ons == [h \in Handles |-> handle[h].file]
Positions == [h \in Handles |-> handle[h].seekPosition]
Calls == [t \in Threads |-> IF call[t] = NoCall THEN NoCall ELSE Seen(call[t])]

LEMMA InitRefines == Init => Flat!FInit
<1> SUFFICES ASSUME Init PROVE Flat!FInit
  OBVIOUS
<1>1. handle = [h \in Handles |-> Closed] /\ call = [t \in Threads |-> NoCall]
  BY DEF Init
<1>2. /\ [h \in Handles |-> handle[h].file] = [h \in Handles |-> NoFile]
      /\ [h \in Handles |-> handle[h].seekPosition] = [h \in Handles |-> 0]
  BY <1>1 DEF Closed
<1>3. [t \in Threads |-> IF call[t] = NoCall THEN NoCall ELSE Seen(call[t])]
        = [t \in Threads |-> NoCall]
  BY <1>1
<1> QED
  BY <1>2, <1>3 DEF Flat!FInit

(* Steps that the abstract specification does not see.                     *)
LEMMA Unseen ==
  ASSUME disk' = disk, call' = call, answer' = answer, Ons' = Ons, Positions' = Positions
  PROVE  UNCHANGED Flat!fvars
<1>1. content' = content
  BY DEF content
<1>2. [t \in Threads |-> IF call[t] = NoCall THEN NoCall ELSE Seen(call[t])]'
        = [t \in Threads |-> IF call[t] = NoCall THEN NoCall ELSE Seen(call[t])]
  OBVIOUS
<1> QED
  BY <1>1, <1>2 DEF Flat!fvars, Ons, Positions

LEMMA OpenRefines ==
  ASSUME disk' = disk, call' = call, answer' = answer, TypeOK, NEW h \in Handles,
         NEW f \in Files \cup {NoFile},
         handle' = [handle EXCEPT ![h] = [file |-> f, seekPosition |-> 0]]
  PROVE  Flat!FNext
<1>1. content' = content
  BY DEF content
<1>2. [t \in Threads |-> IF call[t] = NoCall THEN NoCall ELSE Seen(call[t])]'
        = [t \in Threads |-> IF call[t] = NoCall THEN NoCall ELSE Seen(call[t])]
  OBVIOUS
<1>3. Ons' = [Ons EXCEPT ![h] = f] /\ Positions' = [Positions EXCEPT ![h] = 0]
  BY DEF Ons, Positions, TypeOK
<1>4. Flat!Open(h, f)
  BY <1>1, <1>2, <1>3 DEF Flat!Open, Ons, Positions
<1> QED
  BY <1>4 DEF Flat!FNext, Files

LEMMA SeekRefines ==
  ASSUME disk' = disk, call' = call, answer' = answer, TypeOK, NEW h \in Handles, NEW n,
         handle' = [handle EXCEPT ![h].seekPosition = n]
  PROVE  Flat!FNext
<1>1. content' = content
  BY DEF content
<1>2. [t \in Threads |-> IF call[t] = NoCall THEN NoCall ELSE Seen(call[t])]'
        = [t \in Threads |-> IF call[t] = NoCall THEN NoCall ELSE Seen(call[t])]
  OBVIOUS
<1>3. Ons' = Ons /\ Positions' = [Positions EXCEPT ![h] = n] /\ Positions'[h] = n
  BY DEF Ons, Positions, TypeOK
<1>4. Flat!Seek(h)
  BY <1>1, <1>2, <1>3 DEF Flat!Seek, Ons, Positions
<1> QED
  BY <1>4 DEF Flat!FNext

(* Of a call, the abstract specification sees what has not moved yet.      *)
LEMMA SeenIs ==
  ASSUME NEW c, NEW s, s = Seen(c)
  PROVE  /\ DOMAIN s = {"kind", "h", "f", "at", "n", "from", "advances", "todo", "into"}
         /\ s = [k \in DOMAIN s |-> s[k]] /\ s # NoCall
         /\ s.kind = IF c.kind = "read" THEN "read" ELSE "write"
         /\ s.h = c.h /\ s.f = c.f /\ s.at = c.at /\ s.n = c.n /\ s.from = c.from
         /\ s.todo = Left(c)
<1>1. /\ DOMAIN s = {"kind", "h", "f", "at", "n", "from", "advances", "todo", "into"}
      /\ s = [k \in DOMAIN s |-> s[k]]
      /\ s.kind = IF c.kind = "read" THEN "read" ELSE "write"
      /\ s.h = c.h /\ s.f = c.f /\ s.at = c.at /\ s.n = c.n /\ s.from = c.from
      /\ s.todo = Left(c)
  BY DEF Seen
<1>2. s # NoCall
  BY <1>1 DEF NoCall
<1> QED
  BY <1>1, <1>2

LEMMA SeenSpan == ASSUME NEW c PROVE Flat!Span(Seen(c)) = Span(c)
<1>1. Seen(c).at = c.at /\ Seen(c).n = c.n /\ Seen(c).f = c.f
  BY SeenIs
<1> QED
  BY <1>1 DEF Flat!Span, Span

LEMMA SeenAdvances == ASSUME NEW c PROVE Seen(c).advances = c.advances
BY Zenon DEF Seen

LEMMA SeenInto ==
  ASSUME NEW c
  PROVE  Seen(c).into = [p \in IF c.kind = "read" THEN Span(c) \ Left(c) ELSE {} |-> c.buf[p]]
BY DEF Seen

LEMMA CallsAre ==
  ASSUME DOMAIN call = Threads, NEW t \in Threads, NEW d, call' = [call EXCEPT ![t] = d],
         NEW s, s = IF d = NoCall THEN NoCall ELSE Seen(d)
  PROVE  Calls' = [Calls EXCEPT ![t] = s] /\ Calls'[t] = s
<1>1. call'[t] = d /\ \A u \in Threads \ {t} : call'[u] = call[u]
  OBVIOUS
<1>2. \A u \in Threads : Calls'[u] = IF u = t THEN s ELSE Calls[u]
  BY <1>1 DEF Calls
<1> QED
  BY <1>2 DEF Calls

LEMMA StartsRefines ==
  ASSUME SectorInv, NEW t \in Threads, call[t] = NoCall, NEW c, NEW r, Starts(t, c, r),
         UNCHANGED <<disk, handle, answer>>
  PROVE  Flat!FNext
<1>1. DOMAIN call = Threads /\ OnDisk
  BY DEF SectorInv, TypeOK
<1>2. PICK d : d = Call(c, r)
  OBVIOUS
<1>3. call' = [call EXCEPT ![t] = d]
  BY <1>2 DEF Starts, Begin, Call
<1>4. CallInv(d) /\ Same(c, d) /\ Left(d) = Span(d)
  BY <1>1, <1>2, NewCall DEF Starts
<1>5. d # NoCall
  BY <1>4, RequestAsks DEF CallInv
<1>6. PICK s : s = Seen(d)
  OBVIOUS
<1>7. /\ s.h = c.h /\ s.f = c.f /\ s.at = c.at
      /\ s.todo = Flat!Span(s) /\ s # NoCall
  BY <1>4, <1>6, SeenIs, SeenSpan DEF Same
<1>8. s.into = <<>>
  <2>1. s.into = [p \in IF d.kind = "read" THEN Span(d) \ Left(d) ELSE {} |-> d.buf[p]]
    BY <1>6, SeenInto
  <2>2. (IF d.kind = "read" THEN Span(d) \ Left(d) ELSE {}) = {}
    BY <1>4
  <2>3. s.into = [p \in {} |-> d.buf[p]]
    BY <2>1, <2>2
  <2> QED
    BY <2>3
<1>9. Calls' = [Calls EXCEPT ![t] = s] /\ Calls'[t] = s /\ Calls[t] = NoCall
  BY <1>1, <1>3, <1>5, <1>6, CallsAre DEF Calls
<1>10. content' = content /\ Ons' = Ons /\ Positions' = Positions
  BY DEF content, Ons, Positions
<1>11. s.f = Ons[s.h] /\ (s.advances => s.at = Positions[s.h])
  <2>1. c.h \in Handles /\ c.f = handle[c.h].file
    BY DEF Starts
  <2>2. c.advances => c.at = handle[c.h].seekPosition
    BY Zenon DEF Starts
  <2>3. s.advances = c.advances
    <3>1. s.advances = d.advances /\ d.advances = c.advances
      BY <1>4, <1>6, SeenAdvances, Zenon DEF Same
    <3> QED
      BY <3>1, Zenon
  <2>4. Ons[c.h] = handle[c.h].file /\ Positions[c.h] = handle[c.h].seekPosition
    BY <2>1 DEF Ons, Positions
  <2>5. s.f = Ons[s.h]
    BY <1>7, <2>1, <2>4
  <2>6. s.advances => s.at = Positions[s.h]
    BY <1>7, <2>2, <2>3, <2>4, Zenon
  <2> QED
    BY <2>5, <2>6
<1>12. Flat!Invoke(t)
  <2> HIDE DEF Calls, Ons, Positions
  <2> SUFFICES /\ Calls[t] = NoCall /\ Calls'[t] # NoCall
               /\ Calls' = [Calls EXCEPT ![t] = Calls'[t]]
               /\ Calls'[t].f = Ons[Calls'[t].h]
               /\ Calls'[t].advances => Calls'[t].at = Positions[Calls'[t].h]
               /\ Calls'[t].todo = Flat!Span(Calls'[t]) /\ Calls'[t].into = <<>>
               /\ content' = content /\ Ons' = Ons /\ Positions' = Positions /\ answer' = answer
    BY DEF Flat!Invoke, Calls, Ons, Positions
  <2> QED
    BY <1>7, <1>8, <1>9, <1>10, <1>11
<1> QED
  BY <1>12 DEF Flat!FNext

(* What is left of a call, by the sectors in its queue.                    *)
Way(c) == IF c.kind = "read" THEN "get" ELSE "put"

LEMMA LeftIs ==
  ASSUME NEW c, Queue(c)
  PROVE  \A p : p \in Left(c) <=> p \in Span(c) /\ Holds(c, Way(c), p \div SectorSize)
<1> SUFFICES ASSUME NEW p, p \in Span(c)
             PROVE  p \in Left(c) <=> Holds(c, Way(c), p \div SectorSize)
  BY DEF Left
<1> DEFINE i == p \div SectorSize
<1>1. \A k \in DOMAIN c.queue : c.queue[k].op = "get" <=> c.kind = "read"
  BY DEF Queue
<1>2. p \in Left(c) <=> \E k \in DOMAIN c.queue : c.queue[k] \in {Todo("get", i), Todo("put", i)}
  BY DEF Left
<1>3. Todo("get", i).op = "get" /\ Todo("put", i).op = "put"
  BY DEF Todo
<1> HIDE DEF i
<1>4. \A k \in DOMAIN c.queue :
         c.queue[k] \in {Todo("get", i), Todo("put", i)} <=> c.queue[k] = Todo(Way(c), i)
  BY <1>1, <1>3 DEF Way
<1>5. Holds(c, Way(c), i) <=> \E k \in DOMAIN c.queue : c.queue[k] = Todo(Way(c), i)
  BY DEF Holds
<1> QED
  BY <1>2, <1>4, <1>5 DEF i

LEMMA LeftLess ==
  ASSUME NEW c, Request(c), Queue(c), c.queue # <<>>, NEW d, Same(c, d), d.queue = Tail(c.queue),
         NEW i, i = Head(c.queue).i
  PROVE  /\ Left(d) \subseteq Left(c)
         /\ Head(c.queue).op = "fill" => Left(d) = Left(c)
         /\ Head(c.queue).op # "fill" =>
               /\ Left(c) \ Left(d) = {p \in Span(c) : p \div SectorSize = i}
               /\ Left(c) \ Left(d) # {}
<1>1. PICK op : op = Head(c.queue).op
  OBVIOUS
<1>2. /\ Head(c.queue) = Todo(op, i) /\ Asks(c) /\ numBytes(c) > 0
      /\ i \in firstSector(c) .. lastSector(c) /\ op \in {"get", "fill", "put"}
      /\ op = "get" <=> c.kind = "read"
      /\ Holds(c, op, i)
  BY <1>1, AtHand
<1>3. /\ Queue(d)
      /\ \A o, j : Holds(d, o, j) <=> Holds(c, o, j) /\ Todo(o, j) # Todo(op, i)
  BY <1>2, HoldsLess
<1>4. Way(d) = Way(c) /\ Span(d) = Span(c)
  BY SameRange DEF Same, Way
<1>5. \A p : p \in Left(c) <=> p \in Span(c) /\ Holds(c, Way(c), p \div SectorSize)
  BY LeftIs
<1>6. \A p : p \in Left(d) <=> p \in Span(c) /\ Holds(d, Way(c), p \div SectorSize)
  BY <1>3, <1>4, LeftIs
<1>7. \A o, j : Todo(o, j) = Todo(op, i) <=> o = op /\ j = i
  BY DEF Todo
<1>8. \A p : p \in Left(d) <=> p \in Left(c) /\ ~(Way(c) = op /\ p \div SectorSize = i)
  BY <1>3, <1>5, <1>6, <1>7
<1>9. CASE op = "fill"
  <2>1. Way(c) # op
    BY <1>9 DEF Way
  <2> QED
    BY <1>1, <1>8, <1>9, <2>1
<1>10. CASE op # "fill"
  <2>1. Way(c) = op
    BY <1>2, <1>10 DEF Way
  <2>2. Left(c) \ Left(d) = {p \in Span(c) : p \div SectorSize = i}
    BY <1>2, <1>5, <1>8, <2>1
  <2>3. \E p \in Span(c) : p \div SectorSize = i
    BY <1>2, SectorsOfRange
  <2> QED
    BY <1>1, <1>8, <1>10, <2>2, <2>3
<1> QED
  BY <1>9, <1>10

(* A part that is kept is read: nothing moves.                             *)
LEMMA FillRefines ==
  ASSUME SectorInv, NEW t \in Threads, NEW c, NEW d, NEW i, Works(t, c, d, i),
         Head(c.queue).op = "fill", UNCHANGED <<disk, handle, answer>>
  PROVE  UNCHANGED Flat!fvars
<1>1. DOMAIN call = Threads
  BY DEF SectorInv, TypeOK
<1>2. /\ c = call[t] /\ c # NoCall /\ c.queue # <<>> /\ Request(c) /\ Queue(c)
      /\ Same(c, d) /\ d.queue = Tail(c.queue) /\ Request(d)
      /\ call' = [call EXCEPT ![t] = d]
  BY DEF Works, CallInv
<1>3. Left(d) = Left(c) /\ c.kind # "read" /\ d # NoCall
  BY <1>2, LeftLess, AtHand, RequestAsks
<1>4. PICK s : s = Seen(c)
  OBVIOUS
<1>5. PICK r : r = Seen(d)
  OBVIOUS
<1>6. s.into = [p \in {} |-> c.buf[p]] /\ r.into = [p \in {} |-> d.buf[p]]
  BY <1>2, <1>3, <1>4, <1>5, SeenInto DEF Same
<1>7. s.into = r.into
  BY <1>6
<1>8. /\ Left(c) = Left(d) /\ c.kind = d.kind /\ c.h = d.h /\ c.f = d.f /\ c.n = d.n
      /\ c.at = d.at /\ c.advances = d.advances /\ c.from = d.from
  BY <1>2, <1>3 DEF Same
<1>9. s = r
  <2> DEFINE fields == {"kind", "h", "f", "at", "n", "from", "advances", "todo", "into"}
  <2>1. DOMAIN s = fields /\ DOMAIN r = fields
    BY <1>4, <1>5, SeenIs
  <2>2. s.kind = r.kind /\ s.h = r.h /\ s.f = r.f /\ s.at = r.at /\ s.n = r.n
        /\ s.from = r.from /\ s.todo = r.todo
    BY <1>4, <1>5, <1>8, SeenIs
  <2>3. s.advances = r.advances
    BY <1>4, <1>5, <1>8, SeenAdvances, Zenon
  <2>4. s = [k \in DOMAIN s |-> s[k]] /\ r = [k \in DOMAIN r |-> r[k]]
    BY <1>4, <1>5, SeenIs
  <2>5. \A k \in fields : s[k] = r[k]
    BY <1>7, <2>2, <2>3
  <2> QED
    BY <2>1, <2>4, <2>5, Zenon
<1>10. Calls' = Calls
  <2>1. Calls' = [Calls EXCEPT ![t] = r] /\ Calls[t] = r
    BY <1>1, <1>2, <1>3, <1>4, <1>5, <1>9, CallsAre DEF Calls
  <2>2. \A u \in Threads : Calls'[u] = Calls[u]
    BY <2>1 DEF Calls
  <2> QED
    BY <2>1, <2>2 DEF Calls
<1>11. content' = content /\ Ons' = Ons /\ Positions' = Positions
  BY DEF content, Ons, Positions
<1> QED
  BY <1>10, <1>11 DEF Flat!fvars, Calls, Ons, Positions

(* ReadAt copies a sector to its caller.                                   *)
LEMMA GetRefines ==
  ASSUME SectorInv, NEW t \in Threads, NEW c, NEW d, NEW i, Works(t, c, d, i),
         Head(c.queue).op = "get", d.buf = Reads(c, i), UNCHANGED <<disk, handle, answer>>
  PROVE  Flat!FNext
<1>1. DOMAIN call = Threads /\ OnDisk
  BY DEF SectorInv, TypeOK
<1>2. /\ c = call[t] /\ c # NoCall /\ c.queue # <<>> /\ Request(c) /\ Queue(c)
      /\ i = Head(c.queue).i
      /\ Same(c, d) /\ d.queue = Tail(c.queue) /\ Request(d)
      /\ call' = [call EXCEPT ![t] = d]
  BY DEF Works, CallInv
<1>3. PICK S : S = Left(c) \ Left(d)
  OBVIOUS
<1>4. /\ c.kind = "read" /\ d # NoCall /\ Left(d) = Left(c) \ S /\ S # {}
      /\ S = {p \in Span(c) : p \div SectorSize = i}
      /\ Asks(c) /\ numBytes(c) > 0 /\ i \in firstSector(c) .. lastSector(c)
  BY <1>2, <1>3, LeftLess, AtHand, RequestAsks
<1>5. Left(c) \subseteq Span(c) /\ Span(d) = Span(c) /\ d.kind = "read"
  BY <1>2, <1>4, SameRange DEF Left, Same
<1>6. PICK s : s = Seen(c)
  OBVIOUS
<1>7. PICK r : r = Seen(d)
  OBVIOUS
<1>8. PICK into : into = [p \in DOMAIN s.into \cup S |->
                            IF p \in S THEN content[s.f][p] ELSE s.into[p]]
  OBVIOUS
<1>9. s.into = [p \in Span(c) \ Left(c) |-> c.buf[p]] /\ s.f = c.f /\ s.todo = Left(c)
      /\ s.kind = "read" /\ s # NoCall
  BY <1>4, <1>6, SeenIs, SeenInto
<1>10. r.into = [p \in Span(c) \ Left(d) |-> d.buf[p]] /\ r.todo = Left(d) /\ r # NoCall
  BY <1>5, <1>7, SeenIs, SeenInto
<1>11. r.into = into
  <2>1. DOMAIN s.into \cup S = Span(c) \ Left(d)
    BY <1>3, <1>4, <1>5, <1>9
  <2>2. ASSUME NEW p \in Span(c) \ Left(d)
        PROVE  d.buf[p] = IF p \in S THEN content[s.f][p] ELSE s.into[p]
    <3>1. p \in Nat /\ p < Length[c.f] /\ p \div SectorSize \in firstSector(c) .. lastSector(c)
      BY <1>4, RangeIs, SectorsOfRange
    <3>2. p \in DOMAIN c.buf
      BY <1>2, <1>4, <3>1, InBuffer DEF Request
    <3>3. /\ p \div SectorSize = i => d.buf[p] = content[c.f][p]
          /\ p \div SectorSize # i => d.buf[p] = c.buf[p]
      BY <1>1, <1>2, <3>1, <3>2, ReadIs
    <3>4. p \in S <=> p \div SectorSize = i
      BY <1>4
    <3>5. p \notin S => p \in Span(c) \ Left(c)
      BY <1>3
    <3> QED
      BY <1>9, <3>3, <3>4, <3>5
  <2> QED
    BY <1>8, <1>10, <2>1, <2>2
<1>12. r = [s EXCEPT !.todo = s.todo \ S, !.into = into]
  <2> DEFINE fields == {"kind", "h", "f", "at", "n", "from", "advances", "todo", "into"}
             m == [s EXCEPT !.todo = s.todo \ S, !.into = into]
  <2>1. DOMAIN s = fields /\ DOMAIN r = fields
    BY <1>6, <1>7, SeenIs
  <2>2. s = [k \in DOMAIN s |-> s[k]] /\ r = [k \in DOMAIN r |-> r[k]]
    BY <1>6, <1>7, SeenIs
  <2>3. /\ r.kind = s.kind /\ r.h = s.h /\ r.f = s.f /\ r.n = s.n /\ r.at = s.at
        /\ r.from = s.from
    BY <1>2, <1>6, <1>7, SeenIs DEF Same
  <2>4. r.advances = s.advances
    <3>1. d.advances = c.advances
      BY <1>2 DEF Same
    <3> QED
      BY <1>6, <1>7, <3>1, SeenAdvances, Zenon
  <2>5. r.todo = s.todo \ S
    BY <1>4, <1>9, <1>10
  <2>6. m = [k \in fields |-> m[k]]
    BY <2>1, <2>2
  <2>7. \A k \in fields : m[k] = IF k = "todo" THEN s.todo \ S ELSE IF k = "into" THEN into ELSE s[k]
    BY <2>1
  <2>8. \A k \in fields : r[k] = m[k]
    <3> HIDE DEF m
    <3> QED
      BY <1>11, <2>3, <2>4, <2>5, <2>7
  <2> QED
    BY <2>1, <2>2, <2>6, <2>8, Zenon
<1>13. Calls' = [Calls EXCEPT ![t] = r] /\ Calls'[t] = r /\ Calls[t] = s /\ DOMAIN Calls = Threads
  BY <1>1, <1>2, <1>4, <1>6, <1>7, CallsAre DEF Calls
<1>14. content' = content /\ Ons' = Ons /\ Positions' = Positions
  BY DEF content, Ons, Positions
<1>15. Flat!Move(t)
  <2> DEFINE T == Calls[t].todo \ Calls'[t].todo
  <2> SUFFICES /\ Calls[t] # NoCall /\ Calls'[t] # NoCall /\ T # {}
               /\ Calls[t].kind = "read"
               /\ Calls' = [Calls EXCEPT ![t].todo = Calls[t].todo \ T,
                       ![t].into = [p \in DOMAIN Calls[t].into \cup T |->
                                       IF p \in T THEN content[Calls[t].f][p] ELSE Calls[t].into[p]]]
               /\ content' = content /\ Ons' = Ons /\ Positions' = Positions /\ answer' = answer
    BY Zenon DEF Flat!Move, Calls, Ons, Positions
  <2>1. T = S /\ Calls[t].kind = "read"
    BY <1>3, <1>9, <1>10, <1>13
  <2>2. Calls' = [Calls EXCEPT ![t].todo = s.todo \ S, ![t].into = into]
    <3> HIDE DEF Calls
    <3> QED
      BY <1>12, <1>13
  <2>3. into = [p \in DOMAIN Calls[t].into \cup T |->
                   IF p \in T THEN content[Calls[t].f][p] ELSE Calls[t].into[p]]
    BY <1>8, <1>13, <2>1
  <2>4. Calls[t] # NoCall /\ Calls'[t] # NoCall /\ T # {}
    BY <1>4, <1>9, <1>10, <1>13, <2>1
  <2>5. Calls' = [Calls EXCEPT ![t].todo = Calls[t].todo \ T, ![t].into = into]
    BY <1>13, <2>1, <2>2
  <2> HIDE DEF Calls, T
  <2> QED
    BY <1>14, <2>1, <2>3, <2>4, <2>5, Zenon
<1> QED
  BY <1>15 DEF Flat!FNext

(* WriteAt or Copy stores a sector: the caller's bytes and no others.      *)
LEMMA PutRefines ==
  ASSUME SectorInv, NEW t \in Threads, NEW c, NEW d, NEW i, Works(t, c, d, i),
         Head(c.queue).op = "put", Stores(c, i), UNCHANGED <<handle, answer>>
  PROVE  Flat!FNext
<1>1. DOMAIN call = Threads /\ OnDisk
  BY DEF SectorInv, TypeOK
<1>2. /\ c = call[t] /\ c # NoCall /\ c.queue # <<>> /\ Request(c) /\ Queue(c) /\ Merged(c)
      /\ i = Head(c.queue).i
      /\ Same(c, d) /\ d.queue = Tail(c.queue) /\ Request(d)
      /\ call' = [call EXCEPT ![t] = d]
  BY DEF Works, CallInv
<1>3. PICK S : S = Left(c) \ Left(d)
  OBVIOUS
<1>4. /\ c.kind # "read" /\ d # NoCall /\ Left(d) = Left(c) \ S /\ S # {}
      /\ S = {p \in Span(c) : p \div SectorSize = i}
      /\ Asks(c) /\ c.f \in Files
  BY <1>2, <1>3, LeftLess, AtHand, RequestAsks DEF Asks
<1>5. d.kind # "read"
  BY <1>2, <1>4 DEF Same
<1>6. PICK s : s = Seen(c)
  OBVIOUS
<1>7. PICK r : r = Seen(d)
  OBVIOUS
<1>8. s.into = [p \in {} |-> c.buf[p]] /\ s.todo = Left(c) /\ s.kind = "write" /\ s # NoCall
      /\ s.f = c.f /\ s.from = c.from /\ s.at = c.at
  BY <1>4, <1>6, SeenIs, SeenInto
<1>9. r.into = [p \in {} |-> d.buf[p]] /\ r.todo = Left(d) /\ r.kind = "write" /\ r # NoCall
  BY <1>5, <1>7, SeenIs, SeenInto
<1>10. r.into = s.into
  BY <1>8, <1>9
<1>11. r = [s EXCEPT !.todo = s.todo \ S]
  <2> DEFINE fields == {"kind", "h", "f", "at", "n", "from", "advances", "todo", "into"}
             m == [s EXCEPT !.todo = s.todo \ S]
  <2>1. DOMAIN s = fields /\ DOMAIN r = fields
    BY <1>6, <1>7, SeenIs
  <2>2. s = [k \in DOMAIN s |-> s[k]] /\ r = [k \in DOMAIN r |-> r[k]]
    BY <1>6, <1>7, SeenIs
  <2>3. /\ r.kind = s.kind /\ r.h = s.h /\ r.f = s.f /\ r.n = s.n /\ r.at = s.at
        /\ r.from = s.from
    BY <1>2, <1>6, <1>7, <1>8, <1>9, SeenIs DEF Same
  <2>4. r.advances = s.advances
    <3>1. d.advances = c.advances
      BY <1>2 DEF Same
    <3> QED
      BY <1>6, <1>7, <3>1, SeenAdvances, Zenon
  <2>5. r.todo = s.todo \ S
    BY <1>4, <1>8, <1>9
  <2>6. m = [k \in fields |-> m[k]]
    BY <2>1, <2>2
  <2>7. \A k \in fields : m[k] = IF k = "todo" THEN s.todo \ S ELSE s[k]
    BY <2>1
  <2>8. \A k \in fields : r[k] = m[k]
    <3> HIDE DEF m
    <3> QED
      BY <1>10, <2>3, <2>4, <2>5, <2>7
  <2> QED
    BY <2>1, <2>2, <2>6, <2>8, Zenon
<1>12. content' = [content EXCEPT ![s.f] =
                     [p \in DOMAIN @ |-> IF p \in S THEN s.from[p - s.at + 1] ELSE @[p]]]
  <2>1. \A f \in Files : \A p \in Nat : p < Length[f] =>
           content'[f][p] = IF f = c.f /\ p \div SectorSize = i /\ p \in Span(c)
                            THEN c.from[p - c.at + 1] ELSE content[f][p]
    BY <1>1, <1>2, Stored
  <2>2. \A f \in Files : \A p \in Nat : p < Length[f] =>
           content'[f][p] = IF f = c.f /\ p \in S THEN c.from[p - c.at + 1] ELSE content[f][p]
    BY <1>4, <2>1
  <2>3. /\ content = [f \in Files |-> content[f]] /\ content' = [f \in Files |-> content'[f]]
        /\ \A f \in Files : content[f] = [p \in 0 .. Length[f] - 1 |-> content[f][p]]
        /\ \A f \in Files : content'[f] = [p \in 0 .. Length[f] - 1 |-> content'[f][p]]
    BY DEF content
  <2>4. \A f \in Files : \A p \in 0 .. Length[f] - 1 : p \in Nat /\ p < Length[f]
    BY LengthsAre
  <2>5. PICK new : new = [p \in DOMAIN content[c.f] |->
                            IF p \in S THEN c.from[p - c.at + 1] ELSE content[c.f][p]]
    OBVIOUS
  <2>6. content'[c.f] = new
    <3>1. DOMAIN content[c.f] = 0 .. Length[c.f] - 1
      BY <1>4, <2>3
    <3>2. \A p \in 0 .. Length[c.f] - 1 :
             content'[c.f][p] = IF p \in S THEN c.from[p - c.at + 1] ELSE content[c.f][p]
      BY <1>4, <2>2, <2>4
    <3> QED
      BY <1>4, <2>3, <2>5, <3>1, <3>2
  <2>7. ASSUME NEW f \in Files, f # c.f PROVE content'[f] = content[f]
    <3>1. \A p \in 0 .. Length[f] - 1 : content'[f][p] = content[f][p]
      BY <2>2, <2>4, <2>7
    <3>2. /\ content[f] = [p \in 0 .. Length[f] - 1 |-> content[f][p]]
          /\ content'[f] = [p \in 0 .. Length[f] - 1 |-> content'[f][p]]
      BY <2>3
    <3> HIDE DEF content
    <3> QED
      BY <3>1, <3>2
  <2>8. content' = [content EXCEPT ![c.f] = new]
    <3> HIDE DEF content
    <3> QED
      BY <1>4, <2>3, <2>6, <2>7
  <2> QED
    BY <1>8, <2>5, <2>8
<1>13. Calls' = [Calls EXCEPT ![t] = r] /\ Calls'[t] = r /\ Calls[t] = s /\ DOMAIN Calls = Threads
  BY <1>1, <1>2, <1>4, <1>6, <1>7, CallsAre DEF Calls
<1>14. Ons' = Ons /\ Positions' = Positions
  BY DEF Ons, Positions
<1>15. Flat!Move(t)
  <2> SUFFICES /\ Calls[t] # NoCall /\ Calls'[t] # NoCall
               /\ Calls[t].todo \ Calls'[t].todo = S /\ S # {}
               /\ Calls[t].kind = "write"
               /\ Calls' = [Calls EXCEPT ![t].todo = Calls[t].todo \ S]
               /\ content' = [content EXCEPT ![Calls[t].f] =
                     [p \in DOMAIN @ |-> IF p \in S THEN Calls[t].from[p - Calls[t].at + 1]
                                         ELSE @[p]]]
               /\ Ons' = Ons /\ Positions' = Positions /\ answer' = answer
    BY DEF Flat!Move, Calls, Ons, Positions
  <2>1. Calls[t].todo \ Calls'[t].todo = S /\ Calls[t].kind = "write"
    BY <1>3, <1>8, <1>9, <1>13
  <2>2. Calls' = [Calls EXCEPT ![t].todo = s.todo \ S]
    <3> HIDE DEF Calls
    <3> QED
      BY <1>11, <1>13
  <2> HIDE DEF Calls, content
  <2> QED
    BY <1>4, <1>8, <1>9, <1>12, <1>13, <1>14, <2>1, <2>2
<1> QED
  BY <1>15 DEF Flat!FNext

(* A call returns: its bytes are counted once.                             *)
(* Flat counts as this module does.                                        *)
LEMMA FlatCardinality == ASSUME NEW S PROVE Flat!Cardinality(S) = Cardinality(S)
BY DEF Flat!Cardinality, Cardinality

LEMMA ReturnRefines ==
  ASSUME SectorInv, NEW t \in Threads, Return(t)
  PROVE  Flat!FNext
<1>1. TypeOK /\ InCall /\ DOMAIN call = Threads
  BY DEF SectorInv, TypeOK
<1>2. PICK c : c = call[t]
  OBVIOUS
<1>3. PICK n : n = numBytes(c)
  OBVIOUS
<1>4. PICK s : s = Seen(c)
  OBVIOUS
<1>5. /\ c # NoCall /\ c.queue = <<>> /\ call' = [call EXCEPT ![t] = NoCall] /\ disk' = disk
  BY <1>2 DEF Return
<1>6. Request(c) /\ Asks(c) /\ c.h \in Handles /\ c.at \in Nat
  BY <1>1, <1>2, <1>5, RequestAsks DEF InCall, Request
<1>7. n \in Nat /\ Span(c) = c.at .. c.at + n - 1
  BY <1>3, <1>6, RangeIs
<1>8. Left(c) = {}
  BY <1>5 DEF Left
<1>9. /\ s.todo = {} /\ s.h = c.h /\ s.at = c.at /\ s # NoCall
      /\ Flat!Span(s) = Span(c)
      /\ s.into = [p \in IF c.kind = "read" THEN Span(c) ELSE {} |-> c.buf[p]]
  <2>1. Span(c) \ Left(c) = Span(c)
    BY <1>8
  <2> QED
    BY <1>4, <1>8, <2>1, SeenIs, SeenSpan, SeenInto
<1>10. Flat!Cardinality(Flat!Span(s)) = n
  <2>1. c.at + n - 1 - c.at + 1 = n
    BY <1>6, <1>7
  <2>2. Cardinality(c.at .. c.at + n - 1) = IF c.at > c.at + n - 1 THEN 0 ELSE c.at + n - 1 - c.at + 1
    BY <1>6, <1>7, FS_Interval
  <2>3. Cardinality(c.at .. c.at + n - 1) = n
    BY <1>6, <1>7, <2>1, <2>2
  <2> QED
    BY <1>7, <1>9, <2>3, FlatCardinality
<1>11. PICK into : into = [k \in 1 .. IF c.kind = "read" THEN n ELSE 0 |-> c.buf[c.at + k - 1]]
  OBVIOUS
<1>12. into = [k \in 1 .. Flat!Cardinality(DOMAIN s.into) |-> s.into[s.at + k - 1]]
  <2>1. CASE c.kind = "read"
    <3>1. DOMAIN s.into = Flat!Span(s)
      BY <1>9, <2>1
    <3>2. Flat!Cardinality(DOMAIN s.into) = n
      BY <1>10, <3>1
    <3>3. ASSUME NEW k \in 1 .. n PROVE s.into[s.at + k - 1] = c.buf[c.at + k - 1]
      <4>1. c.at + k - 1 \in Span(c)
        BY <1>6, <1>7
      <4> QED
        BY <1>9, <2>1, <4>1
    <3> QED
      BY <1>11, <2>1, <3>2, <3>3
  <2>2. CASE c.kind # "read"
    <3>1. DOMAIN s.into = {}
      BY <1>9, <2>2
    <3>2. Flat!Cardinality(DOMAIN s.into) = 0
      BY <3>1, FS_EmptySet, FlatCardinality
    <3> QED
      BY <1>11, <2>2, <3>2
  <2> QED
    BY <2>1, <2>2
<1>13. answer' = [answer EXCEPT ![t] = [n |-> n, into |-> into]]
  BY <1>2, <1>3, <1>11 DEF Return
<1>14. handle' = IF c.advances THEN [handle EXCEPT ![c.h].seekPosition = @ + n] ELSE handle
  BY <1>2, <1>3 DEF Return
<1>15. Ons' = Ons
  BY <1>1, <1>6, <1>14 DEF Ons, TypeOK
<1>16. Positions' = IF s.advances THEN [Positions EXCEPT ![s.h] = @ + n] ELSE Positions
  <2> s.advances = c.advances
    BY <1>4, SeenAdvances, Zenon
  <2>1. CASE c.advances
    <3>1. handle' = [handle EXCEPT ![c.h].seekPosition = @ + n]
      BY <1>14, <2>1
    <3>2. Positions' = [Positions EXCEPT ![c.h] = @ + n]
      BY <1>1, <1>6, <3>1 DEF Positions, TypeOK
    <3> QED
      BY <1>9, <2>1, <3>2
  <2>2. CASE ~c.advances
    <3>1. handle' = handle
      BY <1>14, <2>2
    <3>2. Positions' = Positions
      BY <3>1 DEF Positions
    <3> QED
      BY <1>9, <2>2, <3>2
  <2> QED
    BY <2>1, <2>2
<1>17. content' = content
  BY <1>5 DEF content
<1>18. Calls' = [Calls EXCEPT ![t] = NoCall] /\ Calls[t] = s
  BY <1>1, <1>2, <1>4, <1>5, CallsAre DEF Calls
<1>19. Flat!Return(t)
  <2> SUFFICES /\ Calls[t] # NoCall /\ Calls[t].todo = {}
               /\ Calls' = [Calls EXCEPT ![t] = NoCall]
               /\ answer' = [answer EXCEPT ![t] =
                     [n |-> Flat!Cardinality(Flat!Span(Calls[t])),
                      into |-> [k \in 1 .. Flat!Cardinality(DOMAIN Calls[t].into) |->
                                   Calls[t].into[Calls[t].at + k - 1]]]]
               /\ Positions' = IF Calls[t].advances
                               THEN [Positions EXCEPT ![Calls[t].h] =
                                        @ + Flat!Cardinality(Flat!Span(Calls[t]))]
                               ELSE Positions
               /\ content' = content /\ Ons' = Ons
    BY Zenon DEF Flat!Return, Calls, Ons, Positions
  <2> HIDE DEF Calls, Ons, Positions
  <2>1. answer' = [answer EXCEPT ![t] =
                     [n |-> Flat!Cardinality(Flat!Span(Calls[t])),
                      into |-> [k \in 1 .. Flat!Cardinality(DOMAIN Calls[t].into) |->
                                   Calls[t].into[Calls[t].at + k - 1]]]]
    BY <1>10, <1>12, <1>13, <1>18
  <2>2. Positions' = IF Calls[t].advances
                     THEN [Positions EXCEPT ![Calls[t].h] =
                              @ + Flat!Cardinality(Flat!Span(Calls[t]))]
                     ELSE Positions
    BY <1>10, <1>16, <1>18
  <2> QED
    BY <1>9, <1>15, <1>17, <1>18, <2>1, <2>2
<1> QED
  BY <1>19 DEF Flat!FNext

LEMMA StepRefines ==
  ASSUME SectorInv, NEW t \in Threads, Step(t)
  PROVE  Flat!FNext \/ UNCHANGED Flat!fvars
<1>1. TypeOK
  BY DEF SectorInv
<1>2. CASE Create(t) \/ Remove(t)
  BY <1>2, Unseen DEF Create, Remove, Ons, Positions
<1>3. CASE Open(t)
  <2>1. /\ ~Finished(t) /\ At(t).do = "Open" /\ disk' = disk /\ call' = call /\ answer' = answer
    BY <1>3 DEF Open, Does, Runs
  <2>2. At(t).h \in Handles /\ At(t).f \in Files
    BY <1>1, <2>1, Command DEF WellFormed, OnHandle
  <2>3. CASE At(t).f \in created
    <3>1. handle' = [handle EXCEPT ![At(t).h] = [file |-> At(t).f, seekPosition |-> 0]]
      BY <1>3, <2>3 DEF Open
    <3> QED
      BY <1>1, <2>1, <2>2, <3>1, OpenRefines
  <2>4. CASE At(t).f \notin created
    <3>1. handle' = handle
      BY <1>3, <2>4 DEF Open
    <3> QED
      BY <2>1, <3>1, Unseen DEF Ons, Positions
  <2> QED
    BY <2>3, <2>4
<1>4. CASE Close(t)
  <2>1. /\ ~Finished(t) /\ At(t).do = "Close" /\ disk' = disk /\ call' = call /\ answer' = answer
        /\ handle' = [handle EXCEPT ![At(t).h] = [file |-> NoFile, seekPosition |-> 0]]
    BY <1>4 DEF Close, Does, Runs, Closed
  <2>2. At(t).h \in Handles
    BY <1>1, <2>1, Command DEF WellFormed, OnHandle
  <2> QED
    BY <1>1, <2>1, <2>2, OpenRefines
<1>5. CASE Seek(t)
  <2>1. /\ ~Finished(t) /\ At(t).do = "Seek" /\ disk' = disk /\ call' = call /\ answer' = answer
        /\ handle' = [handle EXCEPT ![At(t).h].seekPosition = At(t).at]
    BY <1>5 DEF Seek, Does, Runs
  <2>2. At(t).h \in Handles
    BY <1>1, <2>1, Command DEF WellFormed, OnHandle
  <2> QED
    BY <1>1, <2>1, <2>2, SeekRefines
<1>6. CASE Transfer(t)
  <2>1. /\ call[t] = NoCall /\ UNCHANGED <<disk, handle, answer>>
        /\ (call' = call \/ \E c, r : Starts(t, c, r))
    BY <1>6, TransferStarts
  <2>2. CASE call' = call
    BY <2>1, <2>2, Unseen DEF Ons, Positions
  <2>3. ASSUME NEW c, NEW r, Starts(t, c, r) PROVE Flat!FNext
    BY <2>1, <2>3, StartsRefines
  <2> QED
    BY <2>1, <2>2, <2>3
<1>7. CASE StartCopy(t)
  <2>1. /\ call[t] = NoCall /\ UNCHANGED <<disk, handle, answer>> /\ \E c, r : Starts(t, c, r)
    BY <1>7, StartCopyStarts
  <2>2. ASSUME NEW c, NEW r, Starts(t, c, r) PROVE Flat!FNext
    BY <2>1, <2>2, StartsRefines
  <2> QED
    BY <2>1, <2>2
<1>8. CASE ReadSector(t)
  <2>1. UNCHANGED <<disk, handle, answer>>
    BY <1>8, ReadSectorWorks
  <2>2. PICK c, d, i : Works(t, c, d, i) /\ d.buf = Reads(c, i) /\ Head(c.queue).op # "put"
    BY <1>8, ReadSectorWorks
  <2>3. Head(c.queue).op \in {"get", "fill"}
    BY <2>2, AtHand DEF Works, CallInv
  <2> QED
    BY <2>1, <2>2, <2>3, GetRefines, FillRefines
<1>9. CASE WriteSector(t) \/ CopySector(t)
  <2>1. UNCHANGED <<handle, answer>>
    BY <1>9, WriteSectorWorks, CopySectorWorks
  <2>2. PICK c, d, i : Works(t, c, d, i) /\ Head(c.queue).op = "put" /\ Stores(c, i)
    BY <1>9, WriteSectorWorks, CopySectorWorks
  <2> QED
    BY <2>1, <2>2, PutRefines
<1>10. CASE Return(t)
  BY <1>10, ReturnRefines
<1> QED
  BY <1>2, <1>3, <1>4, <1>5, <1>6, <1>7, <1>8, <1>9, <1>10 DEF Step

(* A file is an array of bytes and a handle has its own position: every    *)
(* call moves the bytes of its range, each once, and no other, whatever    *)
(* sectors of other calls come between its own (openfile.h, ReadAt and     *)
(* WriteAt of openfile.cc).                                                *)
THEOREM Refinement == Spec => FlatFileSpec
<1>1. Init => Flat!FInit
  BY InitRefines
<1>2. IInv /\ [Next]_vars => [Flat!FNext]_Flat!fvars
  <2>1. ASSUME IInv, NEW t \in Threads, Step(t) PROVE Flat!FNext \/ UNCHANGED Flat!fvars
    BY <2>1, StepRefines DEF IInv
  <2>2. ASSUME UNCHANGED vars PROVE UNCHANGED Flat!fvars
    BY <2>2, Unseen DEF vars, Ons, Positions
  <2> QED
    BY <2>1, <2>2 DEF Next, Quiet
<1> QED
  BY <1>1, <1>2, Invariance, PTL DEF Spec, FlatFileSpec, Flat!FSpec

-----------------------------------------------------------------------------
(* The tests of fstest.cc.                                                 *)

(* What a thread has asked for, by the command it is at, is what it is in. *)
Asked(t) ==
  LET c == call[t]
  IN  /\ c.h = At(t).h /\ c.f = handle[c.h].file
      /\ c.advances <=> At(t).do \in {"Read", "Write"}
      /\ c.advances => c.at = handle[c.h].seekPosition
      /\ At(t).do \in {"Read", "ReadAt"} => c.kind = "read"
      /\ At(t).do \in {"Write", "WriteAt"} => c.kind = "write" /\ c.from = At(t).from
      /\ At(t).do = "Copy" => c.kind = "copy" /\ c.from = Unix[c.f]
      /\ At(t).do # "Copy" => c.n = At(t).n

(* Calls are their commands', and handles are on files their scripts open. *)
Commanded ==
  /\ \A t \in Threads : call[t] # NoCall => Asked(t)
  /\ \A h \in Handles : handle[h].file # NoFile =>
        \E u \in Threads : Opens(script[u], h, handle[h].file)
  /\ DOMAIN done = Threads /\ DOMAIN output = Threads /\ DOMAIN complained = Threads

(* A call that begins is the command's, and has everything left to do.     *)
LEMMA TransferAsks ==
  ASSUME SectorInv, NEW t \in Threads, Transfer(t)
  PROVE  \/ call' = call
         \/ \E d : /\ call' = [call EXCEPT ![t] = d] /\ d # NoCall
                   /\ Asked(t)' /\ Left(d) = Span(d)
<1>1. TypeOK /\ OnDisk /\ DOMAIN call = Threads
  BY DEF SectorInv, TypeOK
<1>2. /\ At(t).do \in {"Read", "Write", "ReadAt", "WriteAt"} /\ ~Finished(t)
      /\ UNCHANGED <<handle, script, pc>>
  BY DEF Transfer, Does, Runs
<1>3. PICK c, r : Starts(t, c, r) \/ call' = call
  BY TransferStarts
<1>4. CASE handle[At(t).h].file = NoFile
  BY <1>4 DEF Transfer
<1>5. CASE handle[At(t).h].file # NoFile
  <2>1. PICK adv : adv = (At(t).do \in {"Read", "Write"})
    OBVIOUS
  <2>2. PICK at : at = IF adv THEN handle[At(t).h].seekPosition ELSE At(t).at
    OBVIOUS
  <2>3. PICK kind : kind = IF At(t).do \in {"Read", "ReadAt"} THEN "read" ELSE "write"
    OBVIOUS
  <2>4. PICK from : from = IF At(t).do \in {"Write", "WriteAt"} THEN At(t).from ELSE <<>>
    OBVIOUS
  <2>5. PICK e : e = [kind |-> kind, h |-> At(t).h, f |-> handle[At(t).h].file, n |-> At(t).n,
                      advances |-> adv, at |-> at, from |-> from]
    OBVIOUS
  <2>6. Begin(t, e, Junk)
    BY <1>5, <2>1, <2>2, <2>3, <2>4, <2>5 DEF Transfer
  <2>7. PICK d : d = Call(e, Junk)
    OBVIOUS
  <2>8. call' = [call EXCEPT ![t] = d]
    BY <2>6, <2>7 DEF Begin, Call
  <2>9. /\ e.kind = kind /\ e.h = At(t).h /\ e.f = handle[At(t).h].file /\ e.n = At(t).n
        /\ e.at = at /\ e.from = from
    BY <2>5
  <2>10. e.advances = adv
    BY <2>5, Zenon
  <2>11. /\ At(t).h \in Handles /\ At(t).n \in Int
         /\ At(t).do \notin {"Read", "Write"} => At(t).at \in Nat
    BY <1>1, <1>2, Command DEF WellFormed, OnHandle
  <2>12. handle[At(t).h].file \in Files /\ handle[At(t).h].seekPosition \in Nat
    BY <1>1, <1>5, <2>11 DEF TypeOK
  <2>13. at \in Nat
    BY <1>2, <2>1, <2>2, <2>11, <2>12
  <2>14. Asks(e)
    BY <2>9, <2>11, <2>12, <2>13 DEF Asks
  <2>15. e.advances \in BOOLEAN
    BY <2>1, <2>10
  <2>16. e.kind \in {"read", "write", "copy"} /\ e.kind # "copy" /\ e.h \in Handles
    BY <2>3, <2>9, <2>11
  <2>17. CallInv(d) /\ Same(e, d) /\ Left(d) = Span(d)
    BY <1>1, <2>7, <2>14, <2>15, <2>16, NewCall
  <2>18. d # NoCall
    BY <2>17, RequestAsks DEF CallInv
  <2>19. call'[t] = d /\ At(t)' = At(t) /\ handle' = handle
    BY <1>1, <1>2, <2>8 DEF At
  <2>20. /\ d.h = At(t).h /\ d.f = handle[d.h].file /\ d.kind = kind /\ d.n = At(t).n
         /\ d.at = at /\ d.from = from
    BY <2>9, <2>17 DEF Same
  <2>21. d.advances <=> At(t).do \in {"Read", "Write"}
    BY <2>1, <2>10, <2>17, Zenon DEF Same
  <2>22. d.advances => d.at = handle[d.h].seekPosition
    BY <2>1, <2>2, <2>20, <2>21
  <2>23. /\ At(t).do \in {"Read", "ReadAt"} => d.kind = "read"
         /\ At(t).do \in {"Write", "WriteAt"} => d.kind = "write" /\ d.from = At(t).from
    BY <2>3, <2>4, <2>20
  <2>24. Asked(t)'
    BY <1>2, <2>19, <2>20, <2>21, <2>22, <2>23 DEF Asked
  <2> QED
    BY <2>8, <2>17, <2>18, <2>24
<1> QED
  BY <1>4, <1>5

(* A Copy that begins is of the file its handle is on, all of it.          *)
LEMMA StartCopyAsks ==
  ASSUME SectorInv, NEW t \in Threads, StartCopy(t)
  PROVE  \E d : /\ call' = [call EXCEPT ![t] = d] /\ d # NoCall
                /\ Asked(t)' /\ Left(d) = Span(d)
<1>1. TypeOK /\ OnDisk /\ AtCopy /\ DOMAIN call = Threads
  BY DEF SectorInv, TypeOK
<1>2. /\ ~Finished(t) /\ At(t).do = "Copy" /\ UNCHANGED <<handle, script, pc>>
  BY DEF StartCopy, Does, Runs
<1>3. At(t).h \in Handles
  BY <1>1, <1>2, Command DEF WellFormed, OnHandle
<1>4. PICK f : f = handle[At(t).h].file
  OBVIOUS
<1>5. f \in Files \ Direct /\ Length[f] \in Nat
  BY <1>1, <1>2, <1>4, LengthsAre DEF AtCopy
<1>6. PICK r \in Fetch(f, 0) :
        Begin(t, [kind |-> "copy", h |-> At(t).h, f |-> f, n |-> Length[f], at |-> 0,
                  advances |-> FALSE, from |-> Unix[f]], r)
  BY <1>4 DEF StartCopy
<1>7. PICK e : e = [kind |-> "copy", h |-> At(t).h, f |-> f, n |-> Length[f], at |-> 0,
                    advances |-> FALSE, from |-> Unix[f]]
  OBVIOUS
<1>8. /\ e.kind = "copy" /\ e.h = At(t).h /\ e.f = f /\ e.n = Length[f] /\ e.at = 0
      /\ e.from = Unix[f]
  BY <1>7
<1>9. e.advances \in BOOLEAN /\ ~e.advances
  BY <1>7, Zenon
<1>10. Asks(e)
  BY <1>5, <1>8 DEF Asks
<1>11. PICK d : d = Call(e, r)
  OBVIOUS
<1>12. call' = [call EXCEPT ![t] = d]
  BY <1>6, <1>7, <1>11 DEF Begin, Call
<1>13. CallInv(d) /\ Same(e, d) /\ Left(d) = Span(d)
  BY <1>1, <1>3, <1>5, <1>8, <1>9, <1>10, <1>11, NewCall
<1>14. d # NoCall
  BY <1>13, RequestAsks DEF CallInv
<1>15. call'[t] = d /\ At(t)' = At(t) /\ handle' = handle
  BY <1>1, <1>2, <1>12 DEF At
<1>16. /\ d.h = At(t).h /\ d.f = handle[d.h].file /\ d.kind = "copy" /\ d.from = Unix[d.f]
  BY <1>4, <1>8, <1>13 DEF Same
<1>17. ~d.advances
  BY <1>9, <1>13, Zenon DEF Same
<1>18. Asked(t)'
  BY <1>2, <1>15, <1>16, <1>17 DEF Asked
<1> QED
  BY <1>12, <1>13, <1>14, <1>18

(* A sector of a call that reads: some of what it had left has come from   *)
(* the file.                                                               *)
LEMMA GetIs ==
  ASSUME SectorInv, NEW t \in Threads, ReadSector(t)
  PROVE  \E c, d, i : /\ Works(t, c, d, i) /\ Left(d) \subseteq Left(c)
                      /\ c.kind # "read" => Left(d) = Left(c)
                      /\ c.kind = "read" => \A p \in Span(c) \ Left(d) :
                            \/ p \notin Left(c) /\ d.buf[p] = c.buf[p]
                            \/ d.buf[p] = content[c.f][p]
<1>1. OnDisk
  BY DEF SectorInv
<1>2. PICK c, d, i : Works(t, c, d, i) /\ d.buf = Reads(c, i) /\ Head(c.queue).op # "put"
  BY ReadSectorWorks
<1>3. /\ Request(c) /\ Queue(c) /\ c.queue # <<>> /\ i = Head(c.queue).i
      /\ Same(c, d) /\ d.queue = Tail(c.queue)
  BY <1>2 DEF Works, CallInv
<1>4. /\ Left(d) \subseteq Left(c)
      /\ Head(c.queue).op # "fill" => Left(c) \ Left(d) = {p \in Span(c) : p \div SectorSize = i}
  BY <1>3, LeftLess
<1>5. Asks(c) /\ numBytes(c) > 0 /\ c.f \in Files
  BY <1>3, AtHand DEF Asks
<1>6. /\ \A p \in Nat : p < Length[c.f] /\ p \div SectorSize = i
            => Reads(c, i)[p] = content[c.f][p]
      /\ \A p \in Nat : p < Length[c.f] /\ p \div SectorSize # i /\ p \in DOMAIN c.buf
            => Reads(c, i)[p] = c.buf[p]
  BY <1>1, <1>3, ReadIs
<1>7. ASSUME c.kind = "read", NEW p \in Span(c) \ Left(d)
      PROVE  \/ p \notin Left(c) /\ d.buf[p] = c.buf[p]
             \/ d.buf[p] = content[c.f][p]
  <2>1. p \in Nat /\ p < Length[c.f]
    BY <1>5, RangeIs
  <2>2. p \in DOMAIN c.buf
    BY <1>3, <1>5, <2>1, SectorsOfRange, InBuffer DEF Request
  <2>3. Head(c.queue).op # "fill"
    BY <1>3, <1>7, AtHand
  <2>4. p \div SectorSize # i => p \notin Left(c)
    BY <1>4, <2>3
  <2> QED
    BY <1>2, <1>6, <2>1, <2>2, <2>4
<1>8. c.kind # "read" => Left(d) = Left(c)
  <2>1. Head(c.queue).op \in {"get", "fill"}
    BY <1>2, <1>3, AtHand
  <2> QED
    BY <1>3, <2>1, AtHand, LeftLess
<1> QED
  BY <1>2, <1>4, <1>7, <1>8

(* A sector of a call that writes: some of what it had left has gone to    *)
(* the file.                                                               *)
LEMMA PutIs ==
  ASSUME SectorInv, NEW t \in Threads, WriteSector(t) \/ CopySector(t)
  PROVE  \E c, d, i : /\ Works(t, c, d, i) /\ c.kind # "read" /\ Left(d) \subseteq Left(c)
                      /\ \A f \in Files : \A p \in 0 .. Length[f] - 1 :
                            content'[f][p] = IF f = c.f /\ p \in Left(c) \ Left(d)
                                             THEN c.from[p - c.at + 1] ELSE content[f][p]
<1>1. OnDisk
  BY DEF SectorInv
<1>2. PICK c, d, i : Works(t, c, d, i) /\ Head(c.queue).op = "put" /\ Stores(c, i)
  BY WriteSectorWorks, CopySectorWorks
<1>3. /\ Request(c) /\ Queue(c) /\ Merged(c) /\ c.queue # <<>> /\ i = Head(c.queue).i
      /\ Same(c, d) /\ d.queue = Tail(c.queue)
  BY <1>2 DEF Works, CallInv
<1>4. /\ Left(d) \subseteq Left(c)
      /\ Left(c) \ Left(d) = {p \in Span(c) : p \div SectorSize = i}
  BY <1>2, <1>3, LeftLess
<1>5. c.kind # "read"
  BY <1>2, <1>3, AtHand
<1>6. \A f \in Files : \A p \in Nat : p < Length[f] =>
         content'[f][p] = IF f = c.f /\ p \div SectorSize = i /\ p \in Span(c)
                          THEN c.from[p - c.at + 1] ELSE content[f][p]
  BY <1>1, <1>2, <1>3, Stored
<1>7. ASSUME NEW f \in Files, NEW p \in 0 .. Length[f] - 1
      PROVE  content'[f][p] = IF f = c.f /\ p \in Left(c) \ Left(d)
                              THEN c.from[p - c.at + 1] ELSE content[f][p]
  <2>1. p \in Nat /\ p < Length[f]
    <3>1. Length[f] \in Nat
      BY LengthsAre
    <3> QED
      BY <3>1
  <2>2. p \in Left(c) \ Left(d) <=> p \div SectorSize = i /\ p \in Span(c)
    BY <1>4
  <2> HIDE DEF content
  <2> QED
    BY <1>6, <2>1, <2>2
<1> QED
  BY <1>2, <1>4, <1>5, <1>7

(* A step of one thread leaves the others where they are.                  *)
LEMMA Others ==
  ASSUME TypeOK, Commanded, NEW u \in Threads, Step(u), NEW t \in Threads \ {u}
  PROVE  /\ pc'[t] = pc[t] /\ call'[t] = call[t] /\ output'[t] = output[t]
         /\ done'[t] = done[t] /\ complained'[t] = complained[t]
<1>1. DOMAIN pc = Threads /\ DOMAIN call = Threads
  BY DEF TypeOK
<1>2. DOMAIN done = Threads /\ DOMAIN output = Threads /\ DOMAIN complained = Threads
  BY DEF Commanded
<1>3. CASE Create(u) \/ Open(u) \/ Seek(u) \/ Close(u)
  BY <1>1, <1>3 DEF Create, Open, Seek, Close, Goto
<1>4. CASE Remove(u)
  BY <1>1, <1>2, <1>4 DEF Remove, Goto
<1>5. CASE Transfer(u) \/ StartCopy(u)
  BY <1>1, <1>5 DEF Transfer, StartCopy, Begin
<1>6. CASE ReadSector(u) \/ WriteSector(u) \/ CopySector(u)
  BY <1>1, <1>6 DEF ReadSector, WriteSector, CopySector
<1>7. CASE Return(u)
  BY <1>1, <1>2, <1>7 DEF Return, Loop, Goto
<1> QED
  BY <1>3, <1>4, <1>5, <1>6, <1>7 DEF Step

(* Scripts stay what they are.                                             *)
LEMMA SameScript ==
  ASSUME NEW u \in Threads, Step(u)
  PROVE  script' = script
  BY DEF Step, Create, Open, Seek, Close, Remove, Transfer, StartCopy, ReadSector, WriteSector,
         CopySector, Return

(* The variables that only Remove and Return change.                       *)
LEMMA Domains ==
  ASSUME Commanded, NEW u \in Threads, Step(u)
  PROVE  DOMAIN done' = Threads /\ DOMAIN output' = Threads /\ DOMAIN complained' = Threads
<1>1. DOMAIN done = Threads /\ DOMAIN output = Threads /\ DOMAIN complained = Threads
  BY DEF Commanded
<1>2. CASE Create(u) \/ Open(u) \/ Seek(u) \/ Close(u)
  BY <1>1, <1>2 DEF Create, Open, Seek, Close
<1>3. CASE Remove(u)
  BY <1>1, <1>3 DEF Remove
<1>4. CASE Transfer(u) \/ StartCopy(u)
  BY <1>1, <1>4 DEF Transfer, StartCopy
<1>5. CASE ReadSector(u) \/ WriteSector(u) \/ CopySector(u)
  BY <1>1, <1>5 DEF ReadSector, WriteSector, CopySector
<1>6. CASE Return(u)
  BY <1>1, <1>6 DEF Return, Loop
<1> QED
  BY <1>2, <1>3, <1>4, <1>5, <1>6 DEF Step

(* The handle that a step changes is that of the command, and Open alone   *)
(* puts a file behind it.                                                  *)
LEMMA HandleSteps ==
  ASSUME IInv, Commanded, NEW u \in Threads, Step(u), NEW h \in Handles
  PROVE  /\ handle'[h] # handle[h] =>
               /\ ~Finished(u) /\ At(u).do \in OnHandle /\ At(u).h = h
               /\ call[u] # NoCall => Return(u)
         /\ handle'[h].file # handle[h].file /\ handle'[h].file # NoFile =>
               At(u).do = "Open" /\ handle'[h].file = At(u).f
<1>1. TypeOK /\ InCall /\ InCommand /\ handle \in [Handles -> [file : Files \cup {NoFile}, seekPosition : Nat]]
  BY DEF IInv, SectorInv, TypeOK
<1>2. CASE handle' = handle
  BY <1>2
<1>3. CASE Open(u) /\ handle' # handle
  <2>1. /\ ~Finished(u) /\ At(u).do = "Open" /\ call[u] = NoCall
        /\ handle' = [handle EXCEPT ![At(u).h] = [file |-> At(u).f, seekPosition |-> 0]]
    BY <1>3 DEF Open, Does, Runs
  <2> QED
    BY <1>1, <2>1 DEF OnHandle
<1>4. CASE Seek(u)
  <2>1. /\ ~Finished(u) /\ At(u).do = "Seek" /\ call[u] = NoCall
        /\ handle' = [handle EXCEPT ![At(u).h].seekPosition = At(u).at]
    BY <1>4 DEF Seek, Does, Runs
  <2>2. \A k \in Handles : handle'[k].file = handle[k].file /\ (k # At(u).h => handle'[k] = handle[k])
    BY <1>1, <2>1
  <2> QED
    BY <2>1, <2>2 DEF OnHandle
<1>5. CASE Close(u)
  <2>1. /\ ~Finished(u) /\ At(u).do = "Close" /\ call[u] = NoCall
        /\ handle' = [handle EXCEPT ![At(u).h] = [file |-> NoFile, seekPosition |-> 0]]
    BY <1>5 DEF Close, Does, Runs, Closed
  <2> QED
    BY <1>1, <2>1 DEF OnHandle
<1>6. CASE Return(u) /\ handle' # handle
  <2>1. PICK c : c = call[u]
    OBVIOUS
  <2>2. PICK n : n = numBytes(c)
    OBVIOUS
  <2>3. /\ c # NoCall /\ handle' = [handle EXCEPT ![c.h].seekPosition = @ + n]
    BY <1>6, <2>1, <2>2 DEF Return
  <2>4. ~Finished(u) /\ At(u).do \in OnHandle
    BY <1>1, <2>1, <2>3 DEF InCommand, OnHandle
  <2>5. c.h = At(u).h
    BY <2>1, <2>3 DEF Commanded, Asked
  <2>6. \A k \in Handles : handle'[k].file = handle[k].file /\ (k # c.h => handle'[k] = handle[k])
    BY <1>1, <2>3
  <2> QED
    BY <1>6, <2>1, <2>4, <2>5, <2>6
<1>7. CASE Create(u) \/ Remove(u) \/ Transfer(u) \/ StartCopy(u) \/ ReadSector(u) \/ WriteSector(u)
           \/ CopySector(u)
  <2>1. handle' = handle
    BY <1>7 DEF Create, Remove, Transfer, StartCopy, ReadSector, WriteSector, CopySector
  <2> QED
    BY <1>2, <2>1
<1> QED
  BY <1>2, <1>3, <1>4, <1>5, <1>6, <1>7 DEF Step

(* A handle that a script uses is changed by no other thread.              *)
LEMMA OwnHandle ==
  ASSUME IInv, Commanded, NEW u \in Threads, Step(u), NEW t \in Threads \ {u},
         NEW k \in DOMAIN script[t], script[t][k].do \in OnHandle, script[t][k].h \in Handles
  PROVE  handle'[script[t][k].h] = handle[script[t][k].h]
<1>1. TypeOK
  BY DEF IInv, SectorInv
<1> SUFFICES ASSUME handle'[script[t][k].h] # handle[script[t][k].h] PROVE FALSE
  OBVIOUS
<1>2. ~Finished(u) /\ At(u).do \in OnHandle /\ At(u).h = script[t][k].h
  BY HandleSteps
<1>3. pc[u] \in DOMAIN script[u] /\ script[u] \in Scripts[u] /\ script[t] \in Scripts[t]
  BY <1>1, <1>2, Command DEF TypeOK
<1> QED
  BY <1>2, <1>3, ScriptAssumption DEF At

(* A file that a script does not alter stays what it was in a step of it.  *)
LEMMA Unaltered ==
  ASSUME IInv, Commanded, NEW u \in Threads, Step(u), NEW f \in Files, ~Alters(script[u], f)
  PROVE  /\ f \in created' <=> f \in created
         /\ \A p \in 0 .. Length[f] - 1 : content'[f][p] = content[f][p]
<1>1. SectorInv /\ TypeOK /\ InCall /\ InCommand
  BY DEF IInv, SectorInv
<1>2. CASE Create(u) \/ Remove(u)
  <2>1. /\ ~Finished(u) /\ At(u).do \in {"Create", "Remove"} /\ disk' = disk
        /\ \A g \in Files : g # At(u).f => (g \in created' <=> g \in created)
    BY <1>2 DEF Create, Remove, Does, Runs
  <2>2. pc[u] \in DOMAIN script[u] /\ script[u][pc[u]] = At(u)
    BY <1>1, <2>1, Command DEF At
  <2>3. At(u).f # f
    BY <2>1, <2>2 DEF Alters
  <2>4. content' = content
    BY <2>1 DEF content
  <2> QED
    BY <2>1, <2>3, <2>4
<1>3. CASE Open(u) \/ Seek(u) \/ Close(u) \/ Transfer(u) \/ StartCopy(u) \/ ReadSector(u) \/ Return(u)
  <2>1. disk' = disk /\ created' = created
    BY <1>3 DEF Open, Seek, Close, Transfer, StartCopy, ReadSector, Return
  <2>2. content' = content
    BY <2>1 DEF content
  <2> QED
    BY <2>1, <2>2
<1>4. CASE WriteSector(u) \/ CopySector(u)
  <2>1. created' = created
    BY <1>4 DEF WriteSector, CopySector
  <2>2. PICK c, d, i : /\ Works(u, c, d, i) /\ c.kind # "read" /\ Left(d) \subseteq Left(c)
                       /\ \A g \in Files : \A p \in 0 .. Length[g] - 1 :
                             content'[g][p] = IF g = c.f /\ p \in Left(c) \ Left(d)
                                              THEN c.from[p - c.at + 1] ELSE content[g][p]
    BY <1>1, <1>4, PutIs
  <2>3. c = call[u] /\ c # NoCall /\ c.f \in Files /\ c.h \in Handles
    BY <2>2 DEF Works, CallInv, Request
  <2>4. Asked(u) /\ ~Finished(u) /\ At(u).do \in {"Read", "Write", "ReadAt", "WriteAt", "Copy"}
    BY <1>1, <2>3 DEF Commanded, InCommand
  <2>5. At(u).do \in {"Write", "WriteAt", "Copy"} /\ c.h = At(u).h /\ c.f = handle[c.h].file
    BY <2>2, <2>3, <2>4 DEF Asked
  <2>6. pc[u] \in DOMAIN script[u] /\ script[u][pc[u]] = At(u) /\ script[u] \in Scripts[u]
    BY <1>1, <2>4, Command DEF At
  <2>7. c.f # NoFile
    BY <2>3, OpenFileAssumption
  <2>8. PICK v \in Threads : Opens(script[v], c.h, c.f)
    BY <2>3, <2>5, <2>7 DEF Commanded
  <2>9. v = u
    <3>1. PICK j \in DOMAIN script[v] : script[v][j].do = "Open" /\ script[v][j].h = c.h
      BY <2>8 DEF Opens
    <3>2. script[v] \in Scripts[v]
      BY <1>1 DEF TypeOK
    <3>3. script[v][j].do \in OnHandle /\ At(u).do \in OnHandle
      BY <2>5, <3>1 DEF OnHandle
    <3> QED
      BY <2>5, <2>6, <3>1, <3>2, <3>3, ScriptAssumption
  <2>10. c.f # f
    BY <2>5, <2>6, <2>8, <2>9 DEF Alters
  <2> HIDE DEF content
  <2> QED
    BY <2>1, <2>2, <2>10
<1> QED
  BY <1>2, <1>3, <1>4 DEF Step

(* A call under way is the command's as before.                            *)
LEMMA StillAsked ==
  ASSUME NEW t \in Threads, NEW c, NEW d, c = call[t], d = call'[t], Asked(t), Same(c, d),
         UNCHANGED <<handle, pc, script>>
  PROVE  Asked(t)'
<1>1. At(t)' = At(t)
  BY DEF At
<1>2. /\ d.kind = c.kind /\ d.h = c.h /\ d.f = c.f /\ d.n = c.n /\ d.at = c.at /\ d.from = c.from
  BY DEF Same
<1>3. d.advances = c.advances
  BY DEF Same
<1>4. d.advances <=> At(t).do \in {"Read", "Write"}
  <2>1. c.advances <=> At(t).do \in {"Read", "Write"}
    BY Zenon DEF Asked
  <2> QED
    BY <1>3, <2>1, Zenon
<1>5. d.advances => d.at = handle[d.h].seekPosition
  <2>1. c.advances => c.at = handle[c.h].seekPosition
    BY DEF Asked
  <2>2. c.at = handle[c.h].seekPosition => d.at = handle[d.h].seekPosition
    BY <1>2
  <2> QED
    BY <1>3, <2>1, <2>2, Zenon
<1> QED
  BY <1>1, <1>2, <1>4, <1>5 DEF Asked

(* Every step keeps calls to their commands and handles to their scripts.  *)
LEMMA CommandedNext ==
  ASSUME IInv, Commanded, NEW u \in Threads, Step(u)
  PROVE  Commanded'
<1>1. TypeOK /\ SectorInv /\ InCommand /\ DOMAIN call = Threads
  BY DEF IInv, SectorInv, TypeOK
<1>2. script' = script
  BY SameScript
<1>3. DOMAIN done' = Threads /\ DOMAIN output' = Threads /\ DOMAIN complained' = Threads
  BY Domains
<1>4. ASSUME call'[u] # NoCall PROVE Asked(u)'
  <2>1. CASE Create(u) \/ Open(u) \/ Seek(u) \/ Close(u) \/ Remove(u)
    <3>1. call[u] = NoCall /\ call' = call
      BY <2>1 DEF Create, Open, Seek, Close, Remove, Does, Runs
    <3> QED
      BY <1>4, <3>1
  <2>2. CASE Transfer(u) \/ StartCopy(u)
    <3>1. call[u] = NoCall
      BY <2>2 DEF Transfer, StartCopy, Does, Runs
    <3> QED
      BY <1>1, <1>4, <2>2, <3>1, TransferAsks, StartCopyAsks
  <2>3. CASE ReadSector(u) \/ WriteSector(u) \/ CopySector(u)
    <3>1. PICK c, d, i : Works(u, c, d, i)
      BY <1>1, <2>3, GetIs, PutIs
    <3>2. c = call[u] /\ c # NoCall /\ d = call'[u] /\ Same(c, d)
      BY <1>1, <3>1 DEF Works
    <3>3. Asked(u)
      BY <3>2 DEF Commanded
    <3>4. UNCHANGED <<handle, pc, script>>
      BY <2>3 DEF ReadSector, WriteSector, CopySector
    <3> QED
      BY <3>2, <3>3, <3>4, StillAsked
  <2>4. CASE Return(u)
    BY <1>1, <1>4, <2>4 DEF Return
  <2> QED
    BY <2>1, <2>2, <2>3, <2>4 DEF Step
<1>5. ASSUME NEW t \in Threads \ {u}, call'[t] # NoCall PROVE Asked(t)'
  <2>1. call'[t] = call[t] /\ pc'[t] = pc[t]
    BY <1>1, Others
  <2>2. Asked(t) /\ ~Finished(t) /\ At(t).do \in {"Read", "Write", "ReadAt", "WriteAt", "Copy"}
    BY <1>1, <1>5, <2>1 DEF Commanded, InCommand
  <2>3. At(t)' = At(t) /\ pc[t] \in DOMAIN script[t] /\ At(t) = script[t][pc[t]]
    BY <1>1, <1>2, <2>1, <2>2, Command DEF At
  <2>4. At(t).do \in OnHandle /\ At(t).h \in Handles
    BY <1>1, <2>2, Command DEF WellFormed, OnHandle
  <2>5. handle'[At(t).h] = handle[At(t).h]
    BY <2>3, <2>4, OwnHandle
  <2> QED
    BY <2>1, <2>2, <2>3, <2>5 DEF Asked
<1>6. ASSUME NEW h \in Handles, handle'[h].file # NoFile
      PROVE  \E v \in Threads : Opens(script[v], h, handle'[h].file)
  <2>1. CASE handle'[h].file = handle[h].file
    BY <1>6, <2>1 DEF Commanded
  <2>2. CASE handle'[h].file # handle[h].file
    <3>1. /\ ~Finished(u) /\ At(u).h = h /\ At(u).do = "Open" /\ handle'[h].file = At(u).f
      BY <1>6, <2>2, HandleSteps
    <3>2. pc[u] \in DOMAIN script[u] /\ At(u) = script[u][pc[u]]
      BY <1>1, <3>1, Command DEF At
    <3> QED
      BY <3>1, <3>2 DEF Opens
  <2> QED
    BY <2>1, <2>2
<1> QED
  BY <1>2, <1>3, <1>4, <1>5, <1>6 DEF Commanded

-----------------------------------------------------------------------------
(* What the tests read back.                                               *)

(* The bytes of a file that Copy has been through.                         *)
Copied(f, p) == content[f][p] = Unix[f][p + 1]

(* A thread that copies a file and prints it, the file not there at first. *)
CopyPrint(t, h, f) ==
  /\ pc[t] \in 1 .. 8
  /\ pc[t] = 1 => f \notin created
  /\ pc[t] \in {2, 3, 4, 6} => f \in created
  /\ pc[t] \in 1 .. 5 => output[t] = <<>>
  /\ pc[t] \in {3, 6} => handle[h].file = f
  /\ pc[t] = 3 /\ call[t] # NoCall =>
        \A p \in 0 .. Length[f] - 1 : p \notin Left(call[t]) => Copied(f, p)
  /\ pc[t] \in 4 .. 8 /\ f \in created => \A p \in 0 .. Length[f] - 1 : Copied(f, p)
  /\ pc[t] = 6 =>
        /\ handle[h].seekPosition <= Length[f]
        /\ output[t] = [k \in 1 .. handle[h].seekPosition |-> Unix[f][k]]
        /\ call[t] # NoCall =>
              \A p \in Span(call[t]) \ Left(call[t]) : call[t].buf[p] = Unix[f][p + 1]
  /\ pc[t] \in {7, 8} /\ f \in created => output[t] = Unix[f]

(* A thread that runs the performance test.                                *)
ContentSize == Len(Contents)
Again(p) == Contents[(p % ContentSize) + 1]
AtRound(i) == \E n \in Nat : i = n * ContentSize
Tested(f, p) == content[f][p] = Again(p)
Testing(t, h, f) ==
  /\ pc[t] \in 1 .. 9 /\ complained[t] = FALSE
  /\ pc[t] = 1 => f \notin created
  /\ pc[t] \in 2 .. 8 => f \in created
  /\ pc[t] \notin {3, 6} => done[t] = 0
  /\ pc[t] \in {3, 6} =>
        /\ handle[h].file = f /\ handle[h].seekPosition = done[t] /\ done[t] < Length[f]
        /\ AtRound(done[t])
  /\ pc[t] = 3 => \A p \in 0 .. done[t] - 1 : Tested(f, p)
  /\ pc[t] = 3 /\ call[t] # NoCall => \A p \in Span(call[t]) \ Left(call[t]) : Tested(f, p)
  /\ pc[t] \in 4 .. 8 => \A p \in 0 .. Length[f] - 1 : Tested(f, p)
  /\ pc[t] = 6 /\ call[t] # NoCall =>
        \A p \in Span(call[t]) \ Left(call[t]) : call[t].buf[p] = Again(p)

(* All that is known of the scripts of the tests.                          *)
TestInv ==
  /\ \A t \in Threads, h \in Handles, f \in Files \ Present :
        script[t] = Copy(h, f) \o PrintFile(h, f) => CopyPrint(t, h, f)
  /\ \A t \in Threads, h \in Handles, f \in Files :
        script[t] = PerformanceTest(h, f) => Testing(t, h, f)
  /\ \A t \in Threads : (\A h \in Handles, f \in Files : script[t] # PerformanceTest(h, f))
        => complained[t] = FALSE

(* A function of a few commands after another.                             *)
LEMMA Sequel ==
  ASSUME NEW a, NEW b, NEW c, NEW d, NEW e, NEW x, NEW y, NEW z
  PROVE  LET q == <<a, b, c, d>> \o <<e, x, y>>
             r == q \o <<z>>
         IN  /\ Len(q) = 7 /\ DOMAIN q = 1 .. 7
             /\ q[1] = a /\ q[2] = b /\ q[3] = c /\ q[4] = d /\ q[5] = e /\ q[6] = x /\ q[7] = y
             /\ Len(r) = 8 /\ DOMAIN r = 1 .. 8
             /\ r[1] = a /\ r[2] = b /\ r[3] = c /\ r[4] = d /\ r[5] = e /\ r[6] = x /\ r[7] = y
             /\ r[8] = z
<1> DEFINE S == {a, b, c, d, e, x, y, z}
           q == <<a, b, c, d>> \o <<e, x, y>>
           r == q \o <<z>>
<1>1. <<a, b, c, d>> \in Seq(S) /\ <<e, x, y>> \in Seq(S) /\ <<z>> \in Seq(S)
  OBVIOUS
<1>2. /\ q \in Seq(S) /\ Len(q) = 7 /\ DOMAIN q = 1 .. 7
      /\ q[1] = a /\ q[2] = b /\ q[3] = c /\ q[4] = d /\ q[5] = e /\ q[6] = x /\ q[7] = y
  BY <1>1
<1> HIDE DEF q, S
<1>3. \A Q \in Seq(S), W \in Seq(S) :
         /\ Q \o W \in Seq(S) /\ Len(Q \o W) = Len(Q) + Len(W)
         /\ \A k \in 1 .. Len(Q) + Len(W) : (Q \o W)[k] = IF k <= Len(Q) THEN Q[k] ELSE W[k - Len(Q)]
  OBVIOUS
<1>4. <<z>> \in Seq(S) /\ Len(<<z>>) = 1 /\ <<z>>[1] = z
  BY <1>1
<1>5. /\ r \in Seq(S) /\ Len(r) = 8
      /\ \A k \in 1 .. 8 : r[k] = IF k <= 7 THEN q[k] ELSE <<z>>[k - 7]
  <2>1. PICK w : w = <<z>>
    OBVIOUS
  <2>2. w \in Seq(S) /\ Len(w) = 1 /\ r = q \o w
    BY <1>4, <2>1
  <2> HIDE DEF r
  <2>3. r \in Seq(S) /\ Len(r) = Len(q) + Len(w)
    BY <1>2, <1>3, <2>2
  <2>4. \A k \in 1 .. Len(q) + Len(w) : r[k] = IF k <= Len(q) THEN q[k] ELSE w[k - Len(q)]
    BY <1>2, <1>3, <2>2
  <2>5. Len(q) + Len(w) = 8 /\ Len(q) = 7
    BY <1>2, <2>2
  <2> QED
    BY <2>1, <2>3, <2>4, <2>5
<1> HIDE DEF r
<1>6. DOMAIN r = 1 .. 8 /\ r[8] = z /\ \A k \in 1 .. 7 : r[k] = q[k]
  BY <1>4, <1>5
<1> QED
  BY <1>2, <1>5, <1>6 DEF q, r

(* The commands of those scripts.                                          *)
LEMMA CopyPrintIs ==
  ASSUME NEW h, NEW f, NEW s, s = Copy(h, f) \o PrintFile(h, f)
  PROVE  /\ Len(s) = 7 /\ DOMAIN s = 1 .. 7
         /\ s[1] = CreateC(f, 3) /\ s[2] = OpenC(h, f, Abort) /\ s[3] = CopyC(h)
         /\ s[4] = CloseC(h) /\ s[5] = OpenC(h, f, 2) /\ s[6] = ReadC(h, TransferSize, "print")
         /\ s[7] = CloseC(h)
<1>1. PICK a, b, c, d, e, x, y : /\ a = CreateC(f, 3) /\ b = OpenC(h, f, Abort) /\ c = CopyC(h)
        /\ d = CloseC(h) /\ e = OpenC(h, f, 2) /\ x = ReadC(h, TransferSize, "print")
        /\ y = CloseC(h)
  OBVIOUS
<1>2. s = <<a, b, c, d>> \o <<e, x, y>>
  BY <1>1 DEF Copy, PrintFile
<1> QED
  BY <1>1, <1>2, Sequel

(* FileWrite, FileRead and Remove, one after another.                      *)
LEMMA PerformanceTestIs ==
  ASSUME NEW h, NEW f, NEW s, s = PerformanceTest(h, f)
  PROVE  /\ Len(s) = 8 /\ DOMAIN s = 1 .. 8
         /\ s[1] = CreateC(f, 3) /\ s[2] = OpenC(h, f, 2) /\ s[3] = WriteC(h, Contents, "write")
         /\ s[4] = CloseC(h) /\ s[5] = OpenC(h, f, 2) /\ s[6] = ReadC(h, Len(Contents), "check")
         /\ s[7] = CloseC(h) /\ s[8] = RemoveC(f)
<1>1. PICK a, b, c, d, e, x, y, z : /\ a = CreateC(f, 3) /\ b = OpenC(h, f, 2)
        /\ c = WriteC(h, Contents, "write") /\ d = CloseC(h) /\ e = OpenC(h, f, 2)
        /\ x = ReadC(h, Len(Contents), "check") /\ y = CloseC(h) /\ z = RemoveC(f)
  OBVIOUS
<1>2. s = <<a, b, c, d>> \o <<e, x, y>> \o <<z>>
  BY <1>1 DEF PerformanceTest, FileWrite, FileRead
<1> QED
  BY <1>1, <1>2, Sequel

(* The actions of a thread, by the command it is at.                       *)
LEMMA Which ==
  ASSUME InCommand, NEW t \in Threads, Step(t)
  PROVE  /\ ~Finished(t)
         /\ call[t] = NoCall =>
               \/ At(t).do = "Create" /\ Create(t)
               \/ At(t).do = "Open" /\ Open(t)
               \/ At(t).do = "Seek" /\ Seek(t)
               \/ At(t).do = "Close" /\ Close(t)
               \/ At(t).do = "Remove" /\ Remove(t)
               \/ At(t).do \in {"Read", "Write", "ReadAt", "WriteAt"} /\ Transfer(t)
               \/ At(t).do = "Copy" /\ StartCopy(t)
         /\ call[t] # NoCall =>
               /\ At(t).do \in {"Read", "Write", "ReadAt", "WriteAt", "Copy"}
               /\ ReadSector(t) \/ WriteSector(t) \/ CopySector(t) \/ Return(t)
<1>1. CASE call[t] = NoCall
  <2>1. ~ReadSector(t) /\ ~WriteSector(t) /\ ~CopySector(t) /\ ~Return(t)
    BY <1>1 DEF ReadSector, WriteSector, CopySector, Return, Doing
  <2>2. /\ Create(t) => At(t).do = "Create" /\ ~Finished(t)
        /\ Open(t) => At(t).do = "Open" /\ ~Finished(t)
        /\ Seek(t) => At(t).do = "Seek" /\ ~Finished(t)
        /\ Close(t) => At(t).do = "Close" /\ ~Finished(t)
        /\ Remove(t) => At(t).do = "Remove" /\ ~Finished(t)
        /\ Transfer(t) => At(t).do \in {"Read", "Write", "ReadAt", "WriteAt"} /\ ~Finished(t)
        /\ StartCopy(t) => At(t).do = "Copy" /\ ~Finished(t)
    BY DEF Create, Open, Seek, Close, Remove, Transfer, StartCopy, Does, Runs
  <2> QED
    BY <1>1, <2>1, <2>2 DEF Step
<1>2. CASE call[t] # NoCall
  <2>1. ~Create(t) /\ ~Open(t) /\ ~Seek(t) /\ ~Close(t) /\ ~Remove(t) /\ ~Transfer(t) /\ ~StartCopy(t)
    BY <1>2 DEF Create, Open, Seek, Close, Remove, Transfer, StartCopy, Does, Runs
  <2> QED
    BY <1>2, <2>1 DEF Step, InCommand
<1> QED
  BY <1>1, <1>2

(* A call returns: nothing of its range is left, and the caller's loop     *)
(* gets what there was.                                                    *)
Into(c) == [k \in 1 .. IF c.kind = "read" THEN numBytes(c) ELSE 0 |-> c.buf[c.at + k - 1]]

LEMMA ReturnIs ==
  ASSUME IInv, Commanded, NEW t \in Threads, Return(t), NEW c, c = call[t]
  PROVE  /\ c # NoCall /\ Asked(t) /\ Asks(c) /\ Left(c) = {} /\ call'[t] = NoCall
         /\ numBytes(c) \in Nat /\ Span(c) = c.at .. c.at + numBytes(c) - 1
         /\ Loop(t, At(t), numBytes(c), Into(c))
         /\ UNCHANGED <<disk, created, script>> /\ content' = content
         /\ \A h \in Handles : handle'[h].file = handle[h].file
         /\ c.advances => handle'[At(t).h].seekPosition = handle[At(t).h].seekPosition + numBytes(c)
<1>1. InCall /\ DOMAIN call = Threads /\ handle \in [Handles -> [file : Files \cup {NoFile}, seekPosition : Nat]]
  BY DEF IInv, SectorInv, TypeOK
<1>2. c # NoCall /\ c.queue = <<>> /\ UNCHANGED <<disk, created, script>> /\ call'[t] = NoCall
  BY <1>1 DEF Return
<1>3. Asked(t) /\ Request(c) /\ Asks(c) /\ c.h \in Handles /\ c.h = At(t).h
  BY <1>1, <1>2, RequestAsks DEF InCall, Commanded, Asked, Request
<1>4. numBytes(c) \in Nat /\ Span(c) = c.at .. c.at + numBytes(c) - 1
  BY <1>3, RangeIs
<1>5. Left(c) = {}
  BY <1>2 DEF Left
<1>6. /\ Loop(t, At(t), numBytes(c), Into(c))
      /\ handle' = IF c.advances THEN [handle EXCEPT ![c.h].seekPosition = @ + numBytes(c)] ELSE handle
  BY Zenon DEF Return, Into
<1>7. content' = content
  BY <1>2 DEF content
<1>8. \A h \in Handles : handle'[h].file = handle[h].file
  <2> HIDE DEF numBytes
  <2>1. CASE c.advances
    BY <1>1, <1>6, <2>1
  <2>2. CASE ~c.advances
    BY <1>6, <2>2
  <2> QED
    BY <2>1, <2>2
<1>9. c.advances => handle'[At(t).h].seekPosition = handle[At(t).h].seekPosition + numBytes(c)
  BY <1>1, <1>3, <1>6
<1> QED
  BY <1>2, <1>3, <1>4, <1>5, <1>6, <1>7, <1>8, <1>9

(* The UNIX file is as long as the copy of it.                             *)
LEMMA UnixIs ==
  ASSUME NEW f \in Files
  PROVE  Length[f] \in Nat /\ Unix[f] = [k \in 1 .. Length[f] |-> Unix[f][k]]
  BY OpenFileAssumption

(* Nothing has been printed yet.                                           *)
LEMMA NoneYet ==
  ASSUME NEW u
  PROVE  <<>> = [k \in 1 .. 0 |-> u[k]]
<1>1. PICK g : g = [k \in 1 .. 0 |-> u[k]]
  OBVIOUS
<1>2. g \in Seq({}) /\ Len(g) = 0
  BY <1>1
<1> QED
  BY <1>1, <1>2

(* A thread of a test goes from command to command.                        *)
LEMMA Goes2 ==
  ASSUME TypeOK, NEW t \in Threads, NEW n, Goto(t, n)
  PROVE  pc'[t] = n
  BY DEF Goto, TypeOK

(* What a thread opens is what it asks for.                                *)
LEMMA Opened ==
  ASSUME TypeOK, NEW t \in Threads, Open(t), At(t).h \in Handles
  PROVE  /\ UNCHANGED <<disk, created, call, output, done, complained>> /\ content' = content
         /\ At(t).f \in created =>
               /\ pc'[t] = pc[t] + 1
               /\ handle'[At(t).h].file = At(t).f /\ handle'[At(t).h].seekPosition = 0
         /\ At(t).f \notin created => pc'[t] = pc[t] + 1 + At(t).skip
<1>1. UNCHANGED <<disk, created, call, output, done, complained>>
  BY DEF Open
<1>2. content' = content
  BY <1>1 DEF content
<1> QED
  BY <1>1, <1>2, Goes2 DEF Open, TypeOK

(* Close only lets go of the handle.                                       *)
LEMMA Closes ==
  ASSUME TypeOK, NEW t \in Threads, Close(t)
  PROVE  /\ UNCHANGED <<disk, created, call, output, done, complained>> /\ content' = content
         /\ pc'[t] = pc[t] + 1 /\ call[t] = NoCall
<1>1. UNCHANGED <<disk, created, call, output, done, complained>>
  BY DEF Close
<1>2. content' = content
  BY <1>1 DEF content
<1> QED
  BY <1>1, <1>2, Goes2 DEF Close, Does, Runs

(* Create goes on with the file there, or leaves its function.             *)
LEMMA Creates ==
  ASSUME TypeOK, NEW t \in Threads, Create(t)
  PROVE  /\ UNCHANGED <<disk, handle, call, output, done, complained>> /\ content' = content
         /\ At(t).f \in created \cup NoRoom => pc'[t] = pc[t] + 1 + At(t).skip /\ created' = created
         /\ At(t).f \notin created \cup NoRoom =>
               pc'[t] = pc[t] + 1 /\ created' = created \cup {At(t).f}
<1>1. UNCHANGED <<disk, handle, call, output, done, complained>>
  BY DEF Create
<1>2. content' = content
  BY <1>1 DEF content
<1> QED
  BY <1>1, <1>2, Goes2 DEF Create

(* The first commands of Copy.                                             *)
LEMMA CopyPrintBegins ==
  ASSUME IInv, NEW t \in Threads, NEW h \in Handles, NEW f \in Files,
         script[t] = Copy(h, f) \o PrintFile(h, f), CopyPrint(t, h, f), Step(t),
         pc[t] \in {1, 2, 4, 5, 7}
  PROVE  CopyPrint(t, h, f)'
<1>1. TypeOK /\ InCommand
  BY DEF IInv, SectorInv
<1>2. At(t) = script[t][pc[t]]
  BY DEF At
<1>0. /\ script[t][1] = CreateC(f, 3) /\ script[t][2] = OpenC(h, f, Abort)
      /\ script[t][4] = CloseC(h) /\ script[t][5] = OpenC(h, f, 2) /\ script[t][7] = CloseC(h)
  <2>1. PICK s : s = script[t]
    OBVIOUS
  <2>2. s = Copy(h, f) \o PrintFile(h, f)
    BY <2>1
  <2>3. /\ s[1] = CreateC(f, 3) /\ s[2] = OpenC(h, f, Abort)
        /\ s[4] = CloseC(h) /\ s[5] = OpenC(h, f, 2) /\ s[7] = CloseC(h)
    BY <2>2, CopyPrintIs, ZenonT(40)
  <2> QED
    BY <2>1, <2>3, Zenon
<1>3. CASE pc[t] = 1
  <2>1. At(t) = CreateC(f, 3)
    BY <1>0, <1>2, <1>3, Zenon
  <2>2. At(t).do = "Create" /\ At(t).f = f /\ At(t).skip = 3
    BY <2>1 DEF CreateC
  <2>3. Create(t)
    BY <1>1, <2>2, Which
  <2>4. UNCHANGED <<handle, call, output>> /\ ((pc'[t] = 5 /\ created' = created) \/ (pc'[t] = 2 /\ f \in created'))
    BY <1>1, <1>3, <2>2, <2>3, Creates
  <2>5. f \notin created /\ output[t] = <<>>
    BY <1>3 DEF CopyPrint
  <2> QED
    BY <2>4, <2>5 DEF CopyPrint
<1>4. CASE pc[t] = 2
  <2>1. At(t) = OpenC(h, f, Abort)
    BY <1>0, <1>2, <1>4, Zenon
  <2>2. At(t).do = "Open" /\ At(t).f = f /\ At(t).h = h
    BY <2>1 DEF OpenC
  <2>3. Open(t) /\ call[t] = NoCall
    BY <1>1, <2>2, Which
  <2>4. f \in created /\ output[t] = <<>>
    BY <1>4 DEF CopyPrint
  <2>5. /\ UNCHANGED <<created, call, output>> /\ pc'[t] = 3 /\ handle'[h].file = f
    BY <1>1, <1>4, <2>2, <2>3, <2>4, Opened
  <2> QED
    BY <2>3, <2>4, <2>5 DEF CopyPrint
<1>5. CASE pc[t] = 4
  <2>1. At(t) = CloseC(h)
    BY <1>0, <1>2, <1>5, Zenon
  <2>2. Close(t)
    BY <1>1, <2>1, Which DEF CloseC
  <2>3. UNCHANGED <<created, output>> /\ pc'[t] = 5 /\ content' = content
    BY <1>1, <1>5, <2>2, Closes
  <2>4. output[t] = <<>> /\ \A p \in 0 .. Length[f] - 1 : Copied(f, p)
    BY <1>5 DEF CopyPrint
  <2>5. \A p \in 0 .. Length[f] - 1 : Copied(f, p)'
    BY <2>3, <2>4 DEF Copied
  <2> QED
    BY <2>3, <2>4, <2>5 DEF CopyPrint
<1>6. CASE pc[t] = 5
  <2>1. At(t) = OpenC(h, f, 2)
    BY <1>0, <1>2, <1>6, Zenon
  <2>2. At(t).do = "Open" /\ At(t).f = f /\ At(t).h = h /\ At(t).skip = 2
    BY <2>1 DEF OpenC
  <2>3. Open(t) /\ call[t] = NoCall
    BY <1>1, <2>2, Which
  <2>4. /\ output[t] = <<>>
        /\ f \in created => \A p \in 0 .. Length[f] - 1 : Copied(f, p)
    BY <1>6 DEF CopyPrint
  <2>5. UNCHANGED <<created, call, output>> /\ content' = content
    BY <1>1, <2>2, <2>3, Opened
  <2>6. f \in created => \A p \in 0 .. Length[f] - 1 : Copied(f, p)'
    BY <2>4, <2>5 DEF Copied
  <2>7. CASE f \in created
    <3>1. pc'[t] = 6 /\ handle'[h].file = f /\ handle'[h].seekPosition = 0
      BY <1>1, <1>6, <2>2, <2>3, <2>7, Opened
    <3>2. <<>> = [k \in 1 .. 0 |-> Unix[f][k]] /\ 0 <= Length[f]
      <4>1. 0 <= Length[f]
        BY LengthsAre
      <4>2. PICK u : u = Unix[f]
        OBVIOUS
      <4>3. <<>> = [k \in 1 .. 0 |-> u[k]]
        BY NoneYet
      <4> QED
        BY <4>1, <4>2, <4>3
    <3> QED
      BY <2>3, <2>4, <2>5, <2>6, <2>7, <3>1, <3>2 DEF CopyPrint
  <2>8. CASE f \notin created
    <3>1. pc'[t] = 8
      BY <1>1, <1>6, <2>2, <2>3, <2>8, Opened
    <3> QED
      BY <2>5, <2>8, <3>1 DEF CopyPrint
  <2> QED
    BY <2>7, <2>8
<1>7. CASE pc[t] = 7
  <2>1. At(t) = CloseC(h)
    BY <1>0, <1>2, <1>7, Zenon
  <2>2. Close(t)
    BY <1>1, <2>1, Which DEF CloseC
  <2>3. UNCHANGED <<created, output>> /\ pc'[t] = 8 /\ content' = content
    BY <1>1, <1>7, <2>2, Closes
  <2>4. f \in created => output[t] = Unix[f] /\ \A p \in 0 .. Length[f] - 1 : Copied(f, p)
    BY <1>7 DEF CopyPrint
  <2>5. f \in created => \A p \in 0 .. Length[f] - 1 : Copied(f, p)'
    BY <2>3, <2>4 DEF Copied
  <2> QED
    BY <2>3, <2>4, <2>5 DEF CopyPrint
<1> QED
  BY <1>3, <1>4, <1>5, <1>6, <1>7

(* Copy goes through the file, sector by sector.                           *)
LEMMA CopyPrintCopies ==
  ASSUME IInv, Commanded, NEW t \in Threads, NEW h \in Handles, NEW f \in Files,
         script[t] = Copy(h, f) \o PrintFile(h, f), CopyPrint(t, h, f), Step(t), pc[t] = 3
  PROVE  CopyPrint(t, h, f)'
<1>1. SectorInv /\ TypeOK /\ InCommand /\ InCall /\ DOMAIN call = Threads
  BY DEF IInv, SectorInv, TypeOK
<1>2. At(t) = CopyC(h)
  BY CopyPrintIs DEF At
<1>3. At(t).do = "Copy" /\ At(t).h = h /\ At(t).loop = "once"
  BY <1>2 DEF CopyC
<1>4. /\ f \in created /\ output[t] = <<>> /\ handle[h].file = f
      /\ call[t] # NoCall => \A p \in 0 .. Length[f] - 1 : p \notin Left(call[t]) => Copied(f, p)
  BY DEF CopyPrint
<1>5. CASE call[t] = NoCall
  <2>1. StartCopy(t)
    BY <1>1, <1>3, <1>5, Which
  <2>2. UNCHANGED <<created, handle, pc, output, script>>
    BY <2>1 DEF StartCopy
  <2>3. PICK d : call' = [call EXCEPT ![t] = d] /\ d # NoCall /\ Asked(t)' /\ Left(d) = Span(d)
    BY <1>1, <2>1, StartCopyAsks
  <2>4. call'[t] = d /\ At(t)' = At(t)
    BY <1>1, <2>2, <2>3 DEF At
  <2>5. d.h = h /\ d.f = f /\ d.kind = "copy"
    BY <1>3, <1>4, <2>2, <2>3, <2>4 DEF Asked
  <2>6. InCall'
    BY StepInv DEF IInv, SectorInv
  <2>7. Request(d)
    BY <2>3, <2>4, <2>6 DEF InCall
  <2>8. d.at = 0 /\ d.n = Length[f] /\ Length[f] \in Nat
    BY <2>5, <2>7, LengthsAre DEF Request
  <2>9. \A p \in 0 .. Length[f] - 1 : p \in Left(d)
    BY <2>3, <2>5, <2>8 DEF Span
  <2> QED
    BY <1>4, <2>2, <2>4, <2>9 DEF CopyPrint
<1>6. CASE call[t] # NoCall
  <2>1. PICK c : c = call[t]
    OBVIOUS
  <2>2. c.h = h /\ c.f = f /\ c.kind = "copy" /\ c.from = Unix[f]
    BY <1>3, <1>4, <1>6, <2>1 DEF Commanded, Asked
  <2>3. c.at = 0 /\ Length[f] \in Nat
    BY <1>1, <1>6, <2>1, <2>2, LengthsAre DEF InCall, Request
  <2>4. CASE ReadSector(t) \/ WriteSector(t) \/ CopySector(t)
    <3>1. UNCHANGED <<created, handle, pc, output>>
      BY <2>4 DEF ReadSector, WriteSector, CopySector
    <3>2. PICK d : /\ call'[t] = d
                   /\ \A p \in 0 .. Length[f] - 1 : p \notin Left(d) => Copied(f, p)'
      <4>1. CASE ReadSector(t)
        <5>1. PICK b, d, i : Works(t, b, d, i) /\ (b.kind # "read" => Left(d) = Left(b))
          BY <1>1, <4>1, GetIs
        <5>2. b = c /\ call'[t] = d
          BY <1>1, <2>1, <5>1 DEF Works
        <5>3. content' = content
          BY <4>1 DEF ReadSector, content
        <5>4. Left(d) = Left(c)
          BY <2>2, <5>1, <5>2
        <5>5. \A p \in 0 .. Length[f] - 1 : p \notin Left(d) => Copied(f, p)'
          BY <1>4, <1>6, <2>1, <5>3, <5>4 DEF Copied
        <5> QED
          BY <5>2, <5>5
      <4>2. CASE WriteSector(t) \/ CopySector(t)
        <5>1. PICK b, d, i : /\ Works(t, b, d, i)
                      /\ \A g \in Files : \A p \in 0 .. Length[g] - 1 :
                            content'[g][p] = IF g = b.f /\ p \in Left(b) \ Left(d)
                                             THEN b.from[p - b.at + 1] ELSE content[g][p]
          BY <1>1, <4>2, PutIs
        <5>2. b = c /\ call'[t] = d
          BY <1>1, <2>1, <5>1 DEF Works
        <5>3. ASSUME NEW p \in 0 .. Length[f] - 1, p \notin Left(d) PROVE Copied(f, p)'
          <6>1. content'[f][p] = IF p \in Left(c) THEN Unix[f][p + 1] ELSE content[f][p]
            <7>1. p - c.at + 1 = p + 1
              BY <2>3
            <7> HIDE DEF content
            <7> QED
              BY <2>2, <5>1, <5>2, <5>3, <7>1
          <6>2. p \notin Left(c) => Copied(f, p)
            BY <1>4, <1>6, <2>1
          <6> HIDE DEF content
          <6> QED
            BY <6>1, <6>2 DEF Copied
        <5> QED
          BY <5>2, <5>3
      <4> QED
        BY <2>4, <4>1, <4>2
    <3> QED
      BY <1>4, <3>1, <3>2 DEF CopyPrint
  <2>5. CASE Return(t)
    <3>1. /\ Left(c) = {} /\ created' = created /\ content' = content
          /\ Loop(t, At(t), numBytes(c), Into(c))
      BY <2>1, <2>5, ReturnIs
    <3>2. Goto(t, pc[t] + 1) /\ output' = output
      BY <1>3, <3>1 DEF Loop, GoesOn
    <3>3. pc'[t] = 4
      BY <1>1, <3>2, Goes2
    <3>4. \A p \in 0 .. Length[f] - 1 : Copied(f, p)'
      BY <1>4, <1>6, <2>1, <3>1 DEF Copied
    <3> QED
      BY <1>4, <3>1, <3>2, <3>3, <3>4 DEF CopyPrint
  <2> QED
    BY <1>1, <1>6, <2>4, <2>5, Which
<1> QED
  BY <1>5, <1>6

(* What a Read of a file has got is what the file holds.                   *)
GotAll(c, want) == \A p \in Span(c) \ Left(c) : c.buf[p] = want[p]

(* A Read under way goes on getting what the file holds.                   *)
LEMMA ReadsOn ==
  ASSUME IInv, Commanded, NEW t \in Threads, Step(t), call[t] # NoCall, ~Return(t),
         At(t).do = "Read", NEW c, c = call[t], NEW f, c.f = f, f \in Files,
         NEW want, GotAll(c, want), \A p \in 0 .. Length[f] - 1 : content[f][p] = want[p]
  PROVE  /\ GotAll(call'[t], want) /\ content' = content
         /\ UNCHANGED <<created, handle, pc, output, done, complained>>
<1>1. SectorInv /\ DOMAIN call = Threads /\ InCommand
  BY DEF IInv, SectorInv, TypeOK
<1>2. c.kind = "read"
  BY DEF Commanded, Asked
<1>3. ~WriteSector(t) /\ ~CopySector(t)
  BY <1>2 DEF WriteSector, CopySector
<1>4. ReadSector(t)
  BY <1>1, <1>3, Which
<1>5. PICK b, d, i : /\ Works(t, b, d, i) /\ Left(d) \subseteq Left(b)
                     /\ b.kind = "read" => \A p \in Span(b) \ Left(d) :
                            \/ p \notin Left(b) /\ d.buf[p] = b.buf[p]
                            \/ d.buf[p] = content[b.f][p]
  BY <1>1, <1>4, GetIs
<1>6. b = c /\ call'[t] = d /\ Same(c, d) /\ Request(c)
  BY <1>1, <1>5 DEF Works, CallInv
<1>7. Span(d) = Span(c)
  BY <1>6, SameRange DEF Same
<1>8. Span(c) \subseteq 0 .. Length[f] - 1
  <2>1. Asks(c) /\ Length[f] \in Nat
    BY <1>6, RequestAsks, LengthsAre
  <2>2. Span(c) \subseteq {p \in Nat : p < Length[f]}
    BY <2>1, RangeIs
  <2> QED
    BY <2>1, <2>2
<1>9. GotAll(d, want)
  <2> SUFFICES ASSUME NEW p \in Span(d) \ Left(d) PROVE d.buf[p] = want[p]
    BY DEF GotAll
  <2>1. p \in Span(c) /\ p \in 0 .. Length[f] - 1
    BY <1>7, <1>8
  <2>2. \/ p \notin Left(c) /\ d.buf[p] = c.buf[p]
        \/ d.buf[p] = content[f][p]
    BY <1>2, <1>5, <1>6, <2>1
  <2> HIDE DEF content
  <2> QED
    BY <2>1, <2>2 DEF GotAll
<1>10. UNCHANGED <<disk, created, handle, pc, output, done, complained>>
  BY <1>4 DEF ReadSector
<1>11. content' = content
  BY <1>10 DEF content
<1> QED
  BY <1>6, <1>9, <1>10, <1>11

(* What a Read has answered, after what those before it had.               *)
LEMMA Appended ==
  ASSUME NEW a \in Nat, NEW n \in Nat, NEW U, NEW g, NEW r,
         g = [k \in 1 .. a |-> U[k]], r = [k \in 1 .. n |-> U[a + k]]
  PROVE  g \o r = [k \in 1 .. a + n |-> U[k]]
<1> DEFINE S == {U[k] : k \in 1 .. a + n}
<1>1. g \in Seq(S) /\ Len(g) = a
  OBVIOUS
<1>2. r \in Seq(S) /\ Len(r) = n
  <2>1. \A k \in 1 .. n : U[a + k] \in S
    <3>1. \A k \in 1 .. n : a + k \in 1 .. a + n
      OBVIOUS
    <3> QED
      BY <3>1
  <2> HIDE DEF S
  <2> QED
    BY <2>1
<1>3. \A k \in 1 .. a + n : (g \o r)[k] = U[k]
  <2> SUFFICES ASSUME NEW k \in 1 .. a + n PROVE (g \o r)[k] = U[k]
    OBVIOUS
  <2>1. (g \o r)[k] = IF k <= a THEN g[k] ELSE r[k - a]
    <3> HIDE DEF S
    <3> QED
      BY <1>1, <1>2
  <2>2. CASE k <= a
    BY <2>1, <2>2
  <2>3. CASE ~(k <= a)
    <3>1. k - a \in 1 .. n /\ a + (k - a) = k
      BY <2>3
    <3>2. r[k - a] = U[a + (k - a)]
      BY <3>1
    <3> QED
      BY <2>1, <2>3, <3>1, <3>2
  <2> QED
    BY <2>2, <2>3
<1> HIDE DEF S
<1>4. g \o r \in Seq(S) /\ Len(g \o r) = a + n
  BY <1>1, <1>2
<1>5. DOMAIN (g \o r) = 1 .. a + n /\ g \o r = [k \in DOMAIN (g \o r) |-> (g \o r)[k]]
  BY <1>4
<1> QED
  BY <1>3, <1>5

(* Print goes through the file, TransferSize bytes at a time.              *)
LEMMA PrintReturns ==
  ASSUME IInv, Commanded, NEW t \in Threads, NEW h \in Handles, NEW f \in Files,
         script[t] = Copy(h, f) \o PrintFile(h, f), CopyPrint(t, h, f), Return(t), pc[t] = 6
  PROVE  CopyPrint(t, h, f)'
<1>1. TypeOK
  BY DEF IInv, SectorInv
<1>2. At(t) = ReadC(h, TransferSize, "print")
  BY CopyPrintIs DEF At
<1>3. At(t).do = "Read" /\ At(t).h = h /\ At(t).n = TransferSize /\ At(t).loop = "print"
  BY <1>2 DEF ReadC
<1>4. PICK c : c = call[t]
  OBVIOUS
<1>5. /\ f \in created /\ handle[h].file = f /\ handle[h].seekPosition <= Length[f]
      /\ \A p \in 0 .. Length[f] - 1 : Copied(f, p)
      /\ output[t] = [k \in 1 .. handle[h].seekPosition |-> Unix[f][k]]
      /\ c # NoCall => \A p \in Span(c) \ Left(c) : c.buf[p] = Unix[f][p + 1]
  BY <1>4 DEF CopyPrint
<1>6. PICK n : n = numBytes(c)
  OBVIOUS
<1>7. /\ c # NoCall /\ Asked(t) /\ Asks(c) /\ Left(c) = {} /\ n \in Nat
      /\ Span(c) = c.at .. c.at + n - 1 /\ Loop(t, At(t), n, Into(c)) /\ created' = created
      /\ content' = content /\ handle'[h].file = handle[h].file
      /\ c.advances => handle'[h].seekPosition = handle[h].seekPosition + n
  BY <1>3, <1>4, <1>6, ReturnIs
<1>8. /\ c.kind = "read" /\ c.f = f /\ c.n = TransferSize /\ c.at = handle[h].seekPosition
      /\ c.advances
  BY <1>3, <1>4, <1>5, <1>7 DEF Asked
<1>9. PICK at : at = c.at
  OBVIOUS
<1>10. at \in Nat /\ Length[f] \in Nat /\ at <= Length[f] /\ TransferSize \in Nat \ {0}
  <2>1. TransferSize \in Nat \ {0}
    BY OpenFileAssumption
  <2> QED
    BY <1>5, <1>7, <1>8, <1>9, <2>1, LengthsAre DEF Asks
<1>11. at + n <= Length[f]
  BY <1>6, <1>7, <1>8, <1>9, <1>10, RangeIs
<1>12. n = 0 => at = Length[f]
  BY <1>6, <1>8, <1>9, <1>10 DEF numBytes
<1>13. Into(c) = [k \in 1 .. n |-> Unix[f][at + k]]
  <2>1. Into(c) = [k \in 1 .. n |-> c.buf[at + k - 1]]
    BY <1>6, <1>8, <1>9 DEF Into
  <2>2. ASSUME NEW k \in 1 .. n PROVE c.buf[at + k - 1] = Unix[f][at + k]
    <3>1. at + k - 1 \in Span(c) \ Left(c) /\ at + k - 1 + 1 = at + k
      BY <1>7, <1>9, <1>10
    <3> QED
      BY <1>5, <1>7, <3>1
  <2> QED
    BY <2>1, <2>2
<1>14. output[t] \o Into(c) = [k \in 1 .. at + n |-> Unix[f][k]]
  <2>1. PICK U : U = Unix[f]
    OBVIOUS
  <2>2. output[t] = [k \in 1 .. at |-> U[k]] /\ Into(c) = [k \in 1 .. n |-> U[at + k]]
    BY <1>5, <1>8, <1>9, <1>13, <2>1
  <2>3. output[t] \o Into(c) = [k \in 1 .. at + n |-> U[k]]
    BY <1>7, <1>10, <2>2, Appended
  <2> QED
    BY <2>1, <2>3
<1>15. output'[t] = [k \in 1 .. at + n |-> Unix[f][k]]
  <2>1. output' = [output EXCEPT ![t] = @ \o Into(c)]
    BY <1>3, <1>7 DEF Loop
  <2> QED
    BY <1>14, <2>1 DEF Commanded
<1>16. pc'[t] = IF n > 0 THEN 6 ELSE 7
  <2>1. Goto(t, IF n > 0 THEN pc[t] ELSE pc[t] + 1)
    BY <1>3, <1>7 DEF Loop, GoesOn
  <2> QED
    BY <1>1, <2>1, Goes2
<1>17. handle'[h].file = f /\ handle'[h].seekPosition = at + n
  BY <1>5, <1>7, <1>8, <1>9
<1>18. \A p \in 0 .. Length[f] - 1 : Copied(f, p)'
  BY <1>5, <1>7 DEF Copied
<1>19. call'[t] = NoCall
  BY ReturnIs
<1>20. n = 0 => output'[t] = Unix[f]
  <2>1. Unix[f] = [k \in 1 .. Length[f] |-> Unix[f][k]]
    BY UnixIs
  <2>2. n = 0 => at + n = Length[f]
    BY <1>10, <1>12
  <2> QED
    BY <1>15, <2>1, <2>2
<1>21. CASE n > 0
  BY <1>5, <1>7, <1>11, <1>15, <1>16, <1>17, <1>18, <1>19, <1>21 DEF CopyPrint
<1>22. CASE n = 0
  BY <1>5, <1>7, <1>16, <1>18, <1>20, <1>22 DEF CopyPrint
<1> QED
  BY <1>7, <1>21, <1>22

(* Print gets from the file what Copy took to it.                          *)
LEMMA CopyPrintPrints ==
  ASSUME IInv, Commanded, NEW t \in Threads, NEW h \in Handles, NEW f \in Files,
         script[t] = Copy(h, f) \o PrintFile(h, f), CopyPrint(t, h, f), Step(t), pc[t] = 6
  PROVE  CopyPrint(t, h, f)'
<1>1. SectorInv /\ TypeOK /\ InCommand /\ DOMAIN call = Threads
  BY DEF IInv, SectorInv, TypeOK
<1>2. At(t) = ReadC(h, TransferSize, "print")
  BY CopyPrintIs DEF At
<1>3. At(t).do = "Read" /\ At(t).h = h
  BY <1>2 DEF ReadC
<1>4. /\ f \in created /\ handle[h].file = f /\ handle[h].seekPosition <= Length[f]
      /\ \A p \in 0 .. Length[f] - 1 : Copied(f, p)
      /\ output[t] = [k \in 1 .. handle[h].seekPosition |-> Unix[f][k]]
      /\ call[t] # NoCall => \A p \in Span(call[t]) \ Left(call[t]) : call[t].buf[p] = Unix[f][p + 1]
  BY DEF CopyPrint
<1>5. ASSUME UNCHANGED <<created, handle, pc, output>>, content' = content,
             call'[t] # NoCall =>
                \A p \in Span(call'[t]) \ Left(call'[t]) : call'[t].buf[p] = Unix[f][p + 1]
      PROVE  CopyPrint(t, h, f)'
  <2>1. \A p \in 0 .. Length[f] - 1 : Copied(f, p)'
    BY <1>4, <1>5 DEF Copied
  <2>2. output'[t] = [k \in 1 .. handle'[h].seekPosition |-> Unix[f][k]]
    BY <1>4, <1>5
  <2> QED
    BY <1>4, <1>5, <2>1, <2>2 DEF CopyPrint
<1>6. CASE call[t] = NoCall
  <2>1. Transfer(t)
    BY <1>1, <1>3, <1>6, Which
  <2>2. UNCHANGED <<disk, created, handle, pc, output>>
    BY <2>1 DEF Transfer
  <2>3. content' = content
    BY <2>2 DEF content
  <2>4. call'[t] # NoCall => Left(call'[t]) = Span(call'[t])
    BY <1>1, <1>6, <2>1, TransferAsks
  <2> QED
    BY <1>5, <2>2, <2>3, <2>4
<1>7. CASE call[t] # NoCall /\ ~Return(t)
  <2>1. PICK c : c = call[t]
    OBVIOUS
  <2>2. c.f = f /\ Asks(c) /\ Length[f] \in Nat
    <3>1. c.f = f
      BY <1>3, <1>4, <1>7, <2>1 DEF Commanded, Asked
    <3>2. Request(c)
      BY <1>1, <1>7, <2>1 DEF SectorInv, InCall
    <3> QED
      BY <3>1, <3>2, RequestAsks, LengthsAre
  <2>3. PICK want : want = [p \in 0 .. Length[f] - 1 |-> Unix[f][p + 1]]
    OBVIOUS
  <2>4. Span(c) \subseteq 0 .. Length[f] - 1
    <3>1. Span(c) \subseteq {p \in Nat : p < Length[f]}
      BY <2>2, RangeIs
    <3> QED
      BY <2>2, <3>1
  <2>5. GotAll(c, want)
    BY <1>4, <1>7, <2>1, <2>3, <2>4 DEF GotAll
  <2>6. \A p \in 0 .. Length[f] - 1 : content[f][p] = want[p]
    BY <1>4, <2>3 DEF Copied
  <2>7. /\ GotAll(call'[t], want) /\ content' = content
        /\ UNCHANGED <<created, handle, pc, output, done, complained>>
    BY <1>3, <1>7, <2>1, <2>2, <2>5, <2>6, ReadsOn
  <2>8. call'[t] # NoCall => Span(call'[t]) \subseteq 0 .. Length[f] - 1
    <3>1. IInv' /\ Commanded'
      BY StepInv, CommandedNext
    <3> SUFFICES ASSUME call'[t] # NoCall PROVE Span(call'[t]) \subseteq 0 .. Length[f] - 1
      OBVIOUS
    <3>2. Request(call'[t]) /\ Asked(t)'
      BY <3>1 DEF IInv, SectorInv, InCall, Commanded
    <3>3. At(t)' = At(t)
      BY <2>7, SameScript DEF At
    <3>4. call'[t].f = f
      BY <1>3, <1>4, <2>7, <3>2, <3>3 DEF Asked
    <3>5. Span(call'[t]) \subseteq {p \in Nat : p < Length[f]}
      BY <3>2, <3>4, RequestAsks, RangeIs
    <3> QED
      BY <2>2, <3>5
  <2>9. call'[t] # NoCall =>
           \A p \in Span(call'[t]) \ Left(call'[t]) : call'[t].buf[p] = Unix[f][p + 1]
    BY <2>3, <2>7, <2>8 DEF GotAll
  <2> QED
    BY <1>5, <2>7, <2>9
<1> QED
  BY <1>6, <1>7, PrintReturns

(* Nobody else changes what it stands on.                                  *)
LEMMA CopyPrintStays ==
  ASSUME IInv, Commanded, NEW t \in Threads, NEW h \in Handles, NEW f \in Files,
         script[t] = Copy(h, f) \o PrintFile(h, f), CopyPrint(t, h, f),
         NEW u \in Threads \ {t}, Step(u)
  PROVE  CopyPrint(t, h, f)'
<1>1. TypeOK
  BY DEF IInv, SectorInv
<1>2. pc'[t] = pc[t] /\ call'[t] = call[t] /\ output'[t] = output[t]
  BY <1>1, Others
<1>3. handle'[h] = handle[h]
  <2>1. 3 \in DOMAIN script[t] /\ script[t][3] = CopyC(h)
    BY CopyPrintIs
  <2>2. script[t][3].do \in OnHandle /\ script[t][3].h = h
    BY <2>1 DEF CopyC, OnHandle
  <2> QED
    BY <2>1, <2>2, OwnHandle
<1>4. ~Alters(script[u], f)
  <2>1. script[t] \in Scripts[t] /\ script[u] \in Scripts[u]
    BY <1>1 DEF TypeOK
  <2> QED
    BY <2>1, TestAssumption
<1>5. /\ f \in created' <=> f \in created
      /\ \A p \in 0 .. Length[f] - 1 : content'[f][p] = content[f][p]
  BY <1>4, Unaltered
<1>6. \A p \in 0 .. Length[f] - 1 : Copied(f, p)' <=> Copied(f, p)
  BY <1>5 DEF Copied
<1> QED
  BY <1>2, <1>3, <1>5, <1>6 DEF CopyPrint

(* How long those scripts are.                                             *)
LEMMA CopyPrintLength ==
  ASSUME NEW h, NEW f, NEW s, s = Copy(h, f) \o PrintFile(h, f)
  PROVE  DOMAIN s = 1 .. 7 /\ Len(s) = 7
BY CopyPrintIs

(* The performance test is eight commands.                                 *)
LEMMA PerformanceTestLength ==
  ASSUME NEW h, NEW f, NEW s, s = PerformanceTest(h, f)
  PROVE  DOMAIN s = 1 .. 8 /\ Len(s) = 8
BY PerformanceTestIs

(* Every step keeps what is known of a thread that copies and prints.      *)
LEMMA CopyPrintStep ==
  ASSUME IInv, Commanded, NEW t \in Threads, NEW h \in Handles, NEW f \in Files,
         script[t] = Copy(h, f) \o PrintFile(h, f), CopyPrint(t, h, f),
         NEW u \in Threads, Step(u)
  PROVE  CopyPrint(t, h, f)'
<1>1. CASE u # t
  BY <1>1, CopyPrintStays
<1>2. CASE u = t
  <2>1. ~Finished(t)
    BY <1>2, Which DEF IInv
  <2>2. pc[t] \in 1 .. 7
    <3>1. DOMAIN script[t] = 1 .. 7
      BY CopyPrintLength
    <3> QED
      BY <2>1, <3>1, Command DEF IInv, SectorInv
  <2> QED
    BY <1>2, <2>2, CopyPrintBegins, CopyPrintCopies, CopyPrintPrints
<1> QED
  BY <1>1, <1>2

(* The rounds of FileWrite and FileRead.                                   *)
LEMMA Rounds ==
  ASSUME NEW n \in Nat, NEW q \in Nat, NEW m \in Nat \ {0}, n * m < q * m
  PROVE  /\ n * m \in Nat /\ q * m \in Nat /\ n * m + m <= q * m /\ (n + 1) * m = n * m + m
         /\ \A j \in 0 .. m - 1 : (n * m + j) % m = j
<1>1. n * m \in Nat /\ q * m \in Nat /\ (n + 1) * m = n * m + m
  OBVIOUS
<1>2. n < q
  BY Multiples
<1>3. n * m + m <= q * m
  BY <1>2, Multiples
<1>4. ASSUME NEW j \in 0 .. m - 1 PROVE (n * m + j) % m = j
  <2>1. PICK a \in Nat : a = n * m + j
    BY <1>1
  <2>2. PICK x \in Nat : x = n * m
    BY <1>1
  <2>3. x <= a /\ a < x + m
    BY <2>1, <2>2
  <2>4. a \div m = n
    BY <2>2, <2>3, Blocks
  <2>5. a % m \in 0 .. m - 1 /\ a = (a \div m) * m + (a % m)
    BY Division
  <2>6. a = x + (a % m)
    BY <2>2, <2>4, <2>5
  <2> QED
    BY <2>1, <2>2, <2>5, <2>6
<1> QED
  BY <1>1, <1>3, <1>4

(* The file of the performance test is ContentSize bytes so many times.    *)
LEMMA TestFile ==
  ASSUME TypeOK, NEW t \in Threads, NEW h \in Handles, NEW f \in Files,
         script[t] = PerformanceTest(h, f)
  PROVE  /\ f \notin Present \cup NoRoom
         /\ \A u \in Threads \ {t} : ~Alters(script[u], f)
         /\ ContentSize \in Nat \ {0} /\ Length[f] \in Nat /\ 0 < Length[f]
         /\ \E q \in Nat : Length[f] = q * ContentSize
<1>1. \A u \in Threads : script[u] \in Scripts[u]
  BY DEF TypeOK
<1>2. /\ f \notin Present \cup NoRoom
      /\ \A u \in Threads \ {t} : ~Alters(script[u], f)
      /\ \E q \in 1 .. Length[f] : Length[f] = q * ContentSize
  BY <1>1, TestAssumption DEF ContentSize
<1>3. ContentSize \in Nat \ {0} /\ Length[f] \in Nat
  BY OpenFileAssumption, LengthsAre DEF ContentSize
<1>4. 0 < Length[f]
  BY <1>2, <1>3
<1>5. PICK q \in 1 .. Length[f] : Length[f] = q * ContentSize
  BY <1>2
<1>6. q \in Nat
  BY <1>3
<1> QED
  BY <1>2, <1>3, <1>4, <1>5, <1>6

(* A range of a round: all of ContentSize bytes, where done says.          *)
LEMMA Round ==
  ASSUME TypeOK, NEW t \in Threads, NEW h \in Handles, NEW f \in Files,
         script[t] = PerformanceTest(h, f), NEW c, Asks(c), c.f = f, c.n = ContentSize,
         c.at < Length[f], AtRound(c.at)
  PROVE  /\ c.at \in Nat /\ numBytes(c) = ContentSize /\ c.at + ContentSize <= Length[f]
         /\ Span(c) = c.at .. c.at + ContentSize - 1
         /\ \A j \in 1 .. ContentSize : Again(c.at + j - 1) = Contents[j]
         /\ AtRound(c.at + ContentSize)
<1>1. PICK m \in Nat \ {0} : m = ContentSize
  BY TestFile
<1>2. PICK q \in Nat : Length[f] = q * m
  BY <1>1, TestFile
<1>3. PICK n \in Nat : c.at = n * m
  BY <1>1 DEF AtRound
<1>4. PICK len \in Nat : len = Length[f]
  BY LengthsAre
<1>5. PICK at \in Nat : at = c.at
  BY DEF Asks
<1>6. /\ at + m <= len /\ (n + 1) * m = at + m
      /\ \A j \in 0 .. m - 1 : (at + j) % m = j
  <2>1. at = n * m /\ len = q * m
    BY <1>2, <1>3, <1>4, <1>5
  <2>2. n * m < q * m
    BY <1>4, <1>5, <2>1
  <2>3. /\ n * m + m <= q * m /\ (n + 1) * m = n * m + m
        /\ \A j \in 0 .. m - 1 : (n * m + j) % m = j
    BY <2>2, Rounds
  <2> QED
    BY <2>1, <2>3
<1>7. numBytes(c) = m
  <2>1. at + m <= len /\ at < len
    BY <1>4, <1>5, <1>6
  <2>2. c.n = m /\ c.at = at /\ Length[c.f] = len
    BY <1>1, <1>4, <1>5
  <2>3. numBytes(c) = IF m <= 0 \/ at >= len THEN 0 ELSE IF at + m > len THEN len - at ELSE m
    BY <2>2 DEF numBytes
  <2> QED
    BY <2>1, <2>3
<1>8. Span(c) = at .. at + m - 1
  BY <1>5, <1>7, RangeIs
<1>9. ASSUME NEW j \in 1 .. m PROVE Again(at + j - 1) = Contents[j]
  <2>1. j - 1 \in 0 .. m - 1 /\ at + (j - 1) = at + j - 1
    OBVIOUS
  <2>2. (at + j - 1) % m = j - 1
    BY <1>6, <2>1
  <2>3. ((at + j - 1) % m) + 1 = j
    BY <2>2
  <2> QED
    BY <1>1, <2>3 DEF Again
<1>10. n + 1 \in Nat
  OBVIOUS
<1>11. AtRound(c.at + ContentSize)
  BY <1>1, <1>5, <1>6, <1>10 DEF AtRound
<1> QED
  BY <1>1, <1>4, <1>5, <1>6, <1>7, <1>8, <1>9, <1>11

(* Nobody else changes what the performance test stands on.                *)
LEMMA TestingStays ==
  ASSUME IInv, Commanded, NEW t \in Threads, NEW h \in Handles, NEW f \in Files,
         script[t] = PerformanceTest(h, f), Testing(t, h, f), NEW u \in Threads \ {t}, Step(u)
  PROVE  Testing(t, h, f)'
<1>1. TypeOK
  BY DEF IInv, SectorInv
<1>2. /\ pc'[t] = pc[t] /\ call'[t] = call[t] /\ done'[t] = done[t]
      /\ complained'[t] = complained[t]
  BY <1>1, Others
<1>3. handle'[h] = handle[h]
  <2>1. 3 \in DOMAIN script[t] /\ script[t][3] = WriteC(h, Contents, "write")
    BY PerformanceTestIs
  <2>2. script[t][3].do \in OnHandle /\ script[t][3].h = h
    BY <2>1 DEF WriteC, OnHandle
  <2> QED
    BY <2>1, <2>2, OwnHandle
<1>4. ~Alters(script[u], f)
  BY <1>1, TestFile
<1>5. /\ f \in created' <=> f \in created
      /\ \A p \in 0 .. Length[f] - 1 : content'[f][p] = content[f][p]
  BY <1>4, Unaltered
<1>6. \A p \in 0 .. Length[f] - 1 : Tested(f, p)' <=> Tested(f, p)
  BY <1>5 DEF Tested
<1>7. pc[t] = 3 => \A p \in 0 .. done[t] - 1 : p \in 0 .. Length[f] - 1
  <2>1. pc[t] = 3 => handle[h].seekPosition = done[t] /\ done[t] < Length[f]
    BY DEF Testing
  <2>2. Length[f] \in Nat /\ handle[h].seekPosition \in Nat
    BY <1>1, LengthsAre DEF TypeOK
  <2> QED
    BY <2>1, <2>2
<1>8. call[t] # NoCall /\ pc[t] = 3 => Span(call[t]) \subseteq 0 .. Length[f] - 1
  <2> SUFFICES ASSUME call[t] # NoCall, pc[t] = 3 PROVE Span(call[t]) \subseteq 0 .. Length[f] - 1
    OBVIOUS
  <2>1. At(t) = WriteC(h, Contents, "write")
    BY PerformanceTestIs DEF At
  <2>2. call[t].f = f
    BY <2>1 DEF Commanded, Asked, WriteC, Testing
  <2>3. Request(call[t]) /\ Length[f] \in Nat
    BY LengthsAre DEF IInv, SectorInv, InCall
  <2>4. Span(call[t]) \subseteq {p \in Nat : p < Length[f]}
    BY <2>2, <2>3, RequestAsks, RangeIs
  <2> QED
    BY <2>3, <2>4
<1>9. pc[t] = 3 => \A p \in 0 .. done[t] - 1 : Tested(f, p)'
  BY <1>6, <1>7 DEF Testing
<1>10. pc[t] = 3 /\ call[t] # NoCall => \A p \in Span(call[t]) \ Left(call[t]) : Tested(f, p)'
  BY <1>6, <1>8 DEF Testing
<1>11. pc[t] \in 4 .. 8 => \A p \in 0 .. Length[f] - 1 : Tested(f, p)'
  BY <1>6 DEF Testing
<1> QED
  BY <1>2, <1>3, <1>5, <1>9, <1>10, <1>11 DEF Testing

(* The commands of the performance test around its loops.                  *)
LEMMA TestingBegins ==
  ASSUME IInv, Commanded, NEW t \in Threads, NEW h \in Handles, NEW f \in Files,
         script[t] = PerformanceTest(h, f), Testing(t, h, f), Step(t),
         pc[t] \in {1, 2, 4, 5, 7, 8}
  PROVE  Testing(t, h, f)'
<1>1. TypeOK /\ InCommand /\ DOMAIN complained = Threads
  BY DEF IInv, SectorInv, Commanded
<1>2. At(t) = script[t][pc[t]]
  BY DEF At
<1>3. complained[t] = FALSE /\ done[t] = 0
  BY DEF Testing
<1>4. ASSUME content' = content, pc[t] \in 4 .. 8 PROVE \A p \in 0 .. Length[f] - 1 : Tested(f, p)'
  <2>1. \A p \in 0 .. Length[f] - 1 : Tested(f, p)
    BY <1>4 DEF Testing
  <2> QED
    BY <1>4, <2>1 DEF Tested
<1>5. 0 < Length[f] /\ AtRound(0)
  <2>1. 0 < Length[f] /\ ContentSize \in Nat
    BY <1>1, TestFile
  <2>2. 0 = 0 * ContentSize
    BY <2>1
  <2> QED
    BY <2>1, <2>2 DEF AtRound
<1>6. CASE pc[t] = 1
  <2>1. At(t) = CreateC(f, 3)
    BY <1>2, <1>6, PerformanceTestIs
  <2>2. At(t).do = "Create" /\ At(t).f = f
    BY <2>1 DEF CreateC
  <2>3. Create(t)
    BY <1>1, <2>2, Which
  <2>4. f \notin created \cup NoRoom
    BY <1>1, <1>6, TestFile DEF Testing
  <2>5. UNCHANGED <<done, complained>> /\ pc'[t] = 2 /\ f \in created'
    BY <1>1, <1>6, <2>2, <2>3, <2>4, Creates
  <2> QED
    BY <1>3, <2>5 DEF Testing
<1>7. CASE pc[t] = 2 \/ pc[t] = 5
  <2>1. At(t) = OpenC(h, f, 2)
    BY <1>2, <1>7, PerformanceTestIs
  <2>2. At(t).do = "Open" /\ At(t).f = f /\ At(t).h = h
    BY <2>1 DEF OpenC
  <2>3. Open(t) /\ call[t] = NoCall
    BY <1>1, <2>2, Which
  <2>4. f \in created
    BY <1>7 DEF Testing
  <2>5. /\ UNCHANGED <<created, call, done, complained>> /\ content' = content
        /\ pc'[t] = pc[t] + 1 /\ handle'[h].file = f /\ handle'[h].seekPosition = 0
    BY <1>1, <2>2, <2>3, <2>4, Opened
  <2>6. pc'[t] = 3 \/ (pc'[t] = 6 /\ \A p \in 0 .. Length[f] - 1 : Tested(f, p)')
    BY <1>4, <1>7, <2>5
  <2>7. AtRound(done'[t])
    BY <1>3, <1>5, <2>5
  <2> QED
    BY <1>3, <1>5, <2>3, <2>4, <2>5, <2>6, <2>7 DEF Testing
<1>8. CASE pc[t] = 4 \/ pc[t] = 7
  <2>1. At(t) = CloseC(h)
    BY <1>2, <1>8, PerformanceTestIs
  <2>2. Close(t)
    BY <1>1, <2>1, Which DEF CloseC
  <2>3. UNCHANGED <<created, done, complained>> /\ pc'[t] = pc[t] + 1 /\ content' = content
    BY <1>1, <2>2, Closes
  <2>4. f \in created /\ \A p \in 0 .. Length[f] - 1 : Tested(f, p)'
    BY <1>4, <1>8, <2>3 DEF Testing
  <2>5. pc'[t] = 5 \/ pc'[t] = 8
    BY <1>8, <2>3
  <2> QED
    BY <1>3, <2>3, <2>4, <2>5 DEF Testing
<1>9. CASE pc[t] = 8
  <2>1. At(t) = RemoveC(f)
    BY <1>2, <1>9, PerformanceTestIs
  <2>2. At(t).do = "Remove" /\ At(t).f = f
    BY <2>1 DEF RemoveC
  <2>3. Remove(t)
    BY <1>1, <2>2, Which
  <2>4. f \in created
    BY <1>9 DEF Testing
  <2>5. Goto(t, 9) /\ done' = done /\ complained' = [complained EXCEPT ![t] = @ \/ f \notin created]
    BY <1>9, <2>2, <2>3 DEF Remove
  <2>6. pc'[t] = 9
    BY <1>1, <2>5, Goes2
  <2>7. complained'[t] = FALSE
    <3>1. complained'[t] = (complained[t] \/ f \notin created)
      BY <1>1, <2>5
    <3> QED
      BY <1>3, <2>4, <3>1
  <2> QED
    BY <1>3, <2>5, <2>6, <2>7 DEF Testing
<1> QED
  BY <1>6, <1>7, <1>8, <1>9

(* A round of FileWrite or FileRead is over, and did not fail.             *)
LEMMA RoundReturns ==
  ASSUME IInv, Commanded, NEW t \in Threads, NEW h \in Handles, NEW f \in Files,
         script[t] = PerformanceTest(h, f), Testing(t, h, f), Return(t),
         pc[t] \in {3, 6}, ~Fails(At(t), ContentSize, Into(call[t]))
  PROVE  /\ f \in created /\ created' = created /\ content' = content /\ call'[t] = NoCall
         /\ complained'[t] = FALSE /\ Left(call[t]) = {}
         /\ Span(call[t]) = done[t] .. done[t] + ContentSize - 1
         /\ done[t] \in Nat /\ ContentSize \in Nat \ {0} /\ done[t] + ContentSize <= Length[f]
         /\ \/ /\ done[t] + ContentSize < Length[f] /\ pc'[t] = pc[t]
               /\ done'[t] = done[t] + ContentSize
               /\ handle'[h].file = f /\ handle'[h].seekPosition = done'[t]
               /\ AtRound(done'[t])
            \/ done[t] + ContentSize = Length[f] /\ pc'[t] = pc[t] + 1 /\ done'[t] = 0
<1>1. TypeOK /\ DOMAIN done = Threads /\ DOMAIN complained = Threads
  BY DEF IInv, SectorInv, Commanded
<1>2. \/ At(t) = WriteC(h, Contents, "write")
      \/ At(t) = ReadC(h, ContentSize, "check")
  BY PerformanceTestIs DEF At, ContentSize
<1>3. /\ At(t).do \in {"Read", "Write"} /\ At(t).h = h /\ At(t).n = ContentSize
      /\ At(t).loop \in {"write", "check"}
  BY <1>2 DEF WriteC, ReadC, ContentSize
<1>4. PICK c : c = call[t]
  OBVIOUS
<1>5. /\ f \in created /\ complained[t] = FALSE /\ handle[h].file = f
      /\ handle[h].seekPosition = done[t] /\ done[t] < Length[f]
      /\ AtRound(done[t])
  BY DEF Testing
<1>6. /\ c # NoCall /\ Asked(t) /\ Asks(c) /\ Left(c) = {} /\ call'[t] = NoCall
      /\ Loop(t, At(t), numBytes(c), Into(c)) /\ created' = created
      /\ content' = content /\ handle'[h].file = handle[h].file
      /\ c.advances => handle'[h].seekPosition = handle[h].seekPosition + numBytes(c)
  BY <1>3, <1>4, ReturnIs
<1>7. c.f = f /\ c.n = ContentSize /\ c.at = done[t] /\ c.advances
  BY <1>3, <1>4, <1>5, <1>6 DEF Asked
<1>8. /\ done[t] \in Nat /\ numBytes(c) = ContentSize /\ done[t] + ContentSize <= Length[f]
      /\ Span(c) = done[t] .. done[t] + ContentSize - 1
      /\ AtRound(done[t] + ContentSize)
  BY <1>1, <1>5, <1>6, <1>7, Round
<1>9. ContentSize \in Nat \ {0} /\ Length[f] \in Nat
  BY <1>1, TestFile
<1>10. Loop(t, At(t), ContentSize, Into(c)) /\ ~Fails(At(t), ContentSize, Into(c))
  BY <1>4, <1>6, <1>8
<1>11. complained'[t] = FALSE
  <2>1. PICK failed : failed = Fails(At(t), ContentSize, Into(c)) /\ ~failed
    BY <1>10
  <2>2. complained' = [complained EXCEPT ![t] = @ \/ failed]
    BY <1>10, <2>1 DEF Loop
  <2>3. complained'[t] = (complained[t] \/ failed)
    BY <1>1, <2>2
  <2> QED
    BY <1>5, <2>1, <2>3
<1>12. PICK again : again = GoesOn(t, At(t), ContentSize, Fails(At(t), ContentSize, Into(c)))
  OBVIOUS
<1>13. again <=> done[t] + ContentSize < Length[f]
  BY <1>3, <1>4, <1>7, <1>10, <1>12 DEF GoesOn, Counted, ContentSize
<1>14. /\ Goto(t, IF again THEN pc[t] ELSE pc[t] + 1)
       /\ done' = [done EXCEPT ![t] = IF again THEN done[t] + ContentSize ELSE 0]
  BY <1>3, <1>10, <1>12 DEF Loop, Counted, ContentSize
<1>15. /\ pc'[t] = IF again THEN pc[t] ELSE pc[t] + 1
       /\ done'[t] = IF again THEN done[t] + ContentSize ELSE 0
  BY <1>1, <1>14, Goes2
<1>16. handle'[h].file = f /\ handle'[h].seekPosition = done[t] + ContentSize
  BY <1>5, <1>6, <1>7, <1>8
<1>17. CASE done[t] + ContentSize < Length[f]
  BY <1>4, <1>5, <1>6, <1>8, <1>9, <1>11, <1>13, <1>15, <1>16, <1>17
<1>18. CASE ~(done[t] + ContentSize < Length[f])
  <2>1. done[t] + ContentSize = Length[f]
    BY <1>8, <1>9, <1>18
  <2> QED
    BY <1>4, <1>5, <1>6, <1>8, <1>9, <1>11, <1>13, <1>15, <1>18, <2>1
<1> QED
  BY <1>17, <1>18

(* FileWrite goes through the file, ContentSize bytes at a time.           *)
LEMMA TestingWrites ==
  ASSUME IInv, Commanded, NEW t \in Threads, NEW h \in Handles, NEW f \in Files,
         script[t] = PerformanceTest(h, f), Testing(t, h, f), Step(t), pc[t] = 3
  PROVE  Testing(t, h, f)'
<1>1. SectorInv /\ TypeOK /\ InCommand /\ InCall /\ DOMAIN call = Threads
  BY DEF IInv, SectorInv, TypeOK
<1>2. At(t) = WriteC(h, Contents, "write")
  BY PerformanceTestIs DEF At
<1>3. /\ At(t).do = "Write" /\ At(t).h = h /\ At(t).n = ContentSize /\ At(t).from = Contents
      /\ At(t).loop = "write"
  BY <1>2 DEF WriteC, ContentSize
<1>4. /\ f \in created /\ complained[t] = FALSE /\ handle[h].file = f
      /\ handle[h].seekPosition = done[t] /\ done[t] < Length[f]
      /\ AtRound(done[t])
      /\ \A p \in 0 .. done[t] - 1 : Tested(f, p)
      /\ call[t] # NoCall => \A p \in Span(call[t]) \ Left(call[t]) : Tested(f, p)
  BY DEF Testing
<1>5. CASE call[t] = NoCall
  <2>1. Transfer(t)
    BY <1>1, <1>3, <1>5, Which
  <2>2. UNCHANGED <<disk, created, handle, pc, done, complained>>
    BY <2>1 DEF Transfer
  <2>3. content' = content
    BY <2>2 DEF content
  <2>4. call'[t] # NoCall => Left(call'[t]) = Span(call'[t])
    BY <1>1, <1>5, <2>1, TransferAsks
  <2>5. \A p \in 0 .. done[t] - 1 : Tested(f, p)'
    BY <1>4, <2>3 DEF Tested
  <2> QED
    BY <1>4, <2>2, <2>4, <2>5 DEF Testing
<1>6. CASE call[t] # NoCall
  <2>1. PICK c : c = call[t]
    OBVIOUS
  <2>2. Asked(t) /\ Asks(c) /\ Request(c)
    BY <1>1, <1>6, <2>1, RequestAsks DEF Commanded, InCall
  <2>3. /\ c.f = f /\ c.n = ContentSize /\ c.at = done[t] /\ c.kind = "write"
        /\ c.from = Contents
    BY <1>3, <1>4, <2>1, <2>2 DEF Asked
  <2>4. /\ done[t] \in Nat /\ done[t] + ContentSize <= Length[f]
        /\ Span(c) = done[t] .. done[t] + ContentSize - 1
        /\ \A j \in 1 .. ContentSize : Again(done[t] + j - 1) = Contents[j]
    BY <1>1, <1>4, <2>2, <2>3, Round
  <2>5. ContentSize \in Nat \ {0} /\ Length[f] \in Nat
    BY <1>1, TestFile
  <2>6. CASE ReadSector(t)
    <3>1. PICK b, d, i : Works(t, b, d, i) /\ (b.kind # "read" => Left(d) = Left(b))
      BY <1>1, <2>6, GetIs
    <3>2. b = c /\ call'[t] = d /\ Same(c, d)
      BY <1>1, <2>1, <3>1 DEF Works
    <3>3. Left(d) = Left(c) /\ Span(d) = Span(c)
      BY <2>3, <3>1, <3>2, SameRange DEF Same
    <3>4. UNCHANGED <<disk, created, handle, pc, done, complained>>
      BY <2>6 DEF ReadSector
    <3>5. content' = content
      BY <3>4 DEF content
    <3>6. /\ \A p \in 0 .. done[t] - 1 : Tested(f, p)'
          /\ \A p \in Span(d) \ Left(d) : Tested(f, p)'
      BY <1>4, <1>6, <2>1, <3>3, <3>5 DEF Tested
    <3> QED
      BY <1>4, <3>2, <3>4, <3>6 DEF Testing
  <2>7. CASE WriteSector(t) \/ CopySector(t)
    <3>1. PICK b, d, i : /\ Works(t, b, d, i) /\ b.kind # "read" /\ Left(d) \subseteq Left(b)
                   /\ \A g \in Files : \A p \in 0 .. Length[g] - 1 :
                         content'[g][p] = IF g = b.f /\ p \in Left(b) \ Left(d)
                                          THEN b.from[p - b.at + 1] ELSE content[g][p]
      BY <1>1, <2>7, PutIs
    <3>2. b = c /\ call'[t] = d /\ Same(c, d)
      BY <1>1, <2>1, <3>1 DEF Works
    <3>3. Left(d) \subseteq Left(c) /\ Span(d) = Span(c)
      BY <3>1, <3>2, SameRange DEF Same
    <3>4. UNCHANGED <<created, handle, pc, done, complained>>
      BY <2>7 DEF WriteSector, CopySector
    <3>5. ASSUME NEW p \in 0 .. Length[f] - 1
          PROVE  content'[f][p] = IF p \in Left(c) \ Left(d)
                                  THEN Contents[p - done[t] + 1] ELSE content[f][p]
      <4> HIDE DEF content
      <4> QED
        BY <2>3, <3>1, <3>2
    <3>6. ASSUME NEW p \in Span(c) PROVE Contents[p - done[t] + 1] = Again(p)
      <4>1. p - done[t] + 1 \in 1 .. ContentSize /\ done[t] + (p - done[t] + 1) - 1 = p
        BY <2>4, <2>5
      <4> QED
        BY <2>4, <4>1
    <3>7. /\ Left(c) \subseteq Span(c) /\ Span(c) \subseteq 0 .. Length[f] - 1
          /\ \A p \in 0 .. done[t] - 1 : p \in 0 .. Length[f] - 1
      <4>1. Left(c) \subseteq Span(c)
        BY DEF Left
      <4> QED
        BY <2>4, <2>5, <4>1
    <3>8. ASSUME NEW p \in 0 .. Length[f] - 1, Tested(f, p) PROVE Tested(f, p)'
      <4> HIDE DEF content
      <4> QED
        BY <3>5, <3>6, <3>7, <3>8 DEF Tested
    <3>9. ASSUME NEW p \in Span(d) \ Left(d) PROVE Tested(f, p)'
      <4>1. p \in Span(c) /\ p \in 0 .. Length[f] - 1
        BY <3>3, <3>7
      <4>2. CASE p \in Left(c)
        <5> HIDE DEF content
        <5> QED
          BY <3>5, <3>6, <4>1, <4>2 DEF Tested
      <4>3. CASE p \notin Left(c)
        BY <1>4, <1>6, <2>1, <3>8, <4>1, <4>3
      <4> QED
        BY <4>2, <4>3
    <3>10. \A p \in 0 .. done[t] - 1 : Tested(f, p)'
      BY <1>4, <3>7, <3>8
    <3> QED
      BY <1>4, <3>2, <3>4, <3>9, <3>10 DEF Testing
  <2>8. CASE Return(t)
    <3>1. ~Fails(At(t), ContentSize, Into(call[t]))
      BY <1>3, <2>5 DEF Fails, ContentSize
    <3>2. /\ created' = created /\ content' = content /\ call'[t] = NoCall
          /\ complained'[t] = FALSE /\ Left(c) = {}
          /\ \/ /\ done[t] + ContentSize < Length[f] /\ pc'[t] = 3
                /\ done'[t] = done[t] + ContentSize
                /\ handle'[h].file = f /\ handle'[h].seekPosition = done'[t]
                /\ AtRound(done'[t])
             \/ done[t] + ContentSize = Length[f] /\ pc'[t] = 4 /\ done'[t] = 0
      <4>1. /\ f \in created /\ created' = created /\ content' = content /\ call'[t] = NoCall
            /\ complained'[t] = FALSE /\ Left(call[t]) = {}
            /\ \/ /\ done[t] + ContentSize < Length[f] /\ pc'[t] = pc[t]
                  /\ done'[t] = done[t] + ContentSize
                  /\ handle'[h].file = f /\ handle'[h].seekPosition = done'[t]
                  /\ AtRound(done'[t])
               \/ done[t] + ContentSize = Length[f] /\ pc'[t] = pc[t] + 1 /\ done'[t] = 0
        BY <2>8, <3>1, RoundReturns
      <4>2. pc[t] + 1 = 4
        OBVIOUS
      <4> QED
        BY <2>1, <4>1, <4>2, Zenon
    <3>3. \A p \in 0 .. done[t] + ContentSize - 1 : Tested(f, p)'
      <4>1. ASSUME NEW p \in 0 .. done[t] + ContentSize - 1 PROVE Tested(f, p)
        <5>1. p \in 0 .. done[t] - 1 \/ p \in Span(c)
          BY <2>4, <2>5
        <5> QED
          BY <1>4, <1>6, <2>1, <3>2, <5>1
      <4> QED
        BY <3>2, <4>1 DEF Tested
    <3>4. CASE pc'[t] = 3
      <4>1. /\ handle'[h].file = f /\ handle'[h].seekPosition = done'[t] /\ AtRound(done'[t])
            /\ done'[t] = done[t] + ContentSize /\ done'[t] < Length[f]
        BY <3>2, <3>4
      <4>2. \A p \in 0 .. done'[t] - 1 : Tested(f, p)'
        BY <2>4, <2>5, <3>3, <4>1 DEF Tested
      <4> QED
        BY <1>4, <3>2, <3>4, <4>1, <4>2 DEF Testing
    <3>5. CASE pc'[t] = 4
      <4>1. done[t] + ContentSize = Length[f] /\ done'[t] = 0
        BY <3>2, <3>5
      <4>2. \A p \in 0 .. Length[f] - 1 : Tested(f, p)'
        BY <2>4, <2>5, <3>3, <4>1 DEF Tested
      <4>3. f \in created' /\ complained'[t] = FALSE
        BY <1>4, <3>2
      <4> QED
        BY <3>5, <4>1, <4>2, <4>3 DEF Testing
    <3> QED
      BY <3>2, <3>4, <3>5
  <2> QED
    BY <1>1, <1>6, <2>6, <2>7, <2>8, Which
<1> QED
  BY <1>5, <1>6

(* FileRead finds what FileWrite has written.                              *)
LEMMA TestingChecks ==
  ASSUME IInv, Commanded, NEW t \in Threads, NEW h \in Handles, NEW f \in Files,
         script[t] = PerformanceTest(h, f), Testing(t, h, f), Step(t), pc[t] = 6
  PROVE  Testing(t, h, f)'
<1>1. SectorInv /\ TypeOK /\ InCommand /\ InCall /\ DOMAIN call = Threads
  BY DEF IInv, SectorInv, TypeOK
<1>2. At(t) = ReadC(h, ContentSize, "check")
  BY PerformanceTestIs DEF At, ContentSize
<1>3. /\ At(t).do = "Read" /\ At(t).h = h /\ At(t).n = ContentSize /\ At(t).loop = "check"
  BY <1>2 DEF ReadC
<1>4. /\ f \in created /\ complained[t] = FALSE /\ handle[h].file = f
      /\ handle[h].seekPosition = done[t] /\ done[t] < Length[f]
      /\ AtRound(done[t])
      /\ \A p \in 0 .. Length[f] - 1 : Tested(f, p)
      /\ call[t] # NoCall => \A p \in Span(call[t]) \ Left(call[t]) : call[t].buf[p] = Again(p)
  BY DEF Testing
<1>5. ASSUME UNCHANGED <<created, handle, pc, done, complained>>, content' = content,
             call'[t] # NoCall =>
                \A p \in Span(call'[t]) \ Left(call'[t]) : call'[t].buf[p] = Again(p)
      PROVE  Testing(t, h, f)'
  <2>1. \A p \in 0 .. Length[f] - 1 : Tested(f, p)'
    BY <1>4, <1>5 DEF Tested
  <2> QED
    BY <1>4, <1>5, <2>1 DEF Testing
<1>6. CASE call[t] = NoCall
  <2>1. Transfer(t)
    BY <1>1, <1>3, <1>6, Which
  <2>2. UNCHANGED <<disk, created, handle, pc, done, complained>>
    BY <2>1 DEF Transfer
  <2>3. content' = content
    BY <2>2 DEF content
  <2>4. call'[t] # NoCall => Left(call'[t]) = Span(call'[t])
    BY <1>1, <1>6, <2>1, TransferAsks
  <2> QED
    BY <1>5, <2>2, <2>3, <2>4
<1>7. CASE call[t] # NoCall
  <2>1. PICK c : c = call[t]
    OBVIOUS
  <2>2. Asked(t) /\ Asks(c) /\ Request(c)
    BY <1>1, <1>7, <2>1, RequestAsks DEF Commanded, InCall
  <2>3. c.f = f /\ c.n = ContentSize /\ c.at = done[t] /\ c.kind = "read"
    BY <1>3, <1>4, <2>1, <2>2 DEF Asked
  <2>4. /\ done[t] \in Nat /\ done[t] + ContentSize <= Length[f] /\ numBytes(c) = ContentSize
        /\ Span(c) = done[t] .. done[t] + ContentSize - 1
        /\ \A j \in 1 .. ContentSize : Again(done[t] + j - 1) = Contents[j]
    BY <1>1, <1>4, <2>2, <2>3, Round
  <2>5. ContentSize \in Nat \ {0} /\ Length[f] \in Nat
    BY <1>1, TestFile
  <2>6. CASE ~Return(t)
    <3>1. PICK want : want = [p \in 0 .. Length[f] - 1 |-> Again(p)]
      OBVIOUS
    <3>2. Span(c) \subseteq 0 .. Length[f] - 1
      BY <2>4, <2>5
    <3>3. GotAll(c, want)
      BY <1>4, <1>7, <2>1, <3>1, <3>2 DEF GotAll
    <3>4. \A p \in 0 .. Length[f] - 1 : content[f][p] = want[p]
      BY <1>4, <3>1 DEF Tested
    <3>5. /\ GotAll(call'[t], want) /\ content' = content
          /\ UNCHANGED <<created, handle, pc, output, done, complained>>
      BY <1>3, <1>7, <2>1, <2>3, <2>6, <3>3, <3>4, ReadsOn
    <3>6. call'[t] # NoCall => Span(call'[t]) \subseteq 0 .. Length[f] - 1
      <4>1. IInv' /\ Commanded'
        BY StepInv, CommandedNext
      <4> SUFFICES ASSUME call'[t] # NoCall PROVE Span(call'[t]) \subseteq 0 .. Length[f] - 1
        OBVIOUS
      <4>2. Request(call'[t]) /\ Asked(t)'
        BY <4>1 DEF IInv, SectorInv, InCall, Commanded
      <4>3. At(t)' = At(t)
        BY <3>5, SameScript DEF At
      <4>4. call'[t].f = f
        BY <1>3, <1>4, <3>5, <4>2, <4>3 DEF Asked
      <4>5. Span(call'[t]) \subseteq {p \in Nat : p < Length[f]}
        BY <4>2, <4>4, RequestAsks, RangeIs
      <4> QED
        BY <2>5, <4>5
    <3>7. call'[t] # NoCall =>
             \A p \in Span(call'[t]) \ Left(call'[t]) : call'[t].buf[p] = Again(p)
      BY <3>1, <3>5, <3>6 DEF GotAll
    <3> QED
      BY <1>5, <3>5, <3>7
  <2>7. CASE Return(t)
    <3>1. Left(c) = {}
      BY <2>1, <2>7, ReturnIs
    <3>2. Into(c) = Contents
      <4>1. Into(c) = [k \in 1 .. ContentSize |-> c.buf[done[t] + k - 1]]
        BY <2>3, <2>4 DEF Into
      <4>2. ASSUME NEW k \in 1 .. ContentSize PROVE c.buf[done[t] + k - 1] = Contents[k]
        <5>1. done[t] + k - 1 \in Span(c) \ Left(c)
          BY <2>4, <2>5, <3>1
        <5> QED
          BY <1>4, <1>7, <2>1, <2>4, <5>1
      <4>3. Contents = [k \in 1 .. ContentSize |-> Contents[k]]
        BY OpenFileAssumption DEF ContentSize
      <4>4. Into(c) = [k \in 1 .. ContentSize |-> Contents[k]]
        BY <4>1, <4>2
      <4> QED
        BY <4>3, <4>4
    <3>3. ~Fails(At(t), ContentSize, Into(call[t]))
      BY <1>3, <2>1, <3>2 DEF Fails
    <3>4. /\ created' = created /\ content' = content /\ call'[t] = NoCall
          /\ complained'[t] = FALSE
          /\ \/ /\ done[t] + ContentSize < Length[f] /\ pc'[t] = 6
                /\ done'[t] = done[t] + ContentSize
                /\ handle'[h].file = f /\ handle'[h].seekPosition = done'[t]
                /\ AtRound(done'[t])
             \/ pc'[t] = 7 /\ done'[t] = 0
      <4>1. /\ f \in created /\ created' = created /\ content' = content /\ call'[t] = NoCall
            /\ complained'[t] = FALSE /\ Left(call[t]) = {}
            /\ \/ /\ done[t] + ContentSize < Length[f] /\ pc'[t] = pc[t]
                  /\ done'[t] = done[t] + ContentSize
                  /\ handle'[h].file = f /\ handle'[h].seekPosition = done'[t]
                  /\ AtRound(done'[t])
               \/ done[t] + ContentSize = Length[f] /\ pc'[t] = pc[t] + 1 /\ done'[t] = 0
        BY <2>7, <3>3, RoundReturns
      <4>2. pc[t] + 1 = 7
        OBVIOUS
      <4> QED
        BY <4>1, <4>2, Zenon
    <3>5. \A p \in 0 .. Length[f] - 1 : Tested(f, p)'
      BY <1>4, <3>4 DEF Tested
    <3>6. CASE pc'[t] = 6
      BY <1>4, <3>4, <3>5, <3>6 DEF Testing
    <3>7. CASE pc'[t] = 7
      BY <1>4, <3>4, <3>5, <3>7 DEF Testing
    <3> QED
      BY <3>4, <3>6, <3>7
  <2> QED
    BY <2>6, <2>7
<1> QED
  BY <1>6, <1>7

(* Every step keeps what is known of a performance test.                   *)
LEMMA TestingStep ==
  ASSUME IInv, Commanded, NEW t \in Threads, NEW h \in Handles, NEW f \in Files,
         script[t] = PerformanceTest(h, f), Testing(t, h, f), NEW u \in Threads, Step(u)
  PROVE  Testing(t, h, f)'
<1>1. CASE u # t
  BY <1>1, TestingStays
<1>2. CASE u = t
  <2>1. ~Finished(t)
    BY <1>2, Which DEF IInv
  <2>2. pc[t] \in 1 .. 8
    <3>1. DOMAIN script[t] = 1 .. 8
      BY PerformanceTestLength
    <3> QED
      BY <2>1, <3>1, Command DEF IInv, SectorInv
  <2> QED
    BY <1>2, <2>2, TestingBegins, TestingWrites, TestingChecks
<1> QED
  BY <1>1, <1>2

(* Only the performance test complains.                                    *)
LEMMA OnlyTestComplains ==
  ASSUME IInv, Commanded, NEW t \in Threads, complained[t] = FALSE, NEW u \in Threads, Step(u),
         \A h \in Handles, f \in Files : script[t] # PerformanceTest(h, f)
  PROVE  complained'[t] = FALSE
<1>1. TypeOK /\ InCommand /\ DOMAIN complained = Threads
  BY DEF IInv, SectorInv, Commanded
<1>2. CASE u # t
  BY <1>1, <1>2, Others
<1>3. CASE u = t
  <2>1. ~Finished(t)
    BY <1>1, <1>3, Which
  <2>2. pc[t] \in DOMAIN script[t] /\ script[t] \in Scripts[t]
    BY <1>1, <2>1, Command DEF TypeOK
  <2>3. /\ At(t).do # "Remove"
        /\ At(t).do \in {"Read", "Write", "ReadAt", "WriteAt", "Copy"} =>
              At(t).loop \notin {"write", "check"}
    BY <2>2, TestAssumption DEF At
  <2>4. CASE Return(t)
    <3>1. PICK c : c = call[t] /\ c # NoCall
      BY <2>4 DEF Return
    <3>2. At(t).do \in {"Read", "Write", "ReadAt", "WriteAt", "Copy"}
      BY <1>1, <3>1 DEF InCommand
    <3>3. ~Fails(At(t), numBytes(c), Into(c))
      BY <2>3, <3>2 DEF Fails
    <3>4. Loop(t, At(t), numBytes(c), Into(c))
      BY <2>4, <3>1, ReturnIs
    <3>5. PICK failed : failed = Fails(At(t), numBytes(c), Into(c)) /\ ~failed
      BY <3>3
    <3>6. complained' = [complained EXCEPT ![t] = @ \/ failed]
      BY <3>4, <3>5 DEF Loop
    <3>7. complained'[t] = (complained[t] \/ failed)
      BY <1>1, <3>6
    <3> QED
      BY <3>5, <3>7
  <2>5. ~Remove(t)
    BY <2>3 DEF Remove, Does
  <2>6. CASE ~Return(t)
    <3>1. complained' = complained
      BY <1>3, <2>5, <2>6 DEF Step, Create, Open, Seek, Close, Transfer, StartCopy, ReadSector,
            WriteSector, CopySector
    <3> QED
      BY <3>1
  <2> QED
    BY <2>4, <2>6
<1> QED
  BY <1>2, <1>3

(* Every step keeps what is known of the tests.                            *)
LEMMA TestNext ==
  ASSUME IInv, Commanded, TestInv, NEW u \in Threads, Step(u)
  PROVE  TestInv'
<1>1. script' = script
  BY SameScript
<1>2. ASSUME NEW t \in Threads, NEW h \in Handles, NEW f \in Files \ Present,
             script[t] = Copy(h, f) \o PrintFile(h, f)
      PROVE  CopyPrint(t, h, f)'
  <2>1. CopyPrint(t, h, f)
    BY <1>2 DEF TestInv
  <2> QED
    BY <1>2, <2>1, CopyPrintStep
<1>3. ASSUME NEW t \in Threads, NEW h \in Handles, NEW f \in Files,
             script[t] = PerformanceTest(h, f)
      PROVE  Testing(t, h, f)'
  <2>1. Testing(t, h, f)
    BY <1>3 DEF TestInv
  <2> QED
    BY <1>3, <2>1, TestingStep
<1>4. ASSUME NEW t \in Threads, \A h \in Handles, f \in Files : script[t] # PerformanceTest(h, f)
      PROVE  complained'[t] = FALSE
  <2>1. complained[t] = FALSE
    BY <1>4 DEF TestInv
  <2> QED
    BY <1>4, <2>1, OnlyTestComplains
<1> QED
  BY <1>1, <1>2, <1>3, <1>4 DEF TestInv

(* So does a step that changes nothing.                                    *)
LEMMA TestStutters == ASSUME UNCHANGED vars, Commanded, TestInv PROVE Commanded' /\ TestInv'
<1>1. UNCHANGED <<disk, created, handle, script, pc, call, done, output, complained>>
  BY DEF vars
<1>2. content' = content
  BY <1>1 DEF content
<1>3. Commanded'
  BY <1>1 DEF Commanded, Asked, At
<1>4. ASSUME NEW t \in Threads, NEW h \in Handles, NEW f \in Files, CopyPrint(t, h, f)
      PROVE  CopyPrint(t, h, f)'
  BY <1>1, <1>2, <1>4 DEF CopyPrint, Copied
<1>5. ASSUME NEW t \in Threads, NEW h \in Handles, NEW f \in Files, Testing(t, h, f)
      PROVE  Testing(t, h, f)'
  BY <1>1, <1>2, <1>5 DEF Testing, Tested
<1> QED
  BY <1>1, <1>3, <1>4, <1>5 DEF TestInv

(* It holds when the threads begin.                                        *)
LEMMA TestInit == ASSUME Init PROVE Commanded /\ TestInv
<1>1. TypeOK
  BY InitInv DEF SectorInv
<1>2. /\ pc = [t \in Threads |-> 1] /\ created = Present
      /\ call = [t \in Threads |-> NoCall] /\ done = [t \in Threads |-> 0]
      /\ output = [t \in Threads |-> <<>>] /\ complained = [t \in Threads |-> FALSE]
      /\ handle = [h \in Handles |-> Closed]
  BY DEF Init
<1>3. Commanded
  BY <1>2 DEF Commanded, Closed
<1>4. ASSUME NEW t \in Threads, NEW h \in Handles, NEW f \in Files \ Present
      PROVE  CopyPrint(t, h, f)
  BY <1>2 DEF CopyPrint
<1>5. ASSUME NEW t \in Threads, NEW h \in Handles, NEW f \in Files,
             script[t] = PerformanceTest(h, f)
      PROVE  Testing(t, h, f)
  <2>1. f \notin Present
    BY <1>1, <1>5, TestFile
  <2> QED
    BY <1>2, <2>1 DEF Testing
<1>6. \A t \in Threads : complained[t] = FALSE
  BY <1>2
<1> QED
  BY <1>3, <1>4, <1>5, <1>6 DEF TestInv

(* The commands of the threads, and how far the tests have got.            *)
LEMMA TestsGoOn == Spec => [](IInv /\ Commanded /\ TestInv)
<1>1. Init => Commanded /\ TestInv
  BY TestInit
<1>2. IInv /\ Commanded /\ TestInv /\ [Next]_vars => Commanded' /\ TestInv'
  BY CommandedNext, TestNext, TestStutters DEF Next, Quiet
<1> QED
  BY <1>1, <1>2, Invariance, PTL DEF Spec

(* What Copy takes to a new file through the index blocks it fetches is    *)
(* what Print shows of the file, to the last byte and no further, whatever *)
(* the other threads do with other files and handles meanwhile             *)
(* (fstest.cc, Copy and Print).                                            *)
THEOREM CopiesArePrinted == Spec => []CopyIsPrinted
<1>1. IInv /\ TestInv => CopyIsPrinted
  <2> SUFFICES ASSUME IInv, TestInv, NEW t \in Threads, NEW h \in Handles, NEW f \in Files,
                      script[t] = Copy(h, f) \o PrintFile(h, f), Finished(t), f \in created \ Present
               PROVE  output[t] = Unix[f]
    BY DEF CopyIsPrinted
  <2>1. CopyPrint(t, h, f)
    BY DEF TestInv
  <2>2. Len(script[t]) = 7
    BY CopyPrintLength
  <2>3. pc[t] > 7 /\ pc[t] \in 1 .. 8
    BY <2>1, <2>2 DEF Finished, CopyPrint
  <2>4. pc[t] \in {7, 8}
    BY <2>3
  <2> QED
    BY <2>1, <2>4 DEF CopyPrint
<1> QED
  BY <1>1, TestsGoOn, PTL

(* The performance test finds room and its own bytes again in every round, *)
(* whoever reads its file meanwhile, and nothing else complains            *)
(* (fstest.cc, FileWrite, FileRead and PerformanceTest).                   *)
THEOREM TestsPass == Spec => []PerformanceTestPasses
<1>1. TestInv => PerformanceTestPasses
  <2> SUFFICES ASSUME TestInv, NEW t \in Threads PROVE complained[t] = FALSE
    BY DEF PerformanceTestPasses
  <2>1. CASE \E h \in Handles, f \in Files : script[t] = PerformanceTest(h, f)
    <3>1. PICK h \in Handles, f \in Files : script[t] = PerformanceTest(h, f)
      BY <2>1
    <3>2. Testing(t, h, f)
      BY <3>1 DEF TestInv
    <3> QED
      BY <3>2 DEF Testing
  <2>2. CASE \A h \in Handles, f \in Files : script[t] # PerformanceTest(h, f)
    BY <2>2 DEF TestInv
  <2> QED
    BY <2>1, <2>2
<1> QED
  BY <1>1, TestsGoOn, PTL
=============================================================================
