-------------------------- MODULE FileSystemProofs --------------------------
(***************************************************************************)
(* For any disk, directories, names and sizes.                             *)
(*                                                                         *)
(* 1. Any client, crashes included, until a sector is first misread: the   *)
(* free map's header and block are never given to an object or written     *)
(* over (MapSurvives).  This rests on the inductive invariant IInv: no     *)
(* entry, header or pending write leads to them (MapInv), or a sector has  *)
(* been misread, and then nothing is claimed.                              *)
(*                                                                         *)
(* 2. A careful client: no sector is ever misread, between two operations  *)
(* the tree is consistent and currentDir agrees with it, in an operation   *)
(* only its own entry is in doubt, and what it answers is true of the      *)
(* disk.  This rests on the inductive invariant FsInv.  Its state is one   *)
(* of four: Rests, the disk is Good; Writes, it will be with the writes    *)
(* that are to come, and by any part of them has been Altered in ways an   *)
(* operation May alter it; Fills, it is Good and a sector of a file's data *)
(* is to be written; Crashed, nothing happens any more.                    *)
(*                                                                         *)
(* The sets of directories D in it are what Dirs computes: Reached says D  *)
(* is the least set that the entries close, SoundConsistent and DirsAll    *)
(* carry this over to Dirs.                                                *)
(***************************************************************************)
EXTENDS FileSystem, TLAPS, FiniteSetTheorems, SequenceTheorems, FunctionTheorems,
        WellFoundedInduction

-----------------------------------------------------------------------------
(* Numbers.                                                                *)

(* A set of naturals has a smallest element.                               *)
LEMMA Smallest ==
  ASSUME NEW T \in SUBSET Nat, T # {}
  PROVE  Min(T) \in T /\ \A y \in T : Min(T) <= y
<1> DEFINE R == OpToRel(<, Nat)
<1>1. PICK x \in T : \A y \in T : ~ (<<y, x>> \in R)
  BY NatLessThanWellFounded, WFMin, Zenon
<1>2. \A y, z \in Nat : y < z => <<y, z>> \in R
  BY DEF OpToRel
<1> HIDE DEF R
<1>3. ASSUME NEW y \in T PROVE x <= y
  <2>1. y \in Nat /\ x \in Nat
    OBVIOUS
  <2>2. <<y, x>> \notin R
    BY <1>1
  <2>3. ~(y < x)
    BY <1>2, <2>1, <2>2
  <2> QED
    BY <2>1, <2>3
<1>4. \E z \in T : \A y \in T : z <= y
  BY <1>3
<1> QED
  BY <1>4, Zenon DEF Min

(* A set of naturals that is bounded has a largest one.                    *)
LEMMA Largest ==
  ASSUME NEW n \in Nat, NEW T \in SUBSET (0 .. n), T # {}
  PROVE  Max(T) \in T /\ \A y \in T : y <= Max(T)
<1> DEFINE U == {n - t : t \in T}
<1>1. U \in SUBSET Nat /\ U # {}
  <2>1. \A t \in T : n - t \in Nat
    OBVIOUS
  <2> QED
    BY <2>1
<1>2. PICK u \in U : \A v \in U : u <= v
  BY <1>1, Smallest
<1>3. PICK x \in T : u = n - x
  OBVIOUS
<1>4. ASSUME NEW y \in T PROVE x >= y
  <2>1. u <= n - y
    BY <1>2
  <2> QED
    BY <1>3, <2>1
<1>5. \E z \in T : \A y \in T : z >= y
  BY <1>4
<1>6. Max(T) \in T /\ \A y \in T : Max(T) >= y
  BY <1>5, Zenon DEF Max
<1> QED
  BY <1>6

(* Induction over the naturals, for sets.                                  *)
LEMMA SetInduction ==
  ASSUME NEW S \in SUBSET Nat, 0 \in S, \A n \in S : n + 1 \in S
  PROVE  S = Nat
<1> SUFFICES ASSUME Nat \ S # {} PROVE FALSE
  OBVIOUS
<1>1. PICK x \in Nat \ S : \A y \in Nat \ S : x <= y
  BY Smallest
<1>2. x - 1 \in Nat /\ x - 1 \in S
  BY <1>1
<1> QED
  BY <1>1, <1>2

(* The smaller of two numbers.                                             *)
LEMMA MinOfTwo ==
  ASSUME NEW m \in Nat, NEW n \in Nat, m <= n
  PROVE  Min({m, n}) = m
<1>1. Min({m, n}) \in {m, n} /\ \A y \in {m, n} : Min({m, n}) <= y
  BY Smallest
<1> QED
  BY <1>1

(* DivRoundUp: a file of n blocks has at most n index blocks, and n items, *)
(* k in each, need so many places.                                         *)
LEMMA RoundUp ==
  ASSUME NEW n \in Nat, NEW k \in Nat \ {0}
  PROVE  /\ DivRoundUp(n, k) \in Nat /\ DivRoundUp(n, k) <= n
         /\ \A i \in 0 .. n - 1 : (i \div k) + 1 \in 1 .. DivRoundUp(n, k)
<1>1. (n + k - 1) \div k \in Nat /\ (n + k - 1) \div k <= n
  OBVIOUS
<1>2. ASSUME NEW i \in 0 .. n - 1 PROVE (i \div k) + 1 \in 1 .. (n + k - 1) \div k
  OBVIOUS
<1> QED
  BY <1>1, <1>2 DEF DivRoundUp

(* How many pointers are in an index block.                                *)
LEMMA IndexBlockSize ==
  ASSUME NEW n \in Nat, NEW j \in 1 .. IndexCount(n)
  PROVE  Min({FanOut, n - (j - 1) * FanOut}) \in Nat
<1>1. FanOut \in Nat \ {0}
  BY SizesAssumption
<1>2. (j - 1) * FanOut <= n
  <2>1. j <= (n + FanOut - 1) \div FanOut
    BY DEF IndexCount, DivRoundUp
  <2>2. \A k \in Nat \ {0} : j \in Int /\ j <= (n + k - 1) \div k => (j - 1) * k <= n
    OBVIOUS
  <2> QED
    BY <1>1, <2>1, <2>2
<1>3. {FanOut, n - (j - 1) * FanOut} \in SUBSET Nat
  BY <1>1, <1>2
<1> QED
  BY <1>3, Smallest

-----------------------------------------------------------------------------
(* BitMap: what Find() returns.                                            *)

(* As long as there are k clear sectors, the k-th call finds one of them,  *)
(* with k - 1 of them before it.                                           *)
LEMMA NthIsFree ==
  ASSUME NEW free \in SUBSET Nat, IsFiniteSet(free), NEW k \in 1 .. Cardinality(free)
  PROVE  /\ Nth(free, k) \in free
         /\ Cardinality({t \in free : t < Nth(free, k)}) = k - 1
<1> DEFINE c == Cardinality(free)
           Below(s) == {t \in free : t < s}
           S == {m \in Nat : m < c => \E s \in free : Cardinality(Below(s)) = m}
<1>1. c \in Nat /\ free # {} /\ 0 < c
  BY FS_CardinalityType, FS_EmptySet
<1>2. \A s : IsFiniteSet(Below(s)) /\ Cardinality(Below(s)) \in Nat
  BY FS_Subset, FS_CardinalityType
<1>3. 0 \in S
  <2>1. PICK s \in free : \A t \in free : s <= t
    BY <1>1, Smallest
  <2>2. \A t \in free : ~(t < s)
    <3> SUFFICES ASSUME NEW t \in free PROVE ~(t < s)
      OBVIOUS
    <3>1. s \in Nat /\ t \in Nat /\ s <= t
      BY <2>1
    <3> QED
      BY <3>1
  <2>3. Cardinality(Below(s)) = 0
    <3>1. Below(s) = {}
      BY <2>2
    <3> QED
      BY <3>1, FS_EmptySet
  <2> QED
    BY <2>3
<1>4. ASSUME NEW m \in S PROVE m + 1 \in S
  <2> SUFFICES ASSUME m + 1 < c PROVE \E s \in free : Cardinality(Below(s)) = m + 1
    OBVIOUS
  <2>1. PICK s \in free : Cardinality(Below(s)) = m
    BY <1>1
  <2> DEFINE upto == Below(s) \cup {s}
             above == free \ upto
  <2>2. IsFiniteSet(upto) /\ Cardinality(upto) = m + 1
    <3>1. s \notin Below(s)
      OBVIOUS
    <3> HIDE DEF Below
    <3> QED
      BY <1>2, <2>1, <3>1, FS_AddElement
  <2>3. above # {}
    <3> SUFFICES ASSUME above = {} PROVE FALSE
      OBVIOUS
    <3>1. upto = free
      OBVIOUS
    <3> QED
      BY <3>1, <2>2, <1>1
  <2>4. PICK u \in above : \A t \in above : u <= t
    BY <2>3, Smallest
  <2>5. Below(u) = upto
    <3> SUFFICES ASSUME NEW t \in free PROVE t < u <=> t \in upto
      OBVIOUS
    <3>1. /\ t \in Nat /\ u \in Nat /\ s \in Nat
          /\ u \notin upto /\ (t \notin upto => u <= t)
      BY <2>4
    <3>2. t \in upto <=> t <= s
      BY <3>1
    <3>3. s < u
      BY <2>4, <3>1
    <3> QED
      BY <3>1, <3>2, <3>3
  <2> QED
    BY <2>2, <2>4, <2>5
<1>5. S = Nat
  <2> HIDE DEF S
  <2>1. S \in SUBSET Nat
    BY DEF S
  <2> QED
    BY <1>3, <1>4, <2>1, SetInduction
<1>6. \E s \in free : Cardinality(Below(s)) = k - 1
  <2>1. k - 1 \in S /\ k - 1 < c
    BY <1>1, <1>5
  <2> QED
    BY <2>1
<1>7. ~(k > c)
  BY <1>1
<1> QED
  BY <1>6, <1>7 DEF Nth

(* The other calls find a clear sector, or none.                           *)
LEMMA FindResult ==
  ASSUME NEW free \in SUBSET Nat, IsFiniteSet(free), NEW k \in Nat \ {0}
  PROVE  Nth(free, k) \in free \cup {NoSector}
<1>1. CASE k \in 1 .. Cardinality(free)
  BY <1>1, NthIsFree
<1>2. CASE k \notin 1 .. Cardinality(free)
  <2>1. k > Cardinality(free)
    BY <1>2, FS_CardinalityType
  <2> QED
    BY <2>1 DEF Nth
<1> QED
  BY <1>1, <1>2

-----------------------------------------------------------------------------
(* Sequences of writes.                                                    *)

(* Series of writes, each of which is safe.                                *)
LEMMA SafeIntro ==
  ASSUME NEW n \in Nat, NEW writes, writes = [i \in 1 .. n |-> writes[i]],
         \A i \in 1 .. n : SafeWrite(writes[i])
  PROVE  SafeWrites(writes)
<1>1. DOMAIN writes = 1 .. n
  BY Zenon
<1>2. Range(writes) = {writes[i] : i \in 1 .. n}
  BY <1>1, Zenon DEF Range
<1>3. writes \in [1 .. n -> Range(writes)]
  BY <1>1, <1>2
<1>4. writes \in Seq(Range(writes))
  BY <1>3, SeqDef
<1> QED
  BY <1>2, <1>4 DEF SafeWrites

(* Each write of a safe series is safe.                                    *)
LEMMA SafeElim ==
  ASSUME NEW writes, SafeWrites(writes)
  PROVE  /\ Len(writes) \in Nat /\ DOMAIN writes = 1 .. Len(writes)
         /\ writes = [i \in 1 .. Len(writes) |-> writes[i]]
         /\ \A i \in 1 .. Len(writes) : SafeWrite(writes[i])
<1>1. writes \in Seq(Range(writes))
  BY DEF SafeWrites
<1>2. Len(writes) \in Nat /\ DOMAIN writes = 1 .. Len(writes)
  BY <1>1, LenProperties
<1>3. writes = [i \in 1 .. Len(writes) |-> writes[i]]
  BY <1>1, LenProperties
<1>4. \A i \in 1 .. Len(writes) : writes[i] \in Range(writes)
  BY <1>2 DEF Range
<1> QED
  BY <1>2, <1>3, <1>4 DEF SafeWrites

(* Two safe series, one after the other.                                   *)
LEMMA SafeConcat ==
  ASSUME NEW v, SafeWrites(v), NEW w, SafeWrites(w)
  PROVE  SafeWrites(v \o w)
<1> DEFINE R == Range(v) \cup Range(w)
<1>1. v \in Seq(R) /\ w \in Seq(R)
  BY SeqMonotonic DEF SafeWrites
<1>2. /\ v \o w \in Seq(R)
      /\ Len(v \o w) = Len(v) + Len(w)
      /\ \A i \in 1 .. Len(v) + Len(w) :
            (v \o w)[i] = IF i <= Len(v) THEN v[i] ELSE w[i - Len(v)]
  BY <1>1, ConcatProperties
<1>3. /\ Len(v) \in Nat /\ Len(w) \in Nat
      /\ \A i \in 1 .. Len(v) : SafeWrite(v[i])
      /\ \A i \in 1 .. Len(w) : SafeWrite(w[i])
  BY SafeElim
<1>4. \A i \in 1 .. Len(v \o w) : SafeWrite((v \o w)[i])
  <2> SUFFICES ASSUME NEW i \in 1 .. Len(v) + Len(w) PROVE SafeWrite((v \o w)[i])
    BY <1>2
  <2>1. CASE i <= Len(v)
    BY <1>2, <1>3, <2>1
  <2>2. CASE ~(i <= Len(v))
    <3>1. i - Len(v) \in 1 .. Len(w)
      BY <1>3, <2>2
    <3> QED
      BY <1>2, <1>3, <2>2, <3>1
  <2> QED
    BY <2>1, <2>2
<1>5. Len(v \o w) \in Nat /\ v \o w = [i \in 1 .. Len(v \o w) |-> (v \o w)[i]]
  BY <1>2, LenProperties
<1> QED
  BY <1>4, <1>5, SafeIntro

(* A single write.                                                         *)
LEMMA SafeOne ==
  ASSUME NEW w, SafeWrite(w)
  PROVE  SafeWrites(<<w>>)
<1>1. <<w>> = [i \in 1 .. 1 |-> <<w>>[i]] /\ \A i \in 1 .. 1 : <<w>>[i] = w
  OBVIOUS
<1>2. \A i \in 1 .. 1 : SafeWrite(<<w>>[i])
  BY <1>1
<1> QED
  BY <1>1, <1>2, SafeIntro

(* One write more.                                                         *)
LEMMA SafeAppend ==
  ASSUME NEW v, SafeWrites(v), NEW w, SafeWrite(w)
  PROVE  SafeWrites(Append(v, w))
<1> DEFINE R == Range(v) \cup {w}
<1>1. v \in Seq(R) /\ w \in R
  BY SeqMonotonic DEF SafeWrites
<1>2. Append(v, w) = v \o <<w>>
  BY <1>1, AppendIsConcat
<1> QED
  BY <1>2, SafeOne, SafeConcat

(* The write that is next, and those after it.                             *)
LEMMA SafeHeadTail ==
  ASSUME NEW v, SafeWrites(v), v # <<>>
  PROVE  SafeWrites(<<Head(v)>>) /\ SafeWrites(Tail(v))
<1>1. v \in Seq(Range(v))
  BY DEF SafeWrites
<1>2. /\ Len(v) \in Nat \ {0} /\ Head(v) = v[1]
      /\ Tail(v) \in Seq(Range(v)) /\ Len(Tail(v)) = Len(v) - 1
      /\ \A i \in 1 .. Len(v) - 1 : Tail(v)[i] = v[i + 1]
  BY <1>1, HeadTailProperties, EmptySeq
<1>3. \A i \in 1 .. Len(v) : SafeWrite(v[i])
  BY SafeElim
<1>4. SafeWrite(Head(v))
  BY <1>2, <1>3
<1>5. \A i \in 1 .. Len(Tail(v)) : SafeWrite(Tail(v)[i])
  BY <1>2, <1>3
<1>6. Len(Tail(v)) \in Nat /\ Tail(v) = [i \in 1 .. Len(Tail(v)) |-> Tail(v)[i]]
  BY <1>2, LenProperties
<1> QED
  BY <1>4, <1>5, <1>6, SafeOne, SafeIntro

(* What the sizes imply.                                                   *)
LEMMA Sizing ==
  /\ DirSectors \in Nat \ {0} /\ NumSectors \in Nat /\ NumDirEntries \in Nat
  /\ EntriesPerSector \in Nat \ {0} /\ FanOut \in Nat \ {0} /\ NumDirect \in Nat
  /\ FreeMapSector \in Sector /\ MapDataSector \in Sector /\ RootSector \in Unprotected
  /\ Sector \in SUBSET Nat /\ IsFiniteSet(Sector)
  /\ Unprotected \in SUBSET Sector /\ NoSector \notin Sector
  /\ \A k \in 1 .. DirSectors : 2 + k \in Unprotected
<1>1. DirSectors \in Nat
  BY SizesAssumption, RoundUp DEF DirSectors
<1>2. NumSectors \in Nat /\ NumSectors >= 3 + DirSectors
  BY SizesAssumption
<1>3. 1 \in 1 .. DirSectors
  <2>1. (0 \div EntriesPerSector) + 1 \in 1 .. DirSectors
    BY SizesAssumption, RoundUp DEF DirSectors
  <2>2. 0 \div EntriesPerSector = 0
    BY SizesAssumption
  <2> QED
    BY <2>1, <2>2
<1>4. IsFiniteSet(Sector)
  BY <1>2, FS_Interval DEF Sector
<1>5. /\ FreeMapSector \in Sector /\ MapDataSector \in Sector /\ RootSector \in Unprotected
      /\ Sector \in SUBSET Nat /\ Unprotected \in SUBSET Sector /\ NoSector \notin Sector
      /\ \A k \in 1 .. DirSectors : 2 + k \in Unprotected
  BY <1>1, <1>2
  DEF Sector, FreeMapSector, MapDataSector, RootSector, Unprotected, Protected, NoSector
<1> QED
  BY <1>1, <1>3, <1>4, <1>5, SizesAssumption

(* A write that is safe leaves a safe disk, and so does a series of them.  *)
LEMMA ApplySafe ==
  ASSUME NEW d, SafeDisk(d), NEW writes, SafeWrites(writes)
  PROVE  SafeDisk(Apply(d, writes))
<1> DEFINE hits(s) == {i \in DOMAIN writes : writes[i].sector = s}
           new(s) == IF hits(s) = {} THEN d[s] ELSE writes[Max(hits(s))].content
<1>1. Apply(d, writes) = [s \in Sector |-> new(s)]
  BY DEF Apply, SafeDisk
<1>2. /\ Len(writes) \in Nat /\ DOMAIN writes = 1 .. Len(writes)
      /\ \A i \in 1 .. Len(writes) : SafeWrite(writes[i])
  BY SafeElim
<1>3. ASSUME NEW s, hits(s) # {}
      PROVE  \E w : SafeWrite(w) /\ w.sector = s /\ new(s) = w.content
  <2>1. hits(s) \in SUBSET (0 .. Len(writes))
    BY <1>2
  <2>2. Max(hits(s)) \in hits(s)
    <3> HIDE DEF hits
    <3> QED
      BY <1>2, <1>3, <2>1, Largest
  <2>3. SafeWrite(writes[Max(hits(s))]) /\ writes[Max(hits(s))].sector = s
    BY <1>2, <2>2
  <2> QED
    BY <1>3, <2>3
<1>4. \A s : hits(s) = {} => new(s) = d[s]
  OBVIOUS
<1> HIDE DEF new, hits
<1>5. /\ 0 \notin Unprotected /\ 2 \notin Unprotected /\ 0 \in Sector /\ 2 \in Sector
      /\ Unprotected \in SUBSET Sector
  BY Sizing DEF Unprotected, Protected, FreeMapSector, MapDataSector
<1>6. new(FreeMapSector) = d[FreeMapSector]
  <2>1. \A w : SafeWrite(w) => w.sector # FreeMapSector
    BY <1>5 DEF SafeWrite, FreeMapSector, MapDataSector
  <2> QED
    BY <1>3, <1>4, <2>1
<1>7. CleanMap(new(MapDataSector))
  <2>1. \A w : SafeWrite(w) /\ w.sector = MapDataSector => CleanMap(w.content)
    BY <1>5 DEF SafeWrite, MapDataSector
  <2> QED
    BY <1>3, <1>4, <2>1 DEF SafeDisk
<1>8. ASSUME NEW s \in Unprotected PROVE Clean(new(s))
  <2>1. \A w : SafeWrite(w) /\ w.sector = s => Clean(w.content)
    BY <1>5 DEF SafeWrite, MapDataSector
  <2>2. Clean(d[s])
    BY DEF SafeDisk
  <2> QED
    BY <1>3, <1>4, <2>1, <2>2
<1>9. \A s \in Sector : Apply(d, writes)[s] = new(s)
  BY <1>1
<1>10. DOMAIN Apply(d, writes) = Sector
  BY <1>1
<1>11. FreeMapSector \in Sector /\ MapDataSector \in Sector
  BY Sizing
<1> QED
  BY <1>5, <1>6, <1>7, <1>8, <1>9, <1>10, <1>11 DEF SafeDisk

(* The free map holds sectors a write may go to.                           *)
LEMMA FreeAreUnprotected ==
  ASSUME NEW d, SafeDisk(d)
  PROVE  /\ FreeMap(d) \in SUBSET Unprotected
         /\ \A k \in Nat : AfterFinds(FreeMap(d), k) \in SUBSET FreeMap(d)
<1>1. FreeMap(d) \in SUBSET Unprotected
  BY DEF SafeDisk, CleanMap, FreeMap
<1> QED
  BY <1>1 DEF AfterFinds

(* What Find() leaves is part of what was free.                            *)
LEMMA UnprotectedSubset ==
  ASSUME NEW free \in SUBSET Unprotected
  PROVE  free \in SUBSET Nat /\ IsFiniteSet(free)
BY Sizing, FS_Subset

(* The first sector of a map that is not empty.                            *)
LEMMA FirstFree ==
  ASSUME NEW free \in SUBSET Unprotected, free # {}
  PROVE  Nth(free, 1) \in free
<1>1. free \in SUBSET Nat /\ IsFiniteSet(free)
  BY UnprotectedSubset
<1>2. 1 \in 1 .. Cardinality(free)
  <2>1. Cardinality(free) \in Nat /\ Cardinality(free) # 0
    BY <1>1, FS_CardinalityType, FS_EmptySet
  <2> QED
    BY <2>1
<1> QED
  BY <1>1, <1>2, NthIsFree

(* The map may be written where it belongs.                                *)
LEMMA SafeFlush ==
  ASSUME NEW free \in SUBSET Unprotected
  PROVE  SafeWrites(FlushMap(free))
<1>1. SafeWrite(Write(MapDataSector, MapBlock(free)))
  BY DEF SafeWrite, Write, MapBlock, CleanMap
<1> QED
  BY <1>1, SafeOne DEF FlushMap

-----------------------------------------------------------------------------
(* Tables.                                                                 *)

(* FindIndex returns an entry of the table.                                *)
LEMMA MatchesAreEntries ==
  ASSUME NEW table, CleanTable(table), NEW name, InDirectory(table, name)
  PROVE  FindIndex(table, name) \in 0 .. NumDirEntries - 1
<1>1. Matches(table, name) \in SUBSET (0 .. NumDirEntries - 1) /\ Matches(table, name) # {}
  BY DEF Matches, CleanTable, InDirectory
<1>2. Matches(table, name) \in SUBSET Nat
  BY <1>1
<1>3. FindIndex(table, name) \in Matches(table, name)
  BY <1>1, <1>2, Smallest DEF FindIndex
<1> QED
  BY <1>1, <1>3

(* Add leads to the sector it was given, and to no other.                  *)
LEMMA CleanAdd ==
  ASSUME NEW table, CleanTable(table), NEW name \in Names, NEW isDir \in BOOLEAN,
         NEW sector \in Unprotected
  PROVE  CleanTable(Add(table, name, isDir, sector))
<1>1. Entry(name, isDir, sector) \in CleanEntry
  BY DEF Entry, CleanEntry
<1> QED
  BY <1>1 DEF Add, CleanTable

(* setInUseOfIndex leads nowhere new.                                      *)
LEMMA CleanUnuse ==
  ASSUME NEW table, CleanTable(table), NEW i \in 0 .. NumDirEntries - 1
  PROVE  CleanTable(Unuse(table, i))
<1>1. table[i] \in CleanEntry
  BY DEF CleanTable
<1>2. [table[i] EXCEPT !.inUse = FALSE] \in CleanEntry
  BY <1>1 DEF CleanEntry
<1>3. FreeEntry \in CleanEntry
  BY DEF FreeEntry, CleanEntry
<1> QED
  BY <1>2, <1>3 DEF Unuse, CleanTable

(* A new directory leads to itself and to its parent.                      *)
LEMMA CleanNew ==
  ASSUME NEW self \in Unprotected, NEW parent \in Unprotected \cup {NoSector}
  PROVE  CleanTable(NewDirectory(self, parent))
<1>1. /\ Entry(".", TRUE, self) \in CleanEntry
      /\ Entry("..", TRUE, parent) \in CleanEntry
      /\ FreeEntry \in CleanEntry
  BY DEF Entry, FreeEntry, CleanEntry
<1> DEFINE slot(i) == CASE i = CurrentDirectoryIndex -> Entry(".", TRUE, self)
                        [] i = ParentDirectoryIndex -> Entry("..", TRUE, parent)
                        [] OTHER -> FreeEntry
<1>2. NewDirectory(self, parent) = [i \in 0 .. NumDirEntries - 1 |-> slot(i)]
  BY Zenon DEF NewDirectory
<1>3. 0 # 1
  OBVIOUS
<1>4. ASSUME NEW i PROVE slot(i) \in CleanEntry
  <2>1. CASE i = 0
    <3>1. slot(i) = Entry(".", TRUE, self)
      BY <2>1, <1>3, Zenon DEF CurrentDirectoryIndex, ParentDirectoryIndex
    <3> QED
      BY <3>1, <1>1, Zenon
  <2>2. CASE i = 1
    <3>1. slot(i) = Entry("..", TRUE, parent)
      BY <2>2, <1>3, Zenon DEF CurrentDirectoryIndex, ParentDirectoryIndex
    <3> QED
      BY <3>1, <1>1, Zenon
  <2>3. CASE i # 0 /\ i # 1
    <3>1. slot(i) = FreeEntry
      BY <2>3, Zenon DEF CurrentDirectoryIndex, ParentDirectoryIndex
    <3> QED
      BY <3>1, <1>1, Zenon
  <2> QED
    BY <2>1, <2>2, <2>3, Zenon
<1> HIDE DEF slot
<1> QED
  BY <1>2, <1>4 DEF CleanTable

(* A part of a clean table may be written anywhere but to the map.         *)
LEMMA CleanSlice ==
  ASSUME NEW table, CleanTable(table), NEW k \in 1 .. DirSectors
  PROVE  Clean(DirSlice(k, table))
<1>1. SliceIndexes(k) \in SUBSET (0 .. NumDirEntries - 1)
  BY DEF SliceIndexes
<1>2. [i \in SliceIndexes(k) |-> table[i]] \in [SliceIndexes(k) -> CleanEntry]
  BY <1>1 DEF CleanTable
<1> QED
  BY <1>2 DEF DirSlice, Clean

(* Writing a table back: to the sectors its header leads to.               *)
LEMMA SafeWriteBack ==
  ASSUME NEW d, SafeDisk(d), NEW s \in Unprotected \cup {NoSector}, IsDirectoryHeader(d, s),
         NEW table, CleanTable(table)
  PROVE  SafeWrites(WriteBack(d, s, table))
<1>1. s \in Unprotected /\ d[s].kind = "hdr" /\ Len(d[s].dataSectors) >= DirSectors
  BY Sizing DEF IsDirectoryHeader, IsHeader
<1>2. d[s].dataSectors \in Seq(Unprotected)
  BY <1>1 DEF SafeDisk, Clean
<1>3. \A k \in 1 .. DirSectors : d[s].dataSectors[k] \in Unprotected
  <2>1. \A k \in 1 .. Len(d[s].dataSectors) : d[s].dataSectors[k] \in Unprotected
    BY <1>2, ElementOfSeq
  <2>2. Len(d[s].dataSectors) \in Nat /\ DirSectors \in Nat
    BY <1>2, LenProperties, Sizing
  <2> QED
    BY <1>1, <2>1, <2>2
<1> DEFINE w == [k \in 1 .. DirSectors |-> Write(d[s].dataSectors[k], DirSlice(k, table))]
<1>4. \A k \in 1 .. DirSectors : SafeWrite(w[k])
  BY <1>3, CleanSlice DEF SafeWrite, Write
<1>5. w = [k \in 1 .. DirSectors |-> w[k]] /\ DirSectors \in Nat
  BY Sizing
<1> HIDE DEF w
<1>6. SafeWrites(w)
  BY <1>4, <1>5, SafeIntro
<1> QED
  BY <1>6, Zenon DEF WriteBack, w

(* A table that is read from a safe disk is clean.                         *)
LEMMA CleanFetch ==
  ASSUME NEW d, SafeDisk(d), NEW s \in Unprotected \cup {NoSector}, IsDirectory(d, s)
  PROVE  CleanTable(FetchFrom(d, s))
<1>1. s \in Unprotected /\ d[s].kind = "hdr" /\ Len(d[s].dataSectors) >= DirSectors
  BY Sizing DEF IsDirectory, IsDirectoryHeader, IsHeader
<1>2. d[s].dataSectors \in Seq(Unprotected)
  BY <1>1 DEF SafeDisk, Clean
<1>3. \A k \in 1 .. DirSectors : d[s].dataSectors[k] \in Unprotected
  <2>1. \A k \in 1 .. Len(d[s].dataSectors) : d[s].dataSectors[k] \in Unprotected
    BY <1>2, ElementOfSeq
  <2>2. Len(d[s].dataSectors) \in Nat /\ DirSectors \in Nat
    BY <1>2, LenProperties, Sizing
  <2> QED
    BY <1>1, <2>1, <2>2
<1>4. ASSUME NEW k \in 1 .. DirSectors, NEW i \in SliceIndexes(k)
      PROVE  d[d[s].dataSectors[k]].entries[i] \in CleanEntry
  <2> DEFINE c == d[d[s].dataSectors[k]]
  <2>1. c.kind = "dir" /\ c.slice = k
    BY DEF IsDirectory
  <2>2. Clean(c)
    BY <1>3 DEF SafeDisk
  <2> HIDE DEF c
  <2>3. c.entries \in [SliceIndexes(k) -> CleanEntry]
    BY <2>1, <2>2 DEF Clean
  <2>4. c.entries[i] \in CleanEntry
    BY <2>3
  <2> QED
    BY <2>4 DEF c
<1>5. ASSUME NEW i \in 0 .. NumDirEntries - 1
      PROVE  /\ (i \div EntriesPerSector) + 1 \in 1 .. DirSectors
             /\ i \in SliceIndexes((i \div EntriesPerSector) + 1)
  <2>1. (i \div EntriesPerSector) + 1 \in 1 .. DirSectors
    BY Sizing, RoundUp DEF DirSectors
  <2>2. (i \div EntriesPerSector) \in Int
    BY Sizing
  <2> QED
    BY <2>1, <2>2 DEF SliceIndexes
<1>6. \A i \in 0 .. NumDirEntries - 1 :
        d[d[s].dataSectors[(i \div EntriesPerSector) + 1]].entries[i] \in CleanEntry
  BY <1>4, <1>5
<1> QED
  BY <1>6, Zenon DEF FetchFrom, CleanTable

(* getSector() of a clean table.                                           *)
LEMMA CleanSelf ==
  ASSUME NEW table, CleanTable(table), NEW i \in 0 .. NumDirEntries - 1
  PROVE  /\ table[i].sector \in Unprotected \cup {NoSector}
         /\ getSector(table) \in Unprotected \cup {NoSector}
<1>1. 0 \in 0 .. NumDirEntries - 1
  BY SizesAssumption
<1>2. \A j \in 0 .. NumDirEntries - 1 : table[j] \in CleanEntry
  BY DEF CleanTable
<1>3. \A e \in CleanEntry : e.sector \in Unprotected \cup {NoSector}
  BY DEF CleanEntry
<1> QED
  BY <1>1, <1>2, <1>3 DEF getSector, CurrentDirectoryIndex

-----------------------------------------------------------------------------
(* The operations.                                                         *)

(* An index block, whatever Find() returned.                               *)
LEMMA CleanIndexBlock ==
  ASSUME NEW free \in SUBSET Unprotected, NEW n \in Nat, NEW j \in 1 .. IndexCount(n)
  PROVE  Clean(IndexBlock(DataPointers(free, n, j)))
<1> DEFINE first == (j - 1) * (FanOut + 1) + 1
           size == Min({FanOut, n - (j - 1) * FanOut})
           ptrs == [i \in 1 .. size |-> Nth(free, first + i)]
<1>1. first \in Nat
  <2>1. j - 1 \in Nat /\ FanOut + 1 \in Nat
    BY Sizing, RoundUp DEF IndexCount
  <2>2. \A x, y \in Nat : x * y \in Nat
    OBVIOUS
  <2>3. (j - 1) * (FanOut + 1) \in Nat
    BY <2>1, <2>2
  <2> QED
    BY <2>3
<1>2. size \in Nat
  BY IndexBlockSize
<1> HIDE DEF first, size
<1>3. ASSUME NEW i \in 1 .. size PROVE ptrs[i] \in Unprotected \cup {NoSector}
  <2>1. first + i \in Nat \ {0}
    BY <1>1, <1>2
  <2>2. Nth(free, first + i) \in free \cup {NoSector}
    BY <2>1, UnprotectedSubset, FindResult
  <2> QED
    BY <2>2
<1>4. ptrs \in [1 .. size -> Unprotected \cup {NoSector}]
  BY <1>3
<1>5. ptrs \in Seq(Unprotected \cup {NoSector})
  <2> HIDE DEF ptrs
  <2> QED
    BY <1>2, <1>4, SeqDef
<1>6. DataPointers(free, n, j) = ptrs
  BY Zenon DEF DataPointers, first, size
<1> HIDE DEF ptrs
<1> QED
  BY <1>5, <1>6 DEF Clean, IndexBlock

(* The index blocks that are written before Find() fails.                  *)
LEMMA SafeBeforeAbort ==
  ASSUME NEW free \in SUBSET Unprotected, NEW n \in Nat,
         \E j \in 1 .. Min({IndexCount(n), NumDirect}) : IndexPointers(free, n)[j] = NoSector
  PROVE  SafeWrites(BeforeAbort(free, n))
<1> DEFINE ptrs == IndexPointers(free, n)
           missing == {j \in 1 .. IndexCount(n) : ptrs[j] = NoSector}
           last == Min(missing) - 1
           w == [j \in 1 .. last |-> IndexWrites(free, n)[j]]
<1>1. IndexCount(n) \in Nat /\ NumDirect \in Nat
  BY Sizing, RoundUp DEF IndexCount
<1>2. Min({IndexCount(n), NumDirect}) <= IndexCount(n) /\ Min({IndexCount(n), NumDirect}) \in Nat
  BY <1>1, Smallest
<1>3. missing \in SUBSET Nat /\ missing # {}
  BY <1>1, <1>2
<1>4. /\ last \in Nat /\ last <= IndexCount(n)
      /\ \A j \in 1 .. last : j \in 1 .. IndexCount(n) /\ ptrs[j] # NoSector
  <2>1. Min(missing) \in missing /\ \A y \in missing : Min(missing) <= y
    BY <1>3, Smallest
  <2>2. Min(missing) \in 1 .. IndexCount(n)
    BY <2>1
  <2>3. last \in Nat /\ last < IndexCount(n)
    BY <1>1, <2>2
  <2>4. \A j \in 1 .. last : j \in 1 .. IndexCount(n) /\ ~(Min(missing) <= j)
    BY <1>1, <2>2, <2>3
  <2>5. ASSUME NEW j \in 1 .. last
        PROVE  j \in 1 .. IndexCount(n) /\ ptrs[j] # NoSector
    <3>1. j \in 1 .. IndexCount(n) /\ ~(Min(missing) <= j)
      BY <2>4
    <3>2. j \notin missing
      BY <2>1, <3>1
    <3> QED
      BY <3>1, <3>2
  <2>6. last <= IndexCount(n)
    <3> HIDE DEF last
    <3> QED
      BY <1>1, <2>3
  <2> HIDE DEF ptrs, last
  <2> QED
    BY <2>3, <2>5, <2>6
<1> HIDE DEF last, missing
<1>5. ASSUME NEW j \in 1 .. last PROVE SafeWrite(w[j])
  <2>1. j \in 1 .. IndexCount(n) /\ ptrs[j] # NoSector
    BY <1>4
  <2> HIDE DEF ptrs
  <2>2. w[j] = Write(ptrs[j], IndexBlock(DataPointers(free, n, j)))
    BY <2>1 DEF IndexWrites, ptrs
  <2>3. Clean(IndexBlock(DataPointers(free, n, j)))
    BY <2>1, CleanIndexBlock
  <2>4. ptrs[j] \in free \cup {NoSector}
    <3> DEFINE k == (j - 1) * (FanOut + 1) + 1
    <3>1. k \in Nat \ {0}
      <4>1. j - 1 \in Nat /\ FanOut + 1 \in Nat
        BY <1>1, <2>1, Sizing
      <4>2. \A x, y \in Nat : x * y \in Nat
        OBVIOUS
      <4>3. (j - 1) * (FanOut + 1) \in Nat
        BY <4>1, <4>2
      <4> QED
        BY <4>3
    <3>2. ptrs[j] = Nth(free, k)
      BY <2>1, Zenon DEF IndexPointers, ptrs
    <3> HIDE DEF k
    <3> QED
      BY <3>1, <3>2, UnprotectedSubset, FindResult
  <2> HIDE DEF w
  <2> QED
    BY <2>1, <2>2, <2>3, <2>4 DEF SafeWrite, Write
<1>6. w = [j \in 1 .. last |-> w[j]]
  OBVIOUS
<1> HIDE DEF w
<1>7. SafeWrites(w)
  BY <1>4, <1>5, <1>6, SafeIntro
<1> QED
  BY <1>7, Zenon DEF BeforeAbort, w, last, missing, ptrs

(* The blocks of a new file, if no pointer is -1.                          *)
LEMMA SafeNewFile ==
  ASSUME SafeDisk(disk), FreeMap(disk) # {}, NEW n \in Nat, IndexCount(n) <= NumDirect,
         \A j \in 1 .. Min({IndexCount(n), NumDirect}) :
            IndexPointers(AfterFinds(FreeMap(disk), 1), n)[j] # NoSector
  PROVE  Nth(FreeMap(disk), 1) \in Unprotected /\ SafeWrites(NewFile(n))
<1> DEFINE rest == AfterFinds(FreeMap(disk), 1)
           ptrs == IndexPointers(rest, n)
           sector == Nth(FreeMap(disk), 1)
<1>1. FreeMap(disk) \in SUBSET Unprotected /\ rest \in SUBSET Unprotected
  BY FreeAreUnprotected
<1>2. sector \in Unprotected
  BY <1>1, FirstFree
<1>3. IndexCount(n) \in Nat /\ Min({IndexCount(n), NumDirect}) = IndexCount(n)
  <2>1. IndexCount(n) \in Nat
    BY Sizing, RoundUp DEF IndexCount
  <2> QED
    BY <2>1, MinOfTwo, Sizing
<1>4. ASSUME NEW j \in 1 .. IndexCount(n) PROVE ptrs[j] \in Unprotected
  <2> DEFINE k == (j - 1) * (FanOut + 1) + 1
  <2>1. k \in Nat \ {0}
    <3>1. j - 1 \in Nat /\ FanOut + 1 \in Nat
      BY <1>3, Sizing
    <3>2. \A a, b \in Nat : a * b \in Nat
      OBVIOUS
    <3>3. (j - 1) * (FanOut + 1) \in Nat
      BY <3>1, <3>2
    <3> QED
      BY <3>3
  <2> HIDE DEF rest
  <2>2. ptrs[j] = Nth(rest, k)
    BY Zenon DEF IndexPointers
  <2>3. Nth(rest, k) \in rest \cup {NoSector}
    <3> HIDE DEF k
    <3> QED
      BY <1>1, <2>1, UnprotectedSubset, FindResult
  <2>4. ptrs[j] # NoSector
    BY <1>3 DEF rest
  <2> HIDE DEF k, ptrs
  <2> QED
    BY <1>1, <2>2, <2>3, <2>4
<1>5. ptrs \in Seq(Unprotected) /\ Len(ptrs) = IndexCount(n)
  <2>1. ptrs = [j \in 1 .. IndexCount(n) |-> ptrs[j]]
    BY Zenon DEF IndexPointers
  <2> HIDE DEF ptrs
  <2>2. ptrs \in [1 .. IndexCount(n) -> Unprotected]
    BY <1>4, <2>1
  <2>3. ptrs \in Seq(Unprotected)
    BY <2>2, <1>3, SeqDef
  <2> QED
    BY <1>3, <2>2, <2>3, LenProperties
<1>6. SafeWrite(Write(sector, FileHeader(n, ptrs)))
  <2> HIDE DEF ptrs
  <2>1. Clean(FileHeader(n, ptrs))
    BY <1>3, <1>5 DEF Clean, FileHeader
  <2> QED
    BY <1>2, <2>1 DEF SafeWrite, Write
<1>7. SafeWrites(IndexWrites(rest, n))
  <2> DEFINE w == [j \in 1 .. IndexCount(n) |->
                     Write(ptrs[j], IndexBlock(DataPointers(rest, n, j)))]
  <2>1. ASSUME NEW j \in 1 .. IndexCount(n) PROVE SafeWrite(w[j])
    <3> HIDE DEF ptrs, rest
    <3>1. Clean(IndexBlock(DataPointers(rest, n, j)))
      BY <1>1, CleanIndexBlock
    <3> QED
      BY <1>4, <3>1 DEF SafeWrite, Write
  <2>2. w = [j \in 1 .. IndexCount(n) |-> w[j]]
    OBVIOUS
  <2> HIDE DEF w
  <2>3. SafeWrites(w)
    BY <1>3, <2>1, <2>2, SafeIntro
  <2> QED
    BY <2>3, Zenon DEF IndexWrites, w
<1> HIDE DEF ptrs
<1>8. SafeWrites(Append(IndexWrites(rest, n), Write(sector, FileHeader(n, ptrs))))
  BY <1>6, <1>7, SafeAppend
<1>9. NewFile(n) = Append(IndexWrites(rest, n), Write(sector, FileHeader(n, ptrs)))
  BY Zenon DEF NewFile, ptrs
<1> QED
  BY <1>2, <1>8, <1>9

(* The same state, written so that the provers can use it.                 *)
LEMMA MapInvIs ==
  ASSUME MapInv
  PROVE  /\ SafeDisk(disk) /\ CleanTable(currentDir) /\ SafeWrites(pending)
         /\ getSector(currentDir) \in Unprotected \cup {NoSector}
         /\ FreeMap(disk) \in SUBSET Unprotected
         /\ \A k \in Nat : AfterFinds(FreeMap(disk), k) \in SUBSET Unprotected
<1>1. 0 \in 0 .. NumDirEntries - 1
  BY SizesAssumption
<1> QED
  BY <1>1, CleanSelf, FreeAreUnprotected DEF MapInv

(* An operation that fails.                                                *)
LEMMA FailsInv ==
  ASSUME MapInv, NEW op, NEW name, NEW value, Fails(op, name, value)
  PROVE  MapInv'
BY DEF MapInv, Fails, Returns

(* An ASSERT that ends the program, after safe writes.                     *)
LEMMA AbortsInv ==
  ASSUME MapInv, NEW writes, SafeWrites(writes), Aborts(writes)
  PROVE  MapInv'
BY DEF MapInv, Aborts

(* No writes at all.                                                       *)
LEMMA SafeNone == SafeWrites(<<>>)
<1>1. <<>> = [i \in 1 .. 0 |-> <<>>[i]] /\ \A i \in 1 .. 0 : SafeWrite(<<>>[i])
  OBVIOUS
<1> QED
  BY <1>1, SafeIntro

(* The inductive invariant: MapInv, until the first misread sector.        *)
IInv == MapInv \/ (status = "undefined" /\ pending = <<>>)

(* A sector that is misread: nothing is promised of what comes after.      *)
LEMMA MisreadsInv ==
  ASSUME Ready, Misreads
  PROVE  IInv'
BY DEF Ready, Misreads, Lost, IInv

(* An operation that succeeds.                                             *)
LEMMA FlushesInv ==
  ASSUME MapInv, NEW writes, SafeWrites(writes), Flushes(writes), CleanTable(currentDir')
  PROVE  MapInv'
BY DEF MapInv, Flushes

(* FileSystem::Create.                                                     *)
LEMMA CreateInv ==
  ASSUME MapInv, Ready, NEW name \in Names, NEW n \in Sizes, Create(name, n)
  PROVE  IInv'
<1> DEFINE sector == Nth(FreeMap(disk), 1)
           rest == AfterFinds(FreeMap(disk), 1)
           aborts == \E j \in 1 .. Min({IndexCount(n), NumDirect}) :
                        IndexPointers(rest, n)[j] = NoSector
           usable == /\ IndexCount(n) <= NumDirect
                     /\ IsDirectoryHeader(Apply(disk, NewFile(n)), getSector(currentDir))
<1>1. n \in Nat
  BY SizesAssumption
<1>2. CASE Fails("Create", name, "FALSE")
  BY <1>2, FailsInv DEF IInv
<1>3. CASE CreateReachesAllocate(name) /\ currentDir' = Add(currentDir, name, FALSE, sector)
           /\ UNCHANGED <<disk, pending>>
  <2>1. FreeMap(disk) \in SUBSET Unprotected /\ FreeMap(disk) # {}
    BY <1>3, MapInvIs DEF CreateReachesAllocate
  <2>2. sector \in Unprotected
    BY <2>1, FirstFree
  <2> HIDE DEF sector
  <2>3. CleanTable(currentDir')
    BY <1>3, <2>2, CleanAdd, MapInvIs
  <2> QED
    BY <1>3, <2>3 DEF MapInv, IInv
<1>4. CASE Misreads
  BY <1>4, MisreadsInv
<1>6. CASE aborts /\ Aborts(BeforeAbort(rest, n))
  <2>1. rest \in SUBSET Unprotected
    BY MapInvIs
  <2>2. SafeWrites(BeforeAbort(rest, n))
    <3> HIDE DEF rest
    <3> QED
      BY <1>1, <1>6, <2>1, SafeBeforeAbort
  <2> HIDE DEF rest
  <2> QED
    BY <1>6, <2>2, AbortsInv DEF IInv
<1>5. CASE /\ CreateReachesAllocate(name) /\ ~aborts /\ usable
           /\ currentDir' = Add(currentDir, name, FALSE, sector)
           /\ Flushes(CreateWrites(name, n))
  <2> DEFINE new == NewFile(n)
             table == Add(currentDir, name, FALSE, sector)
  <2>1. sector \in Unprotected /\ SafeWrites(new)
    BY <1>1, <1>5, MapInvIs, SafeNewFile DEF CreateReachesAllocate
  <2>2. CleanTable(table)
    BY <2>1, CleanAdd, MapInvIs
  <2>3. SafeDisk(Apply(disk, new))
    BY <2>1, ApplySafe, MapInvIs
  <2>4. IsDirectoryHeader(Apply(disk, new), getSector(currentDir))
    BY <1>5
  <2> HIDE DEF new, sector, table
  <2>5. SafeWrites(WriteBack(Apply(disk, new), getSector(currentDir), table))
    BY <2>2, <2>3, <2>4, MapInvIs, SafeWriteBack
  <2>6. SafeWrites(FlushMap(AfterAllocate(rest, n)))
    <3>1. rest \in SUBSET Unprotected
      BY MapInvIs
    <3>2. AfterAllocate(rest, n) \in SUBSET rest
      BY DEF AfterAllocate, AfterFinds
    <3> QED
      BY <3>1, <3>2, SafeFlush
  <2>7. SafeWrites((new \o WriteBack(Apply(disk, new), getSector(currentDir), table))
                   \o FlushMap(AfterAllocate(rest, n)))
    BY <2>1, <2>5, <2>6, SafeConcat
  <2>8. SafeWrites(CreateWrites(name, n))
    BY <2>7, Zenon DEF CreateWrites, table, new, sector
  <2>9. CleanTable(currentDir')
    BY <1>5, <2>2 DEF table, sector
  <2> QED
    BY <1>5, <2>8, <2>9, FlushesInv DEF IInv
<1> QED
  BY <1>2, <1>3, <1>4, <1>5, <1>6 DEF Create

(* The pointers of a header that an operation follows.                     *)
LEMMA Pointers ==
  ASSUME NEW d, SafeDisk(d), NEW s \in Unprotected \cup {NoSector}, IsHeader(d, s)
  PROVE  /\ s \in Unprotected
         /\ \A j \in 1 .. Len(d[s].dataSectors) : d[s].dataSectors[j] \in Unprotected
         /\ d[s].numSectors \in Nat /\ Len(d[s].dataSectors) \in Nat
         /\ IndexCount(d[s].numSectors) <= Len(d[s].dataSectors)
<1>1. s \in Unprotected /\ d[s].kind = "hdr"
  BY Sizing DEF IsHeader
<1>2. /\ d[s].numSectors \in Nat /\ d[s].dataSectors \in Seq(Unprotected)
      /\ IndexCount(d[s].numSectors) <= Len(d[s].dataSectors)
  BY <1>1 DEF SafeDisk, Clean
<1>3. \A j \in 1 .. Len(d[s].dataSectors) : d[s].dataSectors[j] \in Unprotected
  BY <1>2, ElementOfSeq
<1>4. Len(d[s].dataSectors) \in Nat
  BY <1>2, LenProperties
<1> QED
  BY <1>1, <1>2, <1>3, <1>4

(* What a removal writes: the map, with sectors that are not its own, and  *)
(* the current directory.                                                  *)
LEMMA RemovalInv ==
  ASSUME MapInv, NEW i \in 0 .. NumDirEntries - 1, NEW free \in SUBSET Unprotected,
         IsDirectoryHeader(disk, getSector(currentDir)),
         currentDir' = Unuse(currentDir, i),
         Flushes(FlushMap(free) \o WriteBack(disk, getSector(currentDir), Unuse(currentDir, i)))
  PROVE  MapInv'
<1>1. CleanTable(Unuse(currentDir, i))
  BY CleanUnuse, MapInvIs
<1>2. SafeWrites(FlushMap(free) \o WriteBack(disk, getSector(currentDir), Unuse(currentDir, i)))
  BY <1>1, MapInvIs, SafeFlush, SafeWriteBack, SafeConcat
<1> QED
  BY <1>1, <1>2, FlushesInv

(* FileSystem::Remove.                                                     *)
LEMMA RemoveInv ==
  ASSUME MapInv, Ready, NEW name, Remove(name)
  PROVE  IInv'
<1> DEFINE i == FindIndex(currentDir, name)
           sector == currentDir[i].sector
           free == Deallocate(disk[sector], FreeMap(disk)) \cup {sector}
<1>1. CASE Fails("Remove", name, "FALSE")
  BY <1>1, FailsInv DEF IInv
<1>2. CASE Misreads
  BY <1>2, MisreadsInv
<1>3. CASE /\ InDirectory(currentDir, name)
           /\ IsHeader(disk, sector)
           /\ IsDirectoryHeader(disk, getSector(currentDir))
           /\ currentDir' = Unuse(currentDir, i)
           /\ Flushes(FlushMap(free)
                      \o WriteBack(disk, getSector(currentDir), Unuse(currentDir, i)))
  <2>1. i \in 0 .. NumDirEntries - 1
    BY <1>3, MatchesAreEntries, MapInvIs
  <2> HIDE DEF i
  <2>2. sector \in Unprotected \cup {NoSector}
    BY <2>1, CleanSelf, MapInvIs
  <2> HIDE DEF sector
  <2>3. free \in SUBSET Unprotected
    <3>1. /\ sector \in Unprotected
          /\ \A j \in 1 .. Len(disk[sector].dataSectors) :
                disk[sector].dataSectors[j] \in Unprotected
          /\ Len(disk[sector].dataSectors) \in Nat
          /\ IndexCount(disk[sector].numSectors) <= Len(disk[sector].dataSectors)
          /\ disk[sector].numSectors \in Nat
      BY <1>3, <2>2, MapInvIs, Pointers
    <3>2. IndexCount(disk[sector].numSectors) \in Nat
      BY <3>1, Sizing, RoundUp DEF IndexCount
    <3>3. \A j \in 1 .. IndexCount(disk[sector].numSectors) :
             disk[sector].dataSectors[j] \in Unprotected
      BY <3>1, <3>2
    <3>4. FreeMap(disk) \in SUBSET Unprotected
      BY MapInvIs
    <3> QED
      BY <3>1, <3>3, <3>4 DEF Deallocate
  <2> HIDE DEF free
  <2> QED
    BY <1>3, <2>1, <2>3, RemovalInv DEF IInv
<1> QED
  BY <1>1, <1>2, <1>3 DEF Remove

(* FileSystem::RemoveDirectory.                                            *)
LEMMA RemoveDirectoryInv ==
  ASSUME MapInv, Ready, NEW name, RemoveDirectory(name)
  PROVE  IInv'
<1> DEFINE i == FindIndex(currentDir, name)
           sector == currentDir[i].sector
           free == DeallocateDirectory(disk[sector], FreeMap(disk)) \cup {sector}
<1>1. CASE Fails("RemoveDirectory", name, "-1") \/ Fails("RemoveDirectory", name, "-2")
  BY <1>1, FailsInv DEF IInv
<1>2. CASE Misreads
  BY <1>2, MisreadsInv
<1>4. CASE Aborts(<<>>)
  BY <1>4, SafeNone, AbortsInv DEF IInv
<1>3. CASE /\ InDirectory(currentDir, name)
           /\ IsHeader(disk, sector)
           /\ disk[sector].numSectors <= Len(disk[sector].dataSectors)
           /\ IsDirectory(disk, getSector(currentDir))
           /\ currentDir' = Unuse(currentDir, i)
           /\ Flushes(FlushMap(free)
                      \o WriteBack(disk, getSector(currentDir), Unuse(currentDir, i)))
  <2>1. i \in 0 .. NumDirEntries - 1
    BY <1>3, MatchesAreEntries, MapInvIs
  <2> HIDE DEF i
  <2>2. sector \in Unprotected \cup {NoSector}
    BY <2>1, CleanSelf, MapInvIs
  <2> HIDE DEF sector
  <2>3. free \in SUBSET Unprotected
    <3>1. /\ sector \in Unprotected
          /\ \A j \in 1 .. Len(disk[sector].dataSectors) :
                disk[sector].dataSectors[j] \in Unprotected
          /\ Len(disk[sector].dataSectors) \in Nat
          /\ disk[sector].numSectors \in Nat
      BY <1>3, <2>2, MapInvIs, Pointers
    <3>2. \A j \in 1 .. disk[sector].numSectors : disk[sector].dataSectors[j] \in Unprotected
      BY <1>3, <3>1
    <3>3. FreeMap(disk) \in SUBSET Unprotected
      BY MapInvIs
    <3> QED
      BY <3>1, <3>2, <3>3 DEF DeallocateDirectory
  <2> HIDE DEF free
  <2>4. IsDirectoryHeader(disk, getSector(currentDir))
    BY <1>3 DEF IsDirectory
  <2> QED
    BY <1>3, <2>1, <2>3, <2>4, RemovalInv DEF IInv
<1> QED
  BY <1>1, <1>2, <1>3, <1>4 DEF RemoveDirectory

(* FileSystem::ChangeDirectory.                                            *)
LEMMA ChangeDirectoryInv ==
  ASSUME MapInv, Ready, NEW name, ChangeDirectory(name)
  PROVE  IInv'
<1> DEFINE i == FindIndex(currentDir, name)
           sector == currentDir[i].sector
<1>1. CASE Fails("ChangeDirectory", name, "-1")
  BY <1>1, FailsInv DEF IInv
<1>2. CASE Misreads
  BY <1>2, MisreadsInv
<1>3. CASE /\ InDirectory(currentDir, name)
           /\ IsDirectory(disk, sector)
           /\ currentDir' = FetchFrom(disk, sector)
           /\ UNCHANGED <<disk, pending>>
  <2>1. i \in 0 .. NumDirEntries - 1
    BY <1>3, MatchesAreEntries, MapInvIs
  <2>2. sector \in Unprotected \cup {NoSector}
    BY <2>1, CleanSelf, MapInvIs
  <2> HIDE DEF sector
  <2>3. CleanTable(currentDir')
    BY <1>3, <2>2, CleanFetch, MapInvIs
  <2> QED
    BY <1>3, <2>3 DEF MapInv, IInv
<1> QED
  BY <1>1, <1>2, <1>3 DEF ChangeDirectory

(* The header of a new directory.                                          *)
LEMMA SafeNewDirHeader ==
  ASSUME SafeDisk(disk), FreeMap(disk) # {}, DirectoryFits(AfterFinds(FreeMap(disk), 1))
  PROVE  Nth(FreeMap(disk), 1) \in Unprotected /\ SafeWrites(NewDirHeader)
<1> DEFINE rest == AfterFinds(FreeMap(disk), 1)
           ptrs == DirectoryBlocks(rest)
           sector == Nth(FreeMap(disk), 1)
<1>1. FreeMap(disk) \in SUBSET Unprotected /\ rest \in SUBSET Unprotected
  BY FreeAreUnprotected
<1>2. sector \in Unprotected
  BY <1>1, FirstFree
<1>3. ASSUME NEW k \in 1 .. DirSectors PROVE ptrs[k] \in Unprotected
  <2> HIDE DEF rest
  <2>1. rest \in SUBSET Nat /\ IsFiniteSet(rest)
    BY <1>1, UnprotectedSubset
  <2>2. k \in 1 .. Cardinality(rest)
    <3>1. Cardinality(rest) >= DirSectors /\ Cardinality(rest) \in Nat
      BY <2>1, FS_CardinalityType DEF DirectoryFits, rest
    <3> QED
      BY <3>1, Sizing
  <2>3. Nth(rest, k) \in rest
    BY <2>1, <2>2, NthIsFree
  <2>4. ptrs[k] = Nth(rest, k)
    BY Zenon DEF DirectoryBlocks
  <2> HIDE DEF ptrs
  <2> QED
    BY <1>1, <2>3, <2>4
<1>4. ptrs \in Seq(Unprotected) /\ Len(ptrs) = DirSectors
  <2>1. ptrs = [k \in 1 .. DirSectors |-> ptrs[k]]
    BY Zenon DEF DirectoryBlocks
  <2> HIDE DEF ptrs
  <2>2. ptrs \in [1 .. DirSectors -> Unprotected] /\ DirSectors \in Nat
    BY <1>3, <2>1, Sizing
  <2>3. ptrs \in Seq(Unprotected)
    BY <2>2, SeqDef
  <2> QED
    BY <2>2, <2>3, LenProperties
<1> HIDE DEF ptrs
<1>5. Clean(FileHeader(DirSectors, ptrs))
  <2>1. DirSectors \in Nat /\ IndexCount(DirSectors) <= DirSectors
    BY Sizing, RoundUp DEF IndexCount
  <2> QED
    BY <1>4, <2>1 DEF Clean, FileHeader
<1>6. SafeWrite(Write(sector, FileHeader(DirSectors, ptrs)))
  BY <1>2, <1>5 DEF SafeWrite, Write
<1> QED
  BY <1>2, <1>6, SafeOne DEF NewDirHeader, ptrs

(* FileSystem::CreateDirectory.                                            *)
LEMMA CreateDirectoryInv ==
  ASSUME MapInv, Ready, NEW name \in Names, CreateDirectory(name)
  PROVE  IInv'
<1> DEFINE sector == Nth(FreeMap(disk), 1)
           rest == AfterFinds(FreeMap(disk), 1)
           current == getSector(currentDir)
           table == Add(currentDir, name, TRUE, sector)
           header == Apply(disk, NewDirHeader)
           before == NewDirHeader \o ParentWrites(name)
<1>1. CASE Fails("CreateDirectory", name, "-2") \/ Fails("CreateDirectory", name, "-1")
  BY <1>1, FailsInv DEF IInv
<1>2. CASE Misreads
  BY <1>2, MisreadsInv
<1>3. ASSUME CreateReachesAllocate(name) PROVE CleanTable(table) /\ sector \in Unprotected
  <2>1. FreeMap(disk) \in SUBSET Unprotected /\ FreeMap(disk) # {}
    BY <1>3, MapInvIs DEF CreateReachesAllocate
  <2>2. sector \in Unprotected
    BY <2>1, FirstFree
  <2> HIDE DEF sector
  <2> QED
    BY <2>2, CleanAdd, MapInvIs
<1>4. CASE /\ CreateReachesAllocate(name) /\ currentDir' = table
           /\ UNCHANGED <<disk, pending>>
  BY <1>3, <1>4 DEF MapInv, IInv
<1>5. CASE /\ CreateReachesAllocate(name) /\ DirectoryFits(rest)
           /\ IsDirectoryHeader(header, current)
           /\ IsDirectoryHeader(Apply(disk, before), sector)
           /\ currentDir' = table
           /\ Flushes(CreateDirectoryWrites(name))
  <2>1. sector \in Unprotected /\ CleanTable(table)
    BY <1>3, <1>5
  <2>2. SafeWrites(NewDirHeader)
    BY <1>5, MapInvIs, SafeNewDirHeader DEF CreateReachesAllocate
  <2>3. SafeDisk(header)
    BY <2>2, ApplySafe, MapInvIs
  <2>4. current \in Unprotected \cup {NoSector}
    BY MapInvIs
  <2>5. SafeWrites(ParentWrites(name))
    <3> HIDE DEF header, current, table
    <3>1. SafeWrites(WriteBack(header, current, table))
      BY <1>5, <2>1, <2>3, <2>4, SafeWriteBack
    <3> QED
      BY <3>1, Zenon DEF ParentWrites, header, current, table
  <2>6. SafeWrites(before)
    BY <2>2, <2>5, SafeConcat
  <2>7. SafeDisk(Apply(disk, before))
    <3> HIDE DEF before
    <3> QED
      BY <2>6, ApplySafe, MapInvIs
  <2>8. CleanTable(NewDirectory(sector, current))
    BY <2>1, <2>4, CleanNew
  <2>9. SafeWrites(WriteBack(Apply(disk, before), sector, NewDirectory(sector, current)))
    <3> HIDE DEF before, sector, current
    <3> QED
      BY <1>5, <2>1, <2>7, <2>8, SafeWriteBack
  <2>10. SafeWrites(FlushMap(AfterFinds(FreeMap(disk), 1 + DirSectors)))
    <3>1. 1 + DirSectors \in Nat
      BY Sizing
    <3> QED
      BY <3>1, MapInvIs, SafeFlush
  <2>11. SafeWrites((before \o WriteBack(Apply(disk, before), sector,
                                         NewDirectory(sector, current)))
                    \o FlushMap(AfterFinds(FreeMap(disk), 1 + DirSectors)))
    <3> HIDE DEF before, sector, current
    <3> QED
      BY <2>6, <2>9, <2>10, SafeConcat
  <2>12. SafeWrites(CreateDirectoryWrites(name))
    BY <2>11, Zenon DEF CreateDirectoryWrites
  <2> QED
    BY <1>5, <2>1, <2>12, FlushesInv DEF IInv
<1> QED
  BY <1>1, <1>2, <1>4, <1>5 DEF CreateDirectory

(* One write reaches the disk.                                             *)
LEMMA WriteSectorInv ==
  ASSUME MapInv, WriteSector
  PROVE  MapInv'
<1>1. SafeWrites(<<Head(pending)>>) /\ SafeWrites(Tail(pending))
  BY SafeHeadTail, MapInvIs DEF WriteSector
<1>2. SafeDisk(Apply(disk, <<Head(pending)>>))
  BY <1>1, ApplySafe, MapInvIs
<1> QED
  BY <1>1, <1>2 DEF WriteSector, MapInv

(* The next start, after a crash or not.                                   *)
LEMMA MountInv ==
  ASSUME MapInv, NEW how, Mount(how)
  PROVE  IInv'
<1>2. CASE /\ IsDirectory(disk, RootSector)
           /\ currentDir' = FetchFrom(disk, RootSector)
           /\ UNCHANGED disk
  <2>1. CleanTable(FetchFrom(disk, RootSector))
    BY <1>2, Sizing, CleanFetch, MapInvIs
  <2> QED
    BY <1>2, <2>1, SafeNone DEF Mount, MapInv, IInv
<1>3. CASE Lost
  BY <1>3 DEF Mount, Lost, IInv
<1> QED
  BY <1>2, <1>3 DEF Mount

(* An operation starts in a state that is not lost.                        *)
LEMMA OnlyWhenReady == Operation => Ready /\ status # "undefined"
<1>1. Ready => status # "undefined"
  BY DEF Ready
<1>2. Operation => Ready
  BY DEF Operation, Create, CreateDirectory, Remove, RemoveDirectory, ChangeDirectory, WriteAt
<1> QED
  BY <1>1, <1>2

(* OpenFile::WriteAt: a pointer that is followed does not lead to the map. *)
LEMMA WriteAtInv ==
  ASSUME MapInv, Ready, NEW name, NEW i \in 1 .. NumSectors, WriteAt(name, i)
  PROVE  IInv'
<1> DEFINE current == getSector(currentDir)
           table == FetchFrom(disk, current)
           entry == table[FindIndex(table, name)]
           hdr == disk[entry.sector]
           block == disk[hdr.dataSectors[IndexNumber(i)]]
           sector == block.dataSectors[IndexOffset(i)]
<1>1. CASE Misreads
  BY <1>1, MisreadsInv
<1>2. CASE Aborts(<<>>)
  BY <1>2, SafeNone, AbortsInv DEF IInv
<1>3. CASE /\ IsDirectory(disk, current) /\ InDirectory(table, name)
           /\ IsHeader(disk, entry.sector) /\ i <= hdr.numSectors
           /\ HasPointer(disk, hdr, i) /\ sector # NoSector
           /\ Flushes(<<Write(sector, Raw)>>) /\ UNCHANGED currentDir
  <2>1. CleanTable(table)
    BY <1>3, CleanFetch, MapInvIs
  <2>2. entry.sector \in Unprotected \cup {NoSector}
    <3> HIDE DEF table
    <3> QED
      BY <1>3, <2>1, MatchesAreEntries, CleanSelf
  <2> HIDE DEF entry
  <2>3. /\ \A j \in 1 .. Len(hdr.dataSectors) : hdr.dataSectors[j] \in Unprotected
        /\ hdr.numSectors \in Nat /\ Len(hdr.dataSectors) \in Nat
        /\ IndexCount(hdr.numSectors) <= Len(hdr.dataSectors)
    BY <1>3, <2>2, MapInvIs, Pointers
  <2>4. hdr.dataSectors[IndexNumber(i)] \in Unprotected
    <3>1. i - 1 \in 0 .. hdr.numSectors - 1
      BY <1>3, <2>3
    <3>2. IndexNumber(i) \in 1 .. IndexCount(hdr.numSectors)
      <4> HIDE DEF hdr
      <4> QED
        BY <2>3, <3>1, Sizing, RoundUp DEF IndexNumber, IndexCount
    <3>3. IndexNumber(i) \in 1 .. Len(hdr.dataSectors)
      <4>1. \A m, l \in Int : \A x \in 1 .. m : m <= l => x \in 1 .. l
        OBVIOUS
      <4> HIDE DEF hdr
      <4>2. IndexCount(hdr.numSectors) \in Int
        <5>1. PICK n \in Nat : n = hdr.numSectors
          BY <2>3
        <5>2. FanOut \in Nat \ {0}
          BY Sizing
        <5>3. DivRoundUp(n, FanOut) \in Nat
          BY <5>2, RoundUp
        <5> QED
          BY <5>1, <5>3 DEF IndexCount
      <4> QED
        BY <2>3, <3>2, <4>1, <4>2
    <3> QED
      BY <2>3, <3>3
  <2>5. Clean(block) /\ block.kind = "index" /\ IndexOffset(i) <= Len(block.dataSectors)
    BY <1>3, <2>4, MapInvIs DEF SafeDisk, HasPointer
  <2> HIDE DEF block
  <2>6. block.dataSectors \in Seq(Unprotected \cup {NoSector})
    BY <2>5 DEF Clean
  <2>7. IndexOffset(i) \in 1 .. Len(block.dataSectors)
    <3>1. IndexOffset(i) \in Nat \ {0}
      BY Sizing DEF IndexOffset
    <3> QED
      BY <2>5, <2>6, <3>1, LenProperties
  <2>8. sector \in Unprotected
    BY <1>3, <2>6, <2>7, ElementOfSeq
  <2> HIDE DEF sector
  <2>9. SafeWrites(<<Write(sector, Raw)>>)
    BY <2>8, SafeOne DEF SafeWrite, Write, Clean, Raw
  <2> QED
    BY <1>3, <2>9, MapInvIs, FlushesInv DEF IInv
<1> QED
  BY <1>1, <1>2, <1>3 DEF WriteAt, ByteToSector

(* Any step.                                                               *)
LEMMA NextMapInv ==
  ASSUME IInv, [Next]_vars
  PROVE  IInv'
<1>1. CASE Operation
  <2>1. MapInv /\ Ready
    BY <1>1, OnlyWhenReady DEF IInv
  <2>2. CASE \E name \in Names, n \in Sizes : Create(name, n)
    BY <2>1, <2>2, CreateInv
  <2>3. CASE \E name \in Names : CreateDirectory(name)
    BY <2>1, <2>3, CreateDirectoryInv
  <2>4. CASE \E name \in Names \cup {".", ".."} :
               Remove(name) \/ RemoveDirectory(name) \/ ChangeDirectory(name)
    BY <2>1, <2>4, RemoveInv, RemoveDirectoryInv, ChangeDirectoryInv
  <2>5. CASE \E name \in Names \cup {".", ".."}, i \in 1 .. NumSectors : WriteAt(name, i)
    BY <2>1, <2>5, WriteAtInv
  <2> QED
    BY <1>1, <2>2, <2>3, <2>4, <2>5 DEF Operation
<1>2. CASE WriteSector
  BY <1>2, WriteSectorInv DEF IInv, WriteSector
<1>3. CASE Restart \/ Crash
  BY <1>3, MountInv DEF Restart, Crash, IInv, Ready
<1>4. CASE UNCHANGED vars
  BY <1>4 DEF vars, MapInv, IInv
<1> QED
  BY <1>1, <1>2, <1>3, <1>4 DEF Next, Stopped

(* A disk that was just formatted.                                         *)
LEMMA SafeFormat == SafeDisk(Format)
<1> DEFINE root == FileHeader(DirSectors, [k \in 1 .. DirSectors |-> 2 + k])
           table == NewDirectory(RootSector, RootSector)
           slot(s) ==
              CASE s = FreeMapSector -> FileHeader(1, <<MapDataSector>>)
                [] s = RootSector -> root
                [] s = MapDataSector -> MapBlock(Sector \ SystemSectors)
                [] s \in 3 .. 2 + DirSectors -> DirSlice(s - 2, table)
                [] OTHER -> Raw
<1>1. Format = [s \in Sector |-> slot(s)]
  BY Zenon DEF Format
<1>2. DOMAIN Format = Sector /\ \A s \in Sector : Format[s] = slot(s)
  BY <1>1, Zenon
<1>3. /\ FreeMapSector # RootSector /\ FreeMapSector # MapDataSector
      /\ MapDataSector # RootSector
      /\ FreeMapSector \notin 3 .. 2 + DirSectors
      /\ MapDataSector \notin 3 .. 2 + DirSectors
      /\ RootSector \notin 3 .. 2 + DirSectors
  BY Sizing DEF FreeMapSector, RootSector, MapDataSector
<1>4. slot(FreeMapSector) = FileHeader(1, <<MapDataSector>>)
  BY <1>3, Zenon
<1>5. slot(RootSector) = root
  BY <1>3, Zenon
<1>6. slot(MapDataSector) = MapBlock(Sector \ SystemSectors)
  BY <1>3, Zenon
<1>7. \A s \in 3 .. 2 + DirSectors : slot(s) = DirSlice(s - 2, table)
  BY <1>3, Zenon
<1>8. \A s : s \notin 3 .. 2 + DirSectors /\ s # FreeMapSector /\ s # RootSector
             /\ s # MapDataSector => slot(s) = Raw
  BY Zenon
<1> HIDE DEF slot
<1>9. Clean(root)
  <2> DEFINE ptrs == [k \in 1 .. DirSectors |-> 2 + k]
  <2>1. ptrs \in [1 .. DirSectors -> Unprotected] /\ DirSectors \in Nat
    BY Sizing
  <2> HIDE DEF ptrs
  <2>2. ptrs \in Seq(Unprotected)
    BY <2>1, SeqDef
  <2>3. Len(ptrs) = DirSectors
    BY <2>1, <2>2, LenProperties
  <2>4. IndexCount(DirSectors) <= DirSectors
    BY <2>1, Sizing, RoundUp DEF IndexCount
  <2>5. Clean(FileHeader(DirSectors, ptrs))
    BY <2>1, <2>2, <2>3, <2>4 DEF Clean, FileHeader
  <2> QED
    BY <2>5 DEF ptrs
<1>10. \A s \in 3 .. 2 + DirSectors : Clean(DirSlice(s - 2, table))
  <2>1. CleanTable(table)
    BY Sizing, CleanNew
  <2>2. \A s \in 3 .. 2 + DirSectors : s - 2 \in 1 .. DirSectors
    BY Sizing
  <2> HIDE DEF table
  <2> QED
    BY <2>1, <2>2, CleanSlice
<1>11. CleanMap(MapBlock(Sector \ SystemSectors))
  <2>1. Sector \ SystemSectors \in SUBSET Unprotected
    BY Sizing DEF SystemSectors, Unprotected, Protected, FreeMapSector, MapDataSector
  <2> QED
    BY <2>1 DEF CleanMap, MapBlock
<1>12. Clean(Raw)
  BY DEF Clean, Raw
<1> HIDE DEF root, table
<1>13. ASSUME NEW s \in Unprotected PROVE Clean(Format[s])
  <2>1. s \in Sector /\ s # FreeMapSector /\ s # MapDataSector
    BY Sizing DEF Unprotected, Protected
  <2>2. CASE s = RootSector
    BY <1>2, <1>5, <1>9, <2>1, <2>2
  <2>3. CASE s \in 3 .. 2 + DirSectors
    BY <1>2, <1>7, <1>10, <2>1, <2>3
  <2>4. CASE s # RootSector /\ s \notin 3 .. 2 + DirSectors
    BY <1>2, <1>8, <1>12, <2>1, <2>4
  <2> QED
    BY <2>2, <2>3, <2>4
<1> QED
  BY <1>2, <1>4, <1>6, <1>11, <1>13, Sizing DEF SafeDisk

(* A new disk.                                                             *)
LEMMA InitMapInv == Init => MapInv
<1> SUFFICES ASSUME Init PROVE MapInv
  OBVIOUS
<1>1. SafeDisk(disk) /\ CleanTable(currentDir)
  BY SafeFormat, Sizing, CleanNew DEF Init
<1>2. SafeWrites(pending)
  <2>1. <<>> = [i \in 1 .. 0 |-> <<>>[i]] /\ \A i \in 1 .. 0 : SafeWrite(<<>>[i])
    OBVIOUS
  <2>2. SafeWrites(<<>>)
    BY <2>1, SafeIntro
  <2> QED
    BY <2>2 DEF Init
<1> QED
  BY <1>1, <1>2 DEF MapInv

-----------------------------------------------------------------------------
(* Until a sector is first misread, no entry, header, index block or write *)
(* that is still to come leads to the free map: FileSystem's operations    *)
(* and the writes of OpenFile, in any order, by a client of any habits, on *)
(* a disk that is full or not, with a stop, by an ASSERT or a crash,       *)
(* between any two sector writes.                                          *)
THEOREM Invariance == Spec => []IInv
<1>1. Init => IInv
  BY InitMapInv DEF IInv
<1>2. IInv /\ [Next]_vars => IInv'
  BY NextMapInv
<1> QED
  BY <1>1, <1>2, PTL DEF Spec

(* So the free map's header and block hold what they should and are marked *)
(* in it, and the FileSystem constructor can read the map at any start     *)
(* that comes before a misread sector.  What the code does with the bytes  *)
(* of such a sector can cost the map; that is not excluded.                *)
THEOREM MapSurvives == Spec => []FreeMapProtected
<1>1. IInv => FreeMapProtected
  BY DEF IInv, MapInv, SafeDisk, CleanMap, FreeMapProtected, FreeMap, Unprotected, Protected
<1> QED
  BY <1>1, Invariance, PTL

-----------------------------------------------------------------------------
(* What a series of writes leaves on the disk.                             *)

IsSeq(writes) == writes \in Seq(Range(writes))

(* If a series writes to a sector, one of its writes there is the last.    *)
LEMMA LastWrite ==
  ASSUME NEW writes, IsSeq(writes), NEW s
  PROVE  \/ \A i \in DOMAIN writes : writes[i].sector # s
         \/ \E i \in DOMAIN writes : /\ writes[i].sector = s
                                     /\ \A j \in DOMAIN writes : j > i => writes[j].sector # s
<1> DEFINE hits == {i \in DOMAIN writes : writes[i].sector = s}
<1> SUFFICES ASSUME hits # {}
             PROVE  \E i \in hits : \A j \in DOMAIN writes : j > i => writes[j].sector # s
  OBVIOUS
<1>1. Len(writes) \in Nat /\ DOMAIN writes = 1 .. Len(writes)
  BY LenProperties DEF IsSeq
<1>2. hits \in SUBSET (0 .. Len(writes))
  BY <1>1
<1> DEFINE m == Max(hits)
<1>3. m \in hits /\ \A j \in hits : j <= m
  <2> HIDE DEF hits
  <2> QED
    BY <1>1, <1>2, Largest
<1>4. ASSUME NEW j \in DOMAIN writes, j > m, writes[j].sector = s PROVE FALSE
  <2>1. j \in hits /\ j \in Nat /\ m \in Nat
    BY <1>1, <1>2, <1>3, <1>4
  <2>2. j <= m
    BY <1>3, <2>1
  <2> HIDE DEF m
  <2> QED
    BY <1>4, <2>1, <2>2
<1> QED
  BY <1>3, <1>4

(* The last write to a sector is what it holds.                            *)
LEMMA ApplyIs ==
  ASSUME NEW d, NEW writes, IsSeq(writes), NEW s \in DOMAIN d
  PROVE  /\ DOMAIN Apply(d, writes) = DOMAIN d
         /\ (\A i \in DOMAIN writes : writes[i].sector # s) => Apply(d, writes)[s] = d[s]
         /\ \A i \in DOMAIN writes :
               writes[i].sector = s /\ (\A j \in DOMAIN writes : j > i => writes[j].sector # s)
               => Apply(d, writes)[s] = writes[i].content
<1> DEFINE hits(x) == {i \in DOMAIN writes : writes[i].sector = x}
           new(x) == IF hits(x) = {} THEN d[x] ELSE writes[Max(hits(x))].content
<1>1. Apply(d, writes) = [x \in DOMAIN d |-> new(x)]
  BY DEF Apply
<1>2. DOMAIN Apply(d, writes) = DOMAIN d /\ Apply(d, writes)[s] = new(s)
  BY <1>1
<1>3. Len(writes) \in Nat /\ DOMAIN writes = 1 .. Len(writes)
  BY LenProperties DEF IsSeq
<1>4. ASSUME NEW i \in hits(s), \A j \in DOMAIN writes : j > i => writes[j].sector # s
      PROVE  new(s) = writes[i].content
  <2> DEFINE m == Max(hits(s))
  <2>1. hits(s) \in SUBSET (0 .. Len(writes)) /\ hits(s) # {}
    BY <1>3, <1>4
  <2>2. m \in hits(s) /\ i <= m
    <3> HIDE DEF hits
    <3> QED
      BY <1>3, <1>4, <2>1, Largest
  <2>3. i \in Nat /\ m \in Nat /\ ~(m > i)
    BY <1>3, <1>4, <2>2
  <2>4. m = i
    BY <2>2, <2>3
  <2> QED
    BY <2>4
<1>5. hits(s) = {} => new(s) = d[s]
  OBVIOUS
<1>6. hits(s) = {} <=> \A i \in DOMAIN writes : writes[i].sector # s
  OBVIOUS
<1>7. \A i : i \in hits(s) <=> i \in DOMAIN writes /\ writes[i].sector = s
  OBVIOUS
<1> HIDE DEF new, hits
<1>8. (\A i \in DOMAIN writes : writes[i].sector # s) => Apply(d, writes)[s] = d[s]
  BY <1>2, <1>5, <1>6, Zenon
<1>9. \A i \in DOMAIN writes :
        writes[i].sector = s /\ (\A j \in DOMAIN writes : j > i => writes[j].sector # s)
        => Apply(d, writes)[s] = writes[i].content
  BY <1>2, <1>4, <1>7, Zenon
<1> QED
  BY <1>2, <1>8, <1>9

(* The last write to a sector is what it holds.                            *)
LEMMA ApplyCases ==
  ASSUME NEW d, NEW writes, IsSeq(writes), NEW s \in DOMAIN d
  PROVE  \/ Apply(d, writes)[s] = d[s] /\ \A i \in DOMAIN writes : writes[i].sector # s
         \/ \E i \in DOMAIN writes : /\ writes[i].sector = s
                                     /\ Apply(d, writes)[s] = writes[i].content
<1>1. CASE \A i \in DOMAIN writes : writes[i].sector # s
  BY <1>1, ApplyIs
<1>2. CASE \E i \in DOMAIN writes : /\ writes[i].sector = s
                                    /\ \A j \in DOMAIN writes : j > i => writes[j].sector # s
  BY <1>2, ApplyIs
<1> QED
  BY <1>1, <1>2, LastWrite

(* No write changes nothing.                                               *)
LEMMA ApplyNone ==
  ASSUME NEW d, d = [s \in Sector |-> d[s]]
  PROVE  Apply(d, <<>>) = d
<1>1. \A s : {i \in DOMAIN <<>> : <<>>[i].sector = s} = {}
  OBVIOUS
<1>2. DOMAIN d = Sector
  BY Zenon
<1>3. Apply(d, <<>>) = [s \in Sector |-> d[s]]
  BY <1>1, <1>2, Zenon DEF Apply
<1> QED
  BY <1>3, Zenon

(* A function on 1 .. n is a series.                                       *)
LEMMA SeqIs ==
  ASSUME NEW n \in Nat, NEW writes, writes = [i \in 1 .. n |-> writes[i]]
  PROVE  IsSeq(writes) /\ DOMAIN writes = 1 .. n /\ Len(writes) = n
<1>1. DOMAIN writes = 1 .. n
  BY Zenon
<1>2. \A i \in 1 .. n : writes[i] \in Range(writes)
  BY <1>1 DEF Range
<1>3. writes \in [1 .. n -> Range(writes)]
  BY <1>2
<1>4. writes \in Seq(Range(writes))
  BY <1>3, SeqDef
<1> QED
  BY <1>1, <1>4, LenProperties DEF IsSeq

(* A series of one.                                                        *)
LEMMA SeqOne ==
  ASSUME NEW w
  PROVE  IsSeq(<<w>>) /\ DOMAIN <<w>> = {1} /\ <<w>>[1] = w /\ Len(<<w>>) = 1
<1>1. <<w>> = [i \in 1 .. 1 |-> <<w>>[i]] /\ 1 .. 1 = {1} /\ <<w>>[1] = w
  OBVIOUS
<1> QED
  BY <1>1, SeqIs

(* The writes of an operation are a series.                                *)
LEMMA SafeIsSeq ==
  ASSUME NEW writes, SafeWrites(writes)
  PROVE  IsSeq(writes)
BY DEF SafeWrites, IsSeq

(* u is v and then w, of lengths m and n.                                  *)
Joins(v, w, u, m, n) ==
    /\ m \in Nat /\ n \in Nat /\ DOMAIN v = 1 .. m /\ DOMAIN w = 1 .. n
    /\ m = Len(v) /\ n = Len(w) /\ IsSeq(u) /\ DOMAIN u = 1 .. m + n /\ Len(u) = m + n
    /\ \A i \in 1 .. m : u[i] = v[i]
    /\ \A i \in 1 .. n : u[i + m] = w[i]
    /\ \A i \in 1 .. m + n : i \in 1 .. m \/ (\E j \in 1 .. n : i = j + m)

(* u is v, then w.                                                         *)
LEMMA SeqConcat ==
  ASSUME NEW v, IsSeq(v), NEW w, IsSeq(w)
  PROVE  \E m, n \in Nat : Joins(v, w, v \o w, m, n)
<1> DEFINE R == Range(v) \cup Range(w)
           u == v \o w
           m == Len(v)
           n == Len(w)
<1>1. v \in Seq(R) /\ w \in Seq(R)
  BY SeqMonotonic DEF IsSeq
<1>2. /\ u \in Seq(R) /\ Len(u) = m + n
      /\ \A i \in 1 .. m + n : u[i] = IF i <= m THEN v[i] ELSE w[i - m]
  BY <1>1, ConcatProperties
<1>3. /\ m \in Nat /\ n \in Nat
      /\ DOMAIN v = 1 .. m /\ DOMAIN w = 1 .. n /\ DOMAIN u = 1 .. m + n
      /\ u = [i \in 1 .. m + n |-> u[i]]
  BY <1>1, <1>2, LenProperties
<1> HIDE DEF u, m, n
<1>4. IsSeq(u)
  BY <1>3, SeqIs
<1>5. \A i \in 1 .. m : u[i] = v[i]
  BY <1>2, <1>3
<1>6. ASSUME NEW i \in 1 .. n PROVE u[i + m] = w[i]
  <2>1. i + m \in 1 .. m + n /\ ~(i + m <= m) /\ (i + m) - m = i
    BY <1>3
  <2> QED
    BY <1>2, <2>1
<1>7. ASSUME NEW i \in 1 .. m + n, i \notin 1 .. m PROVE \E j \in 1 .. n : i = j + m
  <2>1. i - m \in 1 .. n /\ i = (i - m) + m
    BY <1>3, <1>7
  <2> QED
    BY <2>1
<1>8. Len(u) = m + n
  BY <1>2
<1>9. Joins(v, w, u, m, n)
  BY <1>3, <1>4, <1>5, <1>6, <1>7, <1>8 DEF Joins, m, n
<1> QED
  BY <1>3, <1>9, Zenon DEF u

(* One more in front.                                                      *)
LEMMA SeqCons ==
  ASSUME NEW s, NEW p, IsSeq(p)
  PROVE  LET u == <<s>> \o p IN
         /\ IsSeq(u) /\ 1 \in DOMAIN u /\ u[1] = s
         /\ \A j \in 1 .. Len(p) : j + 1 \in DOMAIN u /\ u[j + 1] = p[j]
         /\ \A b \in DOMAIN u : b = 1 \/ \E j \in 1 .. Len(p) : b = j + 1
         /\ Len(u) = Len(p) + 1
<1>1. PICK h : h = <<s>>
  OBVIOUS
<1>2. IsSeq(h) /\ DOMAIN h = {1} /\ h[1] = s /\ Len(h) = 1
  BY <1>1, SeqOne
<1> DEFINE u == h \o p
<1>3. PICK m, n \in Nat : Joins(h, p, u, m, n)
  BY <1>2, SeqConcat
<1> HIDE DEF u
<1>4. /\ IsSeq(u) /\ 1 \in DOMAIN u /\ u[1] = s
      /\ \A j \in 1 .. Len(p) : j + 1 \in DOMAIN u /\ u[j + 1] = p[j]
      /\ \A b \in DOMAIN u : b = 1 \/ \E j \in 1 .. Len(p) : b = j + 1
      /\ Len(u) = Len(p) + 1
  BY <1>2, <1>3 DEF Joins
<1> QED
  BY <1>1, <1>4, Zenon DEF u

(* One series of writes after the other.                                   *)
LEMMA ApplyConcat ==
  ASSUME NEW d, NEW v, IsSeq(v), NEW w, IsSeq(w)
  PROVE  Apply(d, v \o w) = Apply(Apply(d, v), w)
<1> DEFINE u == v \o w
           e == Apply(d, v)
<1>1. PICK m, n \in Nat : Joins(v, w, u, m, n)
  BY SeqConcat
<1> HIDE DEF u
<1>6. /\ IsSeq(u)
      /\ \A i \in DOMAIN v : i \in DOMAIN u /\ u[i] = v[i] /\ i \in Nat /\ i <= m
      /\ \A i \in DOMAIN w : i + m \in DOMAIN u /\ u[i + m] = w[i] /\ i \in Nat
  <2>1. /\ m \in Nat /\ n \in Nat /\ DOMAIN v = 1 .. m /\ DOMAIN w = 1 .. n
        /\ IsSeq(u) /\ DOMAIN u = 1 .. m + n
        /\ \A i \in 1 .. m : u[i] = v[i]
        /\ \A i \in 1 .. n : u[i + m] = w[i]
    BY <1>1 DEF Joins
  <2>2. /\ \A i \in 1 .. m : i \in 1 .. m + n /\ i \in Nat /\ i <= m
        /\ \A i \in 1 .. n : i + m \in 1 .. m + n /\ i \in Nat
    OBVIOUS
  <2> QED
    BY <2>1, <2>2
<1>7. ASSUME NEW j \in DOMAIN u
      PROVE  \/ j \in DOMAIN v /\ u[j] = v[j]
             \/ \E k \in DOMAIN w : j = k + m /\ u[j] = w[k]
  <2>1. /\ m \in Nat /\ n \in Nat /\ DOMAIN v = 1 .. m /\ DOMAIN w = 1 .. n
        /\ DOMAIN u = 1 .. m + n
        /\ \A i \in 1 .. m : u[i] = v[i]
        /\ \A i \in 1 .. n : u[i + m] = w[i]
    BY <1>1 DEF Joins
  <2>2. \A i \in 1 .. m + n : i \in 1 .. m \/ \E k \in 1 .. n : i = k + m
    <3> SUFFICES ASSUME NEW i \in 1 .. m + n, i \notin 1 .. m
                 PROVE  \E k \in 1 .. n : i = k + m
      OBVIOUS
    <3>1. i - m \in 1 .. n /\ i = (i - m) + m
      BY <2>1
    <3> QED
      BY <3>1, Zenon
  <2>3. j \in 1 .. m \/ \E k \in 1 .. n : j = k + m
    BY <1>7, <2>1, <2>2, Zenon
  <2>4. CASE j \in 1 .. m
    BY <2>1, <2>4, Zenon
  <2>5. ASSUME NEW k \in 1 .. n, j = k + m
        PROVE  \E i \in DOMAIN w : j = i + m /\ u[j] = w[i]
    BY <2>1, <2>5, Zenon
  <2> QED
    BY <2>3, <2>4, <2>5, Zenon
<1>2. \A x, f : /\ DOMAIN Apply(f, x) = DOMAIN f
                /\ Apply(f, x) = [s \in DOMAIN f |-> Apply(f, x)[s]]
  BY DEF Apply
<1>3. ASSUME NEW s \in DOMAIN d PROVE Apply(d, u)[s] = Apply(e, w)[s]
  <2>1. s \in DOMAIN e
    BY <1>2
  <2>2. CASE \A i \in DOMAIN w : w[i].sector # s
    <3> HIDE DEF e
    <3>1. Apply(e, w)[s] = e[s]
      BY <2>1, <2>2, ApplyIs
    <3>2. CASE \A i \in DOMAIN v : v[i].sector # s
      <4>1. e[s] = d[s]
        BY <3>2, ApplyIs DEF e
      <4>2. \A j \in DOMAIN u : u[j].sector # s
        BY <1>7, <2>2, <3>2
      <4> QED
        BY <1>6, <3>1, <4>1, <4>2, ApplyIs
    <3>3. CASE \E i \in DOMAIN v : /\ v[i].sector = s
                                   /\ \A j \in DOMAIN v : j > i => v[j].sector # s
      <4>1. PICK i \in DOMAIN v : /\ v[i].sector = s
                                  /\ \A j \in DOMAIN v : j > i => v[j].sector # s
        BY <3>3
      <4>2. e[s] = v[i].content
        BY <4>1, ApplyIs DEF e
      <4>3. i \in DOMAIN u /\ u[i] = v[i]
        BY <1>6
      <4>4. \A j \in DOMAIN u : j > i => u[j].sector # s
        BY <1>7, <2>2, <4>1
      <4> QED
        BY <1>1, <3>1, <4>1, <4>2, <4>3, <4>4, <1>6, ApplyIs
    <3> QED
      BY <3>2, <3>3, LastWrite
  <2>3. CASE \E i \in DOMAIN w : /\ w[i].sector = s
                                 /\ \A j \in DOMAIN w : j > i => w[j].sector # s
    <3>1. PICK i \in DOMAIN w : /\ w[i].sector = s
                                /\ \A j \in DOMAIN w : j > i => w[j].sector # s
      BY <2>3
    <3>2. Apply(e, w)[s] = w[i].content
      BY <2>1, <3>1, ApplyIs
    <3>3. i + m \in DOMAIN u /\ u[i + m] = w[i]
      BY <1>6
    <3>4. ASSUME NEW j \in DOMAIN u, j > i + m PROVE u[j].sector # s
      <4>1. ~(j \in DOMAIN v)
        BY <1>6, <3>4
      <4>2. PICK k \in DOMAIN w : j = k + m /\ u[j] = w[k]
        BY <1>7, <4>1
      <4>3. k > i
        BY <1>6, <3>4, <4>2
      <4> QED
        BY <3>1, <4>2, <4>3
    <3> QED
      BY <1>1, <3>1, <3>2, <3>3, <3>4, <1>6, ApplyIs
  <2> QED
    BY <2>2, <2>3, LastWrite
<1>4. /\ Apply(d, u) = [s \in DOMAIN d |-> Apply(d, u)[s]]
      /\ Apply(e, w) = [s \in DOMAIN d |-> Apply(e, w)[s]]
  BY <1>2
<1> HIDE DEF e
<1>5. Apply(d, u) = Apply(e, w)
  BY <1>3, <1>4
<1> QED
  BY <1>5 DEF u, e

(* The first of a series of writes, and then the others.                   *)
LEMMA ApplyHead ==
  ASSUME NEW d, NEW v, IsSeq(v), v # <<>>
  PROVE  /\ IsSeq(Tail(v)) /\ Head(v) \in Range(v) /\ Range(Tail(v)) \subseteq Range(v)
         /\ Apply(Apply(d, <<Head(v)>>), Tail(v)) = Apply(d, v)
<1>1. v \in Seq(Range(v))
  BY DEF IsSeq
<1>2. /\ Head(v) \in Range(v) /\ Tail(v) \in Seq(Range(v)) /\ v = <<Head(v)>> \o Tail(v)
  <2>1. /\ Len(v) \in Nat \ {0} /\ Head(v) = v[1] /\ v = [i \in 1 .. Len(v) |-> v[i]]
        /\ Tail(v) \in Seq(Range(v)) /\ Len(Tail(v)) = Len(v) - 1
        /\ \A i \in 1 .. Len(v) - 1 : Tail(v)[i] = v[i + 1]
        /\ \A i \in 1 .. Len(v) : v[i] \in Range(v)
    BY <1>1, HeadTailProperties, EmptySeq, LenProperties, ElementOfSeq
  <2> DEFINE R == Range(v)
             h == Head(v)
             t == Tail(v)
  <2>2. h \in R
    BY <2>1
  <2>3. /\ <<h>> \in Seq(R) /\ Len(<<h>>) = 1 /\ <<h>>[1] = h
    BY <2>2
  <2>4. /\ <<h>> \o t \in Seq(R) /\ Len(<<h>> \o t) = 1 + Len(t)
        /\ \A i \in 1 .. 1 + Len(t) : (<<h>> \o t)[i] = IF i <= 1 THEN <<h>>[i] ELSE t[i - 1]
    <3> HIDE DEF h, t, R
    <3>1. t \in Seq(R)
      BY <2>1 DEF t, R
    <3> QED
      BY <2>3, <3>1, ConcatProperties
  <2>5. <<h>> \o t = [i \in 1 .. Len(v) |-> (<<h>> \o t)[i]]
    <3>1. Len(<<h>> \o t) = Len(v)
      BY <2>1, <2>4
    <3> QED
      BY <2>4, <3>1, LenProperties
  <2>6. ASSUME NEW i \in 1 .. Len(v) PROVE (<<h>> \o t)[i] = v[i]
    <3>1. CASE i = 1
      BY <2>1, <2>3, <2>4, <3>1
    <3>2. CASE i # 1
      <4>1. i - 1 \in 1 .. Len(v) - 1 /\ ~(i <= 1) /\ (i - 1) + 1 = i /\ i \in 1 .. 1 + Len(t)
        BY <2>1, <3>2
      <4>2. t[i - 1] = v[(i - 1) + 1]
        BY <2>1, <4>1
      <4> QED
        BY <2>4, <4>1, <4>2
    <3> QED
      BY <3>1, <3>2
  <2>7. <<h>> \o t = v
    BY <2>1, <2>5, <2>6
  <2> QED
    BY <2>1, <2>2, <2>7
<1>3. IsSeq(Tail(v)) /\ Range(Tail(v)) \subseteq Range(v)
  <2>1. /\ Tail(v) = [i \in 1 .. Len(Tail(v)) |-> Tail(v)[i]] /\ Len(Tail(v)) \in Nat
        /\ \A i \in 1 .. Len(Tail(v)) : Tail(v)[i] \in Range(v)
        /\ DOMAIN Tail(v) = 1 .. Len(Tail(v))
    BY <1>2, LenProperties, ElementOfSeq
  <2>2. IsSeq(Tail(v))
    BY <2>1, SeqIs
  <2> QED
    BY <2>1, <2>2 DEF Range
<1>4. Apply(d, <<Head(v)>> \o Tail(v)) = Apply(Apply(d, <<Head(v)>>), Tail(v))
  BY <1>3, SeqOne, ApplyConcat
<1> QED
  BY <1>2, <1>3, <1>4

-----------------------------------------------------------------------------
(* Consistency of a disk whose directories are D.                          *)

(* What FileSystem(TRUE) writes as the header of the root.                 *)
RootHeader == FileHeader(DirSectors, [k \in 1 .. DirSectors |-> 2 + k])

(* What the directories D list.                                            *)
Found(d, D, t) == UNION {Listed(d, s, t) : s \in D}

(* Consistent, of these directories.                                       *)
Sound(d, D, t) ==
    /\ RootSector \in D /\ D \subseteq Sector
    /\ d[RootSector] = RootHeader /\ FreeMap(d) \subseteq Sector \ SystemSectors
    /\ \A s \in D : IsDirectory(d, s)
    /\ \A x \in Found(d, D, t) :
         /\ x.entry.isDir => x.entry.sector \in D
         /\ WellFormed(d, x)
         /\ \A i, j \in DOMAIN Blocks(d, x) : Blocks(d, x)[i] = Blocks(d, x)[j] => i = j
         /\ Occupied(d, x) \subseteq Sector \ (SystemSectors \cup FreeMap(d))
         /\ \A y \in Found(d, D, t) : x # y => Occupied(d, x) \cap Occupied(d, y) = {}

(* Each of them but the root is listed in one.                             *)
Owned(d, D) ==
    \A s \in D \ {RootSector} :
        \E x \in Found(d, D, NoTarget) : x.entry.isDir /\ x.entry.sector = s

(* The sectors of the table of the directory whose header is in s, and     *)
(* that header.                                                            *)
TableSectors(d, s) == {d[s].dataSectors[k] : k \in 1 .. DirSectors}
Frame(d, s) == {s} \cup TableSectors(d, s)

(* Entry j of the directory s.                                             *)
Obj(d, s, j) == [dir |-> s, entry |-> FetchFrom(d, s)[j], index |-> j]

(* The indexes of a table.                                                 *)
Slots == 0 .. NumDirEntries - 1

(* What a header on a safe disk can be.                                    *)
LEMMA HeaderIs ==
  ASSUME NEW d, SafeDisk(d), NEW s \in Sector, d[s].kind = "hdr"
  PROVE  /\ d[s].dataSectors \in Seq(Sector) /\ IsSeq(d[s].dataSectors)
         /\ Len(d[s].dataSectors) \in Nat /\ DOMAIN d[s].dataSectors = 1 .. Len(d[s].dataSectors)
         /\ \A j \in 1 .. Len(d[s].dataSectors) : d[s].dataSectors[j] \in Sector
         /\ d[s].numSectors \in Nat /\ IndexCount(d[s].numSectors) \in Nat
<1>1. s # MapDataSector
  BY DEF SafeDisk, CleanMap
<1>2. d[s].dataSectors \in Seq(Sector) /\ d[s].numSectors \in Nat
  <2>1. CASE s \in Unprotected
    <3>1. d[s].dataSectors \in Seq(Unprotected) /\ d[s].numSectors \in Nat
      BY <2>1 DEF SafeDisk, Clean
    <3>2. Seq(Unprotected) \subseteq Seq(Sector)
      BY SeqMonotonic, Sizing
    <3> QED
      BY <3>1, <3>2
  <2>2. CASE s = FreeMapSector
    <3>1. d[s] = FileHeader(1, <<MapDataSector>>) /\ MapDataSector \in Sector
      BY <2>2, Sizing DEF SafeDisk
    <3>2. d[s].numSectors = 1 /\ d[s].dataSectors = <<MapDataSector>>
      BY <3>1 DEF FileHeader
    <3>3. <<MapDataSector>> \in Seq(Sector) /\ 1 \in Nat
      BY <3>1
    <3> QED
      BY <3>2, <3>3, Zenon
  <2> QED
    BY <1>1, <2>1, <2>2 DEF Unprotected, Protected
<1>3. /\ Len(d[s].dataSectors) \in Nat /\ DOMAIN d[s].dataSectors = 1 .. Len(d[s].dataSectors)
      /\ d[s].dataSectors = [j \in 1 .. Len(d[s].dataSectors) |-> d[s].dataSectors[j]]
      /\ \A j \in 1 .. Len(d[s].dataSectors) : d[s].dataSectors[j] \in Sector
  BY <1>2, LenProperties, ElementOfSeq
<1>4. IsSeq(d[s].dataSectors)
  BY <1>3, SeqIs
<1>5. IndexCount(d[s].numSectors) \in Nat
  BY <1>2, Sizing, RoundUp DEF IndexCount
<1> QED
  BY <1>2, <1>3, <1>4, <1>5

(* Which index block a data block's pointer is in.                         *)
LEMMA IndexOf ==
  ASSUME NEW n \in Nat, NEW i \in 1 .. n
  PROVE  ((i - 1) \div FanOut) + 1 \in 1 .. IndexCount(n)
<1>1. i - 1 \in 0 .. n - 1
  OBVIOUS
<1> QED
  BY <1>1, Sizing, RoundUp DEF IndexCount

(* The sectors of a directory, and those of a file.                        *)
LEMMA BlocksAre ==
  ASSUME NEW d, SafeDisk(d), NEW x, x.entry.sector \in Sector, d[x.entry.sector].kind = "hdr"
  PROVE  LET hdr == d[x.entry.sector]
             data(i) == d[hdr.dataSectors[((i - 1) \div FanOut) + 1]].dataSectors[((i - 1) % FanOut) + 1]
         IN  /\ IsSeq(Blocks(d, x))
             /\ 1 \in DOMAIN Blocks(d, x) /\ Blocks(d, x)[1] = x.entry.sector
             /\ \A j \in 1 .. Len(hdr.dataSectors) :
                   j + 1 \in DOMAIN Blocks(d, x) /\ Blocks(d, x)[j + 1] = hdr.dataSectors[j]
             /\ ~x.entry.isDir => \A i \in 1 .. hdr.numSectors :
                   /\ i + (Len(hdr.dataSectors) + 1) \in DOMAIN Blocks(d, x)
                   /\ Blocks(d, x)[i + (Len(hdr.dataSectors) + 1)] = data(i)
             /\ \A b \in DOMAIN Blocks(d, x) :
                   \/ b = 1
                   \/ \E j \in 1 .. Len(hdr.dataSectors) : b = j + 1
                   \/ ~x.entry.isDir /\ \E i \in 1 .. hdr.numSectors : b = i + (Len(hdr.dataSectors) + 1)
<1> DEFINE hdr == d[x.entry.sector]
           data(i) == d[hdr.dataSectors[((i - 1) \div FanOut) + 1]].dataSectors[((i - 1) % FanOut) + 1]
           s == x.entry.sector
           p == hdr.dataSectors
           n == hdr.numSectors
           u == <<s>> \o p
           w == IF x.entry.isDir THEN <<>> ELSE [i \in 1 .. n |-> data(i)]
<1>1. Blocks(d, x) = u \o w
  BY Zenon DEF Blocks
<1>2. IsSeq(p) /\ Len(p) \in Nat /\ DOMAIN p = 1 .. Len(p) /\ n \in Nat
  BY HeaderIs
<1> HIDE DEF data, p, n, s, hdr
<1>4. /\ IsSeq(u) /\ 1 \in DOMAIN u /\ u[1] = s
      /\ \A j \in 1 .. Len(p) : j + 1 \in DOMAIN u /\ u[j + 1] = p[j]
      /\ \A b \in DOMAIN u : b = 1 \/ \E j \in 1 .. Len(p) : b = j + 1
      /\ Len(u) = Len(p) + 1
  BY <1>2, SeqCons
<1>5. /\ IsSeq(w)
      /\ ~x.entry.isDir => DOMAIN w = 1 .. n /\ \A i \in 1 .. n : w[i] = data(i)
      /\ x.entry.isDir => DOMAIN w = {}
  <2>1. CASE x.entry.isDir
    <3>1. w = <<>> /\ <<>> = [i \in 1 .. 0 |-> <<>>[i]] /\ 1 .. 0 = {} /\ DOMAIN <<>> = {}
      BY <2>1
    <3> QED
      BY <2>1, <3>1, SeqIs
  <2>2. CASE ~x.entry.isDir
    <3>1. w = [i \in 1 .. n |-> data(i)]
      BY <2>2
    <3> HIDE DEF w
    <3>2. w = [i \in 1 .. n |-> w[i]] /\ DOMAIN w = 1 .. n /\ \A i \in 1 .. n : w[i] = data(i)
      BY <3>1
    <3> QED
      BY <1>2, <2>2, <3>2, SeqIs
  <2> QED
    BY <2>1, <2>2
<1> DEFINE v == u \o w
<1>6. PICK k, l \in Nat : Joins(u, w, v, k, l)
  <2> HIDE DEF u, w
  <2> QED
    BY <1>4, <1>5, SeqConcat
<1> HIDE DEF u, w, v
<1>7. 1 \in DOMAIN v /\ v[1] = s
  BY <1>4, <1>6 DEF Joins
<1>8. \A j \in 1 .. Len(p) : j + 1 \in DOMAIN v /\ v[j + 1] = p[j]
  BY <1>4, <1>6 DEF Joins
<1>9. ~x.entry.isDir => \A i \in 1 .. n : i + (Len(p) + 1) \in DOMAIN v /\ v[i + (Len(p) + 1)] = data(i)
  <2> SUFFICES ASSUME ~x.entry.isDir, NEW i \in 1 .. n
               PROVE  i + k \in DOMAIN v /\ v[i + k] = data(i)
    BY <1>4, <1>6 DEF Joins
  <2>1. i \in 1 .. l /\ w[i] = data(i)
    BY <1>5, <1>6 DEF Joins
  <2> QED
    BY <1>6, <2>1 DEF Joins
<1>10. ASSUME NEW b \in DOMAIN v
       PROVE  \/ b = 1
              \/ \E j \in 1 .. Len(p) : b = j + 1
              \/ ~x.entry.isDir /\ \E i \in 1 .. n : b = i + (Len(p) + 1)
  <2>1. CASE b \in 1 .. k
    BY <1>4, <1>6, <2>1 DEF Joins
  <2>2. CASE \E i \in 1 .. l : b = i + k
    <3>1. PICK i \in 1 .. l : b = i + k
      BY <2>2
    <3>2. ~x.entry.isDir /\ i \in 1 .. n
      BY <1>5, <1>6 DEF Joins
    <3> QED
      BY <1>4, <1>6, <3>1, <3>2 DEF Joins
  <2> QED
    BY <1>6, <2>1, <2>2 DEF Joins
<1>11. Blocks(d, x) = v
  BY <1>1 DEF v, u
<1> QED
  BY <1>6, <1>7, <1>8, <1>9, <1>10, <1>11, Zenon DEF Joins, s, p, n, hdr, data

(* The objects of a directory.                                             *)
LEMMA FoundIs ==
  ASSUME NEW d, NEW D, \A s \in D : IsDirectory(d, s), NEW t, NEW x
  PROVE  x \in Found(d, D, t) <=>
            \E s \in D, j \in 2 .. NumDirEntries - 1 :
               /\ x = Obj(d, s, j) /\ FetchFrom(d, s)[j].inUse
               /\ ~(s = t.dir /\ FetchFrom(d, s)[j].name = t.name)
<1>1. ASSUME NEW s \in D
      PROVE  x \in Listed(d, s, t) <=>
                \E j \in 2 .. NumDirEntries - 1 :
                   /\ x = Obj(d, s, j) /\ FetchFrom(d, s)[j].inUse
                   /\ ~(s = t.dir /\ FetchFrom(d, s)[j].name = t.name)
  <2> HIDE DEF FetchFrom
  <2> QED
    BY Zenon DEF Listed, Obj
<1> QED
  BY <1>1, Zenon DEF Found

(* The entries of a table that is read are those of its sectors.           *)
SliceNumber(i) == (i \div EntriesPerSector) + 1

(* The sector of the table that entry i is in.                             *)
LEMMA SliceOf ==
  ASSUME NEW i \in Slots
  PROVE  SliceNumber(i) \in 1 .. DirSectors /\ i \in SliceIndexes(SliceNumber(i))
<1>1. (i \div EntriesPerSector) + 1 \in 1 .. DirSectors
  BY Sizing, RoundUp DEF DirSectors, Slots
<1>2. (i \div EntriesPerSector) \in Int
  BY Sizing DEF Slots
<1> QED
  BY <1>1, <1>2 DEF SliceIndexes, Slots, SliceNumber

(* The table that is read has all the entries, whatever the disk holds.    *)
LEMMA FetchIs ==
  ASSUME NEW d, NEW s
  PROVE  /\ FetchFrom(d, s) = [i \in Slots |-> FetchFrom(d, s)[i]]
         /\ DOMAIN FetchFrom(d, s) = Slots
BY DEF FetchFrom, Slots

(* Each of them is read from its sector of the table.                      *)
LEMMA FetchAt ==
  ASSUME NEW d, NEW s, NEW i \in Slots, NEW k, k = SliceNumber(i)
  PROVE  FetchFrom(d, s)[i] = d[d[s].dataSectors[k]].entries[i]
BY DEF FetchFrom, Slots, SliceNumber

(* A directory's sectors.                                                  *)
LEMMA DirectoryIs ==
  ASSUME NEW d, SafeDisk(d), NEW s, IsDirectory(d, s)
  PROVE  /\ s \in Sector /\ s # FreeMapSector /\ s # MapDataSector /\ d[s].kind = "hdr"
         /\ Len(d[s].dataSectors) \in Nat /\ DirSectors <= Len(d[s].dataSectors)
         /\ \A k \in 1 .. DirSectors :
              /\ d[s].dataSectors[k] \in Sector \ {FreeMapSector, MapDataSector}
              /\ d[d[s].dataSectors[k]].kind = "dir" /\ d[d[s].dataSectors[k]].slice = k
         /\ s \notin TableSectors(d, s)
<1>1. s \in Sector /\ d[s].kind = "hdr" /\ DirSectors <= Len(d[s].dataSectors)
  BY Sizing DEF IsDirectory, IsDirectoryHeader, IsHeader
<1>2. \A k \in 1 .. DirSectors :
         d[d[s].dataSectors[k]].kind = "dir" /\ d[d[s].dataSectors[k]].slice = k
  BY DEF IsDirectory
<1>3. Len(d[s].dataSectors) \in Nat /\ \A k \in 1 .. DirSectors : d[s].dataSectors[k] \in Sector
  <2>1. /\ Len(d[s].dataSectors) \in Nat
        /\ \A j \in 1 .. Len(d[s].dataSectors) : d[s].dataSectors[j] \in Sector
    BY <1>1, HeaderIs
  <2>2. \A k \in 1 .. DirSectors : k \in 1 .. Len(d[s].dataSectors)
    BY <1>1, <2>1, Sizing
  <2> QED
    BY <2>1, <2>2
<1>4. d[FreeMapSector] = FileHeader(1, <<MapDataSector>>) /\ d[MapDataSector].kind = "map"
  BY DEF SafeDisk, CleanMap
<1>5. d[FreeMapSector].kind = "hdr" /\ d[FreeMapSector].dataSectors = <<MapDataSector>>
  BY <1>4 DEF FileHeader
<1>6. s # FreeMapSector
  <2> SUFFICES ASSUME s = FreeMapSector PROVE FALSE
    OBVIOUS
  <2>1. 1 \in 1 .. DirSectors /\ d[s].dataSectors[1] = MapDataSector
    BY <1>5, Sizing
  <2> QED
    BY <1>2, <1>4, <2>1
<1> QED
  BY <1>1, <1>2, <1>3, <1>4, <1>5, <1>6 DEF TableSectors

(* What a directory's table is like, if its sectors are as they were.      *)
LEMMA SameDirectory ==
  ASSUME NEW d, NEW e, NEW s, IsDirectory(d, s), \A b \in Frame(d, s) : e[b] = d[b]
  PROVE  IsDirectory(e, s) /\ FetchFrom(e, s) = FetchFrom(d, s)
<1>1. e[s] = d[s] /\ \A k \in 1 .. DirSectors : e[d[s].dataSectors[k]] = d[d[s].dataSectors[k]]
  BY DEF Frame, TableSectors
<1>2. IsDirectory(e, s)
  BY <1>1 DEF IsDirectory, IsDirectoryHeader, IsHeader
<1>3. ASSUME NEW i \in Slots PROVE FetchFrom(e, s)[i] = FetchFrom(d, s)[i]
  <2>1. PICK k \in 1 .. DirSectors : k = SliceNumber(i)
    BY SliceOf
  <2>2. /\ FetchFrom(e, s)[i] = e[e[s].dataSectors[k]].entries[i]
        /\ FetchFrom(d, s)[i] = d[d[s].dataSectors[k]].entries[i]
    BY <2>1, FetchAt
  <2> QED
    BY <1>1, <2>2
<1> QED
  BY <1>2, <1>3, FetchIs

(* A table that has been written back is read.                             *)
LEMMA ReadBack ==
  ASSUME NEW d, NEW s, IsDirectoryHeader(d, s), NEW table, table = [i \in Slots |-> table[i]],
         \A k \in 1 .. DirSectors : d[d[s].dataSectors[k]] = DirSlice(k, table)
  PROVE  IsDirectory(d, s) /\ FetchFrom(d, s) = table
<1>1. ASSUME NEW k \in 1 .. DirSectors
      PROVE  /\ d[d[s].dataSectors[k]].kind = "dir" /\ d[d[s].dataSectors[k]].slice = k
             /\ \A i \in SliceIndexes(k) : d[d[s].dataSectors[k]].entries[i] = table[i]
  <2>1. PICK c : c = d[d[s].dataSectors[k]]
    OBVIOUS
  <2>2. c = [kind |-> "dir", slice |-> k, entries |-> [i \in SliceIndexes(k) |-> table[i]]]
    BY <2>1 DEF DirSlice
  <2>3. c.kind = "dir" /\ c.slice = k /\ \A i \in SliceIndexes(k) : c.entries[i] = table[i]
    BY <2>2
  <2> QED
    BY <2>1, <2>3
<1>2. IsDirectory(d, s)
  BY <1>1 DEF IsDirectory
<1>3. ASSUME NEW i \in Slots PROVE FetchFrom(d, s)[i] = table[i]
  <2>1. PICK k \in 1 .. DirSectors : k = SliceNumber(i) /\ i \in SliceIndexes(k)
    BY SliceOf
  <2>2. FetchFrom(d, s)[i] = d[d[s].dataSectors[k]].entries[i]
    BY <2>1, FetchAt
  <2> QED
    BY <1>1, <2>1, <2>2
<1> QED
  BY <1>2, <1>3, FetchIs

(* The sectors of an object, if its header and index blocks are as they    *)
(* were.                                                                   *)
LEMMA SameBlocks ==
  ASSUME NEW d, SafeDisk(d), NEW e, NEW x, x.entry.sector \in Sector, d[x.entry.sector].kind = "hdr",
         e[x.entry.sector] = d[x.entry.sector],
         ~x.entry.isDir =>
            /\ Len(d[x.entry.sector].dataSectors) = IndexCount(d[x.entry.sector].numSectors)
            /\ \A j \in DOMAIN d[x.entry.sector].dataSectors :
                  e[d[x.entry.sector].dataSectors[j]] = d[d[x.entry.sector].dataSectors[j]]
  PROVE  Blocks(e, x) = Blocks(d, x)
<1> DEFINE hdr == d[x.entry.sector]
           data(f) == [i \in 1 .. hdr.numSectors |->
                         f[hdr.dataSectors[((i - 1) \div FanOut) + 1]].dataSectors[((i - 1) % FanOut) + 1]]
<1>1. CASE x.entry.isDir
  BY <1>1, Zenon DEF Blocks
<1>2. CASE ~x.entry.isDir
  <2>1. \A i \in 1 .. hdr.numSectors :
           e[hdr.dataSectors[((i - 1) \div FanOut) + 1]] = d[hdr.dataSectors[((i - 1) \div FanOut) + 1]]
    BY <1>2, HeaderIs, IndexOf
  <2>2. data(e) = data(d)
    BY <2>1, Zenon
  <2>3. /\ Blocks(e, x) = <<x.entry.sector>> \o hdr.dataSectors \o data(e)
        /\ Blocks(d, x) = <<x.entry.sector>> \o hdr.dataSectors \o data(d)
    BY <1>2, Zenon DEF Blocks
  <2> QED
    BY <2>2, <2>3, Zenon
<1> QED
  BY <1>1, <1>2

(* So are the pointers of a file.                                          *)
LEMMA SamePointers ==
  ASSUME NEW d, SafeDisk(d), NEW e, NEW s \in Sector, d[s].kind = "hdr", e[s] = d[s],
         Len(d[s].dataSectors) = IndexCount(d[s].numSectors),
         \A j \in DOMAIN d[s].dataSectors : e[d[s].dataSectors[j]] = d[d[s].dataSectors[j]],
         \A i \in 1 .. d[s].numSectors : HasPointer(d, d[s], i)
  PROVE  \A i \in 1 .. d[s].numSectors : HasPointer(e, e[s], i)
<1> SUFFICES ASSUME NEW i \in 1 .. d[s].numSectors PROVE HasPointer(e, d[s], i)
  OBVIOUS
<1>1. d[s].numSectors \in Nat /\ DOMAIN d[s].dataSectors = 1 .. IndexCount(d[s].numSectors)
  BY HeaderIs
<1>2. IndexNumber(i) \in DOMAIN d[s].dataSectors
  BY <1>1, IndexOf DEF IndexNumber
<1>3. e[d[s].dataSectors[IndexNumber(i)]] = d[d[s].dataSectors[IndexNumber(i)]]
  BY <1>2
<1>4. HasPointer(d, d[s], i)
  OBVIOUS
<1> QED
  BY <1>3, <1>4, Zenon DEF HasPointer

(* The header and what it leads to are among the sectors of an object;     *)
(* they differ when the sectors do.                                        *)
LEMMA OccupiedIs ==
  ASSUME NEW d, SafeDisk(d), NEW x, x.entry.sector \in Sector, d[x.entry.sector].kind = "hdr"
  PROVE  LET p == d[x.entry.sector].dataSectors IN
         /\ x.entry.sector \in Occupied(d, x)
         /\ \A j \in 1 .. Len(p) : p[j] \in Occupied(d, x)
         /\ (\A i, j \in DOMAIN Blocks(d, x) : Blocks(d, x)[i] = Blocks(d, x)[j] => i = j) =>
               \A i, j \in 1 .. Len(p) : p[i] = p[j] => i = j
<1> DEFINE p == d[x.entry.sector].dataSectors
           b == Blocks(d, x)
<1>1. /\ 1 \in DOMAIN b /\ b[1] = x.entry.sector
      /\ \A j \in 1 .. Len(p) : j + 1 \in DOMAIN b /\ b[j + 1] = p[j]
  BY BlocksAre
<1>2. Occupied(d, x) = {b[i] : i \in DOMAIN b}
  BY DEF Occupied
<1>3. Len(p) \in Nat
  BY HeaderIs
<1> HIDE DEF b, p
<1>4. x.entry.sector \in Occupied(d, x) /\ \A j \in 1 .. Len(p) : p[j] \in Occupied(d, x)
  BY <1>1, <1>2
<1>5. ASSUME \A i, j \in DOMAIN b : b[i] = b[j] => i = j, NEW i \in 1 .. Len(p), NEW j \in 1 .. Len(p), p[i] = p[j]
      PROVE  i = j
  <2>1. i + 1 = j + 1
    BY <1>1, <1>5
  <2> QED
    BY <1>3, <2>1
<1> QED
  BY <1>4, <1>5, Zenon DEF b, p

(* An object of a sound disk.                                              *)
LEMMA ObjectIs ==
  ASSUME NEW d, SafeDisk(d), NEW D, NEW t, Sound(d, D, t), NEW x \in Found(d, D, t)
  PROVE  LET s == x.entry.sector IN
         /\ s \in Sector /\ d[s].kind = "hdr" /\ s \in Occupied(d, x)
         /\ \A j \in 1 .. Len(d[s].dataSectors) : d[s].dataSectors[j] \in Occupied(d, x)
         /\ Occupied(d, x) \subseteq Sector \ (SystemSectors \cup FreeMap(d))
         /\ x.entry.isDir => /\ s \in D /\ IsDirectory(d, s) /\ Frame(d, s) \subseteq Occupied(d, x)
                             /\ \A k, l \in 1 .. DirSectors :
                                   d[s].dataSectors[k] = d[s].dataSectors[l] => k = l
         /\ ~x.entry.isDir =>
               /\ Len(d[s].dataSectors) = IndexCount(d[s].numSectors)
               /\ \A j \in DOMAIN d[s].dataSectors : d[d[s].dataSectors[j]].kind = "index"
<1> DEFINE s == x.entry.sector
<1>1. /\ WellFormed(d, x) /\ Occupied(d, x) \subseteq Sector \ (SystemSectors \cup FreeMap(d))
      /\ x.entry.isDir => s \in D
      /\ \A i, j \in DOMAIN Blocks(d, x) : Blocks(d, x)[i] = Blocks(d, x)[j] => i = j
  BY DEF Sound
<1>2. /\ s \in Sector /\ d[s].kind = "hdr"
      /\ x.entry.isDir => IsDirectory(d, s)
      /\ ~x.entry.isDir =>
               /\ Len(d[s].dataSectors) = IndexCount(d[s].numSectors)
               /\ \A j \in DOMAIN d[s].dataSectors : d[d[s].dataSectors[j]].kind = "index"
  BY <1>1 DEF WellFormed, IsDirectory, IsDirectoryHeader, IsHeader
<1>3. /\ s \in Occupied(d, x)
      /\ \A j \in 1 .. Len(d[s].dataSectors) : d[s].dataSectors[j] \in Occupied(d, x)
      /\ \A i, j \in 1 .. Len(d[s].dataSectors) : d[s].dataSectors[i] = d[s].dataSectors[j] => i = j
  BY <1>1, <1>2, OccupiedIs
<1>4. ASSUME x.entry.isDir
      PROVE  /\ Frame(d, s) \subseteq Occupied(d, x)
             /\ \A k, l \in 1 .. DirSectors : d[s].dataSectors[k] = d[s].dataSectors[l] => k = l
  <2>1. Len(d[s].dataSectors) \in Nat /\ DirSectors <= Len(d[s].dataSectors) /\ DirSectors \in Nat
    BY <1>2, <1>4, DirectoryIs, Sizing
  <2>2. \A k \in 1 .. DirSectors : k \in 1 .. Len(d[s].dataSectors)
    BY <2>1
  <2> QED
    BY <1>3, <2>2 DEF Frame, TableSectors
<1> QED
  BY <1>1, <1>2, <1>3, <1>4

(* The root's own sectors.                                                 *)
LEMMA RootIs ==
  ASSUME NEW d, d[RootSector] = RootHeader
  PROVE  /\ \A k \in 1 .. DirSectors : d[RootSector].dataSectors[k] = k + 2
         /\ TableSectors(d, RootSector) = 3 .. 2 + DirSectors
         /\ Frame(d, RootSector) \subseteq SystemSectors
         /\ Frame(d, RootSector) \cap {FreeMapSector, MapDataSector} = {}
         /\ FreeMapSector \in SystemSectors /\ MapDataSector \in SystemSectors
<1>1. DirSectors \in Nat
  BY Sizing
<1>2. \A k \in 1 .. DirSectors : d[RootSector].dataSectors[k] = k + 2
  BY <1>1 DEF RootHeader, FileHeader
<1>3. TableSectors(d, RootSector) = {k + 2 : k \in 1 .. DirSectors}
  BY <1>2 DEF TableSectors
<1>4. {k + 2 : k \in 1 .. DirSectors} = 3 .. 2 + DirSectors
  <2>1. \A j \in 3 .. 2 + DirSectors : j - 2 \in 1 .. DirSectors /\ j = (j - 2) + 2
    BY <1>1
  <2>2. \A k \in 1 .. DirSectors : k + 2 \in 3 .. 2 + DirSectors
    BY <1>1
  <2> QED
    BY <2>1, <2>2
<1>5. TableSectors(d, RootSector) = 3 .. 2 + DirSectors
  BY <1>3, <1>4
<1>6. Frame(d, RootSector) = {1} \cup (3 .. 2 + DirSectors)
  BY <1>5 DEF Frame, RootSector
<1>7. /\ {1} \cup (3 .. 2 + DirSectors) \subseteq 0 .. 2 + DirSectors
      /\ ({1} \cup (3 .. 2 + DirSectors)) \cap {0, 2} = {}
      /\ 0 \in 0 .. 2 + DirSectors /\ 2 \in 0 .. 2 + DirSectors
  BY <1>1
<1> QED
  BY <1>2, <1>5, <1>6, <1>7 DEF SystemSectors, FreeMapSector, MapDataSector

(* The sectors of the directories belong to nobody else.                   *)
LEMMA DirsApart ==
  ASSUME NEW d, SafeDisk(d), NEW D, Sound(d, D, NoTarget), Owned(d, D), NEW s \in D
  PROVE  /\ IsDirectory(d, s) /\ s \in Sector /\ Frame(d, s) \subseteq Sector
         /\ \A b \in Frame(d, s) : b \notin FreeMap(d) /\ b # FreeMapSector /\ b # MapDataSector
         /\ \A k, l \in 1 .. DirSectors : d[s].dataSectors[k] = d[s].dataSectors[l] => k = l
         /\ s # RootSector => Frame(d, s) \cap SystemSectors = {}
         /\ \A u \in D : u # s => Frame(d, s) \cap Frame(d, u) = {}
         /\ \A x \in Found(d, D, NoTarget) :
               ~(x.entry.isDir /\ x.entry.sector = s) => Occupied(d, x) \cap Frame(d, s) = {}
<1>1. /\ RootSector \in D /\ D \subseteq Sector /\ IsDirectory(d, s)
      /\ d[RootSector] = RootHeader /\ FreeMap(d) \cap SystemSectors = {}
  BY DEF Sound
<1>2. Frame(d, s) \subseteq Sector /\ \A b \in Frame(d, s) : b # FreeMapSector /\ b # MapDataSector
  BY <1>1, DirectoryIs DEF Frame, TableSectors
<1>3. ASSUME NEW u \in D, u # RootSector
      PROVE  \E x \in Found(d, D, NoTarget) : x.entry.isDir /\ x.entry.sector = u
  BY <1>3 DEF Owned
<1>4. ASSUME NEW x \in Found(d, D, NoTarget)
      PROVE  /\ Occupied(d, x) \cap (SystemSectors \cup FreeMap(d)) = {}
             /\ \A y \in Found(d, D, NoTarget) : x # y => Occupied(d, x) \cap Occupied(d, y) = {}
  BY DEF Sound
<1>5. Frame(d, RootSector) \subseteq SystemSectors
  BY <1>1, RootIs
<1>6. CASE s = RootSector
  <2>1. \A k, l \in 1 .. DirSectors : d[s].dataSectors[k] = d[s].dataSectors[l] => k = l
    BY <1>1, <1>6, RootIs, Sizing
  <2>2. ASSUME NEW u \in D, u # s PROVE Frame(d, s) \cap Frame(d, u) = {}
    <3>1. PICK x \in Found(d, D, NoTarget) : x.entry.isDir /\ x.entry.sector = u
      BY <1>3, <1>6, <2>2
    <3>2. Frame(d, u) \subseteq Occupied(d, x)
      BY <3>1, ObjectIs
    <3> QED
      BY <1>4, <1>5, <1>6, <3>2
  <2>3. \A x \in Found(d, D, NoTarget) : Occupied(d, x) \cap Frame(d, s) = {}
    BY <1>4, <1>5, <1>6
  <2>4. \A b \in Frame(d, s) : b \notin FreeMap(d)
    BY <1>1, <1>5, <1>6
  <2> QED
    BY <1>1, <1>2, <1>6, <2>1, <2>2, <2>3, <2>4
<1>7. CASE s # RootSector
  <2>1. PICK x \in Found(d, D, NoTarget) : x.entry.isDir /\ x.entry.sector = s
    BY <1>3, <1>7
  <2>2. /\ Frame(d, s) \subseteq Occupied(d, x)
        /\ \A k, l \in 1 .. DirSectors : d[s].dataSectors[k] = d[s].dataSectors[l] => k = l
    BY <2>1, ObjectIs
  <2>3. ASSUME NEW u \in D, u # s PROVE Frame(d, s) \cap Frame(d, u) = {}
    <3>1. CASE u = RootSector
      BY <1>4, <1>5, <2>2, <3>1
    <3>2. CASE u # RootSector
      <4>1. PICK y \in Found(d, D, NoTarget) : y.entry.isDir /\ y.entry.sector = u
        BY <1>3, <3>2
      <4>2. Frame(d, u) \subseteq Occupied(d, y) /\ x # y
        BY <2>1, <2>3, <4>1, ObjectIs
      <4> QED
        BY <1>4, <2>2, <4>2
    <3> QED
      BY <3>1, <3>2
  <2>4. ASSUME NEW y \in Found(d, D, NoTarget), ~(y.entry.isDir /\ y.entry.sector = s)
        PROVE  Occupied(d, y) \cap Frame(d, s) = {}
    <3>1. x # y
      BY <2>1, <2>4
    <3> QED
      BY <1>4, <2>2, <3>1
  <2>5. /\ \A b \in Frame(d, s) : b \notin FreeMap(d)
        /\ Frame(d, s) \cap SystemSectors = {}
    BY <1>4, <2>2
  <2> QED
    BY <1>1, <1>2, <2>2, <2>3, <2>4, <2>5
<1> QED
  BY <1>6, <1>7

-----------------------------------------------------------------------------
(* An operation under way.                                                 *)

(* All objects but the one that entry i of directory t.dir is about.       *)
Others(d, D, t, i) == {x \in Found(d, D, NoTarget) : ~(x.dir = t.dir /\ x.index = i)}

(* The table new is the directory's, but for entry i, which is t's.        *)
Alters(d, D, t, i, new) ==
    /\ t.dir \in D /\ i \in 2 .. NumDirEntries - 1 /\ new = [j \in Slots |-> new[j]]
    /\ \A j \in Slots : j # i => new[j] = FetchFrom(d, t.dir)[j]
    /\ new[i].inUse => new[i].name = t.name
    /\ FetchFrom(d, t.dir)[i].inUse => FetchFrom(d, t.dir)[i].name = t.name

(* What the operation may write: to a sector that was free, anything; a    *)
(* free map that spares all others; and that table.                        *)
May(d, D, t, i, new, s, content) ==
    \/ s \in FreeMap(d)
    \/ /\ s = MapDataSector /\ content.free \subseteq Sector \ SystemSectors
       /\ \A x \in Others(d, D, t, i) : Occupied(d, x) \cap content.free = {}
    \/ \E k \in 1 .. DirSectors : s = d[t.dir].dataSectors[k] /\ content = DirSlice(k, new)

(* The disk e is d, with some of that written.                             *)
Altered(d, D, t, i, new, e) ==
    \A s \in Sector : e[s] = d[s] \/ May(d, D, t, i, new, s, e[s])

(* Every sector that was not free keeps its content, but for the map and   *)
(* that table; so every directory can still be read.                       *)
LEMMA AlteredSectors ==
  ASSUME NEW d, SafeDisk(d), NEW D, Sound(d, D, NoTarget), Owned(d, D),
         NEW t, NEW i, NEW new, Alters(d, D, t, i, new), NEW e, Altered(d, D, t, i, new, e)
  PROVE  /\ \A s \in Sector : s \notin FreeMap(d) /\ s # MapDataSector /\ s \notin TableSectors(d, t.dir)
               => e[s] = d[s]
         /\ \A s \in D : e[s] = d[s] /\ IsDirectory(e, s)
         /\ \A s \in D : s # t.dir => FetchFrom(e, s) = FetchFrom(d, s)
         /\ \A k \in 1 .. DirSectors :
               e[d[t.dir].dataSectors[k]] \in {d[d[t.dir].dataSectors[k]], DirSlice(k, new)}
         /\ /\ FreeMap(e) \subseteq Sector \ SystemSectors
            /\ \A x \in Others(d, D, t, i) : Occupied(d, x) \cap FreeMap(e) = {}
<1> DEFINE c == t.dir
<1>1. c \in D /\ \A s \in D : IsDirectory(d, s)
  BY DEF Alters, Sound
<1>2. ASSUME NEW s \in Sector, s \notin FreeMap(d), s # MapDataSector, s \notin TableSectors(d, c)
      PROVE  e[s] = d[s]
  BY <1>2 DEF Altered, May, TableSectors
<1>3. ASSUME NEW s \in D, s # c PROVE \A b \in Frame(d, s) : e[b] = d[b]
  <2>1. /\ Frame(d, s) \subseteq Sector /\ Frame(d, s) \cap Frame(d, c) = {}
        /\ \A b \in Frame(d, s) : b \notin FreeMap(d) /\ b # MapDataSector
    BY <1>1, <1>3, DirsApart
  <2> QED
    BY <1>2, <2>1 DEF Frame
<1>4. e[c] = d[c]
  <2>1. /\ c \in Sector /\ c \notin FreeMap(d) /\ c # MapDataSector
    BY <1>1, DirsApart DEF Frame
  <2>2. c \notin TableSectors(d, c)
    BY <1>1, DirectoryIs
  <2> QED
    BY <1>2, <2>1, <2>2
<1>5. ASSUME NEW k \in 1 .. DirSectors
      PROVE  e[d[c].dataSectors[k]] \in {d[d[c].dataSectors[k]], DirSlice(k, new)}
  <2> DEFINE b == d[c].dataSectors[k]
  <2>1. b \in Frame(d, c)
    BY DEF Frame, TableSectors
  <2>2. /\ b \in Sector /\ b \notin FreeMap(d) /\ b # MapDataSector
        /\ \A l \in 1 .. DirSectors : b = d[c].dataSectors[l] => l = k
    BY <1>1, <2>1, DirsApart
  <2> HIDE DEF b, c
  <2>3. e[b] = d[b] \/ \E l \in 1 .. DirSectors : b = d[c].dataSectors[l] /\ e[b] = DirSlice(l, new)
    BY <2>2 DEF Altered, May, c
  <2> QED
    BY <2>2, <2>3 DEF b
<1>6. IsDirectory(e, c)
  <2>1. IsDirectoryHeader(e, c)
    BY <1>1, <1>4 DEF IsDirectory, IsDirectoryHeader, IsHeader
  <2>2. ASSUME NEW k \in 1 .. DirSectors
        PROVE  e[e[c].dataSectors[k]].kind = "dir" /\ e[e[c].dataSectors[k]].slice = k
    <3>1. d[d[c].dataSectors[k]].kind = "dir" /\ d[d[c].dataSectors[k]].slice = k
      BY <1>1, DirectoryIs
    <3>2. DirSlice(k, new).kind = "dir" /\ DirSlice(k, new).slice = k
      BY DEF DirSlice
    <3> QED
      BY <1>4, <1>5, <3>1, <3>2
  <2> QED
    BY <2>1, <2>2 DEF IsDirectory
<1>7. \A s \in D : s # c => IsDirectory(e, s) /\ FetchFrom(e, s) = FetchFrom(d, s)
  BY <1>1, <1>3, SameDirectory
<1>8. /\ FreeMap(e) \subseteq Sector \ SystemSectors
      /\ \A x \in Others(d, D, t, i) : Occupied(d, x) \cap FreeMap(e) = {}
  <2>1. MapDataSector \in Sector /\ MapDataSector \in SystemSectors
    BY Sizing, RootIs DEF Sound
  <2>2. /\ MapDataSector \notin FreeMap(d) /\ FreeMap(d) \subseteq Sector \ SystemSectors
        /\ \A x \in Found(d, D, NoTarget) : Occupied(d, x) \cap FreeMap(d) = {}
    BY <2>1 DEF Sound
  <2>3. \A k \in 1 .. DirSectors : d[c].dataSectors[k] # MapDataSector
    BY <1>1, DirectoryIs
  <2>4. \/ e[MapDataSector] = d[MapDataSector]
        \/ /\ e[MapDataSector].free \subseteq Sector \ SystemSectors
           /\ \A x \in Others(d, D, t, i) : Occupied(d, x) \cap e[MapDataSector].free = {}
    BY <2>1, <2>2, <2>3 DEF Altered, May
  <2> QED
    BY <2>2, <2>4 DEF FreeMap, Others
<1>9. \A s \in D : e[s] = d[s]
  BY <1>3, <1>4 DEF Frame
<1> QED
  BY <1>2, <1>5, <1>6, <1>7, <1>8, <1>9

(* The table is the old or the new one, entry by entry, or a mix of the    *)
(* two: they differ in entry i only.                                       *)
LEMMA AlteredTable ==
  ASSUME NEW d, SafeDisk(d), NEW D, Sound(d, D, NoTarget), Owned(d, D),
         NEW t, NEW i, NEW new, Alters(d, D, t, i, new), NEW e, Altered(d, D, t, i, new, e)
  PROVE  /\ \A j \in Slots : j # i => FetchFrom(e, t.dir)[j] = FetchFrom(d, t.dir)[j]
         /\ FetchFrom(e, t.dir)[i] \in {FetchFrom(d, t.dir)[i], new[i]}
<1> DEFINE c == t.dir
<1>1. c \in D /\ i \in Slots /\ \A j \in Slots : j # i => new[j] = FetchFrom(d, c)[j]
  BY DEF Alters, Slots
<1>2. /\ e[c] = d[c]
      /\ \A k \in 1 .. DirSectors :
            e[d[c].dataSectors[k]] \in {d[d[c].dataSectors[k]], DirSlice(k, new)}
  BY <1>1, AlteredSectors
<1>3. ASSUME NEW j \in Slots PROVE FetchFrom(e, c)[j] \in {FetchFrom(d, c)[j], new[j]}
  <2>1. PICK k \in 1 .. DirSectors : k = SliceNumber(j) /\ j \in SliceIndexes(k)
    BY SliceOf
  <2>2. /\ FetchFrom(e, c)[j] = e[e[c].dataSectors[k]].entries[j]
        /\ FetchFrom(d, c)[j] = d[d[c].dataSectors[k]].entries[j]
    BY <2>1, FetchAt
  <2>3. DirSlice(k, new).entries[j] = new[j]
    BY <2>1 DEF DirSlice
  <2> QED
    BY <1>2, <2>2, <2>3
<1> QED
  BY <1>1, <1>3

(* The others are as they were.                                            *)
LEMMA AlteredObject ==
  ASSUME NEW d, SafeDisk(d), NEW D, Sound(d, D, NoTarget), Owned(d, D),
         NEW t, NEW i, NEW new, Alters(d, D, t, i, new), NEW e, Altered(d, D, t, i, new, e),
         NEW x \in Others(d, D, t, i)
  PROVE  WellFormed(e, x) /\ Blocks(e, x) = Blocks(d, x) /\ Occupied(e, x) = Occupied(d, x)
<1> DEFINE s == x.entry.sector
<1>1. x \in Found(d, D, NoTarget) /\ t.dir \in D /\ i \in 2 .. NumDirEntries - 1
  BY DEF Others, Alters
<1>2. /\ s \in Sector /\ d[s].kind = "hdr" /\ s \in Occupied(d, x)
      /\ \A j \in 1 .. Len(d[s].dataSectors) : d[s].dataSectors[j] \in Occupied(d, x)
      /\ Occupied(d, x) \subseteq Sector \ (SystemSectors \cup FreeMap(d))
      /\ x.entry.isDir => s \in D
      /\ ~x.entry.isDir =>
            /\ Len(d[s].dataSectors) = IndexCount(d[s].numSectors)
            /\ \A j \in DOMAIN d[s].dataSectors : d[d[s].dataSectors[j]].kind = "index"
  BY <1>1, ObjectIs
<1>3. WellFormed(d, x) /\ MapDataSector \in SystemSectors
  BY <1>1, RootIs DEF Sound
<1>4. CASE x.entry.isDir
  <2>1. e[s] = d[s] /\ IsDirectory(e, s)
    BY <1>2, <1>4, AlteredSectors
  <2>2. 0 \in Slots /\ 1 \in Slots /\ 0 # i /\ 1 # i
    BY <1>1, SizesAssumption DEF Slots
  <2>3. FetchFrom(e, s)[0] = FetchFrom(d, s)[0] /\ FetchFrom(e, s)[1] = FetchFrom(d, s)[1]
    <3>1. CASE s = t.dir
      BY <2>2, <3>1, AlteredTable
    <3>2. CASE s # t.dir
      BY <1>2, <1>4, <3>2, AlteredSectors
    <3> QED
      BY <3>1, <3>2
  <2>4. WellFormed(e, x)
    BY <1>3, <1>4, <2>1, <2>3 DEF WellFormed
  <2>5. Blocks(e, x) = Blocks(d, x)
    BY <1>2, <1>4, <2>1, SameBlocks
  <2> QED
    BY <2>4, <2>5 DEF Occupied
<1>5. CASE ~x.entry.isDir
  <2>1. Occupied(d, x) \cap Frame(d, t.dir) = {}
    BY <1>1, <1>5, DirsApart
  <2>2. \A b \in Occupied(d, x) : e[b] = d[b]
    BY <1>2, <1>3, <2>1, AlteredSectors DEF Frame
  <2>3. DOMAIN d[s].dataSectors = 1 .. Len(d[s].dataSectors)
    BY <1>2, HeaderIs
  <2>4. e[s] = d[s] /\ \A j \in DOMAIN d[s].dataSectors : e[d[s].dataSectors[j]] = d[d[s].dataSectors[j]]
    BY <1>2, <2>2, <2>3
  <2>7. \A j \in 1 .. d[s].numSectors : HasPointer(e, e[s], j)
    BY <1>2, <1>3, <1>5, <2>4, SamePointers DEF WellFormed
  <2>5. WellFormed(e, x)
    BY <1>2, <1>3, <1>5, <2>4, <2>7 DEF WellFormed, IsHeader
  <2>6. Blocks(e, x) = Blocks(d, x)
    BY <1>2, <1>5, <2>4, SameBlocks
  <2> QED
    BY <2>5, <2>6 DEF Occupied
<1> QED
  BY <1>4, <1>5

(* No object is found that was not there, but the one entry i is about.    *)
LEMMA AlteredFound ==
  ASSUME NEW d, SafeDisk(d), NEW D, Sound(d, D, NoTarget), Owned(d, D),
         NEW t, NEW i, NEW new, Alters(d, D, t, i, new), NEW e, Altered(d, D, t, i, new, e),
         NEW u, NEW x \in Found(e, D, u)
  PROVE  \/ x \in Others(d, D, t, i)
         \/ /\ x = Obj(e, t.dir, i) /\ FetchFrom(e, t.dir)[i].inUse
            /\ FetchFrom(e, t.dir)[i].name = t.name /\ ~(t.dir = u.dir /\ t.name = u.name)
<1>1. \A s \in D : IsDirectory(e, s) /\ IsDirectory(d, s)
  BY AlteredSectors DEF Sound
<1>2. PICK s \in D, j \in 2 .. NumDirEntries - 1 :
         /\ x = Obj(e, s, j) /\ FetchFrom(e, s)[j].inUse
         /\ ~(s = u.dir /\ FetchFrom(e, s)[j].name = u.name)
  <2>1. \A s \in D : IsDirectory(e, s)
    BY <1>1
  <2>2. x \in Found(e, D, u)
    OBVIOUS
  <2> QED
    BY <2>1, <2>2, FoundIs
<1>3. j \in Slots /\ i \in Slots /\ s # NoTarget.dir
  <2>1. s \in Sector /\ NoTarget.dir = NoSector
    BY DEF Sound, NoTarget
  <2>2. i \in 2 .. NumDirEntries - 1 /\ NumDirEntries \in Nat
    BY Sizing DEF Alters
  <2>3. \A k \in 2 .. NumDirEntries - 1 : k \in Slots
    BY <2>2 DEF Slots
  <2> QED
    BY <2>1, <2>2, <2>3, Sizing
<1>4. CASE s # t.dir \/ j # i
  <2>1. FetchFrom(e, s)[j] = FetchFrom(d, s)[j]
    BY <1>3, <1>4, AlteredSectors, AlteredTable
  <2>2. x = Obj(d, s, j) /\ FetchFrom(d, s)[j].inUse
    BY <1>2, <2>1 DEF Obj
  <2>3. x \in Found(d, D, NoTarget)
    BY <1>1, <1>3, <2>2, FoundIs
  <2>4. x.dir = s /\ x.index = j
    BY <2>2 DEF Obj
  <2> QED
    BY <1>4, <2>3, <2>4 DEF Others
<1>5. CASE s = t.dir /\ j = i
  <2>1. FetchFrom(e, s)[i] \in {FetchFrom(d, s)[i], new[i]}
    BY <1>5, AlteredTable
  <2>2. FetchFrom(e, s)[i].name = t.name
    BY <1>2, <1>5, <2>1 DEF Alters
  <2> QED
    BY <1>2, <1>5, <2>2
<1> QED
  BY <1>4, <1>5

(* Wherever the operation is, the disk is sound but for its own object.    *)
LEMMA AlteredSound ==
  ASSUME NEW d, SafeDisk(d), NEW D, Sound(d, D, NoTarget), Owned(d, D),
         NEW t, NEW i, NEW new, Alters(d, D, t, i, new), NEW e, Altered(d, D, t, i, new, e)
  PROVE  Sound(e, D, t)
<1>1. /\ RootSector \in D /\ D \subseteq Sector /\ d[RootSector] = RootHeader
  BY DEF Sound
<1>2. /\ \A s \in D : e[s] = d[s] /\ IsDirectory(e, s)
      /\ FreeMap(e) \subseteq Sector \ SystemSectors
      /\ \A x \in Others(d, D, t, i) : Occupied(d, x) \cap FreeMap(e) = {}
  BY AlteredSectors
<1>3. ASSUME NEW x \in Found(e, D, t)
      PROVE  x \in Others(d, D, t, i)
  BY <1>3, AlteredFound
<1>4. ASSUME NEW x \in Found(e, D, t)
      PROVE  /\ x \in Found(d, D, NoTarget) /\ WellFormed(e, x) /\ Blocks(e, x) = Blocks(d, x)
             /\ Occupied(e, x) = Occupied(d, x) /\ Occupied(d, x) \cap FreeMap(e) = {}
  <2>1. x \in Others(d, D, t, i)
    BY <1>3
  <2> QED
    BY <1>2, <2>1, AlteredObject DEF Others
<1>5. ASSUME NEW x \in Found(e, D, t)
      PROVE  /\ x.entry.isDir => x.entry.sector \in D
             /\ WellFormed(e, x)
             /\ \A k, j \in DOMAIN Blocks(e, x) : Blocks(e, x)[k] = Blocks(e, x)[j] => k = j
             /\ Occupied(e, x) \subseteq Sector \ (SystemSectors \cup FreeMap(e))
             /\ \A y \in Found(e, D, t) : x # y => Occupied(e, x) \cap Occupied(e, y) = {}
  <2>1. /\ x.entry.isDir => x.entry.sector \in D
        /\ \A k, j \in DOMAIN Blocks(d, x) : Blocks(d, x)[k] = Blocks(d, x)[j] => k = j
        /\ Occupied(d, x) \subseteq Sector \ (SystemSectors \cup FreeMap(d))
        /\ \A y \in Found(d, D, NoTarget) : x # y => Occupied(d, x) \cap Occupied(d, y) = {}
    BY <1>4 DEF Sound
  <2> QED
    BY <1>4, <2>1
<1> QED
  BY <1>1, <1>2, <1>5 DEF Sound

(* It remains so as the operation goes on.                                 *)
LEMMA AlteredOn ==
  ASSUME NEW d, NEW D, NEW t, NEW i, NEW new, NEW e, Altered(d, D, t, i, new, e), DOMAIN e = Sector,
         NEW writes, IsSeq(writes),
         \A w \in Range(writes) : May(d, D, t, i, new, w.sector, w.content)
  PROVE  Altered(d, D, t, i, new, Apply(e, writes))
<1> SUFFICES ASSUME NEW s \in Sector
             PROVE  \/ Apply(e, writes)[s] = d[s]
                    \/ May(d, D, t, i, new, s, Apply(e, writes)[s])
  BY DEF Altered
<1>1. CASE Apply(e, writes)[s] = e[s]
  BY <1>1 DEF Altered
<1>2. CASE \E k \in DOMAIN writes : writes[k].sector = s /\ Apply(e, writes)[s] = writes[k].content
  <2>1. PICK k \in DOMAIN writes : writes[k].sector = s /\ Apply(e, writes)[s] = writes[k].content
    BY <1>2
  <2>2. writes[k] \in Range(writes)
    BY DEF Range
  <2> QED
    BY <2>1, <2>2
<1> QED
  BY <1>1, <1>2, ApplyCases

-----------------------------------------------------------------------------
(* The sectors that a series of Find() takes.                              *)

(* The sectors before s.                                                   *)
Below(free, s) == {t \in free : t < s}

(* The calls of Find() return different sectors, which are no longer free  *)
(* afterwards.                                                             *)
LEMMA Finds ==
  ASSUME NEW free \in SUBSET Nat, IsFiniteSet(free)
  PROVE  /\ \A k \in 1 .. Cardinality(free) :
               Nth(free, k) \in free /\ Cardinality(Below(free, Nth(free, k))) = k - 1
         /\ \A j, k \in 1 .. Cardinality(free) : Nth(free, j) = Nth(free, k) => j = k
         /\ \A m \in Nat : \A k \in 1 .. Cardinality(free) :
               k <= m => Nth(free, k) \notin AfterFinds(free, m)
<1>0. Cardinality(free) \in Nat
  BY FS_CardinalityType
<1>1. ASSUME NEW k \in 1 .. Cardinality(free)
      PROVE  Nth(free, k) \in free /\ Cardinality(Below(free, Nth(free, k))) = k - 1
  BY NthIsFree DEF Below
<1>2. ASSUME NEW j \in 1 .. Cardinality(free), NEW k \in 1 .. Cardinality(free), Nth(free, j) = Nth(free, k)
      PROVE  j = k
  <2>1. j - 1 = k - 1
    BY <1>1, <1>2
  <2> QED
    BY <1>0, <2>1
<1>3. ASSUME NEW m \in Nat, NEW k \in 1 .. Cardinality(free), k <= m
      PROVE  Nth(free, k) \notin AfterFinds(free, m)
  <2>1. Cardinality(Below(free, Nth(free, k))) = k - 1
    BY <1>1
  <2>2. ~(k - 1 >= m)
    BY <1>0, <1>3
  <2> QED
    BY <2>1, <2>2 DEF AfterFinds, Below
<1> QED
  BY <1>1, <1>2, <1>3

(* The first sector that is found, and the others.                         *)
LEMMA FirstFind ==
  ASSUME NEW free \in SUBSET Nat, IsFiniteSet(free), free # {}
  PROVE  LET s == Nth(free, 1)
             rest == AfterFinds(free, 1)
         IN  /\ s \in free /\ s \notin rest /\ rest \in SUBSET free /\ IsFiniteSet(rest)
             /\ \A k \in 1 .. Cardinality(rest) : \A m \in Nat :
                   k < m => Nth(rest, k) \notin AfterFinds(free, m)
<1> DEFINE s == Nth(free, 1)
           rest == AfterFinds(free, 1)
<1>1. Cardinality(free) \in Nat /\ 1 \in 1 .. Cardinality(free)
  BY FS_CardinalityType, FS_EmptySet
<1>2. s \in free /\ Cardinality(Below(free, s)) = 0 /\ s \notin rest
  BY <1>1, Finds
<1>3. rest \in SUBSET free
  BY DEF AfterFinds
<1>4. IsFiniteSet(rest)
  BY <1>3, FS_Subset
<1>5. ASSUME NEW u \in free PROVE IsFiniteSet(Below(free, u)) /\ Cardinality(Below(free, u)) \in Nat
  BY FS_Subset, FS_CardinalityType DEF Below
<1>6. ASSUME NEW u \in free, u \notin rest PROVE u = s
  <2>1. ~(Cardinality(Below(free, u)) >= 1)
    BY <1>6 DEF AfterFinds, Below
  <2>2. Cardinality(Below(free, u)) = 0
    BY <1>5, <2>1
  <2>3. Below(free, u) = {} /\ Below(free, s) = {}
    BY <1>2, <1>5, <2>2, FS_EmptySet
  <2>4. ~(s < u) /\ ~(u < s) /\ s \in Nat /\ u \in Nat
    BY <1>2, <2>3 DEF Below
  <2> QED
    BY <2>4
<1>7. ASSUME NEW k \in 1 .. Cardinality(rest), NEW m \in Nat, k < m
      PROVE  Nth(rest, k) \notin AfterFinds(free, m)
  <2> DEFINE b == Nth(rest, k)
  <2>0. Cardinality(rest) \in Nat /\ rest \in SUBSET Nat
    BY <1>3, <1>4, FS_CardinalityType
  <2>1. b \in rest /\ Cardinality(Below(rest, b)) = k - 1
    BY <1>4, <2>0, Finds
  <2>2. Below(free, b) \subseteq Below(rest, b) \cup {s}
    <3> HIDE DEF b, s, rest
    <3> QED
      BY <1>6 DEF Below
  <2>3. IsFiniteSet(Below(rest, b))
    BY <1>4, FS_Subset DEF Below
  <2>4. IsFiniteSet(Below(rest, b) \cup {s}) /\ Cardinality(Below(rest, b) \cup {s}) <= k
    <3>1. PICK S : S = Below(rest, b)
      OBVIOUS
    <3>2. k \in Nat /\ Cardinality(S) = k - 1 /\ IsFiniteSet(S)
      BY <2>0, <2>1, <2>3, <3>1
    <3> HIDE DEF b, s, rest
    <3>4. /\ IsFiniteSet(S \cup {s})
          /\ Cardinality(S \cup {s}) = IF s \in S THEN Cardinality(S) ELSE Cardinality(S) + 1
      BY <3>2, FS_AddElement, Zenon
    <3>5. PICK x \in Nat : x = k
      BY <3>2
    <3>6. Cardinality(S \cup {s}) \in {x - 1, (x - 1) + 1}
      BY <3>2, <3>4, <3>5
    <3>3. IsFiniteSet(S \cup {s}) /\ Cardinality(S \cup {s}) <= k
      BY <3>4, <3>5, <3>6
    <3> QED
      BY <3>1, <3>3
  <2>5. Cardinality(Below(free, b)) <= Cardinality(Below(rest, b) \cup {s})
    <3> HIDE DEF b, s, rest
    <3> QED
      BY <2>2, <2>4, FS_Subset
  <2>6. Cardinality(Below(free, b)) \in Nat /\ Cardinality(Below(rest, b) \cup {s}) \in Nat
    BY <1>3, <1>5, <2>1, <2>4, FS_CardinalityType
  <2>7. ~(Cardinality(Below(free, b)) >= m)
    <3> HIDE DEF b, s, rest
    <3> QED
      BY <1>7, <2>0, <2>4, <2>5, <2>6
  <2> QED
    BY <2>7 DEF AfterFinds, Below
<1> QED
  BY <1>2, <1>3, <1>4, <1>7

(* The k-th number of the blocks of FanOut.                                *)
LEMMA Multiples ==
  ASSUME NEW i \in Nat, NEW j \in Nat, NEW k \in Nat \ {0}
  PROVE  /\ i * k \in Nat /\ (i + 1) * k = i * k + k
         /\ i <= j => i * k <= j * k
         /\ i < j => i * k + k <= j * k
<1>1. i * k \in Nat /\ j * k \in Nat /\ (i + 1) * k = i * k + k
  OBVIOUS
<1>2. i <= j => i * k <= j * k
  OBVIOUS
<1>3. i < j => i * k + k <= j * k
  OBVIOUS
<1> QED
  BY <1>1, <1>2, <1>3

(* Which call of Find() gives the sector of index block j.                 *)
IndexPlace(j) == (j - 1) * (FanOut + 1) + 1

(* Which call of Find() gives the sector of data block i.                  *)
DataPlace(i) == i + ((i - 1) \div FanOut) + 1

(* Division with a remainder.                                              *)
LEMMA Quotient ==
  ASSUME NEW a \in Nat, NEW k \in Nat \ {0}
  PROVE  \E q \in Nat, r \in 0 .. k - 1 :
            (a \div k) = q /\ (a % k) = r /\ a = (q * k) + r
<1>1. (a \div k) \in Nat /\ (a % k) \in 0 .. k - 1 /\ a = ((a \div k) * k) + (a % k)
  OBVIOUS
<1> QED
  BY <1>1, Zenon

(* A data block's index block, and its place in it.                        *)
LEMMA DataPlaceIs ==
  ASSUME NEW n \in Nat, NEW i \in 1 .. n
  PROVE  \E q \in Nat, r \in 1 .. FanOut :
            /\ (i - 1) \div FanOut = q /\ (i - 1) % FanOut = r - 1
            /\ q * FanOut \in Nat /\ i = q * FanOut + r /\ DataPlace(i) = i + q + 1
            /\ IndexPlace(q + 1) + r = DataPlace(i)
            /\ r <= n - q * FanOut
<1>1. i - 1 \in Nat /\ FanOut \in Nat \ {0}
  BY Sizing
<1>2. PICK q \in Nat, z \in 0 .. FanOut - 1 :
         (i - 1) \div FanOut = q /\ (i - 1) % FanOut = z /\ i - 1 = q * FanOut + z
  BY <1>1, Quotient
<1>3. PICK m \in Nat : m = q * FanOut
  BY <1>1
<1>4. q * (FanOut + 1) = m + q
  BY <1>1, <1>3
<1>5. PICK r \in 1 .. FanOut : r = z + 1
  BY <1>1
<1>6. (q + 1) - 1 = q /\ IndexPlace(q + 1) = m + q + 1
  <2>1. (q + 1) - 1 = q
    OBVIOUS
  <2> QED
    BY <1>4, <2>1 DEF IndexPlace
<1>7. i = m + r /\ z = r - 1 /\ DataPlace(i) = i + q + 1
  BY <1>1, <1>2, <1>3, <1>5 DEF DataPlace
<1>8. IndexPlace(q + 1) + r = DataPlace(i) /\ r <= n - m
  BY <1>1, <1>6, <1>7
<1>9. /\ (i - 1) \div FanOut = q /\ (i - 1) % FanOut = r - 1
      /\ q * FanOut \in Nat /\ i = q * FanOut + r /\ DataPlace(i) = i + q + 1
      /\ IndexPlace(q + 1) + r = DataPlace(i)
      /\ r <= n - q * FanOut
  BY <1>2, <1>3, <1>7, <1>8
<1> QED
  BY <1>9

(* Index block j is allocated for the data blocks from the ((j - 1) *      *)
(* FanOut + 1)st on.                                                       *)
LEMMA IndexPlaceIs ==
  ASSUME NEW n \in Nat, NEW j \in 1 .. IndexCount(n)
  PROVE  \E m \in Nat : /\ m = (j - 1) * FanOut /\ IndexPlace(j) = m + j /\ m + 1 <= n
<1>1. FanOut \in Nat \ {0} /\ j - 1 \in Nat /\ IndexCount(n) \in Nat /\ j \in Nat
  BY Sizing, RoundUp DEF IndexCount
<1>2. PICK m \in Nat : m = (j - 1) * FanOut
  BY <1>1
<1>3. (j - 1) * (FanOut + 1) = m + (j - 1)
  BY <1>1, <1>2
<1>4. m + 1 <= n
  <2> DEFINE a == n + FanOut - 1
  <2>1. PICK q \in Nat, r \in 0 .. FanOut - 1 : a \div FanOut = q /\ a = q * FanOut + r
    BY <1>1, Quotient
  <2>2. q = IndexCount(n)
    BY <2>1 DEF IndexCount, DivRoundUp
  <2>3. j - 1 < q
    BY <1>1, <2>2
  <2>4. PICK p \in Nat : p = q * FanOut
    BY <1>1
  <2>5. m + FanOut <= p
    BY <1>1, <1>2, <2>3, <2>4, Multiples
  <2> QED
    BY <1>1, <2>1, <2>4, <2>5
<1>5. IndexPlace(j) = m + j
  BY <1>1, <1>3 DEF IndexPlace
<1> QED
  BY <1>2, <1>4, <1>5

(* No two of them are the same.                                            *)
LEMMA Places ==
  ASSUME NEW n \in Nat
  PROVE  /\ \A j \in 1 .. IndexCount(n) : IndexPlace(j) \in 1 .. n + IndexCount(n)
         /\ \A i \in 1 .. n : DataPlace(i) \in 1 .. n + IndexCount(n)
         /\ \A i, j \in 1 .. IndexCount(n) : IndexPlace(i) = IndexPlace(j) => i = j
         /\ \A i, j \in 1 .. n : DataPlace(i) = DataPlace(j) => i = j
         /\ \A i \in 1 .. n, j \in 1 .. IndexCount(n) : DataPlace(i) # IndexPlace(j)
<1>0. FanOut \in Nat \ {0} /\ IndexCount(n) \in Nat
  BY Sizing, RoundUp DEF IndexCount
<1>1. ASSUME NEW j \in 1 .. IndexCount(n) PROVE IndexPlace(j) \in 1 .. n + IndexCount(n)
  <2>1. PICK m \in Nat : IndexPlace(j) = m + j /\ m + 1 <= n
    BY IndexPlaceIs
  <2> QED
    BY <1>0, <2>1
<1>2. ASSUME NEW i \in 1 .. n PROVE DataPlace(i) \in 1 .. n + IndexCount(n)
  <2>1. PICK q \in Nat : (i - 1) \div FanOut = q /\ DataPlace(i) = i + q + 1
    BY DataPlaceIs
  <2>2. q + 1 \in 1 .. IndexCount(n)
    BY <2>1, IndexOf
  <2> QED
    BY <1>0, <2>1, <2>2
<1>3. ASSUME NEW i \in 1 .. IndexCount(n), NEW j \in 1 .. IndexCount(n), i < j
      PROVE  IndexPlace(i) # IndexPlace(j)
  <2>1. PICK m \in Nat : m = (i - 1) * FanOut /\ IndexPlace(i) = m + i
    BY IndexPlaceIs
  <2>2. PICK l \in Nat : l = (j - 1) * FanOut /\ IndexPlace(j) = l + j
    BY IndexPlaceIs
  <2>3. i - 1 \in Nat /\ j - 1 \in Nat /\ i - 1 <= j - 1
    BY <1>0, <1>3
  <2>4. m <= l
    BY <1>0, <2>1, <2>2, <2>3, Multiples
  <2> QED
    BY <1>0, <1>3, <2>1, <2>2, <2>4
<1>4. ASSUME NEW i \in 1 .. n, NEW j \in 1 .. n, i < j
      PROVE  DataPlace(i) # DataPlace(j)
  <2>1. PICK q \in Nat, r \in 1 .. FanOut : q * FanOut \in Nat /\ i = q * FanOut + r /\ DataPlace(i) = i + q + 1
    BY DataPlaceIs
  <2>2. PICK p \in Nat, s \in 1 .. FanOut : p * FanOut \in Nat /\ j = p * FanOut + s /\ DataPlace(j) = j + p + 1
    BY DataPlaceIs
  <2>3. q <= p
    <3> SUFFICES ASSUME p < q PROVE FALSE
      BY <2>1, <2>2
    <3>1. p * FanOut + FanOut <= q * FanOut
      BY <1>0, Multiples
    <3>2. PICK a, b \in Nat : a = p * FanOut /\ b = q * FanOut
      BY <2>1, <2>2
    <3> QED
      BY <1>0, <1>4, <2>1, <2>2, <3>1, <3>2
  <2> QED
    BY <1>4, <2>1, <2>2, <2>3
<1>5. ASSUME NEW i \in 1 .. n, NEW j \in 1 .. IndexCount(n) PROVE DataPlace(i) # IndexPlace(j)
  <2>1. PICK q \in Nat, r \in 1 .. FanOut : q * FanOut \in Nat /\ i = q * FanOut + r /\ DataPlace(i) = i + q + 1
    BY DataPlaceIs
  <2>2. PICK m \in Nat : m = (j - 1) * FanOut /\ IndexPlace(j) = m + j
    BY IndexPlaceIs
  <2>3. PICK b \in Nat : b = q * FanOut
    BY <2>1
  <2>4. j - 1 \in Nat /\ j \in Nat
    BY <1>0
  <2>5. CASE q <= j - 1 /\ j - 1 <= q
    <3>1. q = j - 1
      BY <2>4, <2>5
    <3> QED
      BY <1>0, <2>1, <2>2, <2>3, <2>4, <3>1
  <2>6. CASE q < j - 1
    <3>1. b + FanOut <= m
      BY <1>0, <2>2, <2>3, <2>4, <2>6, Multiples
    <3> QED
      BY <1>0, <2>1, <2>2, <2>3, <2>4, <2>6, <3>1
  <2>7. CASE j - 1 < q
    <3>1. m + FanOut <= b
      BY <1>0, <2>2, <2>3, <2>4, <2>7, Multiples
    <3> QED
      BY <1>0, <2>1, <2>2, <2>3, <2>4, <2>7, <3>1
  <2> QED
    BY <2>4, <2>5, <2>6, <2>7
<1>6. \A i, j \in 1 .. IndexCount(n) : IndexPlace(i) = IndexPlace(j) => i = j
  BY <1>0, <1>3
<1>7. \A i, j \in 1 .. n : DataPlace(i) = DataPlace(j) => i = j
  BY <1>4
<1> QED
  BY <1>1, <1>2, <1>5, <1>6, <1>7

-----------------------------------------------------------------------------
(* The writes of an operation.                                             *)

(* The writes of two series, one after the other.                          *)
LEMMA RangeConcat ==
  ASSUME NEW v, IsSeq(v), NEW w, IsSeq(w)
  PROVE  IsSeq(v \o w) /\ Range(v \o w) = Range(v) \cup Range(w)
<1> DEFINE u == v \o w
<1>1. PICK m, n \in Nat : Joins(v, w, u, m, n)
  BY SeqConcat
<1> HIDE DEF u
<1>2. ASSUME NEW x \in Range(u) PROVE x \in Range(v) \cup Range(w)
  <2>1. PICK i \in DOMAIN u : x = u[i]
    BY DEF Range
  <2>2. CASE i \in 1 .. m
    BY <1>1, <2>1, <2>2 DEF Joins, Range
  <2>3. CASE \E j \in 1 .. n : i = j + m
    <3>1. PICK j \in 1 .. n : i = j + m
      BY <2>3
    <3>2. u[j + m] = w[j] /\ j \in DOMAIN w
      BY <1>1 DEF Joins
    <3> QED
      BY <2>1, <3>1, <3>2 DEF Range
  <2> QED
    BY <1>1, <2>1, <2>2, <2>3 DEF Joins
<1>3. ASSUME NEW x \in Range(v) PROVE x \in Range(u)
  <2>1. PICK i \in DOMAIN v : x = v[i]
    BY DEF Range
  <2>2. i \in 1 .. m /\ u[i] = v[i] /\ i \in 1 .. m + n
    BY <1>1 DEF Joins
  <2>3. DOMAIN u = 1 .. m + n
    BY <1>1 DEF Joins
  <2> QED
    BY <2>1, <2>2, <2>3 DEF Range
<1>4. ASSUME NEW x \in Range(w) PROVE x \in Range(u)
  <2>1. PICK i \in DOMAIN w : x = w[i]
    BY DEF Range
  <2>2. i \in 1 .. n /\ u[i + m] = w[i]
    BY <1>1 DEF Joins
  <2>3. DOMAIN u = 1 .. m + n /\ i + m \in 1 .. m + n
    BY <1>1, <2>2 DEF Joins
  <2> QED
    BY <2>1, <2>2, <2>3 DEF Range
<1>5. IsSeq(u)
  BY <1>1 DEF Joins
<1> QED
  BY <1>2, <1>3, <1>4, <1>5 DEF u

(* A series that writes each sector once.                                  *)
LEMMA ApplyEach ==
  ASSUME NEW d, NEW p, IsSeq(p),
         \A x, y \in Range(p) : x.sector = y.sector => x.content = y.content
  PROVE  \A x \in Range(p) : x.sector \in DOMAIN d => Apply(d, p)[x.sector] = x.content
<1> SUFFICES ASSUME NEW x \in Range(p), x.sector \in DOMAIN d
             PROVE  Apply(d, p)[x.sector] = x.content
  OBVIOUS
<1>1. PICK k \in DOMAIN p : x = p[k]
  BY DEF Range
<1>2. PICK j \in DOMAIN p : p[j].sector = x.sector /\ Apply(d, p)[x.sector] = p[j].content
  BY <1>1, ApplyCases
<1>3. p[j] \in Range(p)
  BY DEF Range
<1> QED
  BY <1>2, <1>3

(* The writes of a table: one for each of its sectors. They depend on the  *)
(* disk by the header only.                                                *)
LEMMA WriteBackIs ==
  ASSUME NEW d, NEW s, NEW table
  PROVE  /\ IsSeq(WriteBack(d, s, table))
         /\ Range(WriteBack(d, s, table)) =
               {Write(d[s].dataSectors[k], DirSlice(k, table)) : k \in 1 .. DirSectors}
         /\ \A e : e[s] = d[s] => WriteBack(e, s, table) = WriteBack(d, s, table)
<1> DEFINE w == WriteBack(d, s, table)
<1>1. /\ w = [k \in 1 .. DirSectors |-> w[k]] /\ DOMAIN w = 1 .. DirSectors
      /\ \A k \in 1 .. DirSectors : w[k] = Write(d[s].dataSectors[k], DirSlice(k, table))
  BY Zenon DEF WriteBack
<1>2. IsSeq(w)
  BY <1>1, Sizing, SeqIs
<1>3. Range(w) = {Write(d[s].dataSectors[k], DirSlice(k, table)) : k \in 1 .. DirSectors}
  <2> HIDE DEF w
  <2> QED
    BY <1>1 DEF Range
<1>4. \A e : e[s] = d[s] => WriteBack(e, s, table) = WriteBack(d, s, table)
  BY Zenon DEF WriteBack
<1> QED
  BY <1>2, <1>3, <1>4

(* The write of the free map.                                              *)
LEMMA FlushIs ==
  ASSUME NEW free
  PROVE  IsSeq(FlushMap(free)) /\ Range(FlushMap(free)) = {Write(MapDataSector, MapBlock(free))}
<1>1. PICK x : x = Write(MapDataSector, MapBlock(free))
  OBVIOUS
<1>2. IsSeq(<<x>>) /\ DOMAIN <<x>> = {1} /\ <<x>>[1] = x
  BY SeqOne
<1>3. Range(<<x>>) = {x}
  BY <1>2 DEF Range
<1> QED
  BY <1>1, <1>2, <1>3 DEF FlushMap

(* The writes are those of V, the table new of directory c, and the map.   *)
Stores(d, c, new, free, V, p) ==
    /\ IsSeq(p)
    /\ Range(p) = V \cup Range(WriteBack(d, c, new)) \cup Range(FlushMap(free))
    /\ \A x \in V : x.sector \in FreeMap(d)
    /\ \A x, y \in V : x.sector = y.sector => x.content = y.content

(* Such a series leaves the map, the table and all of V on the disk: no    *)
(* two of its writes meet.                                                 *)
LEMMA StoresWhat ==
  ASSUME NEW d, SafeDisk(d), NEW D, Sound(d, D, NoTarget), Owned(d, D), NEW c \in D,
         NEW new, NEW free, NEW V, NEW p, Stores(d, c, new, free, V, p)
  PROVE  /\ Apply(d, p)[MapDataSector] = MapBlock(free)
         /\ \A k \in 1 .. DirSectors : Apply(d, p)[d[c].dataSectors[k]] = DirSlice(k, new)
         /\ \A x \in V : Apply(d, p)[x.sector] = x.content
<1> DEFINE B == {Write(d[c].dataSectors[k], DirSlice(k, new)) : k \in 1 .. DirSectors}
           m == Write(MapDataSector, MapBlock(free))
<1>1. Range(p) = V \cup B \cup {m} /\ IsSeq(p)
  BY WriteBackIs, FlushIs DEF Stores
<1>2. m.sector = MapDataSector /\ m.content = MapBlock(free)
  BY DEF Write
<1>3. \A x \in B : \E k \in 1 .. DirSectors : x.sector = d[c].dataSectors[k] /\ x.content = DirSlice(k, new)
  BY DEF Write
<1>4. /\ \A k \in 1 .. DirSectors :
            /\ d[c].dataSectors[k] \in Sector /\ d[c].dataSectors[k] \notin FreeMap(d)
            /\ d[c].dataSectors[k] # MapDataSector
      /\ \A k, l \in 1 .. DirSectors : d[c].dataSectors[k] = d[c].dataSectors[l] => k = l
  <2>1. /\ Frame(d, c) \subseteq Sector
        /\ \A b \in Frame(d, c) : b \notin FreeMap(d) /\ b # FreeMapSector /\ b # MapDataSector
        /\ \A k, l \in 1 .. DirSectors : d[c].dataSectors[k] = d[c].dataSectors[l] => k = l
    BY DirsApart
  <2>2. \A k \in 1 .. DirSectors : d[c].dataSectors[k] \in Frame(d, c)
    BY Zenon DEF Frame, TableSectors
  <2> QED
    BY <2>1, <2>2, Zenon
<1>5. MapDataSector \in Sector /\ MapDataSector \notin FreeMap(d) /\ FreeMap(d) \subseteq Sector
  BY Sizing, RootIs DEF Sound
<1>6. /\ \A x \in V : x.sector \in FreeMap(d)
      /\ \A x, y \in V : x.sector = y.sector => x.content = y.content
  BY DEF Stores
<1>7. DOMAIN d = Sector
  BY DEF SafeDisk
<1>8. \A k \in 1 .. DirSectors : \E x \in B : x.sector = d[c].dataSectors[k] /\ x.content = DirSlice(k, new)
  <2> SUFFICES ASSUME NEW k \in 1 .. DirSectors
               PROVE  \E x \in B : x.sector = d[c].dataSectors[k] /\ x.content = DirSlice(k, new)
    OBVIOUS
  <2>1. Write(d[c].dataSectors[k], DirSlice(k, new)) \in B
    BY Zenon
  <2>2. /\ Write(d[c].dataSectors[k], DirSlice(k, new)).sector = d[c].dataSectors[k]
        /\ Write(d[c].dataSectors[k], DirSlice(k, new)).content = DirSlice(k, new)
    BY DEF Write
  <2> QED
    BY <2>1, <2>2, Zenon
<1> HIDE DEF B, m
<1>9. \A x, y \in Range(p) : x.sector = y.sector => x.content = y.content
  <2> SUFFICES ASSUME NEW x \in Range(p), NEW y \in Range(p), x.sector = y.sector
               PROVE  x.content = y.content
    OBVIOUS
  <2>1. CASE x \in V
    BY <1>1, <1>2, <1>3, <1>4, <1>5, <1>6, <2>1
  <2>2. CASE x = m
    BY <1>1, <1>2, <1>3, <1>4, <1>5, <1>6, <2>2
  <2>3. CASE x \in B
    <3>1. y \in B
      BY <1>1, <1>2, <1>3, <1>4, <1>5, <1>6, <2>3
    <3> QED
      BY <1>3, <1>4, <2>3, <3>1
  <2> QED
    BY <1>1, <2>1, <2>2, <2>3
<1>10. \A x \in Range(p) : x.sector \in Sector => Apply(d, p)[x.sector] = x.content
  BY <1>1, <1>7, <1>9, ApplyEach
<1>11. Apply(d, p)[MapDataSector] = MapBlock(free)
  BY <1>1, <1>2, <1>5, <1>10
<1>12. \A k \in 1 .. DirSectors : Apply(d, p)[d[c].dataSectors[k]] = DirSlice(k, new)
  BY <1>1, <1>4, <1>8, <1>10
<1>13. \A x \in V : Apply(d, p)[x.sector] = x.content
  BY <1>1, <1>5, <1>6, <1>10
<1> QED
  BY <1>11, <1>12, <1>13

(* Each of its writes is one the operation may do.                         *)
LEMMA StoresMay ==
  ASSUME NEW d, NEW D, NEW t, NEW i, NEW new, Alters(d, D, t, i, new),
         NEW free, free \subseteq Sector \ SystemSectors,
         \A x \in Others(d, D, t, i) : Occupied(d, x) \cap free = {},
         NEW V, NEW p, Stores(d, t.dir, new, free, V, p)
  PROVE  \A w \in Range(p) : May(d, D, t, i, new, w.sector, w.content)
<1> SUFFICES ASSUME NEW w \in Range(p) PROVE May(d, D, t, i, new, w.sector, w.content)
  OBVIOUS
<1>1. \/ w \in V
      \/ \E k \in 1 .. DirSectors : w = Write(d[t.dir].dataSectors[k], DirSlice(k, new))
      \/ w = Write(MapDataSector, MapBlock(free))
  BY WriteBackIs, FlushIs DEF Stores
<1>2. CASE w \in V
  BY <1>2 DEF Stores, May
<1>3. CASE \E k \in 1 .. DirSectors : w = Write(d[t.dir].dataSectors[k], DirSlice(k, new))
  BY <1>3 DEF Write, May
<1>4. CASE w = Write(MapDataSector, MapBlock(free))
  <2>1. w.sector = MapDataSector /\ w.content = MapBlock(free)
    BY <1>4 DEF Write
  <2>2. w.content.free = free
    BY <2>1 DEF MapBlock
  <2> QED
    BY <2>1, <2>2 DEF May
<1> QED
  BY <1>1, <1>2, <1>3, <1>4

-----------------------------------------------------------------------------
(* The directories that the root leads to.                                 *)

(* D is no larger than it must be.                                         *)
Reached(d, D) ==
    \A S \in SUBSET D :
        /\ RootSector \in S
        /\ \A x \in Found(d, S, NoTarget) : x.entry.isDir => x.entry.sector \in S
        => S = D

(* One step of Dirs.                                                       *)
Wider(d, t, S) ==
    S \cup {x.entry.sector : x \in {y \in UNION {Listed(d, s, t) : s \in S} : y.entry.isDir}}

(* The first n steps of it.                                                *)
Levels(d, t, n, f) ==
    f = [k \in 0 .. n |-> IF k = 0 THEN {RootSector} ELSE Wider(d, t, f[k - 1])]

(* As many as there can be directories on the disk.                        *)
Depth == NumSectors \div (1 + DirSectors)

(* Each directory that is reached is listed.                               *)
LEMMA ReachedOwned ==
  ASSUME NEW d, NEW D, Sound(d, D, NoTarget), Reached(d, D)
  PROVE  Owned(d, D)
<1> DEFINE S == {s \in D : s = RootSector \/
                    \E x \in Found(d, D, NoTarget) : x.entry.isDir /\ x.entry.sector = s}
<1>1. S \in SUBSET D /\ RootSector \in S
  BY DEF Sound
<1>2. ASSUME NEW x \in Found(d, S, NoTarget), x.entry.isDir PROVE x.entry.sector \in S
  <2>1. x \in Found(d, D, NoTarget)
    BY <1>1 DEF Found
  <2>2. x.entry.sector \in D
    BY <1>2, <2>1 DEF Sound
  <2> QED
    BY <1>2, <2>1, <2>2
<1>3. S = D
  <2> HIDE DEF S
  <2> QED
    BY <1>1, <1>2 DEF Reached
<1>4. \A s \in D : s \in S
  BY <1>3
<1> QED
  BY <1>4 DEF Owned

(* There is such a function, and Dirs is about it.                         *)
LEMMA LevelsExist ==
  ASSUME NEW d, NEW t, NEW n \in Nat
  PROVE  \E f : Levels(d, t, n, f)
<1> DEFINE S == {m \in Nat : \E f : Levels(d, t, m, f)}
<1>1. 0 \in S
  <2> DEFINE f == [k \in 0 .. 0 |-> {RootSector}]
  <2>1. \A k \in 0 .. 0 : k = 0
    OBVIOUS
  <2>2. f = [k \in 0 .. 0 |-> IF k = 0 THEN {RootSector} ELSE Wider(d, t, f[k - 1])]
    BY <2>1, Zenon
  <2> QED
    BY <2>2 DEF Levels
<1>2. ASSUME NEW m \in S PROVE m + 1 \in S
  <2>1. PICK f : Levels(d, t, m, f)
    OBVIOUS
  <2> DEFINE g == [k \in 0 .. m + 1 |-> IF k = m + 1 THEN Wider(d, t, f[m]) ELSE f[k]]
  <2>2. \A k \in 0 .. m : f[k] = IF k = 0 THEN {RootSector} ELSE Wider(d, t, f[k - 1])
    BY <2>1 DEF Levels
  <2>3. ASSUME NEW k \in 0 .. m + 1
        PROVE  g[k] = IF k = 0 THEN {RootSector} ELSE Wider(d, t, g[k - 1])
    <3>1. m \in Nat /\ m + 1 \in 0 .. m + 1 /\ m # m + 1
      OBVIOUS
    <3>2. CASE k = m + 1
      <4>1. k # 0 /\ k - 1 = m /\ m \in 0 .. m + 1
        BY <3>1, <3>2
      <4>2. g[k] = Wider(d, t, f[m]) /\ g[m] = f[m]
        BY <3>1, <3>2, <4>1
      <4> HIDE DEF g
      <4> QED
        BY <4>1, <4>2
    <3>3. CASE k # m + 1
      <4>1. k \in 0 .. m /\ g[k] = f[k]
        BY <3>1, <3>3
      <4>2. k # 0 => k - 1 \in 0 .. m + 1 /\ k - 1 # m + 1 /\ k - 1 \in 0 .. m
        BY <3>1, <4>1
      <4>3. k # 0 => g[k - 1] = f[k - 1]
        BY <4>2
      <4> HIDE DEF g
      <4> QED
        BY <2>2, <4>1, <4>3
    <3> QED
      BY <3>2, <3>3
  <2>4. g = [k \in 0 .. m + 1 |-> g[k]]
    OBVIOUS
  <2> HIDE DEF g
  <2>5. Levels(d, t, m + 1, g)
    BY <2>3, <2>4 DEF Levels
  <2> QED
    BY <2>5
<1>3. S = Nat
  <2> HIDE DEF S
  <2>1. S \in SUBSET Nat
    BY DEF S
  <2> QED
    BY <1>1, <1>2, <2>1, SetInduction
<1> QED
  BY <1>3

(* Dirs, unfolded.                                                         *)
LEMMA DirsAre ==
  ASSUME NEW d, NEW t
  PROVE  /\ Depth \in Nat
         /\ \E f : /\ Dirs(d, t) = f[Depth] /\ f[0] = {RootSector}
                   /\ \A k \in 0 .. Depth : k # 0 => f[k] = Wider(d, t, f[k - 1])
<1>1. Depth \in Nat
  BY Sizing DEF Depth
<1> DEFINE level == CHOOSE f : Levels(d, t, Depth, f)
<1>2. Dirs(d, t) = level[Depth]
  BY DEF Dirs, Depth, Levels, Wider
<1>3. Levels(d, t, Depth, level)
  <2>1. \E f : Levels(d, t, Depth, f)
    BY <1>1, LevelsExist
  <2> QED
    BY <2>1, Zenon
<1> HIDE DEF level
<1>4. 0 \in 0 .. Depth
  BY <1>1
<1>5. level[0] = {RootSector} /\ \A k \in 0 .. Depth : k # 0 => level[k] = Wider(d, t, level[k - 1])
  BY <1>3, <1>4 DEF Levels
<1> QED
  BY <1>1, <1>2, <1>5

(* They are in any set that is closed.                                     *)
LEMMA DirsWithin ==
  ASSUME NEW d, NEW t, NEW D, RootSector \in D,
         \A x \in Found(d, D, t) : x.entry.isDir => x.entry.sector \in D
  PROVE  Dirs(d, t) \subseteq D /\ Objects(d, t) \subseteq Found(d, D, t)
<1>1. PICK f : /\ Dirs(d, t) = f[Depth] /\ f[0] = {RootSector}
               /\ \A k \in 0 .. Depth : k # 0 => f[k] = Wider(d, t, f[k - 1])
  BY DirsAre, ZenonT(40)
<1>2. Depth \in Nat
  BY DirsAre, Zenon
<1> DEFINE S == {m \in Nat : m <= Depth => f[m] \subseteq D}
<1>3. 0 \in S
  BY <1>1
<1>4. ASSUME NEW m \in S PROVE m + 1 \in S
  <2> SUFFICES ASSUME m + 1 <= Depth PROVE f[m + 1] \subseteq D
    OBVIOUS
  <2>1. f[m] \subseteq D /\ m + 1 \in 0 .. Depth /\ m + 1 # 0 /\ (m + 1) - 1 = m
    BY <1>2
  <2>2. f[m + 1] = Wider(d, t, f[m])
    BY <1>1, <2>1
  <2>3. Wider(d, t, f[m]) \subseteq D
    BY <2>1 DEF Wider, Found
  <2> QED
    BY <2>2, <2>3
<1>5. S = Nat
  <2> HIDE DEF S
  <2>1. S \in SUBSET Nat
    BY DEF S
  <2> QED
    BY <1>3, <1>4, <2>1, SetInduction
<1>6. Dirs(d, t) \subseteq D
  BY <1>1, <1>2, <1>5
<1> QED
  BY <1>6 DEF Objects, Found

(* A sequence without repetition has as many elements as places.           *)
LEMMA NoRepetition ==
  ASSUME NEW b, IsSeq(b), \A i, j \in DOMAIN b : b[i] = b[j] => i = j
  PROVE  Cardinality({b[i] : i \in DOMAIN b}) = Len(b)
<1>1. Len(b) \in Nat /\ DOMAIN b = 1 .. Len(b) /\ b = [i \in DOMAIN b |-> b[i]]
  BY LenProperties DEF IsSeq
<1>2. b \in [1 .. Len(b) -> {b[i] : i \in DOMAIN b}]
  BY <1>1
<1>3. b \in Bijection(1 .. Len(b), {b[i] : i \in DOMAIN b})
  BY <1>1, <1>2, Fun_IsBij
<1>4. ExistsBijection(1 .. Len(b), {b[i] : i \in DOMAIN b})
  BY <1>3 DEF ExistsBijection
<1>5. IsFiniteSet(1 .. Len(b)) /\ Cardinality(1 .. Len(b)) = Len(b)
  BY <1>1, FS_Interval
<1> QED
  BY <1>4, <1>5, FS_Bijection

(* Whatever D, if it is sound then what the root leads to is consistent.   *)
LEMMA SoundConsistent ==
  ASSUME NEW d, SafeDisk(d), NEW D, NEW t, Sound(d, D, t)
  PROVE  Consistent(d, t)
<1>1. /\ RootSector \in D /\ IsDirectory(d, RootSector)
      /\ \A x \in Found(d, D, t) : x.entry.isDir => x.entry.sector \in D
  BY DEF Sound
<1>2. Objects(d, t) \subseteq Found(d, D, t)
  BY <1>1, DirsWithin
<1>3. ASSUME NEW x \in Objects(d, t)
      PROVE  /\ WellFormed(d, x)
             /\ Cardinality(Occupied(d, x)) = Len(Blocks(d, x))
             /\ Occupied(d, x) \subseteq Sector \ (SystemSectors \cup FreeMap(d))
             /\ \A y \in Objects(d, t) : x # y => Occupied(d, x) \cap Occupied(d, y) = {}
  <2>1. /\ WellFormed(d, x)
        /\ \A i, j \in DOMAIN Blocks(d, x) : Blocks(d, x)[i] = Blocks(d, x)[j] => i = j
        /\ Occupied(d, x) \subseteq Sector \ (SystemSectors \cup FreeMap(d))
        /\ \A y \in Found(d, D, t) : x # y => Occupied(d, x) \cap Occupied(d, y) = {}
    BY <1>2 DEF Sound
  <2>2. x.entry.sector \in Sector /\ d[x.entry.sector].kind = "hdr"
    BY <1>2, ObjectIs
  <2>3. IsSeq(Blocks(d, x))
    BY <2>2, BlocksAre
  <2>4. Cardinality(Occupied(d, x)) = Len(Blocks(d, x))
    BY <2>1, <2>3, NoRepetition DEF Occupied
  <2> QED
    BY <1>2, <2>1, <2>4
<1> QED
  BY <1>1, <1>3 DEF Consistent

(* There are no more directories than there is room for.                   *)
LEMMA FramesFit ==
  ASSUME NEW d, SafeDisk(d), NEW D, Sound(d, D, NoTarget), Owned(d, D)
  PROVE  IsFiniteSet(D) /\ Cardinality(D) \in Nat /\ Cardinality(D) <= Depth
<1>1. D \subseteq Sector /\ IsFiniteSet(D) /\ Cardinality(D) \in Nat
  BY Sizing, FS_Subset, FS_CardinalityType DEF Sound
<1> DEFINE K == 0 .. DirSectors
           place(s, k) == IF k = 0 THEN s ELSE d[s].dataSectors[k]
           g == [x \in D \X K |-> place(x[1], x[2])]
<1>2. IsFiniteSet(K) /\ Cardinality(K) = 1 + DirSectors /\ DirSectors \in Nat /\ NumSectors \in Nat
  <2>1. DirSectors \in Nat /\ NumSectors \in Nat
    BY Sizing
  <2>2. IsFiniteSet(K) /\ Cardinality(K) = IF 0 > DirSectors THEN 0 ELSE (DirSectors - 0) + 1
    BY <2>1, FS_Interval
  <2> QED
    BY <2>1, <2>2
<1>3. ASSUME NEW s \in D, NEW k \in K PROVE place(s, k) \in Frame(d, s) /\ place(s, k) \in Sector
  <2>1. place(s, k) \in Frame(d, s)
    BY <1>2 DEF Frame, TableSectors
  <2> QED
    BY <2>1, DirsApart
<1>4. ASSUME NEW s \in D, NEW k \in K, NEW u \in D, NEW l \in K, place(s, k) = place(u, l)
      PROVE  s = u /\ k = l
  <2>1. s = u
    BY <1>3, <1>4, DirsApart
  <2>2. /\ s \notin TableSectors(d, s)
        /\ \A i, j \in 1 .. DirSectors : d[s].dataSectors[i] = d[s].dataSectors[j] => i = j
    BY DirsApart, DirectoryIs
  <2>3. \A i \in 1 .. DirSectors : d[s].dataSectors[i] # s
    BY <2>2 DEF TableSectors
  <2>4. k = l
    BY <1>2, <1>4, <2>1, <2>2, <2>3
  <2> QED
    BY <2>1, <2>4
<1>5. g \in Injection(D \X K, Sector)
  <2> HIDE DEF place
  <2>1. g \in [D \X K -> Sector]
    BY <1>3
  <2>2. ASSUME NEW x \in D \X K, NEW y \in D \X K, g[x] = g[y] PROVE x = y
    <3>1. PICK s \in D, k \in K : x = <<s, k>>
      OBVIOUS
    <3>2. PICK u \in D, l \in K : y = <<u, l>>
      OBVIOUS
    <3>3. g[x] = place(s, k) /\ g[y] = place(u, l)
      BY <3>1, <3>2
    <3> QED
      BY <1>4, <2>2, <3>1, <3>2, <3>3
  <2> QED
    BY <2>1, <2>2, Fun_IsInj
<1>6. /\ IsFiniteSet(D \X K) /\ Cardinality(D \X K) = Cardinality(D) * Cardinality(K)
  BY <1>1, <1>2, FS_Product
<1>7. IsFiniteSet(Sector) /\ Cardinality(Sector) = NumSectors
  <2>1. IsFiniteSet(0 .. NumSectors - 1) /\ Cardinality(0 .. NumSectors - 1) = IF 0 > NumSectors - 1 THEN 0 ELSE ((NumSectors - 1) - 0) + 1
    BY <1>2, FS_Interval
  <2> QED
    BY <1>2, <2>1 DEF Sector
<1>8. Cardinality(D) * (1 + DirSectors) <= NumSectors
  <2>1. Cardinality(D \X K) <= Cardinality(Sector)
    <3> HIDE DEF g, K
    <3> QED
      BY <1>5, <1>7, FS_Injection
  <2> QED
    BY <1>2, <1>6, <1>7, <2>1
<1>9. Cardinality(D) <= Depth
  <2>1. PICK a \in Nat, b \in Nat \ {0} : a = Cardinality(D) /\ b = 1 + DirSectors
    BY <1>1, <1>2
  <2>2. PICK q \in Nat, r \in 0 .. b - 1 : NumSectors \div b = q /\ NumSectors = (q * b) + r
    <3>1. NumSectors \in Nat
      BY <1>2
    <3>2. \E q \in Nat, r \in 0 .. b - 1 :
             (NumSectors \div b) = q /\ (NumSectors % b) = r /\ NumSectors = (q * b) + r
      BY <2>1, <3>1, Quotient, Zenon
    <3> QED
      BY <3>2, Zenon
  <2>3. a * b <= NumSectors
    BY <1>8, <2>1
  <2>4. a <= q
    <3> SUFFICES ASSUME q < a PROVE FALSE
      OBVIOUS
    <3>1. (q * b) + b <= a * b /\ q * b \in Nat /\ a * b \in Nat
      BY Multiples
    <3> QED
      BY <1>2, <2>2, <2>3, <3>1
  <2> QED
    BY <2>1, <2>2, <2>4 DEF Depth
<1> QED
  BY <1>1, <1>9

(* Dirs goes deep enough.                                                  *)
LEMMA DirsAll ==
  ASSUME NEW d, SafeDisk(d), NEW D, Sound(d, D, NoTarget), Reached(d, D)
  PROVE  Dirs(d, NoTarget) = D
<1>1. PICK f : /\ Dirs(d, NoTarget) = f[Depth] /\ f[0] = {RootSector}
               /\ \A k \in 0 .. Depth : k # 0 => f[k] = Wider(d, NoTarget, f[k - 1])
  BY DirsAre
<1>2. Depth \in Nat
  BY DirsAre, Zenon
<1>3. /\ RootSector \in D
      /\ \A x \in Found(d, D, NoTarget) : x.entry.isDir => x.entry.sector \in D
      /\ IsFiniteSet(D) /\ Cardinality(D) \in Nat /\ Cardinality(D) <= Depth
  BY ReachedOwned, FramesFit DEF Sound
<1>4. ASSUME NEW S \in SUBSET D
      PROVE  /\ IsFiniteSet(S) /\ Cardinality(S) \in Nat /\ Cardinality(S) <= Cardinality(D)
             /\ Wider(d, NoTarget, S) \in SUBSET D /\ S \subseteq Wider(d, NoTarget, S)
  <2>1. Wider(d, NoTarget, S) \in SUBSET D /\ S \subseteq Wider(d, NoTarget, S)
    BY <1>3 DEF Wider, Found
  <2> QED
    BY <1>3, <2>1, FS_Subset, FS_CardinalityType
<1> DEFINE P(k) == /\ f[k] \in SUBSET D /\ RootSector \in f[k]
                   /\ Cardinality(f[k]) >= k + 1 \/ Wider(d, NoTarget, f[k]) = f[k]
           S == {m \in Nat : m <= Depth => P(m)}
<1>5. 0 \in S
  <2>1. Cardinality(f[0]) = 1
    BY <1>1, FS_Singleton, Zenon
  <2>2. f[0] \in SUBSET D /\ RootSector \in f[0]
    BY <1>1, <1>3
  <2>3. Cardinality(f[0]) >= 0 + 1
    BY <2>1
  <2>4. P(0)
    BY <2>2, <2>3
  <2> QED
    BY <2>4
<1>6. ASSUME NEW m \in S PROVE m + 1 \in S
  <2> SUFFICES ASSUME m + 1 <= Depth PROVE P(m + 1)
    OBVIOUS
  <2>1. P(m) /\ m + 1 \in 0 .. Depth /\ m + 1 # 0 /\ (m + 1) - 1 = m /\ m \in Nat
    BY <1>2
  <2>2. f[m + 1] = Wider(d, NoTarget, f[m])
    BY <1>1, <2>1
  <2>3. PICK A : A = f[m]
    OBVIOUS
  <2>4. PICK B : B = f[m + 1]
    OBVIOUS
  <2>5. A \in SUBSET D /\ B \in SUBSET D /\ A \subseteq B /\ RootSector \in B /\ B = Wider(d, NoTarget, A)
    BY <1>4, <2>1, <2>2, <2>3, <2>4
  <2>6. CASE B = A
    BY <2>1, <2>3, <2>4, <2>5, <2>6
  <2>7. CASE B # A
    <3>1. Cardinality(A) >= m + 1
      BY <2>1, <2>3, <2>5, <2>7
    <3>2. Cardinality(A) <= Cardinality(B) /\ Cardinality(A) # Cardinality(B)
      BY <1>4, <2>5, <2>7, FS_Subset
    <3>3. Cardinality(A) \in Nat /\ Cardinality(B) \in Nat
      BY <1>4, <2>5
    <3>4. Cardinality(B) >= (m + 1) + 1
      BY <2>1, <3>1, <3>2, <3>3
    <3> QED
      BY <2>4, <2>5, <3>4
  <2> QED
    BY <2>6, <2>7
<1>7. S = Nat
  <2> HIDE DEF S
  <2>1. S \in SUBSET Nat
    BY DEF S
  <2> QED
    BY <1>5, <1>6, <2>1, SetInduction
<1>8. PICK A : A = f[Depth]
  OBVIOUS
<1>9. P(Depth)
  BY <1>2, <1>7
<1>10. A \in SUBSET D /\ RootSector \in A /\ (Cardinality(A) >= Depth + 1 \/ Wider(d, NoTarget, A) = A)
  BY <1>8, <1>9
<1>11. Wider(d, NoTarget, A) = A
  BY <1>2, <1>3, <1>4, <1>10
<1>12. \A x \in Found(d, A, NoTarget) : x.entry.isDir => x.entry.sector \in A
  BY <1>11 DEF Wider, Found
<1>13. A = D
  BY <1>10, <1>12 DEF Reached
<1> QED
  BY <1>1, <1>8, <1>13

-----------------------------------------------------------------------------
(* A disk between two operations.                                          *)

(* The links of a directory, and its names, each of which is there once.   *)
Linked(d, D) ==
    \A s \in D :
        /\ FetchFrom(d, s)[0] = Entry(".", TRUE, s)
        /\ \E p \in D : FetchFrom(d, s)[1] = Entry("..", TRUE, p)
        /\ \A j, k \in Slots :
              /\ FetchFrom(d, s)[j].inUse /\ FetchFrom(d, s)[k].inUse
              /\ FetchFrom(d, s)[j].name = FetchFrom(d, s)[k].name
              => j = k

(* A disk at rest: sound, with no directory that the root does not lead    *)
(* to.                                                                     *)
Good(d, D) ==
    /\ SafeDisk(d) /\ d = [s \in Sector |-> d[s]]
    /\ Sound(d, D, NoTarget) /\ Reached(d, D) /\ Linked(d, D)

(* The operation has written everything, and E are the directories now: if *)
(* its entry is in use, it is that of an object on sectors that were free. *)
Completes(d, D, t, i, new, e, E) ==
    /\ SafeDisk(e) /\ e = [s \in Sector |-> e[s]]
    /\ Alters(d, D, t, i, new) /\ Altered(d, D, t, i, new, e)
    /\ FetchFrom(e, t.dir) = new
    /\ \A j \in Slots : j # i => ~(new[j].inUse /\ new[j].name = t.name)
    /\ ~(FetchFrom(d, t.dir)[i].inUse /\ FetchFrom(d, t.dir)[i].isDir)
    /\ D \subseteq E /\ E \subseteq Sector
    /\ \A u \in E : u \notin D =>
          /\ new[i].inUse /\ new[i].isDir /\ u = new[i].sector
          /\ IsDirectory(e, u) /\ FetchFrom(e, u) = NewDirectory(u, t.dir)
    /\ new[i].inUse =>
          /\ new[i].isDir => new[i].sector \in E
          /\ WellFormed(e, Obj(e, t.dir, i))
          /\ \A j, k \in DOMAIN Blocks(e, Obj(e, t.dir, i)) :
                Blocks(e, Obj(e, t.dir, i))[j] = Blocks(e, Obj(e, t.dir, i))[k] => j = k
          /\ Occupied(e, Obj(e, t.dir, i)) \subseteq FreeMap(d) \ FreeMap(e)

(* A new directory: its two links and nothing else.                        *)
LEMMA NewIs ==
  ASSUME NEW u, NEW c
  PROVE  /\ 0 \in Slots /\ 1 \in Slots
         /\ NewDirectory(u, c) = [j \in Slots |-> NewDirectory(u, c)[j]]
         /\ NewDirectory(u, c)[0] = Entry(".", TRUE, u)
         /\ NewDirectory(u, c)[1] = Entry("..", TRUE, c)
         /\ \A j \in 2 .. NumDirEntries - 1 : ~NewDirectory(u, c)[j].inUse
<1>1. 0 \in Slots /\ 1 \in Slots /\ \A j \in 2 .. NumDirEntries - 1 : j \in Slots /\ j # 0 /\ j # 1
  BY SizesAssumption DEF Slots
<1>2. NewDirectory(u, c) = [j \in Slots |-> NewDirectory(u, c)[j]]
  BY DEF NewDirectory, Slots
<1>3. /\ NewDirectory(u, c)[0] = Entry(".", TRUE, u)
      /\ NewDirectory(u, c)[1] = Entry("..", TRUE, c)
      /\ \A j \in 2 .. NumDirEntries - 1 : NewDirectory(u, c)[j] = FreeEntry
  BY <1>1 DEF NewDirectory, Slots, CurrentDirectoryIndex, ParentDirectoryIndex
<1>4. ~FreeEntry.inUse
  BY DEF FreeEntry
<1> QED
  BY <1>1, <1>2, <1>3, <1>4

(* A directory of the disk as it was is one of the disk as it is.          *)
LEMMA AfterDirectories ==
  ASSUME NEW d, NEW D, Good(d, D), NEW t, NEW i, NEW new, NEW e, NEW E, Completes(d, D, t, i, new, e, E)
  PROVE  /\ Sound(d, D, NoTarget) /\ Owned(d, D) /\ SafeDisk(d) /\ t.dir \in D /\ i \in 2 .. NumDirEntries - 1
         /\ \A s \in E : IsDirectory(e, s)
         /\ \A s \in D : IsDirectory(d, s)
         /\ \A s \in D, j \in Slots : s # t.dir \/ j # i => FetchFrom(e, s)[j] = FetchFrom(d, s)[j]
         /\ \A s \in E, j \in 2 .. NumDirEntries - 1 : FetchFrom(e, s)[j].inUse => s \in D
         /\ \A j \in 2 .. NumDirEntries - 1 : j \in Slots /\ j # 0 /\ j # 1
         /\ \A s \in Sector : s # NoTarget.dir
<1>1. /\ Sound(d, D, NoTarget) /\ Owned(d, D) /\ SafeDisk(d)
      /\ Alters(d, D, t, i, new) /\ Altered(d, D, t, i, new, e)
  BY ReachedOwned DEF Good, Completes
<1>2. t.dir \in D /\ i \in 2 .. NumDirEntries - 1
  BY <1>1 DEF Alters
<1>3. \A s \in D : IsDirectory(e, s)
  BY <1>1, AlteredSectors
<1>4. (\A s \in E : IsDirectory(e, s)) /\ \A s \in D : IsDirectory(d, s)
  BY <1>1, <1>3 DEF Completes, Sound
<1>5. ASSUME NEW s \in D, NEW j \in Slots, s # t.dir \/ j # i
      PROVE  FetchFrom(e, s)[j] = FetchFrom(d, s)[j]
  BY <1>1, <1>5, AlteredSectors, AlteredTable
<1>6. ASSUME NEW s \in E, NEW j \in 2 .. NumDirEntries - 1, FetchFrom(e, s)[j].inUse
      PROVE  s \in D
  <2> SUFFICES ASSUME s \notin D PROVE FALSE
    OBVIOUS
  <2>1. FetchFrom(e, s) = NewDirectory(s, t.dir)
    BY DEF Completes
  <2>2. ~NewDirectory(s, t.dir)[j].inUse
    BY NewIs
  <2> QED
    BY <1>6, <2>1, <2>2
<1>7. \A j \in 2 .. NumDirEntries - 1 : j \in Slots /\ j # 0 /\ j # 1
  BY Sizing DEF Slots
<1>8. \A s \in Sector : s # NoTarget.dir
  BY Sizing DEF NoTarget
<1> QED
  BY <1>1, <1>2, <1>4, <1>5, <1>6, <1>7, <1>8

(* All of it is sound again.                                               *)
LEMMA SoundAfter ==
  ASSUME NEW d, NEW D, Good(d, D), NEW t, NEW i, NEW new, NEW e, NEW E, Completes(d, D, t, i, new, e, E)
  PROVE  Sound(e, E, NoTarget)
<1> DEFINE c == t.dir
           x == Obj(e, c, i)
<1>1. /\ Sound(d, D, NoTarget) /\ Owned(d, D) /\ SafeDisk(d) /\ c \in D /\ i \in 2 .. NumDirEntries - 1
      /\ Alters(d, D, t, i, new) /\ Altered(d, D, t, i, new, e)
  <2>1. /\ Sound(d, D, NoTarget) /\ Owned(d, D) /\ SafeDisk(d)
        /\ t.dir \in D /\ i \in 2 .. NumDirEntries - 1
    BY AfterDirectories
  <2>2. Alters(d, D, t, i, new) /\ Altered(d, D, t, i, new, e)
    BY DEF Completes
  <2> QED
    BY <2>1, <2>2
<1>2. Sound(e, D, t) /\ \A s \in E : IsDirectory(e, s)
  BY <1>1, AlteredSound, AfterDirectories
<1>3. D \subseteq E /\ E \subseteq Sector /\ FetchFrom(e, c) = new
  BY DEF Completes
<1>4. ASSUME NEW y \in Found(e, E, NoTarget)
      PROVE  (y \in Found(e, D, t) /\ y \in Others(d, D, t, i)) \/ (y = x /\ new[i].inUse)
  <2>1. PICK s \in E, j \in 2 .. NumDirEntries - 1 : y = Obj(e, s, j) /\ FetchFrom(e, s)[j].inUse
    BY <1>2, FoundIs
  <2>2. s \in D /\ j \in Slots /\ s # NoTarget.dir
    BY <1>3, <2>1, AfterDirectories
  <2>3. CASE s = c /\ j = i
    BY <1>3, <2>1, <2>3
  <2>4. CASE ~(s = c /\ j = i)
    <3>1. ~(s = c /\ FetchFrom(e, s)[j].name = t.name)
      <4> SUFFICES ASSUME s = c PROVE FetchFrom(e, s)[j].name # t.name
        OBVIOUS
      <4>1. ~(new[j].inUse /\ new[j].name = t.name)
        BY <2>2, <2>4 DEF Completes
      <4> QED
        BY <1>3, <2>1, <4>1
    <3>2. y \in Found(e, D, t)
      <4>1. \A u \in D : IsDirectory(e, u)
        BY <1>2, <1>3
      <4> QED
        BY <2>1, <2>2, <3>1, <4>1, FoundIs
    <3>3. y \in Others(d, D, t, i)
      BY <1>1, <3>2, AlteredFound
    <3> QED
      BY <3>2, <3>3
  <2> QED
    BY <2>3, <2>4
<1>5. ASSUME NEW y \in Others(d, D, t, i)
      PROVE  Occupied(e, y) \cap FreeMap(d) = {}
  <2>1. Occupied(e, y) = Occupied(d, y) /\ y \in Found(d, D, NoTarget)
    BY <1>1, AlteredObject DEF Others
  <2> QED
    BY <1>1, <2>1 DEF Sound
<1>6. /\ RootSector \in D /\ e[RootSector] = RootHeader /\ FreeMap(e) \subseteq Sector \ SystemSectors
      /\ FreeMap(d) \subseteq Sector \ SystemSectors
  BY <1>1, <1>2 DEF Sound
<1>7. /\ x.entry = new[i]
      /\ new[i].inUse =>
            /\ new[i].isDir => new[i].sector \in E
            /\ WellFormed(e, x)
            /\ \A j, k \in DOMAIN Blocks(e, x) : Blocks(e, x)[j] = Blocks(e, x)[k] => j = k
            /\ Occupied(e, x) \subseteq FreeMap(d) \ FreeMap(e)
  BY DEF Completes, Obj
<1> HIDE DEF x
<1>8. ASSUME NEW y \in Found(e, E, NoTarget)
      PROVE  /\ y.entry.isDir => y.entry.sector \in E
             /\ WellFormed(e, y)
             /\ \A j, k \in DOMAIN Blocks(e, y) : Blocks(e, y)[j] = Blocks(e, y)[k] => j = k
             /\ Occupied(e, y) \subseteq Sector \ (SystemSectors \cup FreeMap(e))
             /\ \A z \in Found(e, E, NoTarget) : y # z => Occupied(e, y) \cap Occupied(e, z) = {}
  <2>1. CASE y \in Found(e, D, t) /\ y \in Others(d, D, t, i)
    <3>1. /\ y.entry.isDir => y.entry.sector \in D
          /\ WellFormed(e, y)
          /\ \A j, k \in DOMAIN Blocks(e, y) : Blocks(e, y)[j] = Blocks(e, y)[k] => j = k
          /\ Occupied(e, y) \subseteq Sector \ (SystemSectors \cup FreeMap(e))
          /\ \A z \in Found(e, D, t) : y # z => Occupied(e, y) \cap Occupied(e, z) = {}
      BY <1>2, <2>1 DEF Sound
    <3>2. ASSUME NEW z \in Found(e, E, NoTarget), y # z PROVE Occupied(e, y) \cap Occupied(e, z) = {}
      <4>1. CASE z \in Found(e, D, t)
        BY <3>1, <3>2, <4>1
      <4>2. CASE z = x /\ new[i].inUse
        <5>1. Occupied(e, y) \cap FreeMap(d) = {}
          BY <1>5, <2>1
        <5> QED
          BY <1>7, <4>2, <5>1
      <4> QED
        BY <1>4, <4>1, <4>2
    <3> QED
      BY <1>3, <3>1, <3>2
  <2>2. CASE y = x /\ new[i].inUse
    <3>1. ASSUME NEW z \in Found(e, E, NoTarget), y # z PROVE Occupied(e, y) \cap Occupied(e, z) = {}
      <4>1. z \in Others(d, D, t, i)
        BY <1>4, <2>2, <3>1
      <4>2. Occupied(e, z) \cap FreeMap(d) = {}
        BY <1>5, <4>1
      <4> QED
        BY <1>7, <2>2, <4>2
    <3> QED
      BY <1>6, <1>7, <2>2, <3>1
  <2> QED
    BY <1>4, <2>1, <2>2
<1> QED
  BY <1>2, <1>3, <1>6, <1>8 DEF Sound

(* The root leads to all of it again.                                      *)
LEMMA ReachedAfter ==
  ASSUME NEW d, NEW D, Good(d, D), NEW t, NEW i, NEW new, NEW e, NEW E, Completes(d, D, t, i, new, e, E)
  PROVE  Reached(e, E)
<1> DEFINE c == t.dir
<1> SUFFICES ASSUME NEW S \in SUBSET E, RootSector \in S,
                    \A x \in Found(e, S, NoTarget) : x.entry.isDir => x.entry.sector \in S
             PROVE  S = E
  BY DEF Reached
<1>1. /\ Sound(d, D, NoTarget) /\ c \in D /\ i \in 2 .. NumDirEntries - 1
      /\ \A s \in E : IsDirectory(e, s)
      /\ \A s \in D : IsDirectory(d, s)
      /\ \A s \in D, j \in Slots : s # c \/ j # i => FetchFrom(e, s)[j] = FetchFrom(d, s)[j]
      /\ \A j \in 2 .. NumDirEntries - 1 : j \in Slots
      /\ \A s \in Sector : s # NoTarget.dir
  BY AfterDirectories
<1>2. /\ ~(FetchFrom(d, c)[i].inUse /\ FetchFrom(d, c)[i].isDir) /\ D \subseteq E /\ E \subseteq Sector
      /\ FetchFrom(e, c) = new
  BY DEF Completes
<1> DEFINE T == S \cap D
<1>3. RootSector \in T /\ T \in SUBSET D /\ D \subseteq Sector
  BY <1>1 DEF Sound
<1>4. ASSUME NEW x \in Found(d, T, NoTarget), x.entry.isDir PROVE x.entry.sector \in T
  <2>1. PICK s \in T, j \in 2 .. NumDirEntries - 1 : x = Obj(d, s, j) /\ FetchFrom(d, s)[j].inUse
    BY <1>1, <1>3, FoundIs
  <2>2. x.entry = FetchFrom(d, s)[j]
    BY <2>1 DEF Obj
  <2>3. s # c \/ j # i
    BY <1>2, <1>4, <2>1, <2>2
  <2>4. FetchFrom(e, s)[j] = FetchFrom(d, s)[j]
    BY <1>1, <1>3, <2>3
  <2>5. x = Obj(e, s, j) /\ FetchFrom(e, s)[j].inUse
    BY <2>1, <2>4 DEF Obj
  <2>6. x \in Found(e, S, NoTarget)
    <3>1. (\A u \in S : IsDirectory(e, u)) /\ s # NoTarget.dir
      BY <1>1, <1>3
    <3> QED
      BY <2>5, <3>1, FoundIs
  <2>7. x \in Found(d, D, NoTarget)
    BY <1>3 DEF Found
  <2> QED
    BY <1>1, <1>4, <2>6, <2>7 DEF Sound
<1>5. T = D
  <2> HIDE DEF T
  <2> QED
    BY <1>3, <1>4 DEF Good, Reached
<1>6. ASSUME NEW u \in E, u \notin D PROVE u \in S
  <2>1. new[i].inUse /\ new[i].isDir /\ u = new[i].sector
    BY <1>6 DEF Completes
  <2>2. Obj(e, c, i) \in Found(e, S, NoTarget)
    <3>1. (\A s \in S : IsDirectory(e, s)) /\ c \in S /\ c # NoTarget.dir
      BY <1>1, <1>3, <1>5
    <3> QED
      BY <1>1, <1>2, <2>1, <3>1, FoundIs
  <2>3. Obj(e, c, i).entry = new[i]
    BY <1>2 DEF Obj
  <2> QED
    BY <2>1, <2>2, <2>3
<1> QED
  BY <1>5, <1>6

(* The links are right again, and the names there once.                    *)
LEMMA LinkedAfter ==
  ASSUME NEW d, NEW D, Good(d, D), NEW t, NEW i, NEW new, NEW e, NEW E, Completes(d, D, t, i, new, e, E)
  PROVE  Linked(e, E)
<1> DEFINE c == t.dir
<1>1. /\ c \in D /\ i \in 2 .. NumDirEntries - 1
      /\ \A s \in D, j \in Slots : s # c \/ j # i => FetchFrom(e, s)[j] = FetchFrom(d, s)[j]
      /\ i \in Slots /\ i # 0 /\ i # 1 /\ 0 \in Slots /\ 1 \in Slots
  <2>1. /\ c \in D /\ i \in 2 .. NumDirEntries - 1
        /\ \A s \in D, j \in Slots : s # c \/ j # i => FetchFrom(e, s)[j] = FetchFrom(d, s)[j]
        /\ \A j \in 2 .. NumDirEntries - 1 : j \in Slots /\ j # 0 /\ j # 1
    BY AfterDirectories
  <2>2. 0 \in Slots /\ 1 \in Slots
    BY NewIs
  <2> QED
    BY <2>1, <2>2
<1>2. /\ D \subseteq E /\ FetchFrom(e, c) = new
      /\ \A j \in Slots : j # i => ~(new[j].inUse /\ new[j].name = t.name)
      /\ new[i].inUse => new[i].name = t.name
  BY DEF Completes, Alters
<1>3. ASSUME NEW s \in D
      PROVE  /\ FetchFrom(d, s)[0] = Entry(".", TRUE, s)
             /\ \E p \in D : FetchFrom(d, s)[1] = Entry("..", TRUE, p)
             /\ \A j, k \in Slots :
                   /\ FetchFrom(d, s)[j].inUse /\ FetchFrom(d, s)[k].inUse
                   /\ FetchFrom(d, s)[j].name = FetchFrom(d, s)[k].name
                   => j = k
  BY DEF Good, Linked
<1>4. ASSUME NEW s \in E
      PROVE  /\ FetchFrom(e, s)[0] = Entry(".", TRUE, s)
             /\ \E p \in E : FetchFrom(e, s)[1] = Entry("..", TRUE, p)
             /\ \A j, k \in Slots :
                   /\ FetchFrom(e, s)[j].inUse /\ FetchFrom(e, s)[k].inUse
                   /\ FetchFrom(e, s)[j].name = FetchFrom(e, s)[k].name
                   => j = k
  <2>1. CASE s \in D
    <3>1. FetchFrom(e, s)[0] = FetchFrom(d, s)[0] /\ FetchFrom(e, s)[1] = FetchFrom(d, s)[1]
      BY <1>1, <2>1
    <3>2. ASSUME NEW j \in Slots, NEW k \in Slots, FetchFrom(e, s)[j].inUse, FetchFrom(e, s)[k].inUse,
                 FetchFrom(e, s)[j].name = FetchFrom(e, s)[k].name
          PROVE  j = k
      <4>1. CASE s # c \/ (j # i /\ k # i)
        <5>1. FetchFrom(e, s)[j] = FetchFrom(d, s)[j] /\ FetchFrom(e, s)[k] = FetchFrom(d, s)[k]
          BY <1>1, <2>1, <4>1, Zenon
        <5>2. /\ FetchFrom(d, s)[j].inUse /\ FetchFrom(d, s)[k].inUse
              /\ FetchFrom(d, s)[j].name = FetchFrom(d, s)[k].name
          BY <3>2, <5>1
        <5> QED
          BY <1>3, <2>1, <5>2, Zenon
      <4>2. CASE s = c /\ (j = i \/ k = i)
        BY <1>2, <3>2, <4>2
      <4> QED
        BY <4>1, <4>2
    <3> QED
      BY <1>2, <1>3, <2>1, <3>1, <3>2
  <2>2. CASE s \notin D
    <3>1. FetchFrom(e, s) = NewDirectory(s, c)
      BY <2>2 DEF Completes
    <3>2. /\ NewDirectory(s, c)[0] = Entry(".", TRUE, s)
          /\ NewDirectory(s, c)[1] = Entry("..", TRUE, c)
          /\ \A j \in 2 .. NumDirEntries - 1 : ~NewDirectory(s, c)[j].inUse
      BY NewIs
    <3>3. Entry(".", TRUE, s).name = "." /\ Entry("..", TRUE, c).name = ".." /\ "." # ".."
      BY DEF Entry
    <3>4. \A j \in Slots : j = 0 \/ j = 1 \/ j \in 2 .. NumDirEntries - 1
      BY Sizing DEF Slots
    <3>5. ASSUME NEW j \in Slots, NEW k \in Slots, FetchFrom(e, s)[j].inUse, FetchFrom(e, s)[k].inUse,
                 FetchFrom(e, s)[j].name = FetchFrom(e, s)[k].name
          PROVE  j = k
      BY <3>1, <3>2, <3>3, <3>4, <3>5
    <3> QED
      BY <1>1, <1>2, <3>1, <3>2, <3>5
  <2> QED
    BY <2>1, <2>2
<1> QED
  BY <1>4 DEF Linked

(* So an operation that has written leaves a disk at rest.                 *)
LEMMA GoodAfter ==
  ASSUME NEW d, NEW D, Good(d, D), NEW t, NEW i, NEW new, NEW e, NEW E, Completes(d, D, t, i, new, e, E)
  PROVE  Good(e, E)
<1>1. SafeDisk(e) /\ e = [s \in Sector |-> e[s]]
  BY DEF Completes
<1>2. Sound(e, E, NoTarget) /\ Reached(e, E) /\ Linked(e, E)
  BY SoundAfter, ReachedAfter, LinkedAfter
<1> QED
  BY <1>1, <1>2 DEF Good

-----------------------------------------------------------------------------
(* An operation with these writes to come, that is all it takes.           *)
Prepares(d, D, t, i, new, free, V, p) ==
    /\ Good(d, D) /\ Alters(d, D, t, i, new)
    /\ free \subseteq Sector \ SystemSectors
    /\ \A x \in Others(d, D, t, i) : Occupied(d, x) \cap free = {}
    /\ Stores(d, t.dir, new, free, V, p) /\ SafeWrites(p)

(* What it leaves behind, once it has written.                             *)
LEMMA Written ==
  ASSUME NEW d, NEW D, NEW t, NEW i, NEW new, NEW free, NEW V, NEW p,
         Prepares(d, D, t, i, new, free, V, p), NEW e, e = Apply(d, p)
  PROVE  /\ SafeDisk(e) /\ e = [s \in Sector |-> e[s]]
         /\ Altered(d, D, t, i, new, e) /\ FetchFrom(e, t.dir) = new
         /\ FreeMap(e) = free /\ \A x \in V : e[x.sector] = x.content
         /\ \A w \in Range(p) : May(d, D, t, i, new, w.sector, w.content)
<1>0. /\ Good(d, D) /\ Alters(d, D, t, i, new)
      /\ free \subseteq Sector \ SystemSectors
      /\ \A x \in Others(d, D, t, i) : Occupied(d, x) \cap free = {}
      /\ Stores(d, t.dir, new, free, V, p) /\ SafeWrites(p)
  BY DEF Prepares
<1>1. /\ SafeDisk(d) /\ d = [s \in Sector |-> d[s]] /\ Sound(d, D, NoTarget) /\ Owned(d, D)
      /\ t.dir \in D /\ new = [j \in Slots |-> new[j]]
  BY <1>0, ReachedOwned DEF Good, Alters
<1>2. SafeDisk(e)
  BY <1>0, <1>1, ApplySafe
<1>3. DOMAIN d = Sector /\ DOMAIN e = Sector
  BY <1>1, <1>2 DEF SafeDisk
<1>4. e = [s \in Sector |-> e[s]]
  <2>1. e = [s \in DOMAIN d |-> Apply(d, p)[s]]
    BY DEF Apply
  <2> QED
    BY <1>3, <2>1
<1>5. \A w \in Range(p) : May(d, D, t, i, new, w.sector, w.content)
  BY <1>0, StoresMay
<1>6. Altered(d, D, t, i, new, e)
  <2>1. Altered(d, D, t, i, new, d)
    BY DEF Altered
  <2>2. IsSeq(p)
    BY <1>0 DEF Stores
  <2> QED
    BY <1>0, <1>3, <1>5, <2>1, <2>2, AlteredOn
<1>7. /\ e[MapDataSector] = MapBlock(free)
      /\ \A k \in 1 .. DirSectors : e[d[t.dir].dataSectors[k]] = DirSlice(k, new)
      /\ \A x \in V : e[x.sector] = x.content
  BY <1>0, <1>1, StoresWhat
<1>8. FreeMap(e) = free
  BY <1>7 DEF FreeMap, MapBlock
<1>9. FetchFrom(e, t.dir) = new
  <2>1. e[t.dir] = d[t.dir] /\ IsDirectory(e, t.dir)
    BY <1>0, <1>1, <1>6, AlteredSectors
  <2>2. IsDirectoryHeader(e, t.dir)
    BY <2>1 DEF IsDirectory
  <2> QED
    BY <1>1, <1>7, <2>1, <2>2, ReadBack
<1> QED
  BY <1>2, <1>4, <1>5, <1>6, <1>7, <1>8, <1>9

-----------------------------------------------------------------------------
(* The invariant.                                                          *)

(* The answer t is true of the table of its directory.                     *)
Tells(t, table) ==
    LET listed == {table[i].isDir : i \in Matches(table, t.name)} IN
    /\ t.op = "Create" /\ t.value = "TRUE" => listed = {FALSE}
    /\ t.op = "CreateDirectory" /\ t.value = "0" => listed = {TRUE}
    /\ t.op = "Remove" /\ t.value = "TRUE" => listed = {}

(* The disk that an operation leaves, in the end.                          *)
Settled(d, table, t) ==
    \E E : /\ Good(d, E) /\ getSector(table) \in E /\ table = FetchFrom(d, getSector(table))
           /\ t.dir \in E /\ Tells(t, FetchFrom(d, t.dir))

(* The disk is in the middle of an operation that started from d, and      *)
(* whatever of its writes is lost, it stays so.                            *)
Underway(t) ==
    \E d, D, i, new :
        /\ Good(d, D) /\ Alters(d, D, t, i, new) /\ Altered(d, D, t, i, new, disk)
        /\ \A w \in Range(pending) : May(d, D, t, i, new, w.sector, w.content)

(* No operation is under way.                                              *)
Rests == status = "running" /\ pending = <<>> /\ Settled(disk, currentDir, ret)

(* One is, and will leave a disk at rest.                                  *)
Writes == /\ status = "running" /\ pending # <<>>
          /\ Settled(Apply(disk, pending), currentDir, ret) /\ Underway(ret)

(* One was, when Nachos stopped: the disk is sound but for its entry.      *)
Crashed == status = "recovered" /\ pending = <<>> /\ \E D : Sound(disk, D, ret)

(* The sector b is in no directory, header or index block.                 *)
DataSector(d, E, b) ==
    /\ b \in Sector \ {FreeMapSector, MapDataSector}
    /\ \A s \in E : b \notin Frame(d, s)
    /\ \A x \in Found(d, E, NoTarget) :
         ~x.entry.isDir =>
            /\ b # x.entry.sector
            /\ \A j \in DOMAIN d[x.entry.sector].dataSectors : b # d[x.entry.sector].dataSectors[j]

(* A sector of a file is to be written, on a disk that is at rest.         *)
Fills ==
    /\ status = "running"
    /\ \E E : /\ Good(disk, E) /\ getSector(currentDir) \in E
              /\ currentDir = FetchFrom(disk, getSector(currentDir))
              /\ ret.dir \in E /\ Tells(ret, FetchFrom(disk, ret.dir))
              /\ \E b : DataSector(disk, E, b) /\ pending = <<Write(b, Raw)>>

(* The inductive invariant.                                                *)
FsInv ==
    /\ IInv /\ disk = [s \in Sector |-> disk[s]]
    /\ Careful => Rests \/ Writes \/ Fills \/ Crashed

(* A careful client's state is not lost.                                   *)
LEMMA FsInvIs ==
  ASSUME FsInv, Careful
  PROVE  MapInv /\ SafeDisk(disk) /\ (Rests \/ Writes \/ Fills \/ Crashed)
<1>1. status # "undefined"
  BY DEF FsInv, Rests, Writes, Fills, Crashed
<1> QED
  BY <1>1, MapInvIs DEF FsInv, IInv

(* Data on a sector of its own changes nothing else.                       *)
LEMMA DataKeeps ==
  ASSUME NEW d, NEW E, Good(d, E), NEW b, DataSector(d, E, b),
         NEW e, SafeDisk(e), e = [s \in Sector |-> e[s]],
         \A s \in Sector : s # b => e[s] = d[s]
  PROVE  Good(e, E) /\ \A s \in E : FetchFrom(e, s) = FetchFrom(d, s)
<1>1. /\ SafeDisk(d) /\ Sound(d, E, NoTarget) /\ Reached(d, E) /\ Linked(d, E)
      /\ RootSector \in E /\ E \subseteq Sector /\ \A s \in E : IsDirectory(d, s)
  BY DEF Good, Sound
<1>2. ASSUME NEW s \in E
      PROVE  IsDirectory(e, s) /\ FetchFrom(e, s) = FetchFrom(d, s) /\ e[s] = d[s]
  <2>1. s \in Frame(d, s) /\ Frame(d, s) \subseteq Sector
    BY <1>1, DirectoryIs DEF Frame, TableSectors
  <2>2. \A a \in Frame(d, s) : e[a] = d[a]
    BY <2>1 DEF DataSector
  <2> QED
    BY <1>1, <2>1, <2>2, SameDirectory
<1>3. ASSUME NEW S \in SUBSET E PROVE Found(e, S, NoTarget) = Found(d, S, NoTarget)
  <2>1. \A s \in S : Listed(e, s, NoTarget) = Listed(d, s, NoTarget)
    BY <1>1, <1>2, Zenon DEF Listed
  <2> QED
    BY <2>1 DEF Found
<1>4. FreeMap(e) = FreeMap(d) /\ e[RootSector] = d[RootSector]
  BY <1>1, <1>2, Sizing DEF DataSector, FreeMap
<1>5. ASSUME NEW x \in Found(d, E, NoTarget)
      PROVE  WellFormed(e, x) /\ Blocks(e, x) = Blocks(d, x) /\ Occupied(e, x) = Occupied(d, x)
  <2> DEFINE r == x.entry.sector
  <2>1. /\ r \in Sector /\ d[r].kind = "hdr"
        /\ \A j \in 1 .. Len(d[r].dataSectors) : d[r].dataSectors[j] \in Sector
        /\ x.entry.isDir => r \in E
        /\ ~x.entry.isDir => Len(d[r].dataSectors) = IndexCount(d[r].numSectors)
    BY <1>1, ObjectIs
  <2>2. WellFormed(d, x)
    BY <1>1 DEF Sound
  <2>3. DOMAIN d[r].dataSectors = 1 .. Len(d[r].dataSectors)
    BY <1>1, <2>1, HeaderIs
  <2>4. e[r] = d[r]
    BY <1>2, <2>1 DEF DataSector
  <2>5. ~x.entry.isDir => \A j \in DOMAIN d[r].dataSectors : e[d[r].dataSectors[j]] = d[d[r].dataSectors[j]]
    BY <2>1, <2>3 DEF DataSector
  <2>6. Blocks(e, x) = Blocks(d, x)
    BY <1>1, <2>1, <2>4, <2>5, SameBlocks
  <2>7. CASE x.entry.isDir
    <3>1. WellFormed(e, x)
      BY <1>2, <2>1, <2>2, <2>7 DEF WellFormed
    <3> QED
      BY <2>6, <3>1 DEF Occupied
  <2>8. CASE ~x.entry.isDir
    <3>1. \A i \in 1 .. d[r].numSectors : HasPointer(e, e[r], i)
      BY <1>1, <2>1, <2>2, <2>3, <2>4, <2>5, <2>8, SamePointers DEF WellFormed
    <3>2. /\ IsHeader(d, r) /\ Len(d[r].dataSectors) = IndexCount(d[r].numSectors)
          /\ \A j \in DOMAIN d[r].dataSectors : d[d[r].dataSectors[j]].kind = "index"
      BY <2>2, <2>8, Zenon DEF WellFormed
    <3>3. IsHeader(e, r)
      BY <2>4, <3>2 DEF IsHeader
    <3>4. Len(e[r].dataSectors) = IndexCount(e[r].numSectors)
      BY <2>4, <3>2, Zenon
    <3>5. \A j \in DOMAIN e[r].dataSectors : e[e[r].dataSectors[j]].kind = "index"
      BY <2>4, <2>5, <2>8, <3>2, Zenon
    <3>6. \A i \in 1 .. e[r].numSectors : HasPointer(e, e[r], i)
      BY <2>4, <3>1, Zenon
    <3>7. WellFormed(e, x)
      BY <2>8, <3>3, <3>4, <3>5, <3>6, Zenon DEF WellFormed
    <3> QED
      BY <2>6, <3>7 DEF Occupied
  <2> QED
    BY <2>7, <2>8
<1>6. Found(e, E, NoTarget) = Found(d, E, NoTarget)
  BY <1>3
<1>7. Sound(e, E, NoTarget)
  <2>1. \A s \in E : IsDirectory(e, s)
    BY <1>2
  <2>2. ASSUME NEW x \in Found(e, E, NoTarget)
        PROVE  /\ x.entry.isDir => x.entry.sector \in E
               /\ WellFormed(e, x)
               /\ \A i, j \in DOMAIN Blocks(e, x) : Blocks(e, x)[i] = Blocks(e, x)[j] => i = j
               /\ Occupied(e, x) \subseteq Sector \ (SystemSectors \cup FreeMap(e))
               /\ \A y \in Found(e, E, NoTarget) : x # y => Occupied(e, x) \cap Occupied(e, y) = {}
    <3>1. /\ x.entry.isDir => x.entry.sector \in E
          /\ \A i, j \in DOMAIN Blocks(d, x) : Blocks(d, x)[i] = Blocks(d, x)[j] => i = j
          /\ Occupied(d, x) \subseteq Sector \ (SystemSectors \cup FreeMap(d))
          /\ \A y \in Found(d, E, NoTarget) : x # y => Occupied(d, x) \cap Occupied(d, y) = {}
      BY <1>1, <1>6 DEF Sound
    <3>2. WellFormed(e, x) /\ Blocks(e, x) = Blocks(d, x) /\ Occupied(e, x) = Occupied(d, x)
      BY <1>5, <1>6
    <3>3. \A y \in Found(e, E, NoTarget) : Occupied(e, y) = Occupied(d, y)
      BY <1>5, <1>6
    <3> QED
      BY <1>4, <1>6, <3>1, <3>2, <3>3
  <2>3. e[RootSector] = RootHeader /\ FreeMap(e) \subseteq Sector \ SystemSectors
    BY <1>1, <1>4 DEF Sound
  <2> QED
    BY <1>1, <2>1, <2>2, <2>3 DEF Sound
<1>8. Reached(e, E)
  BY <1>1, <1>3 DEF Reached
<1>9. Linked(e, E)
  <2>1. Linked(d, E)
    BY <1>1
  <2>2. \A s \in E : FetchFrom(e, s) = FetchFrom(d, s)
    BY <1>2
  <2>3. ASSUME NEW s \in E
        PROVE  /\ FetchFrom(e, s)[0] = Entry(".", TRUE, s)
               /\ \E p \in E : FetchFrom(e, s)[1] = Entry("..", TRUE, p)
               /\ \A j, k \in Slots :
                    /\ FetchFrom(e, s)[j].inUse /\ FetchFrom(e, s)[k].inUse
                    /\ FetchFrom(e, s)[j].name = FetchFrom(e, s)[k].name
                    => j = k
    <3>1. PICK t : t = FetchFrom(d, s)
      OBVIOUS
    <3>2. FetchFrom(e, s) = t
      BY <2>2, <3>1, Zenon
    <3>3. /\ t[0] = Entry(".", TRUE, s)
          /\ \E p \in E : t[1] = Entry("..", TRUE, p)
          /\ \A j, k \in Slots : t[j].inUse /\ t[k].inUse /\ t[j].name = t[k].name => j = k
      BY <2>1, <3>1, Zenon DEF Linked
    <3> QED
      BY <3>2, <3>3, Zenon
  <2> QED
    BY <2>3, Zenon DEF Linked
<1> QED
  BY <1>2, <1>7, <1>8, <1>9 DEF Good

(* An operation that fails changes nothing.                                *)
LEMMA FailsRests ==
  ASSUME Rests, NEW op, NEW name, NEW value, Fails(op, name, value),
         value \notin {"TRUE", "0"} \/ op \notin {"Create", "CreateDirectory", "Remove"}
  PROVE  Rests'
<1>1. /\ disk' = disk /\ currentDir' = currentDir /\ pending' = pending /\ status' = status
      /\ ret'.op = op /\ ret'.value = value /\ ret'.dir = getSector(currentDir)
  BY DEF Fails, Returns
<1>2. \A table : Tells(ret', table)
  BY <1>1, Zenon DEF Tells
<1>3. PICK E : Good(disk, E) /\ getSector(currentDir) \in E /\ currentDir = FetchFrom(disk, getSector(currentDir))
  BY DEF Rests, Settled
<1>4. Settled(disk, currentDir, ret')
  BY <1>1, <1>2, <1>3 DEF Settled
<1> QED
  BY <1>1, <1>4 DEF Rests

(* One that succeeds has its writes before it.                             *)
LEMMA Succeeds ==
  ASSUME NEW D, NEW t, NEW i, NEW new, NEW free, NEW V, NEW p,
         Prepares(disk, D, t, i, new, free, V, p),
         NEW E, Completes(disk, D, t, i, new, Apply(disk, p), E), Tells(t, new),
         disk' = disk, status = "running", status' = status,
         pending' = p, currentDir' = new, ret' = t
  PROVE  Writes'
<1>1. PICK e : e = Apply(disk, p)
  OBVIOUS
<1>0. Good(disk, D) /\ Alters(disk, D, t, i, new) /\ Stores(disk, t.dir, new, free, V, p)
  BY DEF Prepares
<1>2. /\ Good(e, E) /\ FetchFrom(e, t.dir) = new
      /\ \A w \in Range(p) : May(disk, D, t, i, new, w.sector, w.content)
  <2>1. Good(e, E)
    BY <1>0, <1>1, GoodAfter
  <2>2. Completes(disk, D, t, i, new, e, E)
    BY <1>1
  <2>3. FetchFrom(e, t.dir) = new
    BY <2>2 DEF Completes
  <2>4. \A w \in Range(p) : May(disk, D, t, i, new, w.sector, w.content)
    BY <1>1, Written
  <2> QED
    BY <2>1, <2>3, <2>4
<1>3. getSector(new) = t.dir /\ t.dir \in E
  <2>1. t.dir \in D /\ i \in 2 .. NumDirEntries - 1 /\ \A j \in Slots : j # i => new[j] = FetchFrom(disk, t.dir)[j]
    BY <1>0 DEF Alters
  <2>2. 0 \in Slots /\ 0 # i
    BY <2>1, Sizing DEF Slots
  <2>3. new[0] = Entry(".", TRUE, t.dir)
    BY <1>0, <2>1, <2>2 DEF Good, Linked
  <2>4. D \subseteq E
    BY DEF Completes
  <2> QED
    BY <2>1, <2>3, <2>4 DEF getSector, CurrentDirectoryIndex, Entry
<1>4. Settled(e, new, t)
  BY <1>2, <1>3 DEF Settled
<1>5. \E d, DD, ii, nn :
        /\ Good(d, DD) /\ Alters(d, DD, t, ii, nn) /\ Altered(d, DD, t, ii, nn, disk)
        /\ \A w \in Range(p) : May(d, DD, t, ii, nn, w.sector, w.content)
  <2>1. Altered(disk, D, t, i, new, disk)
    BY DEF Altered
  <2> QED
    BY <1>0, <1>2, <2>1
<1>6. p # <<>>
  <2>1. PICK x : x \in Range(p)
    BY <1>0, FlushIs DEF Stores
  <2> QED
    BY <2>1 DEF Range
<1>7. /\ Settled(Apply(disk, pending), currentDir, ret)' /\ Underway(ret)'
  <2>1. Settled(Apply(disk, pending), currentDir, ret)'
    BY <1>1, <1>4
  <2>2. Underway(ret)'
    BY <1>5 DEF Underway
  <2> QED
    BY <2>1, <2>2
<1> QED
  BY <1>6, <1>7 DEF Writes

(* One write reaches the disk.                                             *)
LEMMA WriteSectorRests ==
  ASSUME MapInv, disk = [s \in Sector |-> disk[s]], Writes, WriteSector
  PROVE  Rests' \/ Writes'
<1>1. /\ pending # <<>> /\ disk' = Apply(disk, <<Head(pending)>>) /\ pending' = Tail(pending)
      /\ currentDir' = currentDir /\ status' = status /\ ret' = ret /\ status = "running"
  BY DEF WriteSector, Writes
<1>2. IsSeq(pending)
  BY MapInvIs, SafeIsSeq
<1>3. /\ IsSeq(Tail(pending)) /\ Head(pending) \in Range(pending) /\ Range(Tail(pending)) \subseteq Range(pending)
      /\ Apply(disk', Tail(pending)) = Apply(disk, pending)
  BY <1>1, <1>2, ApplyHead
<1>4. Settled(Apply(disk', pending'), currentDir', ret')
  BY <1>1, <1>3 DEF Writes
<1>5. PICK d, D, i, new :
        /\ Good(d, D) /\ Alters(d, D, ret, i, new) /\ Altered(d, D, ret, i, new, disk)
        /\ \A w \in Range(pending) : May(d, D, ret, i, new, w.sector, w.content)
  BY DEF Writes, Underway
<1>6. PICK h : h = Head(pending)
  OBVIOUS
<1>7. IsSeq(<<h>>) /\ Range(<<h>>) = {h}
  <2>1. IsSeq(<<h>>) /\ DOMAIN <<h>> = {1} /\ <<h>>[1] = h
    BY SeqOne
  <2> QED
    BY <2>1 DEF Range
<1>8. DOMAIN disk = Sector /\ disk' = [s \in Sector |-> disk'[s]]
  <2>1. DOMAIN disk = Sector
    BY MapInvIs DEF SafeDisk
  <2>2. disk' = [s \in DOMAIN disk |-> Apply(disk, <<Head(pending)>>)[s]]
    BY <1>1 DEF Apply
  <2> QED
    BY <2>1, <2>2, <1>1
<1>9. Altered(d, D, ret, i, new, disk')
  <2>1. \A w \in Range(<<h>>) : May(d, D, ret, i, new, w.sector, w.content)
    BY <1>3, <1>5, <1>6, <1>7
  <2>2. Altered(d, D, ret, i, new, Apply(disk, <<h>>))
    BY <1>5, <1>7, <1>8, <2>1, AlteredOn
  <2> QED
    BY <1>1, <1>6, <2>2
<1>10. Underway(ret)'
  BY <1>1, <1>3, <1>5, <1>9 DEF Underway
<1>11. CASE pending' = <<>>
  <2>1. Apply(disk', <<>>) = disk'
    BY <1>8, ApplyNone
  <2> QED
    BY <1>1, <1>4, <1>11, <2>1 DEF Rests
<1>12. CASE pending' # <<>>
  BY <1>1, <1>4, <1>10, <1>12 DEF Writes
<1> QED
  BY <1>11, <1>12

(* The next start, after a crash or not.                                   *)
LEMMA MountRests ==
  ASSUME Rests, Mount("running")
  PROVE  Rests'
<1>1. PICK E : Good(disk, E) /\ ret.dir \in E /\ Tells(ret, FetchFrom(disk, ret.dir))
  BY DEF Rests, Settled
<1>2. RootSector \in E /\ IsDirectory(disk, RootSector) /\ FetchFrom(disk, RootSector)[0] = Entry(".", TRUE, RootSector)
  BY <1>1 DEF Good, Sound, Linked
<1>3. /\ currentDir' = FetchFrom(disk, RootSector) /\ status' = "running" /\ pending' = <<>>
      /\ disk' = disk /\ ret' = ret
  BY <1>2 DEF Mount
<1>4. getSector(FetchFrom(disk, RootSector)) = RootSector
  BY <1>2 DEF getSector, CurrentDirectoryIndex, Entry
<1>5. Settled(disk, FetchFrom(disk, RootSector), ret)
  BY <1>1, <1>2, <1>4 DEF Settled
<1> QED
  BY <1>3, <1>5 DEF Rests

(* What is sound is so without an entry.                                   *)
LEMMA SoundButFor ==
  ASSUME NEW d, NEW D, Sound(d, D, NoTarget), NEW t
  PROVE  Sound(d, D, t)
<1>1. \A s \in D : IsDirectory(d, s) /\ s # NoTarget.dir
  BY Sizing DEF Sound, NoTarget
<1>2. ASSUME NEW x \in Found(d, D, t) PROVE x \in Found(d, D, NoTarget)
  <2>1. PICK s \in D, j \in 2 .. NumDirEntries - 1 :
           x = Obj(d, s, j) /\ FetchFrom(d, s)[j].inUse
    BY <1>1, <1>2, FoundIs
  <2>2. s # NoTarget.dir
    BY <1>1
  <2> QED
    BY <1>1, <2>1, <2>2, FoundIs
<1> QED
  BY <1>2 DEF Sound

(* In the middle of an operation only its own entry is in doubt.           *)
LEMMA UnderwaySound ==
  ASSUME Underway(ret)
  PROVE  \E D : Sound(disk, D, ret)
<1>1. PICK d, D, i, new :
        Good(d, D) /\ Alters(d, D, ret, i, new) /\ Altered(d, D, ret, i, new, disk)
  BY DEF Underway
<1>2. SafeDisk(d) /\ Sound(d, D, NoTarget) /\ Owned(d, D)
  BY <1>1, ReachedOwned DEF Good
<1> QED
  BY <1>1, <1>2, AlteredSound

(* Nachos stops in the middle of an operation.                             *)
LEMMA CrashIs ==
  ASSUME Writes, Mount("recovered")
  PROVE  Crashed'
<1>1. PICK D : Sound(disk, D, ret)
  BY UnderwaySound DEF Writes
<1>2. IsDirectory(disk, RootSector)
  BY <1>1 DEF Sound
<1>3. status' = "recovered" /\ pending' = <<>> /\ disk' = disk /\ ret' = ret
  BY <1>2 DEF Mount
<1> QED
  BY <1>1, <1>3 DEF Crashed

-----------------------------------------------------------------------------
(* Tables of directories.                                                  *)

(* FindIndex returns the entry with the name.                              *)
LEMMA MatchIs ==
  ASSUME NEW table, DOMAIN table = Slots, NEW name, InDirectory(table, name)
  PROVE  LET i == FindIndex(table, name)
         IN  i \in Slots /\ table[i].inUse /\ table[i].name = name
<1>1. Slots \in SUBSET Nat
  BY DEF Slots
<1>2. Matches(table, name) \in SUBSET Nat /\ Matches(table, name) # {}
  BY <1>1 DEF Matches, InDirectory
<1>3. FindIndex(table, name) \in Matches(table, name)
  BY <1>2, Smallest DEF FindIndex
<1> QED
  BY <1>3 DEF Matches

(* Add fills one entry, which was free.                                    *)
LEMMA FreeIs ==
  ASSUME NEW table, table = [j \in Slots |-> table[j]], FreeIndexes(table) # {},
         NEW name, NEW isDir, NEW sector
  PROVE  LET i == Min(FreeIndexes(table))
             new == Add(table, name, isDir, sector)
         IN  /\ i \in 2 .. NumDirEntries - 1 /\ i \in Slots /\ ~table[i].inUse
             /\ new = [j \in Slots |-> new[j]]
             /\ \A j \in Slots : j # i => new[j] = table[j]
             /\ new[i] = Entry(name, isDir, sector)
<1> DEFINE i == Min(FreeIndexes(table))
<1>1. FreeIndexes(table) \in SUBSET Nat
  BY Sizing DEF FreeIndexes
<1>2. i \in FreeIndexes(table)
  BY <1>1, Smallest
<1>3. i \in 2 .. NumDirEntries - 1 /\ i \in Slots /\ ~table[i].inUse
  BY <1>2, Sizing DEF FreeIndexes, Slots
<1>4. Add(table, name, isDir, sector) = [table EXCEPT ![i] = Entry(name, isDir, sector)]
  BY DEF Add
<1> HIDE DEF i
<1>5. DOMAIN table = Slots
  BY Zenon
<1> QED
  BY <1>3, <1>4, <1>5 DEF i

(* setInUseOfIndex frees one.                                              *)
LEMMA UnuseIs ==
  ASSUME NEW table, table = [j \in Slots |-> table[j]], NEW i \in 2 .. NumDirEntries - 1
  PROVE  LET new == Unuse(table, i)
         IN  /\ i \in Slots /\ new = [j \in Slots |-> new[j]]
             /\ \A j \in Slots : j # i => new[j] = table[j]
             /\ ~new[i].inUse
<1>1. i \in Slots /\ ~(i < 2)
  BY Sizing DEF Slots
<1>2. Unuse(table, i) = [table EXCEPT ![i] = FreeEntry]
  BY <1>1 DEF Unuse
<1>3. ~FreeEntry.inUse
  BY DEF FreeEntry
<1>4. DOMAIN table = Slots
  BY Zenon
<1> QED
  BY <1>1, <1>2, <1>3, <1>4

(* The current directory, when no operation is under way.                  *)
Here(E, c) ==
    /\ Good(disk, E) /\ c \in E /\ c = getSector(currentDir) /\ currentDir = FetchFrom(disk, c)
    /\ Sound(disk, E, NoTarget) /\ Owned(disk, E) /\ SafeDisk(disk) /\ IsDirectory(disk, c)
    /\ DOMAIN currentDir = Slots /\ currentDir = [j \in Slots |-> currentDir[j]]
    /\ c \in Sector /\ c # NoTarget.dir
    /\ currentDir[0] = Entry(".", TRUE, c)
    /\ \E p \in E : currentDir[1] = Entry("..", TRUE, p)
    /\ \A j, k \in Slots :
          currentDir[j].inUse /\ currentDir[k].inUse /\ currentDir[j].name = currentDir[k].name => j = k

(* The directory that currentDir names is one.                             *)
LEMMA HereFrom ==
  ASSUME NEW E, Good(disk, E), getSector(currentDir) \in E,
         currentDir = FetchFrom(disk, getSector(currentDir)), NEW c, c = getSector(currentDir)
  PROVE  Here(E, c)
<1>1. Good(disk, E) /\ getSector(currentDir) \in E /\ currentDir = FetchFrom(disk, getSector(currentDir))
  OBVIOUS
<1>2. c = getSector(currentDir)
  OBVIOUS
<1>3. Sound(disk, E, NoTarget) /\ Owned(disk, E) /\ SafeDisk(disk) /\ IsDirectory(disk, c)
  BY <1>1, <1>2, ReachedOwned DEF Good, Sound
<1>4. DOMAIN currentDir = Slots /\ currentDir = [j \in Slots |-> currentDir[j]]
  BY <1>1, FetchIs
<1>5. c \in Sector /\ c # NoTarget.dir
  BY <1>1, <1>2, <1>3, Sizing DEF Sound, NoTarget
<1>6. /\ currentDir[0] = Entry(".", TRUE, c)
      /\ \E p \in E : currentDir[1] = Entry("..", TRUE, p)
      /\ \A j, k \in Slots :
            currentDir[j].inUse /\ currentDir[k].inUse /\ currentDir[j].name = currentDir[k].name => j = k
  BY <1>1, <1>2 DEF Good, Linked
<1> QED
  BY <1>1, <1>2, <1>3, <1>4, <1>5, <1>6 DEF Here

(* There is one.                                                           *)
LEMMA RestsHere ==
  ASSUME Rests
  PROVE  \E E, c : Here(E, c)
<1>1. PICK E : Good(disk, E) /\ getSector(currentDir) \in E /\ currentDir = FetchFrom(disk, getSector(currentDir))
  BY DEF Rests, Settled
<1> QED
  BY <1>1, HereFrom

(* An entry of it is that of an object.                                    *)
LEMMA HereObject ==
  ASSUME NEW E, NEW c, Here(E, c), NEW i \in Slots, currentDir[i].inUse
  PROVE  /\ i \in 2 .. NumDirEntries - 1 => Obj(disk, c, i) \in Found(disk, E, NoTarget)
         /\ Obj(disk, c, i).entry = currentDir[i] /\ Obj(disk, c, i).dir = c /\ Obj(disk, c, i).index = i
         /\ ~currentDir[i].isDir => i \in 2 .. NumDirEntries - 1
         /\ currentDir[i].isDir => currentDir[i].sector \in E
<1>1. currentDir = FetchFrom(disk, c) /\ c \in E /\ c # NoTarget.dir /\ \A s \in E : IsDirectory(disk, s)
  BY DEF Here, Sound
<1>2. ASSUME i \in 2 .. NumDirEntries - 1 PROVE Obj(disk, c, i) \in Found(disk, E, NoTarget)
  BY <1>1, <1>2, FoundIs
<1>3. i = 0 \/ i = 1 \/ i \in 2 .. NumDirEntries - 1
  BY Sizing DEF Slots
<1>4. /\ Obj(disk, c, i).entry = currentDir[i] /\ Obj(disk, c, i).dir = c /\ Obj(disk, c, i).index = i
  BY <1>1 DEF Obj
<1>5. /\ currentDir[0].isDir /\ currentDir[0].sector = c
      /\ currentDir[1].isDir /\ currentDir[1].sector \in E
  BY DEF Here, Entry
<1>6. ASSUME i \in 2 .. NumDirEntries - 1, currentDir[i].isDir PROVE currentDir[i].sector \in E
  <2>1. Obj(disk, c, i).entry.isDir => Obj(disk, c, i).entry.sector \in E
    BY <1>2, <1>6 DEF Here, Sound
  <2> QED
    BY <1>4, <1>6, <2>1
<1> QED
  BY <1>1, <1>2, <1>3, <1>4, <1>5, <1>6

-----------------------------------------------------------------------------
(* The operations of a careful client.                                     *)

(* FileSystem::ChangeDirectory.                                            *)
LEMMA ChangeDirectoryRests ==
  ASSUME Careful, Rests, NEW name, ChangeDirectory(name)
  PROVE  Rests'
<1>1. PICK E, c : Here(E, c)
  BY RestsHere
<1>2. CASE Fails("ChangeDirectory", name, "-1")
  BY <1>2, FailsRests
<1>3. CASE InDirectory(currentDir, name) /\ ~Fails("ChangeDirectory", name, "-1")
  <2>1. PICK i : i = FindIndex(currentDir, name)
    OBVIOUS
  <2>2. i \in Slots /\ currentDir[i].inUse
    BY <1>1, <1>3, <2>1, MatchIs DEF Here
  <2>3. PICK s : s = currentDir[i].sector
    OBVIOUS
  <2>4. currentDir[i].isDir
    BY <1>3, <2>1 DEF ChangeDirectory, Careful
  <2>5. s \in E
    BY <1>1, <2>2, <2>3, <2>4, HereObject
  <2>6. IsDirectory(disk, s) /\ FetchFrom(disk, s)[0] = Entry(".", TRUE, s)
    BY <1>1, <2>5 DEF Here, Good, Sound, Linked
  <2>7. /\ currentDir' = FetchFrom(disk, s) /\ Returns("ChangeDirectory", name, "0")
        /\ disk' = disk /\ pending' = pending /\ status' = status
    BY <1>3, <2>1, <2>3, <2>6 DEF ChangeDirectory
  <2>8. getSector(FetchFrom(disk, s)) = s
    BY <2>6 DEF getSector, CurrentDirectoryIndex, Entry
  <2>9. \A table : Tells(ret', table)
    <3>1. ret'.op = "ChangeDirectory"
      BY <2>7 DEF Returns
    <3> QED
      BY <3>1, Zenon DEF Tells
  <2>10. Good(disk, E) /\ ret'.dir \in E
    BY <1>1, <2>7 DEF Here, Returns
  <2>11. Settled(disk, FetchFrom(disk, s), ret')
    BY <2>5, <2>8, <2>9, <2>10 DEF Settled
  <2> QED
    BY <2>7, <2>11 DEF Rests
<1> QED
  BY <1>2, <1>3 DEF ChangeDirectory

(* An object's header comes first, then what its header points to.         *)
LEMMA HeaderBlocks ==
  ASSUME NEW d, SafeDisk(d), NEW x, x.entry.sector \in Sector, d[x.entry.sector].kind = "hdr"
  PROVE  /\ 1 \in DOMAIN Blocks(d, x) /\ Blocks(d, x)[1] = x.entry.sector
         /\ \A j \in 1 .. Len(d[x.entry.sector].dataSectors) :
              /\ j + 1 \in DOMAIN Blocks(d, x)
              /\ Blocks(d, x)[j + 1] = d[x.entry.sector].dataSectors[j]
<1> DEFINE b == Blocks(d, x)
           p == d[x.entry.sector].dataSectors
<1>1. /\ 1 \in DOMAIN b /\ b[1] = x.entry.sector
      /\ \A j \in 1 .. Len(p) : j + 1 \in DOMAIN b /\ b[j + 1] = p[j]
  BY BlocksAre, SMTT(30)
<1> QED
  BY <1>1

(* Of a file's data it is true that only the file's pointers lead to it.   *)
LEMMA FileData ==
  ASSUME NEW d, NEW E, Good(d, E), NEW x \in Found(d, E, NoTarget), ~x.entry.isDir,
         NEW i \in 1 .. d[x.entry.sector].numSectors
  PROVE  DataSector(d, E, ByteToSector(d, d[x.entry.sector], i))
<1> DEFINE r == x.entry.sector
           b == ByteToSector(d, d[r], i)
           blocks == Blocks(d, x)
<1>1. SafeDisk(d) /\ Sound(d, E, NoTarget) /\ Owned(d, E)
  BY ReachedOwned DEF Good
<1>2. /\ r \in Sector /\ d[r].kind = "hdr"
      /\ Occupied(d, x) \subseteq Sector \ (SystemSectors \cup FreeMap(d))
  BY <1>1, ObjectIs
<1>3. /\ Len(d[r].dataSectors) \in Nat /\ DOMAIN d[r].dataSectors = 1 .. Len(d[r].dataSectors)
      /\ d[r].numSectors \in Nat
  BY <1>1, <1>2, HeaderIs
<1>4. /\ 1 \in DOMAIN blocks /\ blocks[1] = r
      /\ \A j \in 1 .. Len(d[r].dataSectors) :
            j + 1 \in DOMAIN blocks /\ blocks[j + 1] = d[r].dataSectors[j]
      /\ i + (Len(d[r].dataSectors) + 1) \in DOMAIN blocks
      /\ blocks[i + (Len(d[r].dataSectors) + 1)] = b
  <2>1. b = d[d[r].dataSectors[((i - 1) \div FanOut) + 1]].dataSectors[((i - 1) % FanOut) + 1]
    BY Zenon DEF ByteToSector, IndexNumber, IndexOffset
  <2> HIDE DEF b
  <2>2. i \in 1 .. d[r].numSectors
    OBVIOUS
  <2>3. SafeDisk(d) /\ r \in Sector /\ d[r].kind = "hdr"
    BY <1>1, <1>2
  <2>4. 1 \in DOMAIN blocks /\ blocks[1] = r
    BY <2>3, HeaderBlocks, Zenon
  <2>5. ASSUME NEW j \in 1 .. Len(d[r].dataSectors)
        PROVE  j + 1 \in DOMAIN blocks /\ blocks[j + 1] = d[r].dataSectors[j]
    BY <2>3, HeaderBlocks
  <2>6. \A k \in 1 .. d[r].numSectors :
           /\ k + (Len(d[r].dataSectors) + 1) \in DOMAIN blocks
           /\ blocks[k + (Len(d[r].dataSectors) + 1)]
                = d[d[r].dataSectors[((k - 1) \div FanOut) + 1]].dataSectors[((k - 1) % FanOut) + 1]
    BY <2>3, BlocksAre, ZenonT(30)
  <2> HIDE DEF blocks, r
  <2>7. /\ i + (Len(d[r].dataSectors) + 1) \in DOMAIN blocks
        /\ blocks[i + (Len(d[r].dataSectors) + 1)] = b
    BY <2>1, <2>2, <2>6, ZenonT(30)
  <2> QED
    BY <2>4, <2>5, <2>7, Zenon
<1>5. \A j, k \in DOMAIN blocks : blocks[j] = blocks[k] => j = k
  BY <1>1 DEF Sound
<1>6. b \in Occupied(d, x)
  BY <1>4 DEF Occupied
<1>7. b \in Sector \ {FreeMapSector, MapDataSector}
  <2>1. FreeMapSector \in SystemSectors /\ MapDataSector \in SystemSectors
    BY <1>1, RootIs DEF Sound
  <2> QED
    BY <1>2, <1>6, <2>1
<1>8. ASSUME NEW s \in E PROVE b \notin Frame(d, s)
  <2>1. Occupied(d, x) \cap Frame(d, s) = {}
    BY <1>1, DirsApart
  <2> QED
    BY <1>6, <2>1
<1>9. ASSUME NEW y \in Found(d, E, NoTarget), ~y.entry.isDir
      PROVE  /\ b # y.entry.sector
             /\ \A j \in DOMAIN d[y.entry.sector].dataSectors : b # d[y.entry.sector].dataSectors[j]
  <2>1. CASE y = x
    <3>1. b # r
      BY <1>3, <1>4, <1>5
    <3>2. ASSUME NEW j \in 1 .. Len(d[r].dataSectors) PROVE b # d[r].dataSectors[j]
      <4>1. i + (Len(d[r].dataSectors) + 1) # j + 1
        BY <1>3
      <4> QED
        BY <1>4, <1>5, <4>1
    <3> QED
      BY <1>3, <2>1, <3>1, <3>2
  <2>2. CASE y # x
    <3>1. Occupied(d, x) \cap Occupied(d, y) = {}
      BY <1>1, <2>2 DEF Sound
    <3>2. /\ y.entry.sector \in Sector /\ d[y.entry.sector].kind = "hdr"
          /\ y.entry.sector \in Occupied(d, y)
          /\ \A j \in 1 .. Len(d[y.entry.sector].dataSectors) :
                d[y.entry.sector].dataSectors[j] \in Occupied(d, y)
      BY <1>1, ObjectIs
    <3>3. DOMAIN d[y.entry.sector].dataSectors = 1 .. Len(d[y.entry.sector].dataSectors)
      BY <1>1, <3>2, HeaderIs
    <3> QED
      BY <1>6, <3>1, <3>2, <3>3
  <2> QED
    BY <2>1, <2>2
<1> HIDE DEF b
<1>10. DataSector(d, E, b)
  BY <1>7, <1>8, <1>9 DEF DataSector
<1> QED
  BY <1>10 DEF b

(* OpenFile::WriteAt.                                                      *)
LEMMA WriteAtFills ==
  ASSUME Careful, Rests, NEW name, NEW i \in 1 .. NumSectors, WriteAt(name, i)
  PROVE  Fills'
<1>1. PICK E : /\ Good(disk, E) /\ getSector(currentDir) \in E
               /\ currentDir = FetchFrom(disk, getSector(currentDir))
               /\ ret.dir \in E /\ Tells(ret, FetchFrom(disk, ret.dir))
  BY DEF Rests, Settled
<1>2. PICK c : c = getSector(currentDir)
  OBVIOUS
<1>3. Here(E, c)
  BY <1>1, <1>2, HereFrom
<1>4. PICK k : k = FindIndex(currentDir, name)
  OBVIOUS
<1>5. IsDirectory(disk, c) /\ currentDir = FetchFrom(disk, c) /\ SafeDisk(disk) /\ Sound(disk, E, NoTarget)
  BY <1>3 DEF Here
<1>6. InDirectory(currentDir, name) /\ ~currentDir[k].isDir
  BY <1>2, <1>4, <1>5 DEF WriteAt, Careful
<1>7. k \in Slots /\ currentDir[k].inUse
  BY <1>3, <1>4, <1>6, MatchIs DEF Here
<1>8. PICK x : x = Obj(disk, c, k)
  OBVIOUS
<1>9. x \in Found(disk, E, NoTarget) /\ x.entry = currentDir[k]
  BY <1>3, <1>6, <1>7, <1>8, HereObject
<1>10. PICK r, hdr : r = currentDir[k].sector /\ hdr = disk[r]
  OBVIOUS
<1>11. IsHeader(disk, r) /\ \A j \in 1 .. hdr.numSectors : HasPointer(disk, hdr, j)
  <2>1. WellFormed(disk, x)
    BY <1>5, <1>9 DEF Sound
  <2> QED
    BY <1>6, <1>9, <1>10, <2>1 DEF WellFormed
<1>12. PICK b : b = ByteToSector(disk, hdr, i)
  OBVIOUS
<1>13. hdr.numSectors \in Nat
  BY <1>5, <1>10, <1>11, HeaderIs DEF IsHeader
<1>14. i \in 1 .. hdr.numSectors
  <2>1. i <= hdr.numSectors
    BY <1>2, <1>4, <1>5, <1>6, <1>10, <1>11 DEF WriteAt
  <2> QED
    BY <1>13, <2>1
<1>15. DataSector(disk, E, b)
  BY <1>1, <1>6, <1>9, <1>10, <1>12, <1>14, FileData
<1>16. HasPointer(disk, hdr, i) /\ b # NoSector
  BY <1>11, <1>14, <1>15, Sizing DEF DataSector
<1>17. Flushes(<<Write(b, Raw)>>) /\ UNCHANGED <<currentDir, ret>>
  BY <1>2, <1>4, <1>5, <1>6, <1>10, <1>11, <1>12, <1>16 DEF WriteAt
<1> QED
  BY <1>1, <1>15, <1>17 DEF Fills, Flushes, Rests

(* The data reach the disk.                                                *)
LEMMA FillRests ==
  ASSUME SafeDisk(disk'), disk' = [s \in Sector |-> disk'[s]], Fills, WriteSector
  PROVE  Rests'
<1>1. PICK E, b : /\ Good(disk, E) /\ getSector(currentDir) \in E
                  /\ currentDir = FetchFrom(disk, getSector(currentDir))
                  /\ ret.dir \in E /\ Tells(ret, FetchFrom(disk, ret.dir))
                  /\ DataSector(disk, E, b) /\ pending = <<Write(b, Raw)>>
  BY DEF Fills
<1>2. PICK w : w = Write(b, Raw)
  OBVIOUS
<1>3. PICK h : h = <<w>>
  OBVIOUS
<1>4. /\ disk' = Apply(disk, h) /\ pending' = <<>>
      /\ currentDir' = currentDir /\ status' = status /\ ret' = ret /\ status = "running"
  BY <1>1, <1>2, <1>3 DEF WriteSector, Fills
<1>5. IsSeq(h) /\ DOMAIN h = {1} /\ h[1].sector = b
  BY <1>2, <1>3, SeqOne DEF Write
<1>6. ASSUME NEW s \in Sector, s # b PROVE disk'[s] = disk[s]
  <2>1. s \in DOMAIN disk /\ \A j \in DOMAIN h : h[j].sector # s
    BY <1>1, <1>5, <1>6 DEF Good, SafeDisk
  <2> QED
    BY <1>4, <1>5, <2>1, ApplyIs
<1>7. Good(disk', E) /\ \A s \in E : FetchFrom(disk', s) = FetchFrom(disk, s)
  BY <1>1, <1>6, DataKeeps
<1>8. Settled(disk', currentDir, ret)
  BY <1>1, <1>7 DEF Settled
<1> QED
  BY <1>4, <1>8 DEF Rests

(* Nachos stops before they do: the disk is as it was.                     *)
LEMMA FillCrashIs ==
  ASSUME Fills, Mount("recovered")
  PROVE  Crashed'
<1>1. PICK E : Good(disk, E)
  BY DEF Fills
<1>2. PICK D : Sound(disk, D, ret)
  BY <1>1, SoundButFor DEF Good
<1>3. IsDirectory(disk, RootSector)
  BY <1>2 DEF Sound
<1>4. status' = "recovered" /\ pending' = <<>> /\ disk' = disk /\ ret' = ret
  BY <1>3 DEF Mount
<1> QED
  BY <1>2, <1>4 DEF Crashed

(* FileSystem::RemoveDirectory: the current directory lists the name, so   *)
(* it is never empty, and nothing is removed.                              *)
LEMMA RemoveDirectoryRests ==
  ASSUME Careful, Rests, NEW name, RemoveDirectory(name)
  PROVE  Rests'
<1>1. PICK E, c : Here(E, c)
  BY RestsHere
<1>2. CASE Fails("RemoveDirectory", name, "-2") \/ Fails("RemoveDirectory", name, "-1")
  BY <1>2, FailsRests
<1>3. CASE InDirectory(currentDir, name) /\ ~(Fails("RemoveDirectory", name, "-2") \/ Fails("RemoveDirectory", name, "-1"))
  <2>1. PICK i : i = FindIndex(currentDir, name)
    OBVIOUS
  <2>2. i \in Slots /\ currentDir[i].inUse /\ currentDir[i].name = name
    BY <1>1, <1>3, <2>1, MatchIs DEF Here
  <2>3. name \notin {".", ".."}
    BY <1>3 DEF RemoveDirectory, Careful
  <2>4. currentDir[0].name = "." /\ currentDir[1].name = ".."
    BY <1>1 DEF Here, Entry
  <2>5. i \in 2 .. NumDirEntries - 1
    BY <2>2, <2>3, <2>4, Sizing DEF Slots
  <2>6. IsDirectory(disk, c) /\ ~isEmpty(FetchFrom(disk, c)) /\ c = getSector(currentDir)
    BY <1>1, <2>2, <2>5 DEF Here, isEmpty
  <2> QED
    BY <1>3, <2>6 DEF RemoveDirectory
<1> QED
  BY <1>2, <1>3 DEF RemoveDirectory

(* FileSystem::Remove.  The sectors it frees are those of the file.        *)
LEMMA RemoveRests ==
  ASSUME Careful, Rests, IInv', NEW name, Remove(name)
  PROVE  Rests' \/ Writes'
<1>1. PICK E, c : Here(E, c)
  BY RestsHere
<1>2. CASE Fails("Remove", name, "FALSE")
  BY <1>2, FailsRests
<1>3. CASE InDirectory(currentDir, name) /\ ~Fails("Remove", name, "FALSE")
  <2>1. PICK i : i = FindIndex(currentDir, name)
    OBVIOUS
  <2>2. i \in Slots /\ currentDir[i].inUse /\ currentDir[i].name = name
    BY <1>1, <1>3, <2>1, MatchIs DEF Here
  <2>3. ~currentDir[i].isDir
    BY <1>3, <2>1 DEF Remove, Careful
  <2>4. PICK x : x = Obj(disk, c, i)
    OBVIOUS
  <2>5. /\ i \in 2 .. NumDirEntries - 1 /\ x \in Found(disk, E, NoTarget)
        /\ x.entry = currentDir[i] /\ x.dir = c /\ x.index = i
    BY <1>1, <2>2, <2>3, <2>4, HereObject
  <2>6. PICK s : s = currentDir[i].sector
    OBVIOUS
  <2>7. /\ s \in Sector /\ disk[s].kind = "hdr" /\ s \in Occupied(disk, x)
        /\ \A j \in 1 .. Len(disk[s].dataSectors) : disk[s].dataSectors[j] \in Occupied(disk, x)
        /\ Occupied(disk, x) \subseteq Sector \ (SystemSectors \cup FreeMap(disk))
        /\ Len(disk[s].dataSectors) = IndexCount(disk[s].numSectors)
    <3>1. SafeDisk(disk) /\ Sound(disk, E, NoTarget)
      BY <1>1 DEF Here
    <3>2. x.entry.sector = s /\ ~x.entry.isDir
      BY <2>3, <2>5, <2>6
    <3> DEFINE r == x.entry.sector
    <3>3. /\ r \in Sector /\ disk[r].kind = "hdr" /\ r \in Occupied(disk, x)
          /\ \A j \in 1 .. Len(disk[r].dataSectors) : disk[r].dataSectors[j] \in Occupied(disk, x)
          /\ Occupied(disk, x) \subseteq Sector \ (SystemSectors \cup FreeMap(disk))
      BY <2>5, <3>1, ObjectIs
    <3>4. ~x.entry.isDir => Len(disk[r].dataSectors) = IndexCount(disk[r].numSectors)
      BY <2>5, <3>1, ObjectIs
    <3> HIDE DEF r
    <3>5. r = s
      BY <3>2 DEF r
    <3> QED
      BY <3>2, <3>3, <3>4, <3>5
  <2>8. IsHeader(disk, s) /\ IsDirectoryHeader(disk, c) /\ c = getSector(currentDir)
    BY <1>1, <2>7 DEF IsHeader, IsDirectory, Here
  <2>9. PICK new, free : new = Unuse(currentDir, i) /\ free = Deallocate(disk[s], FreeMap(disk)) \cup {s}
    OBVIOUS
  <2>10. PICK p, t : /\ p = FlushMap(free) \o WriteBack(disk, c, new)
                     /\ t = [op |-> "Remove", dir |-> c, name |-> name, value |-> "TRUE"]
    OBVIOUS
  <2>11. /\ currentDir' = new /\ ret' = t /\ pending' = p /\ disk' = disk /\ status' = status
         /\ status = "running"
    <3>1. /\ currentDir' = new /\ ret' = t /\ pending' = p /\ disk' = disk /\ status' = status
      BY <1>3, <2>1, <2>6, <2>8, <2>9, <2>10 DEF Remove, Returns, Flushes
    <3> QED
      BY <3>1 DEF Rests
  <2>12. /\ new = [j \in Slots |-> new[j]] /\ \A j \in Slots : j # i => new[j] = currentDir[j]
         /\ ~new[i].inUse
    BY <1>1, <2>5, <2>9, UnuseIs DEF Here
  <2>13. t.dir = c /\ t.name = name /\ currentDir = FetchFrom(disk, c) /\ c \in E /\ Good(disk, E)
    BY <1>1, <2>10 DEF Here
  <2>14. Alters(disk, E, t, i, new)
    BY <2>2, <2>5, <2>12, <2>13 DEF Alters
  <2>15. free \subseteq FreeMap(disk) \cup Occupied(disk, x)
    BY <2>7, <2>9 DEF Deallocate
  <2>16. FreeMap(disk) \subseteq Sector \ SystemSectors
    BY <1>1 DEF Here, Sound
  <2>17. \A y \in Others(disk, E, t, i) :
            Occupied(disk, y) \cap Occupied(disk, x) = {} /\ Occupied(disk, y) \cap FreeMap(disk) = {}
    <3>1. \A y \in Others(disk, E, t, i) : y \in Found(disk, E, NoTarget) /\ y # x
      BY <2>5, <2>13 DEF Others
    <3>2. \A y \in Found(disk, E, NoTarget) :
             /\ Occupied(disk, y) \subseteq Sector \ (SystemSectors \cup FreeMap(disk))
             /\ y # x => Occupied(disk, y) \cap Occupied(disk, x) = {}
      BY <1>1, <2>5 DEF Here, Sound
    <3> QED
      BY <3>1, <3>2
  <2>18. Stores(disk, c, new, free, {}, p)
    <3>1. IsSeq(FlushMap(free)) /\ IsSeq(WriteBack(disk, c, new))
      BY FlushIs, WriteBackIs
    <3>2. IsSeq(p) /\ Range(p) = Range(FlushMap(free)) \cup Range(WriteBack(disk, c, new))
      BY <2>10, <3>1, RangeConcat
    <3> QED
      BY <3>2 DEF Stores
  <2>19. SafeWrites(p)
    BY <2>11 DEF IInv, MapInv
  <2>20. Prepares(disk, E, t, i, new, free, {}, p)
    <3>1. free \subseteq Sector \ SystemSectors /\ \A y \in Others(disk, E, t, i) : Occupied(disk, y) \cap free = {}
      BY <2>7, <2>15, <2>16, <2>17
    <3> QED
      BY <2>13, <2>14, <2>18, <2>19, <3>1 DEF Prepares
  <2>21. PICK e : e = Apply(disk, p)
    OBVIOUS
  <2>22. /\ SafeDisk(e) /\ e = [u \in Sector |-> e[u]]
         /\ Altered(disk, E, t, i, new, e) /\ FetchFrom(e, t.dir) = new
    BY <2>20, <2>21, Written
  <2>23. \A j \in Slots : j # i => ~(new[j].inUse /\ new[j].name = name)
    BY <1>1, <2>2, <2>12 DEF Here
  <2>24. Completes(disk, E, t, i, new, e, E)
    <3>1. E \subseteq Sector
      BY <1>1 DEF Here, Sound
    <3> QED
      BY <2>3, <2>12, <2>13, <2>14, <2>22, <2>23, <3>1 DEF Completes
  <2>25. Tells(t, new)
    <3>1. DOMAIN new = Slots
      BY <2>12, Zenon
    <3>2. Matches(new, name) = {}
      BY <2>12, <2>23, <3>1 DEF Matches
    <3> QED
      BY <2>10, <2>13, <3>2 DEF Tells
  <2>26. Writes'
    BY <2>11, <2>20, <2>21, <2>24, <2>25, Succeeds
  <2> QED
    BY <2>26
<1> QED
  BY <1>2, <1>3 DEF Remove

-----------------------------------------------------------------------------
(* What Create writes to sectors that were free.                           *)
FileWrites(s, rest, n) ==
    {Write(Nth(rest, IndexPlace(j)), IndexBlock(DataPointers(rest, n, j))) : j \in 1 .. IndexCount(n)}
    \cup {Write(s, FileHeader(n, IndexPointers(rest, n)))}

(* These are the writes of the index blocks and of the header.             *)
LEMMA NewFileIs ==
  ASSUME NEW n \in Nat, IndexCount(n) \in Nat
  PROVE  LET s == Nth(FreeMap(disk), 1)
             rest == AfterFinds(FreeMap(disk), 1)
         IN  IsSeq(NewFile(n)) /\ Range(NewFile(n)) = FileWrites(s, rest, n)
<1>1. PICK s, rest : s = Nth(FreeMap(disk), 1) /\ rest = AfterFinds(FreeMap(disk), 1)
  OBVIOUS
<1>2. PICK v : v = IndexWrites(rest, n)
  OBVIOUS
<1>3. PICK w : w = Write(s, FileHeader(n, IndexPointers(rest, n)))
  OBVIOUS
<1>4. NewFile(n) = Append(v, w)
  BY <1>1, <1>2, <1>3 DEF NewFile
<1>5. /\ v = [j \in 1 .. IndexCount(n) |-> v[j]]
      /\ \A j \in 1 .. IndexCount(n) :
            v[j] = Write(Nth(rest, IndexPlace(j)), IndexBlock(DataPointers(rest, n, j)))
  BY <1>2 DEF IndexWrites, IndexPointers, IndexPlace
<1>6. IsSeq(v) /\ DOMAIN v = 1 .. IndexCount(n)
  BY <1>5, SeqIs
<1>7. Append(v, w) = v \o <<w>>
  BY <1>6, AppendIsConcat DEF IsSeq
<1>8. IsSeq(<<w>>) /\ Range(<<w>>) = {w}
  <2>1. IsSeq(<<w>>) /\ DOMAIN <<w>> = {1} /\ <<w>>[1] = w
    BY SeqOne
  <2> QED
    BY <2>1 DEF Range
<1>9. IsSeq(Append(v, w)) /\ Range(Append(v, w)) = Range(v) \cup {w}
  BY <1>6, <1>7, <1>8, RangeConcat
<1>10. Range(v) = {Write(Nth(rest, IndexPlace(j)), IndexBlock(DataPointers(rest, n, j))) : j \in 1 .. IndexCount(n)}
  BY <1>5, <1>6 DEF Range
<1> QED
  BY <1>1, <1>3, <1>4, <1>9, <1>10 DEF FileWrites

(* The sectors Find() gives it, in the order of the calls.                 *)
LEMMA FilePlaces ==
  ASSUME NEW rest \in SUBSET Nat, IsFiniteSet(rest), NEW n \in Nat,
         Cardinality(rest) >= n + IndexCount(n)
  PROVE  /\ \A j \in 1 .. IndexCount(n) :
               /\ Nth(rest, IndexPlace(j)) \in rest \ AfterAllocate(rest, n)
               /\ \A k \in 1 .. IndexCount(n) : Nth(rest, IndexPlace(j)) = Nth(rest, IndexPlace(k)) => j = k
         /\ \A i \in 1 .. n :
               /\ Nth(rest, DataPlace(i)) \in rest \ AfterAllocate(rest, n)
               /\ \A k \in 1 .. n : Nth(rest, DataPlace(i)) = Nth(rest, DataPlace(k)) => i = k
               /\ \A j \in 1 .. IndexCount(n) : Nth(rest, DataPlace(i)) # Nth(rest, IndexPlace(j))
<1>1. IndexCount(n) \in Nat /\ Cardinality(rest) \in Nat
  BY Sizing, RoundUp, FS_CardinalityType DEF IndexCount
<1>2. PICK m \in Nat : m = n + IndexCount(n)
  BY <1>1
<1>3. \A k \in 1 .. m : k \in 1 .. Cardinality(rest)
  BY <1>1, <1>2
<1>4. /\ \A k \in 1 .. m : Nth(rest, k) \in rest \ AfterFinds(rest, m)
      /\ \A j, k \in 1 .. m : Nth(rest, j) = Nth(rest, k) => j = k
  <2>1. /\ \A k \in 1 .. Cardinality(rest) : Nth(rest, k) \in rest
        /\ \A j, k \in 1 .. Cardinality(rest) : Nth(rest, j) = Nth(rest, k) => j = k
        /\ \A k \in 1 .. Cardinality(rest) : k <= m => Nth(rest, k) \notin AfterFinds(rest, m)
    BY <1>2, Finds
  <2> QED
    BY <1>3, <2>1
<1>5. /\ \A j \in 1 .. IndexCount(n) : IndexPlace(j) \in 1 .. m
      /\ \A i \in 1 .. n : DataPlace(i) \in 1 .. m
      /\ \A i, j \in 1 .. IndexCount(n) : IndexPlace(i) = IndexPlace(j) => i = j
      /\ \A i, j \in 1 .. n : DataPlace(i) = DataPlace(j) => i = j
      /\ \A i \in 1 .. n, j \in 1 .. IndexCount(n) : DataPlace(i) # IndexPlace(j)
  BY <1>2, Places
<1>6. AfterAllocate(rest, n) = AfterFinds(rest, m)
  BY <1>2 DEF AfterAllocate
<1> QED
  BY <1>4, <1>5, <1>6

(* It is a file, and has these sectors.                                    *)
LEMMA NewFileObject ==
  ASSUME NEW e, SafeDisk(e), NEW rest \in SUBSET Nat, IsFiniteSet(rest), NEW n \in Nat,
         Cardinality(rest) >= n + IndexCount(n), NEW s \in Sector, s \notin rest,
         NEW x, x.entry.sector = s, ~x.entry.isDir,
         e[s] = FileHeader(n, IndexPointers(rest, n)),
         \A j \in 1 .. IndexCount(n) :
            e[Nth(rest, IndexPlace(j))] = IndexBlock(DataPointers(rest, n, j))
  PROVE  /\ WellFormed(e, x)
         /\ \A j, k \in DOMAIN Blocks(e, x) : Blocks(e, x)[j] = Blocks(e, x)[k] => j = k
         /\ Occupied(e, x) \subseteq {s} \cup (rest \ AfterAllocate(rest, n))
<1>1. PICK ptrs, N : ptrs = IndexPointers(rest, n) /\ N = IndexCount(n)
  OBVIOUS
<1>2. /\ N \in Nat /\ ptrs = [j \in 1 .. N |-> ptrs[j]]
      /\ \A j \in 1 .. N : ptrs[j] = Nth(rest, IndexPlace(j))
  BY <1>1, Sizing, RoundUp DEF IndexPointers, IndexPlace, IndexCount
<1>3. DOMAIN ptrs = 1 .. N /\ Len(ptrs) = N
  BY <1>2, SeqIs
<1>4. e[s].kind = "hdr" /\ e[s].numSectors = n /\ e[s].dataSectors = ptrs
  BY <1>1 DEF FileHeader
<1>5. \A j \in 1 .. N : e[ptrs[j]].kind = "index" /\ e[ptrs[j]].dataSectors = DataPointers(rest, n, j)
  <2>1. ASSUME NEW j \in 1 .. N
        PROVE  e[ptrs[j]].kind = "index" /\ e[ptrs[j]].dataSectors = DataPointers(rest, n, j)
    <3>1. j \in 1 .. IndexCount(n) /\ ptrs[j] = Nth(rest, IndexPlace(j))
      BY <1>1, <1>2, <2>1
    <3>2. e[ptrs[j]] = IndexBlock(DataPointers(rest, n, j))
      BY <3>1
    <3> QED
      BY <3>2 DEF IndexBlock
  <2> QED
    BY <2>1
<1>7. ASSUME NEW i \in 1 .. n
      PROVE  /\ e[ptrs[((i - 1) \div FanOut) + 1]].dataSectors[((i - 1) % FanOut) + 1] = Nth(rest, DataPlace(i))
             /\ HasPointer(e, e[s], i)
  <2>1. PICK q \in Nat, r \in 1 .. FanOut :
            /\ (i - 1) \div FanOut = q /\ (i - 1) % FanOut = r - 1
            /\ q * FanOut \in Nat /\ IndexPlace(q + 1) + r = DataPlace(i)
            /\ r <= n - q * FanOut
    BY <1>7, DataPlaceIs
  <2>2. q + 1 \in 1 .. N
    BY <1>1, <1>7, <2>1, IndexOf
  <2>3. e[ptrs[q + 1]].dataSectors = DataPointers(rest, n, q + 1)
    BY <1>5, <2>2
  <2>4. FanOut \in Nat /\ n - q * FanOut \in Nat /\ (q + 1) - 1 = q
    BY <2>1, Sizing
  <2>5. r \in 1 .. Min({FanOut, n - q * FanOut})
    <3>1. PICK a \in Nat : a = n - q * FanOut
      BY <2>4
    <3>2. Min({FanOut, a}) \in {FanOut, a}
      BY <2>4, <3>1, Smallest
    <3> QED
      BY <2>1, <2>4, <3>1, <3>2
  <2>6. DataPointers(rest, n, q + 1)[r] = Nth(rest, IndexPlace(q + 1) + r)
    BY <2>4, <2>5 DEF DataPointers, IndexPlace
  <2>7. ((i - 1) \div FanOut) + 1 = q + 1 /\ ((i - 1) % FanOut) + 1 = r
    BY <2>1
  <2>8. r <= Len(DataPointers(rest, n, q + 1))
    <3>1. PICK m : m = Min({FanOut, n - ((q + 1) - 1) * FanOut})
      OBVIOUS
    <3>2. PICK w : w = DataPointers(rest, n, q + 1)
      OBVIOUS
    <3>3. w = [k \in 1 .. m |-> w[k]]
      BY <3>1, <3>2, Zenon DEF DataPointers
    <3>4. m \in Nat /\ r <= m
      <4>1. q + 1 \in 1 .. IndexCount(n)
        BY <1>1, <2>2
      <4> QED
        BY <2>4, <2>5, <3>1, <4>1, IndexBlockSize
    <3>5. Len(w) = m
      BY <3>3, <3>4, SeqIs
    <3> QED
      BY <3>2, <3>4, <3>5
  <2>9. HasPointer(e, e[s], i)
    <3>1. IndexNumber(i) = q + 1 /\ IndexOffset(i) = r
      BY <2>7 DEF IndexNumber, IndexOffset
    <3>2. e[ptrs[q + 1]].kind = "index" /\ e[s].dataSectors = ptrs
      BY <1>4, <1>5, <2>2
    <3> QED
      BY <2>3, <2>8, <3>1, <3>2, Zenon DEF HasPointer
  <2> QED
    BY <2>1, <2>3, <2>6, <2>7, <2>9
<1>6. WellFormed(e, x)
  BY <1>1, <1>3, <1>4, <1>5, <1>7 DEF WellFormed, IsHeader
<1>8. /\ 1 \in DOMAIN Blocks(e, x) /\ Blocks(e, x)[1] = s
      /\ \A j \in 1 .. N : Blocks(e, x)[j + 1] = Nth(rest, IndexPlace(j))
      /\ \A i \in 1 .. n : Blocks(e, x)[i + (N + 1)] = Nth(rest, DataPlace(i))
      /\ \A b \in DOMAIN Blocks(e, x) :
            b = 1 \/ (\E j \in 1 .. N : b = j + 1) \/ (\E i \in 1 .. n : b = i + (N + 1))
  <2>1. /\ 1 \in DOMAIN Blocks(e, x) /\ Blocks(e, x)[1] = x.entry.sector
        /\ \A j \in 1 .. Len(e[s].dataSectors) : Blocks(e, x)[j + 1] = e[s].dataSectors[j]
        /\ \A i \in 1 .. e[s].numSectors :
              Blocks(e, x)[i + (Len(e[s].dataSectors) + 1)]
                 = e[e[s].dataSectors[((i - 1) \div FanOut) + 1]].dataSectors[((i - 1) % FanOut) + 1]
        /\ \A b \in DOMAIN Blocks(e, x) :
              \/ b = 1
              \/ \E j \in 1 .. Len(e[s].dataSectors) : b = j + 1
              \/ \E i \in 1 .. e[s].numSectors : b = i + (Len(e[s].dataSectors) + 1)
    <3>1. x.entry.sector \in Sector /\ e[x.entry.sector].kind = "hdr"
      BY <1>4
    <3> DEFINE hdr == e[x.entry.sector]
               data(i) == e[hdr.dataSectors[((i - 1) \div FanOut) + 1]].dataSectors[((i - 1) % FanOut) + 1]
    <3>2. /\ IsSeq(Blocks(e, x))
          /\ 1 \in DOMAIN Blocks(e, x) /\ Blocks(e, x)[1] = x.entry.sector
          /\ \A j \in 1 .. Len(hdr.dataSectors) :
                j + 1 \in DOMAIN Blocks(e, x) /\ Blocks(e, x)[j + 1] = hdr.dataSectors[j]
          /\ ~x.entry.isDir => \A i \in 1 .. hdr.numSectors :
                /\ i + (Len(hdr.dataSectors) + 1) \in DOMAIN Blocks(e, x)
                /\ Blocks(e, x)[i + (Len(hdr.dataSectors) + 1)] = data(i)
          /\ \A b \in DOMAIN Blocks(e, x) :
                \/ b = 1
                \/ \E j \in 1 .. Len(hdr.dataSectors) : b = j + 1
                \/ ~x.entry.isDir /\ \E i \in 1 .. hdr.numSectors : b = i + (Len(hdr.dataSectors) + 1)
      BY <3>1, BlocksAre, Zenon
    <3>3. e[s] = hdr
      OBVIOUS
    <3> HIDE DEF hdr
    <3> QED
      BY <3>2, <3>3
  <2>2. e[s].dataSectors = ptrs /\ e[s].numSectors = n /\ Len(e[s].dataSectors) = N
    BY <1>3, <1>4
  <2>3. 1 \in DOMAIN Blocks(e, x) /\ Blocks(e, x)[1] = s
    BY <2>1
  <2>4. ASSUME NEW j \in 1 .. N
        PROVE  Blocks(e, x)[j + 1] = Nth(rest, IndexPlace(j))
    <3>1. Blocks(e, x)[j + 1] = ptrs[j]
      BY <2>1, <2>2, <2>4, Zenon
    <3> QED
      BY <1>2, <2>4, <3>1, Zenon
  <2>5. ASSUME NEW i \in 1 .. n
        PROVE  Blocks(e, x)[i + (N + 1)] = Nth(rest, DataPlace(i))
    <3>1. Blocks(e, x)[i + (N + 1)]
             = e[ptrs[((i - 1) \div FanOut) + 1]].dataSectors[((i - 1) % FanOut) + 1]
      BY <2>1, <2>2, <2>5, Zenon
    <3> QED
      BY <1>7, <2>5, <3>1, Zenon
  <2>6. \A b \in DOMAIN Blocks(e, x) :
            b = 1 \/ (\E j \in 1 .. N : b = j + 1) \/ (\E i \in 1 .. n : b = i + (N + 1))
    BY <2>1, <2>2, Zenon
  <2> QED
    BY <2>3, <2>4, <2>5, <2>6, Zenon
<1>9. /\ \A j \in 1 .. N :
            /\ Nth(rest, IndexPlace(j)) \in rest \ AfterAllocate(rest, n)
            /\ \A k \in 1 .. N : Nth(rest, IndexPlace(j)) = Nth(rest, IndexPlace(k)) => j = k
      /\ \A i \in 1 .. n :
            /\ Nth(rest, DataPlace(i)) \in rest \ AfterAllocate(rest, n)
            /\ \A k \in 1 .. n : Nth(rest, DataPlace(i)) = Nth(rest, DataPlace(k)) => i = k
            /\ \A j \in 1 .. N : Nth(rest, DataPlace(i)) # Nth(rest, IndexPlace(j))
  BY <1>1, FilePlaces
<1>10. Occupied(e, x) \subseteq {s} \cup (rest \ AfterAllocate(rest, n))
  BY <1>8, <1>9 DEF Occupied
<1>11. ASSUME NEW a \in DOMAIN Blocks(e, x), NEW b \in DOMAIN Blocks(e, x), Blocks(e, x)[a] = Blocks(e, x)[b]
       PROVE  a = b
  <2>1. CASE a = 1
    BY <1>8, <1>9, <1>11, <2>1
  <2>2. ASSUME NEW j \in 1 .. N, a = j + 1 PROVE a = b
    BY <1>8, <1>9, <1>11, <2>2
  <2>3. ASSUME NEW i \in 1 .. n, a = i + (N + 1) PROVE a = b
    BY <1>8, <1>9, <1>11, <2>3
  <2> QED
    BY <1>8, <2>1, <2>2, <2>3
<1> QED
  BY <1>6, <1>10, <1>11

-----------------------------------------------------------------------------
(* The free map and the current directory that Create and CreateDirectory  *)
(* start from: s is the new header's sector.                               *)
Room(E, c, s, rest) ==
    /\ s \in FreeMap(disk) /\ s \in Sector /\ s \notin rest /\ rest \in SUBSET Nat /\ IsFiniteSet(rest)
    /\ rest \subseteq FreeMap(disk) /\ FreeMap(disk) \subseteq Sector \ SystemSectors
    /\ c \notin FreeMap(disk)
    /\ \A k \in 1 .. DirSectors : disk[c].dataSectors[k] \notin FreeMap(disk)
    /\ \A k \in 1 .. Cardinality(rest) : \A m \in Nat : k < m => Nth(rest, k) \notin AfterFinds(FreeMap(disk), m)

(* It can start when a sector is free.                                     *)
LEMMA RoomIs ==
  ASSUME NEW E, NEW c, Here(E, c), FreeMap(disk) # {}
  PROVE  Room(E, c, Nth(FreeMap(disk), 1), AfterFinds(FreeMap(disk), 1))
<1>1. FreeMap(disk) \subseteq Sector \ SystemSectors
  BY DEF Here, Sound
<1>2. FreeMap(disk) \in SUBSET Nat /\ IsFiniteSet(FreeMap(disk))
  BY <1>1, Sizing, FS_Subset
<1>3. PICK s, rest : s = Nth(FreeMap(disk), 1) /\ rest = AfterFinds(FreeMap(disk), 1)
  OBVIOUS
<1>4. /\ s \in FreeMap(disk) /\ s \notin rest /\ rest \in SUBSET FreeMap(disk) /\ IsFiniteSet(rest)
      /\ \A k \in 1 .. Cardinality(rest) : \A m \in Nat :
            k < m => Nth(rest, k) \notin AfterFinds(FreeMap(disk), m)
  BY <1>2, <1>3, FirstFind
<1>5. \A b \in Frame(disk, c) : b \notin FreeMap(disk)
  BY DirsApart DEF Here
<1>6. c \notin FreeMap(disk) /\ \A k \in 1 .. DirSectors : disk[c].dataSectors[k] \notin FreeMap(disk)
  BY <1>5 DEF Frame, TableSectors
<1> QED
  BY <1>1, <1>2, <1>3, <1>4, <1>6 DEF Room

(* Writes to free sectors leave the rest of the disk alone.                *)
LEMMA FreeWrites ==
  ASSUME NEW d, NEW p, IsSeq(p), NEW free, \A w \in Range(p) : w.sector \in free,
         NEW c \in DOMAIN d, c \notin free
  PROVE  Apply(d, p)[c] = d[c]
<1>1. \A i \in DOMAIN p : p[i].sector # c
  BY DEF Range
<1> QED
  BY <1>1, ApplyIs

(* The current directory with the new entry.                               *)
Adds(E, c, i, new, t, name, isDir, s) ==
    /\ Alters(disk, E, t, i, new) /\ i \in 2 .. NumDirEntries - 1 /\ i \in Slots
    /\ new = [j \in Slots |-> new[j]] /\ DOMAIN new = Slots /\ new[i] = Entry(name, isDir, s)
    /\ \A j \in Slots : j # i => ~(new[j].inUse /\ new[j].name = name)
    /\ ~currentDir[i].inUse /\ t.dir = c /\ t.name = name

(* There is such an entry when Add returns TRUE.                           *)
LEMMA AddsIs ==
  ASSUME NEW E, NEW c, Here(E, c), NEW name, ~InDirectory(currentDir, name), FreeIndexes(currentDir) # {},
         NEW isDir, NEW s, NEW t, t.dir = c, t.name = name
  PROVE  \E i, new : new = Add(currentDir, name, isDir, s) /\ Adds(E, c, i, new, t, name, isDir, s)
<1>1. PICK i, new : i = Min(FreeIndexes(currentDir)) /\ new = Add(currentDir, name, isDir, s)
  OBVIOUS
<1>2. /\ i \in 2 .. NumDirEntries - 1 /\ i \in Slots /\ ~currentDir[i].inUse
      /\ new = [j \in Slots |-> new[j]]
      /\ \A j \in Slots : j # i => new[j] = currentDir[j]
      /\ new[i] = Entry(name, isDir, s)
  BY <1>1, FreeIs DEF Here
<1>3. \A j \in Slots : ~(currentDir[j].inUse /\ currentDir[j].name = name)
  BY DEF InDirectory, Matches, Here
<1>4. DOMAIN new = Slots
  BY <1>2, Zenon
<1>5. Alters(disk, E, t, i, new)
  <2>1. currentDir = FetchFrom(disk, t.dir) /\ t.dir \in E
    BY DEF Here
  <2>2. new[i].name = name
    BY <1>2 DEF Entry
  <2> QED
    BY <1>2, <2>1, <2>2 DEF Alters
<1> QED
  BY <1>1, <1>2, <1>3, <1>4, <1>5 DEF Adds

(* The name is listed once, as what was created.                           *)
LEMMA AddsTells ==
  ASSUME NEW E, NEW c, NEW i, NEW new, NEW t, NEW name, NEW isDir, NEW s,
         Adds(E, c, i, new, t, name, isDir, s)
  PROVE  Matches(new, t.name) = {i} /\ new[i].isDir = isDir
<1>1. new[i].inUse /\ new[i].name = name /\ new[i].isDir = isDir
  BY DEF Adds, Entry
<1>2. Matches(new, t.name) = {i}
  BY <1>1 DEF Matches, Adds
<1> QED
  BY <1>1, <1>2

(* FileSystem::Create.  The index blocks, data blocks and header it takes  *)
(* were free and no longer are.                                            *)
LEMMA CreateRests ==
  ASSUME Careful, Rests, IInv', NEW name, NEW n \in Sizes, Create(name, n)
  PROVE  Rests' \/ Writes'
<1>1. PICK E, c : Here(E, c)
  BY RestsHere
<1>2. PICK s, rest : s = Nth(FreeMap(disk), 1) /\ rest = AfterFinds(FreeMap(disk), 1)
  OBVIOUS
<1>3. n \in Nat /\ IndexCount(n) \in Nat
  BY SizesAssumption, Sizing, RoundUp DEF IndexCount
<1>4. c = getSector(currentDir)
  BY <1>1 DEF Here
<1>5. CASE ~CreateReachesAllocate(name)
  <2>1. Fails("Create", name, "FALSE")
    BY <1>5 DEF Create
  <2> QED
    BY <2>1, FailsRests
<1>6. CASE CreateReachesAllocate(name)
  <2>1. ~InDirectory(currentDir, name) /\ FreeMap(disk) # {} /\ FreeIndexes(currentDir) # {}
    BY <1>6 DEF CreateReachesAllocate
  <2>2. Room(E, c, s, rest)
    BY <1>1, <1>2, <2>1, RoomIs
  <2>3. Cardinality(rest) >= n + IndexCount(n) /\ IndexCount(n) <= NumDirect
    BY <1>2, <1>6 DEF Create, CreateIsSensible, Careful
  <2>4. rest \in SUBSET Nat /\ IsFiniteSet(rest) /\ Cardinality(rest) \in Nat
    BY <2>2, FS_CardinalityType DEF Room
  <2>5. /\ \A j \in 1 .. IndexCount(n) :
               /\ Nth(rest, IndexPlace(j)) \in rest
               /\ \A k \in 1 .. IndexCount(n) : Nth(rest, IndexPlace(j)) = Nth(rest, IndexPlace(k)) => j = k
    BY <1>3, <2>3, <2>4, FilePlaces
  <2>6. IsSeq(NewFile(n)) /\ Range(NewFile(n)) = FileWrites(s, rest, n)
    BY <1>2, <1>3, NewFileIs
  <2>7. \A w \in FileWrites(s, rest, n) : w.sector \in FreeMap(disk)
    <3>1. s \in FreeMap(disk) /\ rest \subseteq FreeMap(disk)
      BY <2>2 DEF Room
    <3>2. \A j \in 1 .. IndexCount(n) : Nth(rest, IndexPlace(j)) \in FreeMap(disk)
      BY <2>5, <3>1
    <3> QED
      BY <3>1, <3>2 DEF FileWrites, Write
  <2>8. Apply(disk, NewFile(n))[c] = disk[c]
    <3>1. c \in DOMAIN disk /\ c \notin FreeMap(disk)
      BY <1>1, <2>2 DEF Here, SafeDisk, Room
    <3> QED
      BY <2>6, <2>7, <3>1, FreeWrites
  <2>9. ~(\E j \in 1 .. Min({IndexCount(n), NumDirect}) : IndexPointers(rest, n)[j] = NoSector)
    <3>1. Min({IndexCount(n), NumDirect}) = IndexCount(n)
      BY <1>3, <2>3, MinOfTwo, Sizing
    <3>2. \A j \in 1 .. IndexCount(n) : IndexPointers(rest, n)[j] = Nth(rest, IndexPlace(j))
      BY DEF IndexPointers, IndexPlace
    <3>3. NoSector \notin Nat
      BY DEF NoSector
    <3> QED
      BY <2>4, <2>5, <3>1, <3>2, <3>3
  <2>10. IsDirectoryHeader(Apply(disk, NewFile(n)), c)
    <3>1. IsDirectoryHeader(disk, c)
      BY <1>1 DEF Here, IsDirectory
    <3> QED
      BY <2>8, <3>1 DEF IsDirectoryHeader, IsHeader
  <2>11. NumClearSuffices(rest, n)
    BY <1>3, <2>3, <2>4 DEF NumClearSuffices
  <2>12. /\ currentDir' = Add(currentDir, name, FALSE, s) /\ Returns("Create", name, "TRUE")
         /\ Flushes(CreateWrites(name, n))
    BY <1>2, <1>4, <1>6, <2>3, <2>9, <2>10, <2>11 DEF Create
  <2>13. PICK t : t = [op |-> "Create", dir |-> c, name |-> name, value |-> "TRUE"]
    OBVIOUS
  <2>14. PICK i, new : new = Add(currentDir, name, FALSE, s) /\ Adds(E, c, i, new, t, name, FALSE, s)
    BY <1>1, <2>1, <2>13, AddsIs
  <2>15. PICK free, V, p : /\ free = AfterAllocate(rest, n) /\ V = FileWrites(s, rest, n)
                           /\ p = NewFile(n) \o WriteBack(disk, c, new) \o FlushMap(free)
    OBVIOUS
  <2>16. CreateWrites(name, n) = p
    <3>1. WriteBack(Apply(disk, NewFile(n)), c, new) = WriteBack(disk, c, new)
      BY <2>8, WriteBackIs
    <3> QED
      BY <1>2, <1>4, <2>14, <2>15, <3>1 DEF CreateWrites
  <2>17. /\ currentDir' = new /\ ret' = t /\ pending' = p /\ disk' = disk /\ status' = status
         /\ status = "running"
    <3>1. status = "running"
      BY DEF Rests
    <3> QED
      BY <1>4, <2>12, <2>13, <2>14, <2>16, <3>1 DEF Returns, Flushes
  <2>18. free \subseteq rest /\ free \subseteq FreeMap(disk) /\ free \subseteq Sector \ SystemSectors
    BY <2>2, <2>15 DEF AfterAllocate, AfterFinds, Room
  <2>19. Stores(disk, c, new, free, V, p)
    <3>1. IsSeq(FlushMap(free)) /\ IsSeq(WriteBack(disk, c, new))
      BY FlushIs, WriteBackIs
    <3>2. PICK q : q = NewFile(n) \o WriteBack(disk, c, new)
      OBVIOUS
    <3>3. IsSeq(q) /\ Range(q) = V \cup Range(WriteBack(disk, c, new))
      BY <2>6, <2>15, <3>1, <3>2, RangeConcat
    <3>4. IsSeq(p) /\ Range(p) = Range(q) \cup Range(FlushMap(free))
      BY <2>15, <3>1, <3>2, <3>3, RangeConcat
    <3>5. ASSUME NEW x \in V, NEW y \in V, x.sector = y.sector
          PROVE  x.content = y.content
      BY <2>2, <2>5, <2>15, <3>5 DEF FileWrites, Write, Room
    <3> QED
      BY <2>7, <2>15, <3>3, <3>4, <3>5 DEF Stores
  <2>20. Prepares(disk, E, t, i, new, free, V, p)
    <3>1. SafeWrites(p)
      BY <2>17 DEF IInv, MapInv
    <3>2. Alters(disk, E, t, i, new) /\ t.dir = c /\ Good(disk, E)
      BY <1>1, <2>14 DEF Adds, Here
    <3>3. \A y \in Others(disk, E, t, i) : Occupied(disk, y) \cap FreeMap(disk) = {}
      BY <1>1 DEF Others, Here, Sound
    <3>4. \A y \in Others(disk, E, t, i) : Occupied(disk, y) \cap free = {}
      BY <2>18, <3>3
    <3> QED
      BY <2>18, <2>19, <3>1, <3>2, <3>4 DEF Prepares
  <2>21. PICK e : e = Apply(disk, p)
    OBVIOUS
  <2>22. /\ SafeDisk(e) /\ e = [u \in Sector |-> e[u]]
         /\ Altered(disk, E, t, i, new, e) /\ FetchFrom(e, t.dir) = new
         /\ FreeMap(e) = free /\ \A x \in V : e[x.sector] = x.content
    BY <2>20, <2>21, Written
  <2>23. PICK x : x = Obj(e, c, i)
    OBVIOUS
  <2>24. x.entry = Entry(name, FALSE, s)
    BY <2>14, <2>22, <2>23 DEF Obj, Adds
  <2>25. /\ WellFormed(e, x)
         /\ \A j, k \in DOMAIN Blocks(e, x) : Blocks(e, x)[j] = Blocks(e, x)[k] => j = k
         /\ Occupied(e, x) \subseteq {s} \cup (rest \ AfterAllocate(rest, n))
    <3>1. x.entry.sector = s /\ ~x.entry.isDir
      BY <2>24 DEF Entry
    <3>2. e[s] = FileHeader(n, IndexPointers(rest, n))
      <4>1. Write(s, FileHeader(n, IndexPointers(rest, n))) \in V
        BY <2>15 DEF FileWrites
      <4> QED
        BY <2>22, <4>1 DEF Write
    <3>3. ASSUME NEW j \in 1 .. IndexCount(n)
          PROVE  e[Nth(rest, IndexPlace(j))] = IndexBlock(DataPointers(rest, n, j))
      <4>1. Write(Nth(rest, IndexPlace(j)), IndexBlock(DataPointers(rest, n, j))) \in V
        BY <2>15, <3>3 DEF FileWrites
      <4> QED
        BY <2>22, <4>1 DEF Write
    <3>4. s \in Sector /\ s \notin rest
      BY <2>2 DEF Room
    <3> QED
      BY <1>3, <2>3, <2>4, <2>22, <3>1, <3>2, <3>3, <3>4, NewFileObject
  <2>26. Occupied(e, x) \subseteq FreeMap(disk) \ FreeMap(e)
    BY <2>2, <2>15, <2>18, <2>22, <2>25 DEF Room
  <2>27. Completes(disk, E, t, i, new, e, E)
    <3>1. E \subseteq Sector
      BY <1>1 DEF Here, Sound
    <3>2. ~(FetchFrom(disk, t.dir)[i].inUse /\ FetchFrom(disk, t.dir)[i].isDir)
      BY <1>1, <2>14 DEF Adds, Here
    <3>3. /\ Alters(disk, E, t, i, new) /\ t.dir = c /\ t.name = name /\ ~new[i].isDir
          /\ \A j \in Slots : j # i => ~(new[j].inUse /\ new[j].name = name)
      <4>1. Alters(disk, E, t, i, new) /\ t.dir = c /\ t.name = name /\ new[i] = Entry(name, FALSE, s)
        BY <2>14, Zenon DEF Adds
      <4>2. \A j \in Slots : j # i => ~(new[j].inUse /\ new[j].name = name)
        BY <2>14, Zenon DEF Adds
      <4> QED
        BY <4>1, <4>2 DEF Entry
    <3> QED
      BY <2>22, <2>23, <2>25, <2>26, <3>1, <3>2, <3>3 DEF Completes
  <2>28. Tells(t, new)
    <3>0. PICK b : b = FALSE
      OBVIOUS
    <3>1. Matches(new, t.name) = {i} /\ new[i].isDir = b
      <4>1. Adds(E, c, i, new, t, name, b, s)
        BY <2>14, <3>0, Zenon
      <4> QED
        BY <4>1, AddsTells, Zenon
    <3>2. {new[j].isDir : j \in Matches(new, t.name)} = {b}
      BY <3>1
    <3> QED
      BY <2>13, <3>0, <3>2 DEF Tells
  <2>29. Writes'
    BY <2>17, <2>20, <2>21, <2>27, <2>28, Succeeds
  <2> QED
    BY <2>29
<1> QED
  BY <1>5, <1>6

-----------------------------------------------------------------------------
(* What CreateDirectory writes to sectors that were free.                  *)
DirectoryWrites(s, rest, nd) ==
    {Write(Nth(rest, k), DirSlice(k, nd)) : k \in 1 .. DirSectors}
    \cup {Write(s, FileHeader(DirSectors, DirectoryBlocks(rest)))}

(* The disk e holds a new directory, as CreateDirectory writes it.         *)
MakesDirectory(e, rest, s, c, x) ==
    /\ SafeDisk(e) /\ rest \in SUBSET Nat /\ IsFiniteSet(rest) /\ Cardinality(rest) >= DirSectors
    /\ s \in Sector /\ s \notin rest
    /\ x.entry.sector = s /\ x.entry.isDir = TRUE /\ x.dir = c
    /\ e[s] = FileHeader(DirSectors, DirectoryBlocks(rest))
    /\ \A k \in 1 .. DirSectors : e[Nth(rest, k)] = DirSlice(k, NewDirectory(s, c))

(* The new directory: it can be read, and has the sectors Find() gave it.  *)
LEMMA NewDirectoryObject ==
  ASSUME NEW e, NEW rest, NEW s, NEW c, NEW x, MakesDirectory(e, rest, s, c, x)
  PROVE  /\ IsDirectory(e, s) /\ FetchFrom(e, s) = NewDirectory(s, c)
         /\ WellFormed(e, x)
         /\ \A j, k \in DOMAIN Blocks(e, x) : Blocks(e, x)[j] = Blocks(e, x)[k] => j = k
         /\ Occupied(e, x) \subseteq {s} \cup {Nth(rest, k) : k \in 1 .. DirSectors}
<1>0. /\ SafeDisk(e) /\ rest \in SUBSET Nat /\ IsFiniteSet(rest) /\ Cardinality(rest) >= DirSectors
      /\ s \in Sector /\ s \notin rest
      /\ x.entry.sector = s /\ x.entry.isDir = TRUE /\ x.dir = c
      /\ e[s] = FileHeader(DirSectors, DirectoryBlocks(rest))
      /\ \A k \in 1 .. DirSectors : e[Nth(rest, k)] = DirSlice(k, NewDirectory(s, c))
  BY DEF MakesDirectory
<1> USE <1>0
<1>1. PICK ptrs, nd : ptrs = DirectoryBlocks(rest) /\ nd = NewDirectory(s, c)
  OBVIOUS
<1>2. /\ ptrs = [k \in 1 .. DirSectors |-> ptrs[k]]
      /\ \A k \in 1 .. DirSectors : ptrs[k] = Nth(rest, k)
  BY <1>1 DEF DirectoryBlocks
<1>3. DOMAIN ptrs = 1 .. DirSectors /\ Len(ptrs) = DirSectors
  BY <1>2, Sizing, SeqIs
<1>4. e[s].kind = "hdr" /\ e[s].dataSectors = ptrs
  BY <1>1 DEF FileHeader
<1>5. IsDirectoryHeader(e, s)
  BY <1>3, <1>4, Sizing DEF IsDirectoryHeader, IsHeader
<1>6. /\ nd = [j \in Slots |-> nd[j]] /\ nd[0] = Entry(".", TRUE, s) /\ nd[1] = Entry("..", TRUE, c)
  <2>1. nd = [j \in Slots |-> nd[j]]
    BY <1>1 DEF NewDirectory, Slots
  <2>2. NewDirectory(s, c)[0] = Entry(".", TRUE, s)
    BY NewIs
  <2>3. NewDirectory(s, c)[1] = Entry("..", TRUE, c)
    <3>1. 1 \in Slots /\ 1 # 0
      BY SizesAssumption DEF Slots
    <3> QED
      BY <3>1, Zenon DEF NewDirectory, CurrentDirectoryIndex, ParentDirectoryIndex, Slots
  <2> QED
    BY <1>1, <2>1, <2>2, <2>3
<1>7. IsDirectory(e, s) /\ FetchFrom(e, s) = nd
  <2>1. \A k \in 1 .. DirSectors : e[e[s].dataSectors[k]] = DirSlice(k, nd)
    BY <1>1, <1>2, <1>4
  <2> QED
    BY <1>5, <1>6, <2>1, ReadBack
<1>8. WellFormed(e, x)
  BY <1>6, <1>7 DEF WellFormed
<1>9. /\ 1 \in DOMAIN Blocks(e, x) /\ Blocks(e, x)[1] = s
      /\ \A j \in 1 .. DirSectors : Blocks(e, x)[j + 1] = Nth(rest, j)
      /\ \A b \in DOMAIN Blocks(e, x) : b = 1 \/ \E j \in 1 .. DirSectors : b = j + 1
  <2>1. x.entry.sector \in Sector /\ e[x.entry.sector].kind = "hdr"
    BY <1>4
  <2> DEFINE hdr == e[x.entry.sector]
             data(i) == e[hdr.dataSectors[((i - 1) \div FanOut) + 1]].dataSectors[((i - 1) % FanOut) + 1]
  <2>2. /\ IsSeq(Blocks(e, x))
        /\ 1 \in DOMAIN Blocks(e, x) /\ Blocks(e, x)[1] = x.entry.sector
        /\ \A j \in 1 .. Len(hdr.dataSectors) :
              j + 1 \in DOMAIN Blocks(e, x) /\ Blocks(e, x)[j + 1] = hdr.dataSectors[j]
        /\ ~x.entry.isDir => \A i \in 1 .. hdr.numSectors :
              /\ i + (Len(hdr.dataSectors) + 1) \in DOMAIN Blocks(e, x)
              /\ Blocks(e, x)[i + (Len(hdr.dataSectors) + 1)] = data(i)
        /\ \A b \in DOMAIN Blocks(e, x) :
              \/ b = 1
              \/ \E j \in 1 .. Len(hdr.dataSectors) : b = j + 1
              \/ ~x.entry.isDir /\ \E i \in 1 .. hdr.numSectors : b = i + (Len(hdr.dataSectors) + 1)
    BY <2>1, BlocksAre, Zenon
  <2>3. hdr.dataSectors = ptrs
    BY <1>4
  <2> HIDE DEF hdr
  <2> QED
    BY <1>2, <1>3, <2>2, <2>3
<1>10. /\ \A k \in 1 .. DirSectors : Nth(rest, k) \in rest
       /\ \A j, k \in 1 .. DirSectors : Nth(rest, j) = Nth(rest, k) => j = k
  <2>1. \A k \in 1 .. DirSectors : k \in 1 .. Cardinality(rest)
    BY Sizing, FS_CardinalityType
  <2>2. /\ \A k \in 1 .. Cardinality(rest) : Nth(rest, k) \in rest
        /\ \A j, k \in 1 .. Cardinality(rest) : Nth(rest, j) = Nth(rest, k) => j = k
    BY Finds
  <2> QED
    BY <2>1, <2>2
<1>11. Occupied(e, x) \subseteq {s} \cup {Nth(rest, k) : k \in 1 .. DirSectors}
  BY <1>9 DEF Occupied
<1>12. ASSUME NEW a \in DOMAIN Blocks(e, x), NEW b \in DOMAIN Blocks(e, x), Blocks(e, x)[a] = Blocks(e, x)[b]
       PROVE  a = b
  <2>1. CASE a = 1
    BY <1>9, <1>10, <1>12, <2>1
  <2>2. ASSUME NEW j \in 1 .. DirSectors, a = j + 1 PROVE a = b
    BY <1>9, <1>10, <1>12, <2>2
  <2> QED
    BY <1>9, <2>1, <2>2
<1> QED
  BY <1>1, <1>7, <1>8, <1>11, <1>12

(* The writes of a table.                                                  *)
TableWrites(d, s, table) == {Write(d[s].dataSectors[k], DirSlice(k, table)) : k \in 1 .. DirSectors}

(* WriteBack does them.                                                    *)
LEMMA TableWritesAre ==
  ASSUME NEW d, NEW s, NEW table
  PROVE  /\ IsSeq(WriteBack(d, s, table))
         /\ Range(WriteBack(d, s, table)) = TableWrites(d, s, table)
BY WriteBackIs DEF TableWrites

(* What CreateDirectory adds: an entry, a header and a table.              *)
Makes(E, c, name, new, s, rest, nd, free) ==
    /\ Here(E, c) /\ Room(E, c, s, rest)
    /\ s = Nth(FreeMap(disk), 1) /\ rest = AfterFinds(FreeMap(disk), 1)
    /\ new = Add(currentDir, name, TRUE, s) /\ nd = NewDirectory(s, c)
    /\ free = AfterFinds(FreeMap(disk), 1 + DirSectors)

(* The four parts of CreateDirectory's writes: each is done on the disk    *)
(* that the ones before it leave, and none spoils what a later one reads.  *)
LEMMA DirectoryParts ==
  ASSUME NEW E, NEW c, NEW name, NEW new, NEW s, NEW rest, NEW nd, NEW free,
         Makes(E, c, name, new, s, rest, nd, free)
  PROVE  /\ IsDirectoryHeader(Apply(disk, NewDirHeader), c)
         /\ IsDirectoryHeader(Apply(disk, NewDirHeader \o ParentWrites(name)), s)
         /\ IsSeq(CreateDirectoryWrites(name))
         /\ Range(CreateDirectoryWrites(name)) =
               DirectoryWrites(s, rest, nd) \cup Range(WriteBack(disk, c, new)) \cup Range(FlushMap(free))
<1>0. /\ Here(E, c) /\ Room(E, c, s, rest)
      /\ s = Nth(FreeMap(disk), 1) /\ rest = AfterFinds(FreeMap(disk), 1)
      /\ new = Add(currentDir, name, TRUE, s) /\ nd = NewDirectory(s, c)
      /\ free = AfterFinds(FreeMap(disk), 1 + DirSectors)
  BY DEF Makes
<1> USE <1>0
<1>1. PICK h : h = Write(s, FileHeader(DirSectors, DirectoryBlocks(rest)))
  OBVIOUS
<1>2. NewDirHeader = <<h>> /\ c = getSector(currentDir)
  BY <1>1 DEF NewDirHeader, Here
<1>3. IsSeq(<<h>>) /\ DOMAIN <<h>> = {1} /\ <<h>>[1] = h /\ Range(<<h>>) = {h}
  <2>1. IsSeq(<<h>>) /\ DOMAIN <<h>> = {1} /\ <<h>>[1] = h
    BY SeqOne
  <2> QED
    BY <2>1 DEF Range
<1>4. PICK d : d = Apply(disk, <<h>>)
  OBVIOUS
<1>5. /\ DOMAIN disk = Sector /\ c \in Sector /\ s \in Sector /\ s \in FreeMap(disk) /\ c \notin FreeMap(disk)
      /\ IsDirectoryHeader(disk, c)
      /\ \A k \in 1 .. DirSectors : disk[c].dataSectors[k] # s
  BY DEF Here, SafeDisk, Room, IsDirectory
<1>6. d[c] = disk[c] /\ d[s] = h.content /\ DOMAIN d = Sector
  <2>1. h.sector = s
    BY <1>1 DEF Write
  <2>2. \A j \in DOMAIN <<h>> : ~(j > 1)
    BY <1>3
  <2>3. d[c] = disk[c]
    BY <1>3, <1>4, <1>5, <2>1, FreeWrites
  <2>4. d[s] = h.content /\ DOMAIN d = DOMAIN disk
    BY <1>3, <1>4, <1>5, <2>1, <2>2, ApplyIs
  <2> QED
    BY <1>5, <2>3, <2>4
<1>7. IsDirectoryHeader(d, c)
  BY <1>5, <1>6 DEF IsDirectoryHeader, IsHeader
<1>8. PICK w : w = WriteBack(disk, c, new)
  OBVIOUS
<1>9. ParentWrites(name) = w
  <2>1. WriteBack(d, c, new) = WriteBack(disk, c, new)
    BY <1>6, WriteBackIs
  <2> QED
    BY <1>2, <1>4, <1>8, <2>1 DEF ParentWrites
<1>10. IsSeq(w) /\ Range(w) = {Write(disk[c].dataSectors[k], DirSlice(k, new)) : k \in 1 .. DirSectors}
  <2>1. /\ IsSeq(WriteBack(disk, c, new))
        /\ Range(WriteBack(disk, c, new)) = TableWrites(disk, c, new)
    BY TableWritesAre
  <2> QED
    BY <1>8, <2>1 DEF TableWrites
<1>11. PICK b, e : b = <<h>> \o w /\ e = Apply(disk, b)
  OBVIOUS
<1>12. IsSeq(b) /\ Range(b) = {h} \cup Range(w)
  BY <1>3, <1>10, <1>11, RangeConcat
<1>13. e[s] = h.content
  <2>1. e = Apply(d, w)
    BY <1>3, <1>4, <1>10, <1>11, ApplyConcat
  <2>2. \A x \in Range(w) : x.sector # s
    <3>1. ASSUME NEW x \in Range(w) PROVE x.sector # s
      <4>1. PICK k \in 1 .. DirSectors : x = Write(disk[c].dataSectors[k], DirSlice(k, new))
        BY <1>10, <3>1, Zenon
      <4>2. x.sector = disk[c].dataSectors[k]
        BY <4>1 DEF Write
      <4> QED
        BY <1>5, <4>2
    <3> QED
      BY <3>1
  <2>3. \A i \in DOMAIN w : w[i].sector # s
    BY <2>2 DEF Range
  <2>4. Apply(d, w)[s] = d[s]
    BY <1>5, <1>6, <1>10, <2>3, ApplyIs
  <2> QED
    BY <1>6, <2>1, <2>4
<1>14. PICK ptrs : ptrs = DirectoryBlocks(rest)
  OBVIOUS
<1>15. /\ ptrs = [k \in 1 .. DirSectors |-> ptrs[k]]
       /\ \A k \in 1 .. DirSectors : ptrs[k] = Nth(rest, k)
  BY <1>14 DEF DirectoryBlocks
<1>16. Len(ptrs) = DirSectors
  BY <1>15, Sizing, SeqIs
<1>17. e[s].kind = "hdr" /\ e[s].dataSectors = ptrs
  BY <1>1, <1>13, <1>14 DEF Write, FileHeader
<1>18. IsDirectoryHeader(e, s)
  BY <1>5, <1>16, <1>17, Sizing DEF IsDirectoryHeader, IsHeader
<1>19. PICK u : u = WriteBack(e, s, nd)
  OBVIOUS
<1>20. IsSeq(u) /\ Range(u) = {Write(e[s].dataSectors[k], DirSlice(k, nd)) : k \in 1 .. DirSectors}
  BY <1>19, WriteBackIs
<1>21. Range(u) = {Write(Nth(rest, k), DirSlice(k, nd)) : k \in 1 .. DirSectors}
  BY <1>15, <1>17, <1>20
<1>22. CreateDirectoryWrites(name) = b \o u \o FlushMap(free)
  BY <1>2, <1>9, <1>11, <1>19 DEF CreateDirectoryWrites
<1>23. PICK q : q = b \o u
  OBVIOUS
<1>24. IsSeq(q) /\ Range(q) = Range(b) \cup Range(u)
  BY <1>12, <1>20, <1>23, RangeConcat
<1>25. IsSeq(FlushMap(free))
  BY FlushIs
<1>26. IsSeq(q \o FlushMap(free)) /\ Range(q \o FlushMap(free)) = Range(q) \cup Range(FlushMap(free))
  BY <1>24, <1>25, RangeConcat
<1>27. DirectoryWrites(s, rest, nd) = Range(u) \cup {h}
  BY <1>1, <1>21 DEF DirectoryWrites
<1> QED
  BY <1>2, <1>4, <1>7, <1>8, <1>9, <1>11, <1>12, <1>18, <1>22, <1>23, <1>24, <1>26, <1>27

(* FileSystem::CreateDirectory.                                            *)
LEMMA CreateDirectoryRests ==
  ASSUME Careful, Rests, IInv', NEW name, CreateDirectory(name)
  PROVE  Rests' \/ Writes'
<1>1. PICK E, c : Here(E, c)
  BY RestsHere
<1>2. PICK s, rest : s = Nth(FreeMap(disk), 1) /\ rest = AfterFinds(FreeMap(disk), 1)
  OBVIOUS
<1>3. c = getSector(currentDir)
  BY <1>1 DEF Here
<1>4. CASE Fails("CreateDirectory", name, "-2") \/ Fails("CreateDirectory", name, "-1")
  BY <1>4, FailsRests
<1>5. CASE /\ CreateReachesAllocate(name)
           /\ ~(Fails("CreateDirectory", name, "-2") \/ Fails("CreateDirectory", name, "-1"))
  <2>1. ~InDirectory(currentDir, name) /\ FreeMap(disk) # {} /\ FreeIndexes(currentDir) # {}
    BY <1>5 DEF CreateReachesAllocate
  <2>2. Room(E, c, s, rest)
    BY <1>1, <1>2, <2>1, RoomIs
  <2>3. DirectoryFits(rest)
    BY <1>2, <1>5, <2>1 DEF CreateDirectory, Careful
  <2>4. rest \in SUBSET Nat /\ IsFiniteSet(rest) /\ Cardinality(rest) \in Nat /\ Cardinality(rest) >= DirSectors
    BY <2>2, <2>3, FS_CardinalityType DEF Room, DirectoryFits
  <2>5. PICK t : t = [op |-> "CreateDirectory", dir |-> c, name |-> name, value |-> "0"]
    OBVIOUS
  <2>6. PICK i, new : new = Add(currentDir, name, TRUE, s) /\ Adds(E, c, i, new, t, name, TRUE, s)
    BY <1>1, <2>1, <2>5, AddsIs
  <2>7. PICK nd, free : nd = NewDirectory(s, c) /\ free = AfterFinds(FreeMap(disk), 1 + DirSectors)
    OBVIOUS
  <2>8. PICK V, p : V = DirectoryWrites(s, rest, nd) /\ p = CreateDirectoryWrites(name)
    OBVIOUS
  <2>9. /\ IsDirectoryHeader(Apply(disk, NewDirHeader), c)
        /\ IsDirectoryHeader(Apply(disk, NewDirHeader \o ParentWrites(name)), s)
        /\ IsSeq(p) /\ Range(p) = V \cup Range(WriteBack(disk, c, new)) \cup Range(FlushMap(free))
    <3>1. Makes(E, c, name, new, s, rest, nd, free)
      BY <1>1, <1>2, <2>2, <2>6, <2>7 DEF Makes
    <3>2. /\ IsDirectoryHeader(Apply(disk, NewDirHeader), c)
          /\ IsDirectoryHeader(Apply(disk, NewDirHeader \o ParentWrites(name)), s)
          /\ IsSeq(CreateDirectoryWrites(name))
          /\ Range(CreateDirectoryWrites(name)) =
                DirectoryWrites(s, rest, nd) \cup Range(WriteBack(disk, c, new)) \cup Range(FlushMap(free))
      BY <3>1, DirectoryParts
    <3> QED
      BY <2>8, <3>2
  <2>10. /\ currentDir' = new /\ ret' = t /\ pending' = p /\ disk' = disk /\ status' = status
         /\ status = "running"
    <3>1. /\ currentDir' = Add(currentDir, name, TRUE, s) /\ Returns("CreateDirectory", name, "0")
          /\ Flushes(CreateDirectoryWrites(name))
      BY <1>2, <1>3, <1>5, <2>1, <2>3, <2>9 DEF CreateDirectory
    <3>2. status = "running"
      BY DEF Rests
    <3> QED
      BY <1>3, <2>5, <2>6, <2>8, <3>1, <3>2 DEF Returns, Flushes
  <2>11. \A k \in 1 .. DirSectors :
            /\ Nth(rest, k) \in rest /\ Nth(rest, k) \notin free
            /\ \A l \in 1 .. DirSectors : Nth(rest, k) = Nth(rest, l) => k = l
    <3>1. \A k \in 1 .. DirSectors : k \in 1 .. Cardinality(rest) /\ k < 1 + DirSectors
      BY <2>4, Sizing
    <3>2. /\ \A k \in 1 .. Cardinality(rest) : Nth(rest, k) \in rest
          /\ \A j, k \in 1 .. Cardinality(rest) : Nth(rest, j) = Nth(rest, k) => j = k
      BY <2>4, Finds
    <3>3. 1 + DirSectors \in Nat
      BY Sizing
    <3>4. \A k \in 1 .. Cardinality(rest) : k < 1 + DirSectors => Nth(rest, k) \notin free
      BY <2>2, <2>7, <3>3 DEF Room
    <3> QED
      BY <3>1, <3>2, <3>4
  <2>12. s \notin free
    <3>1. FreeMap(disk) \in SUBSET Nat /\ IsFiniteSet(FreeMap(disk))
      BY <2>2, Sizing, FS_Subset DEF Room
    <3>2. 1 + DirSectors \in Nat /\ 1 <= 1 + DirSectors
      BY Sizing
    <3>3. 1 \in 1 .. Cardinality(FreeMap(disk))
      BY <2>1, <3>1, FS_EmptySet, FS_CardinalityType
    <3> QED
      BY <1>2, <2>7, <3>1, <3>2, <3>3, Finds
  <2>13. free \subseteq FreeMap(disk) /\ free \subseteq Sector \ SystemSectors
    BY <2>2, <2>7 DEF AfterFinds, Room
  <2>14. Stores(disk, c, new, free, V, p)
    <3>1. \A x \in V : x.sector \in FreeMap(disk)
      <4>1. s \in FreeMap(disk) /\ rest \subseteq FreeMap(disk)
        BY <2>2 DEF Room
      <4>2. \A k \in 1 .. DirSectors : Nth(rest, k) \in FreeMap(disk)
        BY <2>11, <4>1
      <4> QED
        BY <2>8, <4>1, <4>2 DEF DirectoryWrites, Write
    <3>2. ASSUME NEW x \in V, NEW y \in V, x.sector = y.sector
          PROVE  x.content = y.content
      BY <2>2, <2>8, <2>11, <3>2 DEF DirectoryWrites, Write, Room
    <3> QED
      BY <2>9, <3>1, <3>2 DEF Stores
  <2>15. Prepares(disk, E, t, i, new, free, V, p)
    <3>1. SafeWrites(p)
      BY <2>10 DEF IInv, MapInv
    <3>2. Alters(disk, E, t, i, new) /\ t.dir = c /\ Good(disk, E)
      BY <1>1, <2>6 DEF Adds, Here
    <3>3. \A y \in Others(disk, E, t, i) : Occupied(disk, y) \cap FreeMap(disk) = {}
      BY <1>1 DEF Others, Here, Sound
    <3>4. \A y \in Others(disk, E, t, i) : Occupied(disk, y) \cap free = {}
      BY <2>13, <3>3
    <3> QED
      BY <2>13, <2>14, <3>1, <3>2, <3>4 DEF Prepares
  <2>16. PICK e : e = Apply(disk, p)
    OBVIOUS
  <2>17. /\ SafeDisk(e) /\ e = [u \in Sector |-> e[u]]
         /\ Altered(disk, E, t, i, new, e) /\ FetchFrom(e, t.dir) = new
         /\ FreeMap(e) = free /\ \A x \in V : e[x.sector] = x.content
    BY <2>15, <2>16, Written
  <2>18. PICK x : x = Obj(e, c, i)
    OBVIOUS
  <2>19. x.entry = Entry(name, TRUE, s) /\ x.dir = c
    BY <2>6, <2>17, <2>18 DEF Obj, Adds
  <2>20. /\ IsDirectory(e, s) /\ FetchFrom(e, s) = nd
         /\ WellFormed(e, x)
         /\ \A j, k \in DOMAIN Blocks(e, x) : Blocks(e, x)[j] = Blocks(e, x)[k] => j = k
         /\ Occupied(e, x) \subseteq {s} \cup {Nth(rest, k) : k \in 1 .. DirSectors}
    <3>1. x.entry.sector = s /\ x.entry.isDir = TRUE
      BY <2>19 DEF Entry
    <3>2. e[s] = FileHeader(DirSectors, DirectoryBlocks(rest))
      <4>1. Write(s, FileHeader(DirSectors, DirectoryBlocks(rest))) \in V
        BY <2>8 DEF DirectoryWrites
      <4> QED
        BY <2>17, <4>1 DEF Write
    <3>3. ASSUME NEW k \in 1 .. DirSectors
          PROVE  e[Nth(rest, k)] = DirSlice(k, NewDirectory(s, c))
      <4>1. Write(Nth(rest, k), DirSlice(k, nd)) \in V
        BY <2>8, <3>3 DEF DirectoryWrites
      <4> QED
        BY <2>7, <2>17, <4>1 DEF Write
    <3>4. s \in Sector /\ s \notin rest
      BY <2>2 DEF Room
    <3> QED
      <4>1. MakesDirectory(e, rest, s, c, x)
        BY <2>4, <2>17, <2>19, <3>1, <3>2, <3>3, <3>4 DEF MakesDirectory
      <4>2. /\ IsDirectory(e, s) /\ FetchFrom(e, s) = NewDirectory(s, c)
            /\ WellFormed(e, x)
            /\ \A j, k \in DOMAIN Blocks(e, x) : Blocks(e, x)[j] = Blocks(e, x)[k] => j = k
            /\ Occupied(e, x) \subseteq {s} \cup {Nth(rest, k) : k \in 1 .. DirSectors}
        BY <4>1, NewDirectoryObject
      <4> QED
        BY <2>7, <4>2
  <2>21. Occupied(e, x) \subseteq FreeMap(disk) \ FreeMap(e)
    BY <2>2, <2>11, <2>12, <2>17, <2>20 DEF Room
  <2>22. Completes(disk, E, t, i, new, e, E \cup {s})
    <3>1. E \subseteq Sector /\ E \cup {s} \subseteq Sector
      BY <1>1, <2>2 DEF Here, Sound, Room
    <3>2. ~(FetchFrom(disk, t.dir)[i].inUse /\ FetchFrom(disk, t.dir)[i].isDir)
      BY <1>1, <2>6 DEF Adds, Here
    <3>3. /\ Alters(disk, E, t, i, new) /\ t.dir = c /\ t.name = name /\ new[i] = Entry(name, TRUE, s)
          /\ \A j \in Slots : j # i => ~(new[j].inUse /\ new[j].name = name)
      <4>1. Alters(disk, E, t, i, new) /\ t.dir = c /\ t.name = name /\ new[i] = Entry(name, TRUE, s)
        BY <2>6, Zenon DEF Adds
      <4>2. \A j \in Slots : j # i => ~(new[j].inUse /\ new[j].name = name)
        BY <2>6, Zenon DEF Adds
      <4> QED
        BY <4>1, <4>2
    <3>4. new[i].inUse /\ new[i].isDir /\ new[i].sector = s
      BY <3>3 DEF Entry
    <3>5. \A u \in E \cup {s} : u \notin E =>
            /\ new[i].inUse /\ new[i].isDir /\ u = new[i].sector
            /\ IsDirectory(e, u) /\ FetchFrom(e, u) = NewDirectory(u, t.dir)
      BY <2>7, <2>20, <3>3, <3>4
    <3> QED
      BY <2>17, <2>18, <2>20, <2>21, <3>1, <3>2, <3>3, <3>4, <3>5 DEF Completes
  <2>23. Tells(t, new)
    <3>0. PICK b : b = TRUE
      OBVIOUS
    <3>1. Matches(new, t.name) = {i} /\ new[i].isDir = b
      <4>1. Adds(E, c, i, new, t, name, b, s)
        BY <2>6, <3>0, Zenon
      <4> QED
        BY <4>1, AddsTells, Zenon
    <3>2. {new[j].isDir : j \in Matches(new, t.name)} = {b}
      BY <3>1
    <3> QED
      BY <2>5, <3>0, <3>2 DEF Tells
  <2>24. Writes'
    BY <2>10, <2>15, <2>16, <2>22, <2>23, Succeeds
  <2> QED
    BY <2>24
<1> QED
  BY <1>4, <1>5 DEF CreateDirectory, CreateReachesAllocate

-----------------------------------------------------------------------------
(* The disk that was just formatted.                                       *)
LEMMA FormatIs ==
  /\ Format = [s \in Sector |-> Format[s]]
  /\ Format[RootSector] = RootHeader /\ FreeMap(Format) = Sector \ SystemSectors
  /\ \A k \in 1 .. DirSectors : Format[2 + k] = DirSlice(k, NewDirectory(RootSector, RootSector))
<1> DEFINE table == NewDirectory(RootSector, RootSector)
           slot(s) ==
              CASE s = FreeMapSector -> FileHeader(1, <<MapDataSector>>)
                [] s = RootSector -> RootHeader
                [] s = MapDataSector -> MapBlock(Sector \ SystemSectors)
                [] s \in 3 .. 2 + DirSectors -> DirSlice(s - 2, table)
                [] OTHER -> Raw
<1>1. Format = [s \in Sector |-> slot(s)]
  BY Zenon DEF Format, RootHeader
<1>2. DOMAIN Format = Sector /\ \A s \in Sector : Format[s] = slot(s)
  BY <1>1, Zenon
<1>3. /\ FreeMapSector # RootSector /\ FreeMapSector # MapDataSector
      /\ MapDataSector # RootSector
      /\ FreeMapSector \notin 3 .. 2 + DirSectors
      /\ MapDataSector \notin 3 .. 2 + DirSectors
      /\ RootSector \notin 3 .. 2 + DirSectors
      /\ RootSector \in Sector /\ MapDataSector \in Sector
  BY Sizing DEF FreeMapSector, RootSector, MapDataSector
<1>4. slot(RootSector) = RootHeader /\ slot(MapDataSector) = MapBlock(Sector \ SystemSectors)
  BY <1>3, Zenon
<1>5. \A s \in 3 .. 2 + DirSectors : slot(s) = DirSlice(s - 2, table)
  BY <1>3, Zenon
<1>6. Format = [s \in Sector |-> Format[s]]
  BY <1>1, <1>2, Zenon
<1> HIDE DEF slot, table
<1>7. ASSUME NEW k \in 1 .. DirSectors PROVE Format[2 + k] = DirSlice(k, table)
  <2>1. 2 + k \in 3 .. 2 + DirSectors /\ (2 + k) - 2 = k /\ 2 + k \in Sector
    BY <1>7, Sizing
  <2> QED
    BY <1>2, <1>5, <2>1
<1>8. FreeMap(Format) = Sector \ SystemSectors
  BY <1>2, <1>3, <1>4 DEF FreeMap, MapBlock
<1> QED
  BY <1>2, <1>3, <1>4, <1>6, <1>7, <1>8 DEF table

(* It has one directory, the root, which is empty.                         *)
LEMMA FormatGood == Good(Format, {RootSector})
<1>1. PICK d, table : d = Format /\ table = NewDirectory(RootSector, RootSector)
  OBVIOUS
<1>2. /\ d = [s \in Sector |-> d[s]] /\ d[RootSector] = RootHeader /\ FreeMap(d) = Sector \ SystemSectors
      /\ \A k \in 1 .. DirSectors : d[2 + k] = DirSlice(k, table)
  BY <1>1, FormatIs, Zenon
<1>3. SafeDisk(d)
  BY <1>1, SafeFormat
<1>4. /\ table = [j \in Slots |-> table[j]]
      /\ table[0] = Entry(".", TRUE, RootSector) /\ table[1] = Entry("..", TRUE, RootSector)
      /\ \A j \in 2 .. NumDirEntries - 1 : ~table[j].inUse
  BY <1>1, NewIs
<1>5. IsDirectory(d, RootSector) /\ FetchFrom(d, RootSector) = table
  <2>1. \A k \in 1 .. DirSectors : d[RootSector].dataSectors[k] = k + 2 /\ k + 2 = 2 + k
    BY <1>2, RootIs
  <2>2. \A k \in 1 .. DirSectors : d[d[RootSector].dataSectors[k]] = DirSlice(k, table)
    BY <1>2, <2>1
  <2>3. RootSector \in Sector
    BY Sizing
  <2>4. PICK ptrs : ptrs = [k \in 1 .. DirSectors |-> 2 + k]
    OBVIOUS
  <2>5. Len(ptrs) = DirSectors
    <3>1. ptrs = [k \in 1 .. DirSectors |-> ptrs[k]]
      BY <2>4
    <3> QED
      BY <3>1, Sizing, SeqIs
  <2>6. IsDirectoryHeader(d, RootSector)
    BY <1>2, <2>3, <2>4, <2>5, Sizing DEF IsDirectoryHeader, IsHeader, RootHeader, FileHeader
  <2> QED
    BY <1>4, <2>2, <2>6, ReadBack
<1>6. \A S \in SUBSET {RootSector} : Found(d, S, NoTarget) = {}
  <2>1. ASSUME NEW S \in SUBSET {RootSector}, NEW x \in Found(d, S, NoTarget) PROVE FALSE
    <3>1. \A s \in S : IsDirectory(d, s)
      BY <1>5, <2>1
    <3>2. PICK s \in S, j \in 2 .. NumDirEntries - 1 : FetchFrom(d, s)[j].inUse
      BY <2>1, <3>1, FoundIs
    <3> QED
      BY <1>4, <1>5, <2>1, <3>2
  <2> QED
    BY <2>1
<1>7. Sound(d, {RootSector}, NoTarget)
  BY <1>2, <1>5, <1>6, Sizing DEF Sound, Unprotected
<1>8. Reached(d, {RootSector})
  BY DEF Reached
<1>9. Linked(d, {RootSector})
  <2>1. \A j \in Slots : j = 0 \/ j = 1 \/ j \in 2 .. NumDirEntries - 1
    BY Sizing DEF Slots
  <2>2. table[0].name = "." /\ table[1].name = ".."
    BY <1>4 DEF Entry
  <2>3. ASSUME NEW j \in Slots, NEW k \in Slots, table[j].inUse, table[k].inUse, table[j].name = table[k].name
        PROVE  j = k
    BY <1>4, <2>1, <2>2, <2>3
  <2> QED
    BY <1>4, <1>5, <2>3 DEF Linked
<1> QED
  BY <1>1, <1>2, <1>3, <1>7, <1>8, <1>9 DEF Good

(* FileSystem(TRUE).                                                       *)
LEMMA InitFsInv == Init => FsInv
<1> SUFFICES ASSUME Init PROVE FsInv
  OBVIOUS
<1>1. /\ disk = Format /\ currentDir = NewDirectory(RootSector, RootSector) /\ pending = <<>>
      /\ status = "running" /\ ret.op = "format" /\ ret.dir = RootSector
  BY DEF Init
<1>2. Good(Format, {RootSector})
  BY FormatGood
<1>3. PICK table : table = NewDirectory(RootSector, RootSector)
  OBVIOUS
<1>4. FetchFrom(Format, RootSector) = table
  <2>1. PICK d : d = Format
    OBVIOUS
  <2>2. /\ \A k \in 1 .. DirSectors : d[2 + k] = DirSlice(k, table)
        /\ d[RootSector] = RootHeader
    BY <1>3, <2>1, FormatIs
  <2>3. \A k \in 1 .. DirSectors : d[RootSector].dataSectors[k] = k + 2 /\ k + 2 = 2 + k
    BY <2>2, RootIs
  <2>4. \A k \in 1 .. DirSectors : d[d[RootSector].dataSectors[k]] = DirSlice(k, table)
    BY <2>2, <2>3
  <2>5. IsDirectoryHeader(d, RootSector)
    BY <1>2, <2>1 DEF Good, Sound, IsDirectory
  <2>6. table = [j \in Slots |-> table[j]]
    BY <1>3 DEF NewDirectory, Slots
  <2> QED
    BY <2>1, <2>4, <2>5, <2>6, ReadBack
<1>5. getSector(table) = RootSector
  <2>1. NewDirectory(RootSector, RootSector)[0] = Entry(".", TRUE, RootSector)
    BY NewIs
  <2> QED
    BY <1>3, <2>1 DEF getSector, CurrentDirectoryIndex, Entry
<1>6. \A u : Tells(ret, u)
  BY <1>1, Zenon DEF Tells
<1>7. Settled(disk, currentDir, ret)
  BY <1>1, <1>2, <1>3, <1>4, <1>5, <1>6 DEF Settled
<1>8. MapInv
  BY InitMapInv
<1>9. disk = [s \in Sector |-> disk[s]]
  BY <1>1, <1>2 DEF Good
<1> QED
  BY <1>1, <1>7, <1>8, <1>9 DEF FsInv, IInv, Rests

-----------------------------------------------------------------------------
(* The client is who it is.                                                *)
LEMMA SameHabits ==
  ASSUME [Next]_vars
  PROVE  habits' = habits
<1>1. CASE Operation
  <2>1. ASSUME NEW name, NEW n, Create(name, n) PROVE habits' = habits
    BY <2>1 DEF Create, Fails, Aborts, Misreads, Flushes
  <2>2. ASSUME NEW name, CreateDirectory(name) PROVE habits' = habits
    BY <2>2 DEF CreateDirectory, Fails, Aborts, Misreads, Flushes
  <2>3. ASSUME NEW name, Remove(name) PROVE habits' = habits
    BY <2>3 DEF Remove, Fails, Aborts, Misreads, Flushes
  <2>4. ASSUME NEW name, RemoveDirectory(name) PROVE habits' = habits
    BY <2>4 DEF RemoveDirectory, Fails, Aborts, Misreads, Flushes
  <2>5. ASSUME NEW name, ChangeDirectory(name) PROVE habits' = habits
    BY <2>5 DEF ChangeDirectory, Fails, Misreads
  <2>6. ASSUME NEW name, NEW i, WriteAt(name, i) PROVE habits' = habits
    BY <2>6 DEF WriteAt, Misreads, Aborts, Flushes
  <2> QED
    BY <1>1, <2>1, <2>2, <2>3, <2>4, <2>5, <2>6 DEF Operation
<1>2. CASE WriteSector \/ Restart \/ Crash
  BY <1>2 DEF WriteSector, Restart, Crash, Mount
<1>3. CASE UNCHANGED vars
  BY <1>3 DEF vars
<1> QED
  BY <1>1, <1>2, <1>3 DEF Next, Stopped

(* The disk keeps its sectors.                                             *)
LEMMA SameSectors ==
  ASSUME disk = [s \in Sector |-> disk[s]], [Next]_vars
  PROVE  disk' = [s \in Sector |-> disk'[s]]
<1>1. CASE disk' = disk
  BY <1>1
<1>2. CASE WriteSector
  <2>1. DOMAIN disk = Sector
    BY Zenon
  <2>2. PICK p : p = <<Head(pending)>>
    OBVIOUS
  <2>3. disk' = Apply(disk, p)
    BY <1>2, <2>2 DEF WriteSector
  <2>4. disk' = [s \in DOMAIN disk |-> Apply(disk, p)[s]]
    BY <2>3 DEF Apply
  <2> QED
    BY <2>1, <2>3, <2>4
<1>3. CASE Lost
  <2>1. PICK s \in Sector : disk' = [disk EXCEPT ![s] = Raw]
    BY <1>3 DEF Lost
  <2>2. DOMAIN disk = Sector
    BY Zenon
  <2>3. disk' = [a \in Sector |-> IF a = s THEN Raw ELSE disk[a]]
    BY <2>1, <2>2
  <2> QED
    BY <2>3
<1>4. CASE Operation
  <2>1. ASSUME NEW name, NEW n, Create(name, n) PROVE disk' = disk \/ Lost
    BY <2>1 DEF Create, Fails, Aborts, Misreads, Flushes
  <2>2. ASSUME NEW name, CreateDirectory(name) PROVE disk' = disk \/ Lost
    BY <2>2 DEF CreateDirectory, Fails, Aborts, Misreads, Flushes
  <2>3. ASSUME NEW name, Remove(name) PROVE disk' = disk \/ Lost
    BY <2>3 DEF Remove, Fails, Aborts, Misreads, Flushes
  <2>4. ASSUME NEW name, RemoveDirectory(name) PROVE disk' = disk \/ Lost
    BY <2>4 DEF RemoveDirectory, Fails, Aborts, Misreads, Flushes
  <2>5. ASSUME NEW name, ChangeDirectory(name) PROVE disk' = disk \/ Lost
    BY <2>5 DEF ChangeDirectory, Fails, Misreads
  <2>6. ASSUME NEW name, NEW i, WriteAt(name, i) PROVE disk' = disk \/ Lost
    BY <2>6 DEF WriteAt, Misreads, Aborts, Flushes
  <2> QED
    BY <1>1, <1>3, <1>4, <2>1, <2>2, <2>3, <2>4, <2>5, <2>6 DEF Operation
<1>5. CASE Restart \/ Crash \/ UNCHANGED vars
  BY <1>1, <1>3, <1>5 DEF Restart, Crash, Mount, vars
<1> QED
  BY <1>2, <1>4, <1>5 DEF Next, Stopped

(* Any step.  After a crash a careful client does nothing more.            *)
LEMMA NextFsInv ==
  ASSUME FsInv, [Next]_vars
  PROVE  FsInv'
<1>1. IInv /\ disk = [s \in Sector |-> disk[s]]
  BY DEF FsInv
<1>2. IInv'
  BY <1>1, NextMapInv
<1>3. disk' = [s \in Sector |-> disk'[s]]
  BY <1>1, SameSectors
<1>4. ASSUME Careful' PROVE Rests' \/ Writes' \/ Fills' \/ Crashed'
  <2>1. Careful /\ habits = {}
    BY <1>4, SameHabits DEF Careful
  <2>2. MapInv /\ (Rests \/ Writes \/ Fills \/ Crashed)
    BY <2>1, FsInvIs
  <2>3. CASE UNCHANGED vars
    <3>1. /\ disk' = disk /\ currentDir' = currentDir /\ pending' = pending
          /\ status' = status /\ ret' = ret
      BY <2>3 DEF vars
    <3>2. CASE Rests
      BY <3>1, <3>2 DEF Rests
    <3>3. CASE Writes
      BY <3>1, <3>3 DEF Writes, Underway
    <3>4. CASE Crashed
      BY <3>1, <3>4 DEF Crashed
    <3>5. CASE Fills
      BY <3>1, <3>5 DEF Fills
    <3> QED
      BY <2>2, <3>2, <3>3, <3>4, <3>5
  <2>4. CASE Operation
    <3>1. Ready
      BY <2>4, OnlyWhenReady
    <3>2. pending = <<>> /\ status = "running"
      BY <2>1, <3>1 DEF Ready
    <3>3. Rests
      BY <2>2, <3>2 DEF Writes, Fills, Crashed
    <3>4. ASSUME NEW name, NEW n \in Sizes, Create(name, n) PROVE Rests' \/ Writes'
      BY <1>2, <2>1, <3>3, <3>4, CreateRests
    <3>5. ASSUME NEW name, CreateDirectory(name) PROVE Rests' \/ Writes'
      BY <1>2, <2>1, <3>3, <3>5, CreateDirectoryRests
    <3>6. ASSUME NEW name, Remove(name) PROVE Rests' \/ Writes'
      BY <1>2, <2>1, <3>3, <3>6, RemoveRests
    <3>7. ASSUME NEW name, RemoveDirectory(name) PROVE Rests'
      BY <2>1, <3>3, <3>7, RemoveDirectoryRests
    <3>8. ASSUME NEW name, ChangeDirectory(name) PROVE Rests'
      BY <2>1, <3>3, <3>8, ChangeDirectoryRests
    <3>9. ASSUME NEW name, NEW i \in 1 .. NumSectors, WriteAt(name, i) PROVE Fills'
      BY <2>1, <3>3, <3>9, WriteAtFills
    <3> QED
      BY <2>4, <3>4, <3>5, <3>6, <3>7, <3>8, <3>9 DEF Operation
  <2>5. CASE WriteSector
    <3>1. Writes \/ Fills
      BY <2>2, <2>5 DEF WriteSector, Rests, Crashed
    <3>2. SafeDisk(disk')
      BY <2>2, <2>5, WriteSectorInv DEF MapInv
    <3> QED
      BY <1>1, <1>3, <2>2, <2>5, <3>1, <3>2, WriteSectorRests, FillRests
  <2>6. CASE Restart
    <3>1. pending = <<>> /\ status = "running" /\ Mount("running")
      BY <2>1, <2>6 DEF Restart, Ready
    <3>2. Rests
      BY <2>2, <3>1 DEF Writes, Fills, Crashed
    <3> QED
      BY <3>1, <3>2, MountRests
  <2>7. CASE Crash
    <3>1. (Writes \/ Fills) /\ Mount("recovered")
      BY <2>2, <2>7 DEF Crash, Rests, Crashed
    <3> QED
      BY <3>1, CrashIs, FillCrashIs
  <2> QED
    BY <2>3, <2>4, <2>5, <2>6, <2>7 DEF Next, Stopped
<1> QED
  BY <1>2, <1>3, <1>4 DEF FsInv

-----------------------------------------------------------------------------
(* The inductive invariant: the disk of a careful client is that of a tree *)
(* of directories at rest, and becomes one again with the writes that are  *)
(* to come; whatever part of them it has seen, only one entry is in doubt. *)
THEOREM Keeping == Spec => []FsInv
<1>1. FsInv /\ [Next]_vars => FsInv'
  BY NextFsInv
<1> QED
  BY <1>1, InitFsInv, PTL DEF Spec

(* Wherever Nachos stops in an operation, every object but the one it was  *)
(* about is reachable, whole and marked in the free map: the order of the  *)
(* writes of FileSystem::Create, CreateDirectory and Remove sees to that.  *)
THEOREM CrashesSpareOthers == Spec => []CrashHurtsOnlyTarget
<1>1. ASSUME FsInv, Careful PROVE Consistent(disk, ret)
  <2>1. SafeDisk(disk) /\ (Rests \/ Writes \/ Fills \/ Crashed)
    BY <1>1, FsInvIs
  <2>2. \E D : Sound(disk, D, ret)
    <3>1. CASE Rests \/ Fills
      <4>1. PICK D : Sound(disk, D, NoTarget)
        BY <3>1 DEF Rests, Fills, Settled, Good
      <4> QED
        BY <4>1, SoundButFor
    <3>2. CASE Writes
      BY <3>2, UnderwaySound DEF Writes
    <3>3. CASE Crashed
      BY <3>3 DEF Crashed
    <3> QED
      BY <2>1, <3>1, <3>2, <3>3
  <2> QED
    BY <2>1, <2>2, SoundConsistent
<1>2. FsInv => CrashHurtsOnlyTarget
  BY <1>1 DEF CrashHurtsOnlyTarget
<1> QED
  BY <1>2, Keeping, PTL

(* Between two operations the whole tree is consistent.                    *)
THEOREM Consistency == Spec => []ConsistentAtRest
<1>1. ASSUME FsInv, Careful, Quiet PROVE Consistent(disk, NoTarget)
  <2>1. SafeDisk(disk) /\ Rests
    BY <1>1, FsInvIs DEF Quiet, Writes, Fills, Crashed
  <2>2. PICK D : Sound(disk, D, NoTarget)
    BY <2>1 DEF Rests, Settled, Good
  <2> QED
    BY <2>1, <2>2, SoundConsistent
<1>2. FsInv => ConsistentAtRest
  BY <1>1 DEF ConsistentAtRest
<1> QED
  BY <1>2, Keeping, PTL

(* FileSystem::currentDir is what the disk holds of a directory that the   *)
(* root leads to.                                                          *)
THEOREM Coherence == Spec => []CurrentDirCoherent
<1>1. ASSUME FsInv, Careful, Quiet
      PROVE  /\ getSector(currentDir) \in Dirs(disk, NoTarget)
             /\ currentDir = FetchFrom(disk, getSector(currentDir))
  <2>1. SafeDisk(disk) /\ Rests
    BY <1>1, FsInvIs DEF Quiet, Writes, Fills, Crashed
  <2>2. PICK D : /\ Good(disk, D) /\ getSector(currentDir) \in D
                 /\ currentDir = FetchFrom(disk, getSector(currentDir))
    BY <2>1 DEF Rests, Settled
  <2>3. Dirs(disk, NoTarget) = D
    BY <2>1, <2>2, DirsAll DEF Good
  <2> QED
    BY <2>2, <2>3
<1>2. FsInv => CurrentDirCoherent
  BY <1>1 DEF CurrentDirCoherent
<1> QED
  BY <1>2, Keeping, PTL

(* No ASSERT of the file system fails, and it never reads a sector as what *)
(* it does not hold.                                                       *)
THEOREM CarefulNeverDies == Spec => []NeverDies
<1>1. FsInv => NeverDies
  BY DEF FsInv, NeverDies, Rests, Writes, Fills, Crashed
<1> QED
  BY <1>1, Keeping, PTL

(* What Create, CreateDirectory and Remove returned is true of the disk    *)
(* once they have written.                                                 *)
THEOREM Truthfulness == Spec => []AnswersAreTrue
<1>1. ASSUME FsInv, Careful, Quiet PROVE Tells(ret, FetchFrom(disk, ret.dir))
  <2>1. Rests
    BY <1>1 DEF FsInv, Quiet, Writes, Fills, Crashed
  <2> QED
    BY <2>1 DEF Rests, Settled
<1>2. FsInv => AnswersAreTrue
  BY <1>1, Zenon DEF AnswersAreTrue, Tells
<1> QED
  BY <1>2, Keeping, PTL
=============================================================================
