----------------------------- MODULE FileSystem -----------------------------
(***************************************************************************)
(* The Nachos file system: FileSystem (filesys/filesys.cc), the on-disk    *)
(* FileHeader (filesys/filehdr.cc) and Directory (filesys/directory.cc).   *)
(*                                                                         *)
(* The disk is a function from sectors to tagged contents: a header, an    *)
(* index block, a slice of a directory table, the free map or data.  An    *)
(* operation runs in memory in one step and leaves its sector writes, in   *)
(* the code's order, in "pending"; they reach the disk one at a time (each *)
(* one is atomic: module SynchDisk), so a crash can fall between any two.  *)
(*                                                                         *)
(* Of file data there is only that it is no header, index block or table:  *)
(* a sector of it is "raw".  Sizes count sectors.  BitMap and its file are *)
(* external (threads/bitmap.cc is not in the repository).                  *)
(***************************************************************************)
EXTENDS Integers, FiniteSets, Sequences, FiniteSetsExt, Functions

CONSTANTS
    NumSectors,       \* disk.h, 1024
    NumDirect,        \* pointers of a FileHeader, 30
    FanOut,           \* SectorSize / sizeof(int), pointers of an index block, 32
    NumDirEntries,    \* entries of a directory, "." and ".." included, 10
    EntriesPerSector, \* directory entries that fit in a sector, 8
    Names,            \* the names a client uses, besides "." and ".."
    Sizes,            \* the file sizes a client asks for, in sectors
    Clients           \* a set of clients, each given by its bad habits

AllHabits == {"overcommit",        \* creates what the disk has no room for
              "oversize",          \* asks for more than a header can address
              "removeAsFile",      \* calls Remove on a directory
              "removeDots",        \* calls RemoveDirectory on "." or ".."
              "enterFile",         \* calls ChangeDirectory on a file
              "writeDirectory",    \* opens a directory and writes to it
              "useAfterCrash"}     \* goes on using a disk after a crash

DivRoundUp(n, k) == (n + k - 1) \div k

Sector == 0 .. NumSectors - 1
NoSector == -1
FreeMapSector == 0
RootSector == 1
DirSectors == DivRoundUp(NumDirEntries, EntriesPerSector)

ASSUME SizesAssumption ==
    /\ NumDirect \in Nat /\ FanOut \in Nat \ {0} /\ EntriesPerSector \in Nat \ {0}
    /\ NumDirEntries \in Nat /\ NumDirEntries >= 2 /\ DirSectors <= NumDirect
    /\ NumSectors \in Nat /\ NumSectors >= 3 + DirSectors
    /\ Sizes \subseteq Nat /\ Clients \subseteq SUBSET AllHabits

VARIABLES
    disk,         \* [Sector -> content]
    currentDir,   \* FileSystem::currentDir, its table
    pending,      \* the sector writes of the operation in progress
    status,       \* "running", "recovered", "aborted" or "undefined"
    ret,          \* the last operation, its directory, name and result
    habits        \* the client's

vars == <<disk, currentDir, pending, status, ret, habits>>
-----------------------------------------------------------------------------
(* Contents of a sector.  A FileHeader is the same struct for a file, whose *)
(* pointers lead to index blocks, and for a directory, whose pointers lead *)
(* to its data: nothing on disk tells them apart but the directory entry.  *)
Raw == [kind |-> "raw"]
FileHeader(n, ptrs) == [kind |-> "hdr", numSectors |-> n, dataSectors |-> ptrs]
IndexBlock(ptrs) == [kind |-> "index", dataSectors |-> ptrs]
MapBlock(free) == [kind |-> "map", free |-> free]
SliceIndexes(k) == {i \in 0 .. NumDirEntries - 1 : i \div EntriesPerSector = k - 1}
DirSlice(k, table) ==
    [kind |-> "dir", slice |-> k, entries |-> [i \in SliceIndexes(k) |-> table[i]]]

Write(sector, content) == [sector |-> sector, content |-> content]
Apply(d, writes) ==
    [s \in DOMAIN d |->
        LET hits == {i \in DOMAIN writes : writes[i].sector = s}
        IN IF hits = {} THEN d[s] ELSE writes[Max(hits)].content]
-----------------------------------------------------------------------------
(* BitMap.  Find() marks and returns the first clear sector, -1 if none    *)
(* is clear; Nth is what the k-th of a series of calls returns.            *)
Nth(free, k) ==
    IF k > Cardinality(free) THEN NoSector
    ELSE CHOOSE s \in free : Cardinality({t \in free : t < s}) = k - 1
AfterFinds(free, k) == {s \in free : Cardinality({t \in free : t < s}) >= k}
-----------------------------------------------------------------------------
(* Mutant: the first data block is skipped over.                           *)
DirectoryBlocksShifted(free) == [k \in 1 .. DirSectors |-> Nth(free, k + 1)]

(* FileHeader::AllocateDirectory: its pointers lead to the data.           *)
DirectoryFits(free) == Cardinality(free) >= DirSectors
DirectoryBlocks(free) == [k \in 1 .. DirSectors |-> Nth(free, k)]

(* FileHeader::Allocate: for each index block one Find() for the block and *)
(* one for each pointer in it.  The test before the loop counts the data   *)
(* blocks only, so a Find() may return -1.                                 *)
IndexCount(n) == DivRoundUp(n, FanOut)
NumClearSuffices(free, n) == Cardinality(free) >= n
IndexPointers(free, n) ==
    [j \in 1 .. IndexCount(n) |-> Nth(free, (j - 1) * (FanOut + 1) + 1)]
DataPointers(free, n, j) ==
    [i \in 1 .. Min({FanOut, n - (j - 1) * FanOut}) |->
        Nth(free, (j - 1) * (FanOut + 1) + 1 + i)]
IndexWrites(free, n) ==
    [j \in 1 .. IndexCount(n) |->
        Write(IndexPointers(free, n)[j], IndexBlock(DataPointers(free, n, j)))]
AfterAllocate(free, n) == AfterFinds(free, n + IndexCount(n))

(* Allocate writes each block before it goes on to the next one, so these  *)
(* are written when WriteSector(-1, ...) stops it.                         *)
BeforeAbort(free, n) ==
    LET missing == {j \in 1 .. IndexCount(n) : IndexPointers(free, n)[j] = NoSector}
    IN [j \in 1 .. Min(missing) - 1 |-> IndexWrites(free, n)[j]]

(* FileHeader::Deallocate: the condition of its inner loop is false at     *)
(* once (i != 0 fails for the first i), so only index blocks are cleared.  *)
Deallocate(hdr, free) ==
    free \cup {hdr.dataSectors[j] : j \in 1 .. IndexCount(hdr.numSectors)}

(* FileHeader::DeallocateDirectory clears numSectors pointers.             *)
DeallocateDirectory(hdr, free) ==
    free \cup {hdr.dataSectors[j] : j \in 1 .. hdr.numSectors}
-----------------------------------------------------------------------------
(* Directory.  An entry that is not in use keeps nothing that is read      *)
(* again, except the sector of "." and "..".                               *)
Entry(name, isDir, sector) ==
    [name |-> name, inUse |-> TRUE, isDir |-> isDir, sector |-> sector]
FreeEntry == [name |-> "", inUse |-> FALSE, isDir |-> FALSE, sector |-> NoSector]

CurrentDirectoryIndex == 0
ParentDirectoryIndex == 1
NewDirectory(self, parent) ==
    [i \in 0 .. NumDirEntries - 1 |->
        CASE i = CurrentDirectoryIndex -> Entry(".", TRUE, self)
          [] i = ParentDirectoryIndex -> Entry("..", TRUE, parent)
          [] OTHER -> FreeEntry]

getSector(table) == table[CurrentDirectoryIndex].sector
Matches(table, name) == {i \in DOMAIN table : table[i].inUse /\ table[i].name = name}
InDirectory(table, name) == Matches(table, name) # {}
FindIndex(table, name) == Min(Matches(table, name))
FreeIndexes(table) == {i \in 2 .. NumDirEntries - 1 : ~table[i].inUse}
isEmpty(table) == \A i \in 2 .. NumDirEntries - 1 : ~table[i].inUse

(* Directory::Add and Directory::AddDirectory, once a free index exists.   *)
Add(table, name, isDir, sector) ==
    [table EXCEPT ![Min(FreeIndexes(table))] = Entry(name, isDir, sector)]

(* setInUseOfIndex(i, FALSE).                                              *)
Unuse(table, i) ==
    [table EXCEPT ![i] = IF i < 2 THEN [table[i] EXCEPT !.inUse = FALSE] ELSE FreeEntry]

(* OpenFile on a directory's header, and the transfer of its table.        *)
IsHeader(d, s) ==
    s \in Sector /\ d[s].kind = "hdr"
IsDirectoryHeader(d, s) ==
    IsHeader(d, s) /\ Len(d[s].dataSectors) >= DirSectors
IsDirectory(d, s) ==
    /\ IsDirectoryHeader(d, s)
    /\ \A k \in 1 .. DirSectors :
         LET c == d[d[s].dataSectors[k]] IN c.kind = "dir" /\ c.slice = k
FetchFrom(d, s) ==
    [i \in 0 .. NumDirEntries - 1 |->
        d[d[s].dataSectors[(i \div EntriesPerSector) + 1]].entries[i]]

(* Mutant: only the first sector of the table is written.                  *)
WriteBackFirst(d, s, table) == <<Write(d[s].dataSectors[1], DirSlice(1, table))>>

WriteBack(d, s, table) ==
    [k \in 1 .. DirSectors |-> Write(d[s].dataSectors[k], DirSlice(k, table))]
-----------------------------------------------------------------------------
(* FileSystem::FileSystem(TRUE): the two headers, the map's block and the  *)
(* root's blocks are the first sectors the map gives out.                  *)
MapDataSector == 2
SystemSectors == 0 .. 2 + DirSectors

(* Mutant: the free map's header is not marked.                            *)
FormatUnmarked ==
    [s \in Sector |->
        CASE s = FreeMapSector -> FileHeader(1, <<MapDataSector>>)
          [] s = RootSector -> FileHeader(DirSectors, [k \in 1 .. DirSectors |-> 2 + k])
          [] s = MapDataSector -> MapBlock((Sector \ SystemSectors) \cup {FreeMapSector})
          [] s \in 3 .. 2 + DirSectors -> DirSlice(s - 2, NewDirectory(RootSector, RootSector))
          [] OTHER -> Raw]

Format ==
    [s \in Sector |->
        CASE s = FreeMapSector -> FileHeader(1, <<MapDataSector>>)
          [] s = RootSector -> FileHeader(DirSectors, [k \in 1 .. DirSectors |-> 2 + k])
          [] s = MapDataSector -> MapBlock(Sector \ SystemSectors)
          [] s \in 3 .. 2 + DirSectors -> DirSlice(s - 2, NewDirectory(RootSector, RootSector))
          [] OTHER -> Raw]

Init ==
    /\ disk = Format
    /\ currentDir = NewDirectory(RootSector, RootSector)
    /\ pending = <<>>
    /\ status = "running"
    /\ ret = [op |-> "format", dir |-> RootSector, name |-> "", value |-> ""]
    /\ habits \in Clients

FreeMap(d) == d[MapDataSector].free
FlushMap(free) == <<Write(MapDataSector, MapBlock(free))>>
-----------------------------------------------------------------------------
(* An operation starts when the previous one has written everything.       *)
Ready ==
    /\ pending = <<>>
    /\ status = "running" \/ (status = "recovered" /\ "useAfterCrash" \in habits)

Returns(op, name, value) ==
    ret' = [op |-> op, dir |-> getSector(currentDir), name |-> name, value |-> value]

Fails(op, name, value) ==
    Returns(op, name, value) /\ UNCHANGED <<disk, currentDir, pending, status, habits>>

(* An ASSERT ends Nachos, after these writes.                              *)
Aborts(writes) ==
    status' = "aborted" /\ pending' = writes /\ UNCHANGED <<disk, currentDir, ret, habits>>

(* A sector was read as what it does not hold.  The code goes on with the  *)
(* bytes it found, and may write any sector on account of them: whichever  *)
(* one it is, it is lost, and nothing is known of what comes after.        *)
Lost ==
    /\ status' = "undefined"
    /\ \E s \in Sector : disk' = [disk EXCEPT ![s] = Raw]
Misreads == Lost /\ UNCHANGED <<currentDir, pending, ret, habits>>

Flushes(writes) == pending' = writes /\ UNCHANGED <<disk, status, habits>>
-----------------------------------------------------------------------------
(* FileSystem::Create.  The entry goes into currentDir before the blocks   *)
(* are allocated, and stays there when the allocation fails.               *)
CreateReachesAllocate(name) ==
    /\ ~InDirectory(currentDir, name)
    /\ FreeMap(disk) # {}
    /\ FreeIndexes(currentDir) # {}

CreateIsSensible(name, n) ==
    LET rest == AfterFinds(FreeMap(disk), 1) IN
    CreateReachesAllocate(name) =>
        /\ "overcommit" \in habits \/ Cardinality(rest) >= n + IndexCount(n)
        /\ "oversize" \in habits \/ IndexCount(n) <= NumDirect

(* The blocks Create writes before it opens the current directory: index   *)
(* blocks and header.                                                      *)
NewFile(n) ==
    LET rest == AfterFinds(FreeMap(disk), 1) IN
    Append(IndexWrites(rest, n),
           Write(Nth(FreeMap(disk), 1), FileHeader(n, IndexPointers(rest, n))))

(* Mutant: the free map is not flushed.                                    *)
CreateWritesNoMap(name, n) ==
    NewFile(n)
    \o WriteBack(Apply(disk, NewFile(n)), getSector(currentDir),
                 Add(currentDir, name, FALSE, Nth(FreeMap(disk), 1)))

(* All the writes of a successful Create, in order.                        *)
CreateWrites(name, n) ==
    NewFile(n)
    \o WriteBack(Apply(disk, NewFile(n)), getSector(currentDir),
                 Add(currentDir, name, FALSE, Nth(FreeMap(disk), 1)))
    \o FlushMap(AfterAllocate(AfterFinds(FreeMap(disk), 1), n))

Create(name, n) ==
    LET sector == Nth(FreeMap(disk), 1)
        rest == AfterFinds(FreeMap(disk), 1)
        aborts == \E j \in 1 .. Min({IndexCount(n), NumDirect}) :
                     IndexPointers(rest, n)[j] = NoSector
        usable == /\ IndexCount(n) <= NumDirect
                  /\ IsDirectoryHeader(Apply(disk, NewFile(n)), getSector(currentDir))
    IN
    /\ Ready
    /\ CreateIsSensible(name, n)
    /\ \/ /\ ~CreateReachesAllocate(name)
          /\ Fails("Create", name, "FALSE")
       \/ /\ CreateReachesAllocate(name)
          /\ ~NumClearSuffices(rest, n)
          /\ currentDir' = Add(currentDir, name, FALSE, sector)
          /\ Returns("Create", name, "FALSE")
          /\ UNCHANGED <<disk, pending, status, habits>>
       \/ /\ CreateReachesAllocate(name)
          /\ NumClearSuffices(rest, n)
          /\ \/ aborts /\ Aborts(BeforeAbort(rest, n))
             \/ ~aborts /\ ~usable /\ Misreads
             \/ /\ ~aborts /\ usable
                /\ currentDir' = Add(currentDir, name, FALSE, sector)
                /\ Returns("Create", name, "TRUE")
                /\ Flushes(CreateWrites(name, n))

(* FileSystem::Remove, which does not ask whether the entry is a file.     *)
Remove(name) ==
    \/ /\ Ready
       /\ ~InDirectory(currentDir, name)
       /\ Fails("Remove", name, "FALSE")
    \/ /\ Ready
       /\ InDirectory(currentDir, name)
       /\ LET i == FindIndex(currentDir, name)
              sector == currentDir[i].sector
              readable == IsHeader(disk, sector)
                          /\ IsDirectoryHeader(disk, getSector(currentDir))
          IN
          /\ "removeAsFile" \in habits \/ ~currentDir[i].isDir
          /\ \/ ~readable /\ Misreads
             \/ /\ readable
                /\ currentDir' = Unuse(currentDir, i)
                /\ Returns("Remove", name, "TRUE")
                /\ Flushes(FlushMap(Deallocate(disk[sector], FreeMap(disk)) \cup {sector})
                           \o WriteBack(disk, getSector(currentDir), Unuse(currentDir, i)))

(* FileSystem::CreateDirectory.                                            *)
NewDirHeader == <<Write(Nth(FreeMap(disk), 1),
                        FileHeader(DirSectors, DirectoryBlocks(AfterFinds(FreeMap(disk), 1))))>>

ParentWrites(name) ==
    WriteBack(Apply(disk, NewDirHeader), getSector(currentDir),
              Add(currentDir, name, TRUE, Nth(FreeMap(disk), 1)))

(* Mutant: the new directory's table is not written.                       *)
CreateDirectoryWritesNoTable(name) ==
    NewDirHeader \o ParentWrites(name)
    \o FlushMap(AfterFinds(FreeMap(disk), 1 + DirSectors))

(* The header, the current directory, the new directory's table and the    *)
(* free map, in this order.                                                *)
CreateDirectoryWrites(name) ==
    LET sector == Nth(FreeMap(disk), 1)
        before == NewDirHeader \o ParentWrites(name)
    IN before
       \o WriteBack(Apply(disk, before), sector,
                    NewDirectory(sector, getSector(currentDir)))
       \o FlushMap(AfterFinds(FreeMap(disk), 1 + DirSectors))

CreateDirectory(name) ==
    LET sector == Nth(FreeMap(disk), 1)
        enough == DirectoryFits(AfterFinds(FreeMap(disk), 1))
        usable == /\ IsDirectoryHeader(Apply(disk, NewDirHeader), getSector(currentDir))
                  /\ IsDirectoryHeader(Apply(disk, NewDirHeader \o ParentWrites(name)), sector)
    IN
    /\ Ready
    /\ \/ /\ InDirectory(currentDir, name)
          /\ Fails("CreateDirectory", name, "-2")
       \/ /\ ~InDirectory(currentDir, name)
          /\ FreeMap(disk) = {} \/ FreeIndexes(currentDir) = {}
          /\ Fails("CreateDirectory", name, "-1")
       \/ /\ CreateReachesAllocate(name)
          /\ ~enough
          /\ "overcommit" \in habits
          /\ currentDir' = Add(currentDir, name, TRUE, sector)
          /\ Returns("CreateDirectory", name, "-1")
          /\ UNCHANGED <<disk, pending, status, habits>>
       \/ /\ CreateReachesAllocate(name)
          /\ enough
          /\ \/ ~usable /\ Misreads
             \/ /\ usable
                /\ currentDir' = Add(currentDir, name, TRUE, sector)
                /\ Returns("CreateDirectory", name, "0")
                /\ Flushes(CreateDirectoryWrites(name))

(* FileSystem::RemoveDirectory, which tests whether the CURRENT directory, *)
(* as it is on disk, is empty.                                             *)
RemoveDirectory(name) ==
    \/ /\ Ready
       /\ ~InDirectory(currentDir, name)
       /\ Fails("RemoveDirectory", name, "-2")
    \/ /\ Ready
       /\ InDirectory(currentDir, name)
       /\ "removeDots" \in habits \/ name \notin {".", ".."}
       /\ LET i == FindIndex(currentDir, name)
              sector == currentDir[i].sector
              current == getSector(currentDir)
              empty == IsDirectory(disk, current) /\ isEmpty(FetchFrom(disk, current))
              readable == /\ IsHeader(disk, sector)
                          /\ disk[sector].numSectors <= Len(disk[sector].dataSectors)
              marked == \A j \in 1 .. disk[sector].numSectors :
                           disk[sector].dataSectors[j] \notin FreeMap(disk)
          IN
          \/ /\ IsDirectory(disk, current) /\ ~empty
             /\ Fails("RemoveDirectory", name, "-1")
          \/ /\ ~IsDirectory(disk, current) \/ (empty /\ ~readable)
             /\ Misreads
          \/ /\ empty /\ readable /\ ~marked          \* ASSERT(freeMap->Test(...))
             /\ Aborts(<<>>)
          \/ /\ empty /\ readable /\ marked
             /\ currentDir' = Unuse(currentDir, i)
             /\ Returns("RemoveDirectory", name, "0")
             /\ Flushes(FlushMap(DeallocateDirectory(disk[sector], FreeMap(disk)) \cup {sector})
                        \o WriteBack(disk, current, Unuse(currentDir, i)))

(* FileSystem::ChangeDirectory, which does not ask whether it is one.      *)
ChangeDirectory(name) ==
    \/ /\ Ready
       /\ ~InDirectory(currentDir, name)
       /\ Fails("ChangeDirectory", name, "-1")
    \/ /\ Ready
       /\ InDirectory(currentDir, name)
       /\ LET i == FindIndex(currentDir, name)
              sector == currentDir[i].sector
          IN
          /\ "enterFile" \in habits \/ currentDir[i].isDir
          /\ \/ ~IsDirectory(disk, sector) /\ Misreads
             \/ /\ IsDirectory(disk, sector)
                /\ currentDir' = FetchFrom(disk, sector)
                /\ Returns("ChangeDirectory", name, "0")
                /\ UNCHANGED <<disk, pending, status, habits>>

(* FileHeader::ByteToSector, of a file's i-th sector: which of the index   *)
(* blocks its pointer is in, and where.                                    *)
IndexNumber(i) == ((i - 1) \div FanOut) + 1
IndexOffset(i) == ((i - 1) % FanOut) + 1
HasPointer(d, hdr, i) ==
    LET block == d[hdr.dataSectors[IndexNumber(i)]]
    IN block.kind = "index" /\ IndexOffset(i) <= Len(block.dataSectors)
ByteToSector(d, hdr, i) == d[hdr.dataSectors[IndexNumber(i)]].dataSectors[IndexOffset(i)]

(* FileSystem::Open, which looks the name up on the disk, and              *)
(* OpenFile::WriteAt of the file's i-th sector.                            *)
WriteAt(name, i) ==
    LET current == getSector(currentDir)
        table == FetchFrom(disk, current)
        entry == table[FindIndex(table, name)]
        hdr == disk[entry.sector]
        sector == ByteToSector(disk, hdr, i)
    IN
    /\ Ready
    /\ \/ /\ ~IsDirectory(disk, current)
          /\ Misreads
       \/ /\ IsDirectory(disk, current)
          /\ InDirectory(table, name)
          /\ "writeDirectory" \in habits \/ ~entry.isDir
          /\ \/ ~IsHeader(disk, entry.sector) /\ Misreads
             \/ /\ IsHeader(disk, entry.sector)
                /\ i <= hdr.numSectors
                /\ \/ ~HasPointer(disk, hdr, i) /\ Misreads
                   \/ HasPointer(disk, hdr, i) /\ sector = NoSector /\ Aborts(<<>>)
                   \/ /\ HasPointer(disk, hdr, i)
                      /\ sector # NoSector
                      /\ Flushes(<<Write(sector, Raw)>>)
                      /\ UNCHANGED <<currentDir, ret>>

(* The next write of the operation in progress reaches the disk.           *)
WriteSector ==
    /\ pending # <<>>
    /\ disk' = Apply(disk, <<Head(pending)>>)
    /\ pending' = Tail(pending)
    /\ UNCHANGED <<currentDir, status, ret, habits>>

(* Nachos stops and starts again on the same disk, FileSystem(FALSE): the  *)
(* root becomes the current directory.  In the middle of an operation it   *)
(* loses the writes that are still to come; or an ASSERT has ended it.     *)
Mount(how) ==
    /\ pending' = <<>>
    /\ \/ /\ IsDirectory(disk, RootSector)
          /\ currentDir' = FetchFrom(disk, RootSector)
          /\ status' = how
          /\ UNCHANGED disk
       \/ /\ ~IsDirectory(disk, RootSector)
          /\ Lost
          /\ UNCHANGED currentDir
    /\ UNCHANGED <<ret, habits>>

Restart == Ready /\ Mount(status)
Crash == (pending # <<>> \/ status = "aborted") /\ Mount("recovered")

Stopped ==
    /\ pending = <<>>
    /\ ~Ready
    /\ UNCHANGED vars

(* A call of the client.                                                   *)
Operation ==
    \/ \E name \in Names, n \in Sizes : Create(name, n)
    \/ \E name \in Names : CreateDirectory(name)
    \/ \E name \in Names \cup {".", ".."} :
         \/ Remove(name)
         \/ RemoveDirectory(name)
         \/ ChangeDirectory(name)
         \/ \E i \in 1 .. NumSectors : WriteAt(name, i)

Next ==
    \/ Operation
    \/ WriteSector
    \/ Restart
    \/ Crash
    \/ Stopped

Spec == Init /\ [][Next]_vars
-----------------------------------------------------------------------------
(* What is reachable from the root on disk d, leaving out the entry of the *)
(* operation t is the record of.                                           *)
Listed(d, s, t) ==
    IF ~IsDirectory(d, s) THEN {}
    ELSE {[dir |-> s, entry |-> FetchFrom(d, s)[i], index |-> i] :
             i \in {j \in 2 .. NumDirEntries - 1 :
                      LET e == FetchFrom(d, s)[j] IN
                      e.inUse /\ ~(s = t.dir /\ e.name = t.name)}}

Dirs(d, t) ==
    LET level[k \in 0 .. NumSectors \div (1 + DirSectors)] ==
            IF k = 0 THEN {RootSector}
            ELSE level[k - 1] \cup
                 {x.entry.sector : x \in {y \in UNION {Listed(d, s, t) : s \in level[k - 1]} :
                                             y.entry.isDir}}
    IN level[NumSectors \div (1 + DirSectors)]

Objects(d, t) == UNION {Listed(d, s, t) : s \in Dirs(d, t)}

NoTarget == [dir |-> NoSector, name |-> ""]

(* An object is well formed: a directory can be read, and links to itself  *)
(* and to the directory that lists it; a file's index blocks can be read,  *)
(* and have a pointer for each of its sectors.                             *)
WellFormed(d, x) ==
    LET s == x.entry.sector IN
    IF x.entry.isDir
    THEN /\ IsDirectory(d, s)
         /\ FetchFrom(d, s)[0] = Entry(".", TRUE, s)
         /\ FetchFrom(d, s)[1] = Entry("..", TRUE, x.dir)
    ELSE /\ IsHeader(d, s)
         /\ Len(d[s].dataSectors) = IndexCount(d[s].numSectors)
         /\ \A j \in DOMAIN d[s].dataSectors : d[d[s].dataSectors[j]].kind = "index"
         /\ \A i \in 1 .. d[s].numSectors : HasPointer(d, d[s], i)

(* The sectors an object occupies, in a sequence.                          *)
Blocks(d, x) ==
    LET s == x.entry.sector
        hdr == d[s]
    IN <<s>> \o hdr.dataSectors
       \o IF x.entry.isDir THEN <<>>
          ELSE [i \in 1 .. hdr.numSectors |->
                  d[hdr.dataSectors[((i - 1) \div FanOut) + 1]].dataSectors[((i - 1) % FanOut) + 1]]

Occupied(d, x) == {Blocks(d, x)[i] : i \in DOMAIN Blocks(d, x)}

(* The objects are well formed, no sector belongs to two of them or twice  *)
(* to one, none is a sector of the free map or of the root directory, and  *)
(* all are marked in the free map.                                         *)
Consistent(d, t) ==
    /\ IsDirectory(d, RootSector)
    /\ \A x \in Objects(d, t) :
         /\ WellFormed(d, x)
         /\ Cardinality(Occupied(d, x)) = Len(Blocks(d, x))
         /\ Occupied(d, x) \subseteq Sector \ (SystemSectors \cup FreeMap(d))
         /\ \A y \in Objects(d, t) : x # y => Occupied(d, x) \cap Occupied(d, y) = {}

Careful == habits = {}
Quiet == status = "running" /\ pending = <<>>
-----------------------------------------------------------------------------
TypeOK ==
    /\ DOMAIN disk = Sector
    /\ \A s \in Sector : disk[s].kind \in {"raw", "hdr", "index", "dir", "map"}
    /\ DOMAIN currentDir = 0 .. NumDirEntries - 1
    /\ getSector(currentDir) \in Sector
    /\ \A i \in DOMAIN pending : pending[i].sector \in Sector
    /\ status # "undefined" => FreeMap(disk) \subseteq Sector
    /\ status \in {"running", "recovered", "aborted", "undefined"}

(* Between two operations of a careful client the disk is consistent: no   *)
(* file or directory shares a sector with another or with the system's     *)
(* own, and every sector in use is marked, whatever was created, removed   *)
(* and entered before and wherever Nachos was restarted.                   *)
ConsistentAtRest == Careful /\ Quiet => Consistent(disk, NoTarget)

(* currentDir, the only copy the operations consult, agrees with the disk, *)
(* and is a directory that the root leads to.                              *)
CurrentDirCoherent ==
    Careful /\ Quiet =>
        /\ getSector(currentDir) \in Dirs(disk, NoTarget)
        /\ currentDir = FetchFrom(disk, getSector(currentDir))

(* A careful client never meets an ASSERT, and never makes the file system *)
(* read a sector as something it does not hold.                            *)
NeverDies == Careful => status \in {"running", "recovered"}

(* Wherever in an operation of a careful client Nachos stops, all that can *)
(* be lost is the entry the operation was about: every other object is     *)
(* still reachable, whole and marked on the disk.                          *)
CrashHurtsOnlyTarget == Careful => Consistent(disk, ret)

(* What an operation of a careful client returned is true of the disk,     *)
(* once it has written: an object that was created is listed in its        *)
(* directory, as what it is, and one that was removed is not.              *)
AnswersAreTrue ==
    LET table == FetchFrom(disk, ret.dir)
        listed == {table[i].isDir : i \in Matches(table, ret.name)}
    IN  Careful /\ Quiet =>
        /\ ret.op = "Create" /\ ret.value = "TRUE" => listed = {FALSE}
        /\ ret.op = "CreateDirectory" /\ ret.value = "0" => listed = {TRUE}
        /\ ret.op = "Remove" /\ ret.value = "TRUE" => listed = {}

(* Until the file system first reads a sector as what it does not hold,    *)
(* and whatever the client's habits, the free map's header and block hold  *)
(* what they should and stay marked in it: a full disk, a removed          *)
(* directory, an operation that was cut off or the data of two files in    *)
(* one sector cannot cost the map.  Of what comes after nothing is said.   *)
FreeMapProtected ==
  status # "undefined" =>
    /\ disk[FreeMapSector] = FileHeader(1, <<MapDataSector>>)
    /\ disk[MapDataSector].kind = "map"
    /\ {FreeMapSector, MapDataSector} \cap FreeMap(disk) = {}

(* The inductive invariant of FreeMapProtected: no entry, no header and no *)
(* write that is still to come leads to the two sectors, but the map's own *)
(* header and the writes of the map.                                       *)
Protected == {FreeMapSector, MapDataSector}
Unprotected == Sector \ Protected
CleanEntry == [name : Names \cup {"", ".", ".."}, inUse : BOOLEAN, isDir : BOOLEAN,
               sector : Unprotected \cup {NoSector}]
CleanTable(table) == table \in [0 .. NumDirEntries - 1 -> CleanEntry]
CleanMap(content) == content.kind = "map" /\ content.free \subseteq Unprotected
Clean(content) ==
    /\ content.kind = "hdr" =>
         /\ content.numSectors \in Nat
         /\ content.dataSectors \in Seq(Unprotected)
         /\ IndexCount(content.numSectors) <= Len(content.dataSectors)
    /\ content.kind = "index" => content.dataSectors \in Seq(Unprotected \cup {NoSector})
    /\ content.kind = "dir" => content.entries \in [SliceIndexes(content.slice) -> CleanEntry]
SafeDisk(d) ==
    /\ DOMAIN d = Sector
    /\ d[FreeMapSector] = FileHeader(1, <<MapDataSector>>)
    /\ CleanMap(d[MapDataSector])
    /\ \A s \in Unprotected : Clean(d[s])
SafeWrite(w) ==
    \/ w.sector \in Unprotected /\ Clean(w.content)
    \/ w.sector = MapDataSector /\ CleanMap(w.content)
SafeWrites(writes) ==
    writes \in Seq(Range(writes)) /\ \A w \in Range(writes) : SafeWrite(w)
MapInv == SafeDisk(disk) /\ CleanTable(currentDir) /\ SafeWrites(pending)
-----------------------------------------------------------------------------
(* "De-allocate all the space allocated for data blocks for this file"     *)
(* (filehdr.cc:94): between operations a sector no object occupies is free.*)
NoSectorLeaks ==
    Quiet => Sector \ SystemSectors =
             FreeMap(disk) \cup UNION {Occupied(disk, x) : x \in Objects(disk, NoTarget)}
=============================================================================
