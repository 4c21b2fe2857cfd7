------------------------------- MODULE FAT32 --------------------------------
(***************************************************************************)
(* The FAT32 driver of src/src/fat32.c as the kernel runs it: system calls *)
(* come through an interrupt gate, so an operation is never interleaved    *)
(* with another one, but the machine may lose power between any two of the *)
(* cluster writes of an operation.  The step of an operation reads the     *)
(* disk, updates the driver's memory and lines up the disk images that its *)
(* writes will leave behind (todo); each WriteBlocks step makes the next   *)
(* of them the disk.  The operation has returned when todo is empty.       *)
(*                                                                         *)
(* memory.dir_table_buf and memory.cluster_buf are not state: every        *)
(* operation loads or clears them before it looks at them.                 *)
(***************************************************************************)
EXTENDS FATImage

CONSTANTS
  Sizes,            \* the buffer_size of a request; 0 asks for a directory
  SelfRequests,     \* may delete() be given the name of the parent itself
  MaxPowerLosses    \* bound: how often power fails in the midst of writes

ASSUME RequestAssumption ==
  /\ Sizes \subseteq Nat
  /\ SelfRequests \in BOOLEAN
  /\ MaxPowerLosses \in Nat

VARIABLES
  disk,       \* what the disk holds now
  map,        \* memory.fat_table.cluster_map
  mounted,    \* has initialize_filesystem_fat32 been called since power-on
  todo,       \* the disk images after each outstanding write
  op,         \* the last request and what it returned
  losses      \* power losses so far

vars == <<disk, map, mounted, todo, op, losses>>

Calls  == {"none", "format", "read", "read_directory", "write", "delete",
           "lost", "runaway"}
Ops    == [call : Calls, parent : Clusters, name : AllNames, ext : AllExts,
           size : Nat, what : Payloads \cup {"zero"}, ret : {-1, 0, 1, 2},
           out : Seq(Cells)]
NoCall == [call |-> "none", parent |-> 0, name |-> Blank, ext |-> Blank, size |-> 0,
           what |-> "zero", ret |-> 0, out |-> <<>>]

Init ==
  /\ disk = BlankDisk
  /\ map = ZeroMap
  /\ mounted = FALSE
  /\ todo = <<>>
  /\ op = NoCall
  /\ losses = 0

(* The driver waits for a call / all writes of the last call are made.     *)
Quiet == mounted /\ todo = <<>>
Idle  == Quiet /\ op.call = "none"

(* The request of a call together with the value it returns.               *)
Returned(call, parent, n, x, size, p, ret, out) ==
  [call |-> call, parent |-> parent, name |-> n, ext |-> x, size |-> size,
   what |-> p, ret |-> ret, out |-> out]

-----------------------------------------------------------------------------
(* Starting up.                                                            *)

(* Mutated form: the new cluster is never recorded in the FAT.             *)
InitDirectoryTableNoFat(d, m, n, parent) ==
  LET index == Least(EmptyClusters(m, 1))
      self  == DirEntry(n, index)
      above == AddEntry(d.cell[parent].table, self)
      inDir == WriteTable(d, parent, above)
      table == [EmptyTable EXCEPT ![0] = self,
                                  ![1] = [above[0] EXCEPT !.name = ".."]]
  IN  <<d, inDir, WriteTable(inDir, index, table)>>

(* Mutated form: the second entry leads to the new directory itself.       *)
InitDirectoryTableSelfParent(d, m, n, parent) ==
  LET index == Least(EmptyClusters(m, 1))
      self  == DirEntry(n, index)
      inFat == WriteFat(d, [m EXCEPT ![index] = FAT32_FAT_END_OF_FILE])
      above == AddEntry(d.cell[parent].table, self)
      inDir == IF index # ROOT_CLUSTER_NUMBER
                 THEN WriteTable(inFat, parent, above) ELSE inFat
      table == [EmptyTable EXCEPT ![0] = self,
                                  ![1] = [self EXCEPT !.name = ".."]]
  IN  <<inFat, inDir, WriteTable(inDir, index, table)>>

(* init_directory_table(): the images left by recording the new cluster in *)
(* the FAT, entering the directory in its parent, and writing its table.   *)
(* The root has no parent: its second image repeats the first.             *)
InitDirectoryTable(d, m, n, parent) ==
  LET index  == Least(EmptyClusters(m, 1))
      self   == DirEntry(n, index)
      inFat  == WriteFat(d, [m EXCEPT ![index] = FAT32_FAT_END_OF_FILE])
      above  == AddEntry(d.cell[parent].table, self)
      inDir  == IF index # ROOT_CLUSTER_NUMBER
                  THEN WriteTable(inFat, parent, above) ELSE inFat
      up     == IF index # ROOT_CLUSTER_NUMBER THEN above[0] ELSE self
      table  == [EmptyTable EXCEPT ![0] = self, ![1] = [up EXCEPT !.name = ".."]]
  IN  <<inFat, inDir, WriteTable(inDir, index, table)>>

FormatMap ==
  [ZeroMap EXCEPT ![0] = CLUSTER_0_VALUE, ![1] = CLUSTER_1_VALUE]

(* create_fat32(): the signature first, then the FAT, then the root.       *)
FormatImages ==
  LET signed == WriteSignature(disk)
      inFat  == WriteFat(signed, FormatMap)
  IN  <<signed, inFat>>
        \o InitDirectoryTable(inFat, FormatMap, RootName, ROOT_CLUSTER_NUMBER)

(* initialize_filesystem_fat32() of a disk without the signature ...       *)
Format ==
  /\ ~ mounted
  /\ ~ disk.signed
  /\ mounted' = TRUE
  /\ todo' = FormatImages
  /\ map' = [FormatMap EXCEPT ![Least(EmptyClusters(FormatMap, 1))]
                                  = FAT32_FAT_END_OF_FILE]
  /\ op' = [NoCall EXCEPT !.call = "format"]
  /\ UNCHANGED <<disk, losses>>

(* Mutated form: the FAT is not loaded.                                    *)
MountWithoutLoad ==
  /\ ~ mounted
  /\ disk.signed
  /\ mounted' = TRUE
  /\ op' = NoCall
  /\ UNCHANGED <<disk, map, todo, losses>>

(* ... and of one that has it.                                             *)
Mount ==
  /\ ~ mounted
  /\ disk.signed
  /\ mounted' = TRUE
  /\ map' = disk.fat
  /\ op' = NoCall
  /\ UNCHANGED <<disk, todo, losses>>

-----------------------------------------------------------------------------
(* read_directory() and read(): they change nothing but the buffer.        *)

ReadDirectory(parent, n) ==
  /\ Idle
  /\ LET t     == disk.cell[parent].table
         found == IF n = "." THEN {0} ELSE {i \in Slots \ {0} : t[i].name = n}
         reply(ret, out) == Returned("read_directory", parent, n, Blank, 0,
                                     "zero", ret, out)
     IN  \/ /\ found = {}
            /\ op' = reply(2, <<>>)
         \/ /\ found # {}
            /\ op' = reply(0, <<CellAt(disk, t[Least(found)].cluster)>>)
  /\ UNCHANGED <<disk, map, mounted, todo, losses>>

(* The clusters that read() delivers: one more than filesize fills when it *)
(* is a multiple of the cluster size, whatever buffer_size is.             *)
ReadClusters(e) ==
  [j \in 1 .. (e.filesize \div ClusterSize) + 1 |->
     CellAt(disk, Walk(map, e.cluster)[j - 1])]

Read(parent, n, x, size) ==
  /\ Idle
  /\ LET t     == disk.cell[parent].table
         found == SlotsNamed(t, n, x)
         e     == t[Least(found)]
         reply(ret, out) == Returned("read", parent, n, x, size,
                                     "zero", ret, out)
     IN  \/ /\ found = {}
            /\ op' = reply(2, <<>>)
         \/ /\ found # {}
            /\ e.attr = 1 \/ size = 0
            /\ op' = reply(1, <<>>)
         \/ /\ found # {}
            /\ e.attr # 1 /\ size # 0
            /\ op' = reply(0, ReadClusters(e))
  /\ UNCHANGED <<disk, map, mounted, todo, losses>>

-----------------------------------------------------------------------------
(* write(): a file, or a directory when buffer_size is 0.  The directory   *)
(* and the FAT are loaded from the disk first.                             *)

WriteReply(parent, n, x, size, p, ret) ==
  Returned("write", parent, n, x, size, p, ret, <<>>)

CanWrite(parent, n, x) ==
  /\ EmptyClusters(disk.fat, ROOT_CLUSTER_NUMBER + 1) # {}
  /\ disk.cell[parent].table[0].used
  /\ SlotsNamed(disk.cell[parent].table, n, x) = {}

(* The calls that fail before they allocate anything: no cluster left, the *)
(* parent is not a directory, the name is taken, a full parent for mkdir.  *)
WriteRefused(parent, n, x, size) ==
  /\ Idle
  /\ LET t == disk.cell[parent].table
         full == EmptyClusters(disk.fat, ROOT_CLUSTER_NUMBER + 1) = {}
     IN  \/ /\ full \/ ~ t[0].used
            /\ op' = WriteReply(parent, n, x, size, "zero", -1)
         \/ /\ ~ full /\ t[0].used
            /\ SlotsNamed(t, n, x) # {}
            /\ op' = WriteReply(parent, n, x, size, "zero", 1)
         \/ /\ CanWrite(parent, n, x)
            /\ size = 0 /\ FreeSlots(t) = {}
            /\ op' = WriteReply(parent, n, x, size, "zero", -1)
  /\ map' = disk.fat
  /\ UNCHANGED <<disk, mounted, todo, losses>>

(* Mutated form: a full parent is not noticed.                             *)
MakeDirectoryUnchecked(parent, n) ==
  /\ Idle
  /\ CanWrite(parent, n, Blank)
  /\ todo' = InitDirectoryTable(disk, disk.fat, n, parent)
  /\ map' = [disk.fat EXCEPT ![Least(EmptyClusters(disk.fat, 1))]
                                  = FAT32_FAT_END_OF_FILE]
  /\ op' = WriteReply(parent, n, Blank, 0, "zero", 0)
  /\ UNCHANGED <<disk, mounted, losses>>

(* write() of size 0.  The request has no extension: no caller sends one,  *)
(* and init_directory_table() would drop it after the check for the name.  *)
MakeDirectory(parent, n) ==
  /\ Idle
  /\ CanWrite(parent, n, Blank)
  /\ FreeSlots(disk.cell[parent].table) # {}
  /\ todo' = InitDirectoryTable(disk, disk.fat, n, parent)
  /\ map' = [disk.fat EXCEPT ![Least(EmptyClusters(disk.fat, 1))]
                                  = FAT32_FAT_END_OF_FILE]
  /\ op' = WriteReply(parent, n, Blank, 0, "zero", 0)
  /\ UNCHANGED <<disk, mounted, losses>>

(* The clusters a file of this size is given.                              *)
Allocation(size) ==
  Lowest(EmptyClusters(disk.fat, ROOT_CLUSTER_NUMBER + 1), CeilDiv(size))

(* The clusters run out half-way: the links made so far stay in memory.    *)
WriteRunsOut(parent, n, x, size) ==
  /\ Idle
  /\ size > 0
  /\ CanWrite(parent, n, x)
  /\ Cardinality(Allocation(size)) < CeilDiv(size)
  /\ map' = Link(disk.fat, Allocation(size), FAT32_FAT_EMPTY_ENTRY)
  /\ op' = WriteReply(parent, n, x, size, "zero", -1)
  /\ UNCHANGED <<disk, mounted, todo, losses>>

(* Mutated form: every cluster is filled from the start of the buffer.     *)
WithDataNoOffset(d, m, c, p, i) ==
  [d EXCEPT !.cell = [k \in DataClusters |->
     IF \E j \in 0 .. i - 1 : Walk(m, c)[j] = k
       THEN DataCell(p, 1) ELSE d.cell[k]]]

(* The disk after the first i data clusters of the chain from c.           *)
WithData(d, m, c, p, i) ==
  [d EXCEPT !.cell = [k \in DataClusters |->
     IF \E j \in 0 .. i - 1 : Walk(m, c)[j] = k
       THEN DataCell(p, 1 + CHOOSE j \in 0 .. i - 1 : Walk(m, c)[j] = k)
       ELSE d.cell[k]]]

(* Mutated form: the entry reaches the disk before the FAT.                *)
WriteImagesEntryFirst(d, m, c, p, k, parent, t) ==
  LET inDir == WriteTable(WithData(d, m, c, p, k), parent, t)
  IN  [i \in 1 .. k |-> WithData(d, m, c, p, i)]
        \o <<inDir, WriteFat(inDir, m)>>

(* Mutated form: the data reaches the disk last.                           *)
WriteImagesDataLast(d, m, c, p, k, parent, t) ==
  LET inDir == WriteTable(WriteFat(d, m), parent, t)
  IN  <<WriteFat(d, m), inDir>>
        \o [i \in 1 .. k |-> WithData(inDir, m, c, p, i)]

(* The images of a file's write: its data, then the FAT, then its parent.  *)
WriteImages(d, m, c, p, k, parent, t) ==
  LET inFat == WriteFat(WithData(d, m, c, p, k), m)
  IN  [i \in 1 .. k |-> WithData(d, m, c, p, i)]
        \o <<inFat, WriteTable(inFat, parent, t)>>

WriteFile(parent, n, x, size, p) ==
  /\ Idle
  /\ size > 0
  /\ CanWrite(parent, n, x)
  /\ Cardinality(Allocation(size)) >= CeilDiv(size)
  /\ LET first == Least(Allocation(size))
     IN  /\ map' = Link(disk.fat, Allocation(size), FAT32_FAT_END_OF_FILE)
         /\ todo' = WriteImages(disk, map', first, p, CeilDiv(size), parent,
                      AddEntry(disk.cell[parent].table,
                               FileEntry(n, x, size, first)))
  /\ op' = WriteReply(parent, n, x, size, p, 0)
  /\ UNCHANGED <<disk, mounted, losses>>

-----------------------------------------------------------------------------
(* delete(): the directory and the FAT are loaded from the disk first.     *)

DeleteReply(parent, n, x, ret) ==
  Returned("delete", parent, n, x, 0, "zero", ret, <<>>)

(* A request may name the parent itself only if SelfRequests.              *)
MayDelete(parent, n) ==
  SelfRequests \/ n # disk.cell[parent].table[0].name

Occupied(t) == {i \in Slots : i >= 2 /\ t[i].used}

(* The calls that fail: nothing of that name, the root, a directory that   *)
(* is not empty.                                                           *)
DeleteRefused(parent, n, x) ==
  /\ Idle
  /\ LET t     == disk.cell[parent].table
         found == SlotsNamed(t, n, x)
         e     == t[Least(found)]
     IN  \/ /\ found = {}
            /\ op' = DeleteReply(parent, n, x, 1)
         \/ /\ found # {}
            /\ e.cluster = ROOT_CLUSTER_NUMBER
            /\ op' = DeleteReply(parent, n, x, -1)
         \/ /\ found # {}
            /\ e.cluster # ROOT_CLUSTER_NUMBER
            /\ e.filesize = 0
            /\ Occupied(CellAt(disk, e.cluster).table) # {}
            /\ op' = DeleteReply(parent, n, x, 2)
  /\ map' = disk.fat
  /\ UNCHANGED <<disk, mounted, todo, losses>>

(* The images of deleting a directory: its cluster is zeroed, then freed   *)
(* in the FAT, then the entry is cleared.                                  *)
DeleteDirImages(d, c, parent, t) ==
  LET gone  == ZeroClusters(d, {c})
      inFat == WriteFat(gone, [d.fat EXCEPT ![c] = FAT32_FAT_EMPTY_ENTRY])
  IN  <<gone, inFat, WriteTable(inFat, parent, t)>>

(* Mutated form: a directory that is not empty is deleted too.             *)
DeleteDirectoryUnchecked(parent, n, x) ==
  /\ Idle
  /\ MayDelete(parent, n)
  /\ LET t     == disk.cell[parent].table
         found == SlotsNamed(t, n, x)
         e     == t[Least(found)]
     IN  /\ found # {}
         /\ e.cluster # ROOT_CLUSTER_NUMBER
         /\ e.filesize = 0
         /\ todo' = DeleteDirImages(disk, e.cluster, parent,
                                    ClearEntry(t, Least(found)))
         /\ map' = [disk.fat EXCEPT ![e.cluster] = FAT32_FAT_EMPTY_ENTRY]
  /\ op' = DeleteReply(parent, n, x, 0)
  /\ UNCHANGED <<disk, mounted, losses>>

DeleteDirectory(parent, n, x) ==
  /\ Idle
  /\ MayDelete(parent, n)
  /\ LET t     == disk.cell[parent].table
         found == SlotsNamed(t, n, x)
         e     == t[Least(found)]
     IN  /\ found # {}
         /\ e.cluster # ROOT_CLUSTER_NUMBER
         /\ e.filesize = 0
         /\ Occupied(CellAt(disk, e.cluster).table) = {}
         /\ todo' = DeleteDirImages(disk, e.cluster, parent,
                                    ClearEntry(t, Least(found)))
         /\ map' = [disk.fat EXCEPT ![e.cluster] = FAT32_FAT_EMPTY_ENTRY]
  /\ op' = DeleteReply(parent, n, x, 0)
  /\ UNCHANGED <<disk, mounted, losses>>

(* The images of deleting a file: its clusters are zeroed one by one along *)
(* the chain, then the entry is cleared.  The FAT is not written.          *)
DeleteFileImages(d, w, last, parent, t) ==
  LET gone(i) == ZeroClusters(d, {w[j] : j \in 0 .. i - 1})
  IN  [i \in 1 .. last + 1 |-> gone(i)]
        \o <<WriteTable(gone(last + 1), parent, t)>>

(* A chain that has no end is followed out of cluster_map: the step says   *)
(* so in op, and what such a walk destroys is not modelled.                *)
DeleteFile(parent, n, x) ==
  /\ Idle
  /\ LET t     == disk.cell[parent].table
         found == SlotsNamed(t, n, x)
         e     == t[Least(found)]
         ends  == EndsAfter(disk.fat, e.cluster)
     IN  /\ found # {}
         /\ e.cluster # ROOT_CLUSTER_NUMBER
         /\ e.filesize # 0
         /\ \/ /\ ends # {}
               /\ todo' = DeleteFileImages(disk, Walk(disk.fat, e.cluster),
                            Least(ends), parent, ClearEntry(t, Least(found)))
               /\ op' = DeleteReply(parent, n, x, 0)
            \/ /\ ends = {}
               /\ op' = [DeleteReply(parent, n, x, 0) EXCEPT !.call = "runaway"]
               /\ UNCHANGED todo
  /\ map' = disk.fat
  /\ UNCHANGED <<disk, mounted, losses>>

-----------------------------------------------------------------------------
(* The disk and the power.                                                 *)

(* write_blocks(): the next outstanding write reaches the disk.            *)
WriteBlocks ==
  /\ todo # <<>>
  /\ disk' = Head(todo)
  /\ todo' = Tail(todo)
  /\ UNCHANGED <<map, mounted, op, losses>>

(* The call returns to its caller, who has seen its reply.                 *)
Return ==
  /\ Quiet
  /\ op.call \notin {"none", "runaway"}
  /\ op' = NoCall
  /\ UNCHANGED <<disk, map, mounted, todo, losses>>

(* The machine is switched off between two operations ...                  *)
PowerOff ==
  /\ Idle
  /\ mounted' = FALSE
  /\ map' = ZeroMap
  /\ op' = NoCall
  /\ UNCHANGED <<disk, todo, losses>>

(* ... or fails in the middle of one.                                      *)
PowerLoss ==
  /\ todo # <<>>
  /\ losses < MaxPowerLosses
  /\ losses' = losses + 1
  /\ mounted' = FALSE
  /\ map' = ZeroMap
  /\ todo' = <<>>
  /\ op' = [op EXCEPT !.call = "lost"]
  /\ UNCHANGED disk

Next ==
  \/ Format
  \/ Mount
  \/ WriteBlocks
  \/ Return
  \/ PowerOff
  \/ PowerLoss
  \/ \E parent \in DataClusters, n \in Names :
       \/ ReadDirectory(parent, n)
       \/ 0 \in Sizes /\ MakeDirectory(parent, n)
       \/ \E x \in Exts :
            \/ DeleteRefused(parent, n, x)
            \/ DeleteDirectory(parent, n, x)
            \/ DeleteFile(parent, n, x)
            \/ \E size \in Sizes :
                 \/ Read(parent, n, x, size)
                 \/ WriteRefused(parent, n, x, size)
                 \/ WriteRunsOut(parent, n, x, size)
                 \/ \E p \in Payloads : WriteFile(parent, n, x, size, p)

Spec == Init /\ [][Next]_vars

-----------------------------------------------------------------------------
(***************************************************************************)
(* Properties.                                                             *)
(***************************************************************************)

(* The disk once all outstanding writes have been made.                    *)
Settled == IF todo = <<>> THEN disk ELSE todo[Len(todo)]

Directories(d) == {c \in DataClusters : d.cell[c].table[0].used}

(* The entries below a directory, as <<cluster, slot>>, and what they own. *)
Listed(d) == {l \in DataClusters \X (Slots \ {0, 1}) :
                d.cell[l[1]].table[l[2]].used}
EntryAt(d, l) == d.cell[l[1]].table[l[2]]
IsFile(e)  == e.filesize # 0
Owned(d, e) ==
  IF IsFile(e) /\ EndsAfter(d.fat, e.cluster) # {}
    THEN Chain(d.fat, e.cluster) ELSE {e.cluster}
Contents(d, e) ==
  [j \in 1 .. CeilDiv(e.filesize) |->
     CellAt(d, Walk(d.fat, e.cluster)[j - 1]).data]

(* Every variable holds a value of its kind.                               *)
TypeOK ==
  /\ disk \in Disks
  /\ map \in FatMaps
  /\ mounted \in BOOLEAN
  /\ todo \in Seq(Disks)
  /\ op \in Ops
  /\ losses \in 0 .. MaxPowerLosses

(* The links of a FAT only lead to higher clusters, so following them from *)
(* a data cluster comes to an end.                                         *)
Ascending(m) ==
  \A c \in DataClusters :
    \/ m[c] \in {FAT32_FAT_EMPTY_ENTRY, FAT32_FAT_END_OF_FILE}
    \/ m[c] \in DataClusters /\ m[c] > c

(* The chains that write() makes never turn back, in the driver's memory,  *)
(* on the disk and in every write still to come, whatever is deleted and   *)
(* wherever the power fails: the loops of read() and delete() cannot cycle. *)
ChainsAscend ==
  /\ Ascending(map)
  /\ Ascending(disk.fat)
  /\ \A i \in 1 .. Len(todo) : Ascending(todo[i].fat)

(* At every moment the chain of each file on the disk has an end and just  *)
(* the clusters that its filesize needs: write() updates the FAT before it *)
(* makes the entry, so that a failure in between loses no cluster of a     *)
(* file that is already listed.                                            *)
ChainsWhole ==
  \A l \in Listed(disk) :
    LET e == EntryAt(disk, l) IN
    IsFile(e) =>
      /\ EndsAfter(disk.fat, e.cluster) # {}
      /\ Least(EndsAfter(disk.fat, e.cluster)) + 1 = CeilDiv(e.filesize)

(* No cluster belongs to two entries, and none of the root, at any moment: *)
(* allocation in write() and init_directory_table() only takes clusters    *)
(* that no entry leads to.                                                 *)
NothingShared ==
  \A l1, l2 \in Listed(disk) :
    /\ ROOT_CLUSTER_NUMBER \notin Owned(disk, EntryAt(disk, l1))
    /\ l1 # l2 => Owned(disk, EntryAt(disk, l1))
                    \cap Owned(disk, EntryAt(disk, l2)) = {}

(* The allocated clusters of a listed entry are marked in the FAT.         *)
EntryWhole(d, l) ==
  LET e == EntryAt(d, l)
      t == d.cell[e.cluster].table
  IN  /\ l[1] \in Directories(d)
      /\ \A c \in Owned(d, e) : d.fat[c] # FAT32_FAT_EMPTY_ENTRY
      /\ ~ IsFile(e) =>
           /\ d.fat[e.cluster] = FAT32_FAT_END_OF_FILE
           /\ t[0] = e
           /\ t[1].used /\ t[1].name = ".." /\ t[1].cluster = l[1]

(* Between operations the directories form a tree: an entry made by mkdir  *)
(* leads to a table whose first entry is that entry and whose second one   *)
(* leads back to the parent, and each directory but the root is entered.   *)
TreeWhole ==
  Quiet =>
    /\ ROOT_CLUSTER_NUMBER \in Directories(disk)
    /\ \A l \in Listed(disk) : EntryWhole(disk, l)
    /\ \A c \in Directories(disk) \ {ROOT_CLUSTER_NUMBER} :
         \E l \in Listed(disk) :
           ~ IsFile(EntryAt(disk, l)) /\ EntryAt(disk, l).cluster = c

(* A power loss in the middle of an operation, the first there is, hurts   *)
(* at most the entry that the operation names: every other one is whole,   *)
(* and no directory is cut off from the tree.                              *)
LossConfined ==
  op.call = "lost" =>
    /\ \A l \in Listed(disk) :
         LET e == EntryAt(disk, l) IN
         <<l[1], e.name, e.ext>> # <<op.parent, op.name, op.ext>> =>
           EntryWhole(disk, l)
    /\ \A c \in Directories(disk) \ {ROOT_CLUSTER_NUMBER} :
         \E l \in Listed(disk) :
           ~ IsFile(EntryAt(disk, l)) /\ EntryAt(disk, l).cluster = c

(* Whenever the power fails, a listed file holds what one write() stored,  *)
(* except that an interrupted delete() has zeroed its first clusters: a    *)
(* file never shows data of another file or of an unfinished write.        *)
WholeOrErased ==
  \A l \in Listed(disk) :
    LET e == EntryAt(disk, l) IN
    IsFile(e) =>
      \E p \in Payloads, k \in 0 .. CeilDiv(e.filesize) :
        Contents(disk, e) =
          [j \in 1 .. CeilDiv(e.filesize) |->
             IF j <= k THEN NoData ELSE [what |-> p, part |-> j]]

(* Between operations the FAT in memory, which read() follows without      *)
(* loading it, agrees with the disk on every allocated cluster, also after *)
(* a write() that ran out of clusters and left its links in memory.        *)
MemoryAgrees ==
  Quiet => \A c \in Clusters :
            disk.fat[c] # FAT32_FAT_EMPTY_ENTRY => map[c] = disk.fat[c]

(* The loop of delete() over a chain always meets the end of the file.     *)
NoRunaway == op.call # "runaway"

(* No write to the disk, in whatever operation, touches a file that the    *)
(* running call does not name: the file keeps its entry and its contents.  *)
WritesConfined ==
  [][disk' # disk => \A l \in Listed(disk) :
       LET e == EntryAt(disk, l) IN
       IsFile(e) /\ <<l[1], e.name, e.ext>> # <<op'.parent, op'.name, op'.ext>> =>
         /\ l \in Listed(disk')
         /\ EntryAt(disk', l) = e
         /\ Contents(disk', e) = Contents(disk, e)]_vars

-----------------------------------------------------------------------------
(* The file store that the driver implements.                              *)

(* What a file with this payload and size holds, cluster by cluster.       *)
StoredAs(p, size) == [j \in 1 .. CeilDiv(size) |-> [what |-> p, part |-> j]]

(* The directory and the name of an entry, and what it leads to.           *)
Key(d, l) == <<l[1], EntryAt(d, l).name, EntryAt(d, l).ext>>
ValueOf(d, e) ==
  IF IsFile(e)
    THEN [file |-> TRUE, contents |-> Contents(d, e), dir |-> 0]
    ELSE [file |-> FALSE, contents |-> <<>>, dir |-> e.cluster]

(* The directories of a disk with their names, and its entries.            *)
DirsOf(d)  == [c \in Directories(d) |-> d.cell[c].table[0].name]
StoreOf(d) ==
  [k \in {Key(d, l) : l \in Listed(d)} |->
     ValueOf(d, EntryAt(d, CHOOSE l \in Listed(d) : Key(d, l) = k))]

(* The refinement mapping: the directories and entries of the disk with    *)
(* all outstanding writes made, so that an operation takes effect in its   *)
(* first step and the writes themselves change nothing.                    *)
MappedDirs  == DirsOf(Settled)
MappedStore == StoreOf(Settled)
MappedReply == [op EXCEPT !.out = [j \in 1 .. Len(op.out) |-> op.out[j].data]]

Store == INSTANCE FileStore WITH
  Handles <- DataClusters, Root <- ROOT_CLUSTER_NUMBER,
  Capacity <- DirSlots - 2,
  FileNames <- AllNames, Whole <- StoredAs,
  dirs <- MappedDirs, store <- MappedStore, reply <- MappedReply

(* The driver implements the file store: a call that returns 0 has done    *)
(* what it was asked and nothing else, except a file for a full directory, *)
(* which write() forgets, a file is read back as it was written, and       *)
(* switching the machine off and on loses nothing.                         *)
ImplementsStore == Store!Spec

=============================================================================
