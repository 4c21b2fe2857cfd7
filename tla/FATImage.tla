------------------------------ MODULE FATImage ------------------------------
(***************************************************************************)
(* The on-disk format of the FAT32 file system of src/src/fat32.c and      *)
(* what single disk writes do to it.  There are no variables here: a disk  *)
(* image is a value, and the driver (module FAT32) turns each of its       *)
(* operations into the sequence of images its write_clusters calls leave   *)
(* behind.                                                                 *)
(*                                                                         *)
(* A cluster that holds file data, read as a directory table, has no entry *)
(* whose user_attribute is UATTR_NOT_EMPTY and none with a name of Names;  *)
(* this is the only assumption made about file contents.  Cluster numbers  *)
(* are stored in an entry as cluster_high and cluster_low and always put   *)
(* back together; the model keeps the number they stand for.               *)
(***************************************************************************)
EXTENDS Integers, Sequences, FiniteSets

CONSTANTS
  ClusterMapSize,   \* CLUSTER_MAP_SIZE: clusters on the disk (512)
  ClusterSize,      \* CLUSTER_SIZE: bytes of a cluster (2048)
  DirSlots,         \* directory entries in one cluster (64)
  Names,            \* the names that requests carry
  Exts,             \* the extensions that requests carry
  Payloads,         \* what a caller may store in a file
  RootName          \* the 8 bytes that create_fat32 copies from "root"

Blank                 == "blank"        \* a name or extension of zeros
FAT_CLUSTER_NUMBER    == 1
ROOT_CLUSTER_NUMBER   == 2
FAT32_FAT_EMPTY_ENTRY == 0
FAT32_FAT_END_OF_FILE == 268435455      \* 0x0FFFFFFF
CLUSTER_0_VALUE       == 268435440      \* 0x0FFFFFF0
CLUSTER_1_VALUE       == 268435455      \* 0x0FFFFFFF
ATTR_SUBDIRECTORY     == 16

(* A disk has a boot sector, a FAT cluster, a root and room for a file; a  *)
(* table has the entry of the directory itself and that of its parent.     *)
(* A name of the shell may also be empty.  mkdir's is refused by write(),  *)
(* which finds a free slot with that name (or no free slot); what the      *)
(* other calls make of it is in ShellCommands.                             *)
ASSUME GeometryAssumption ==
  /\ ClusterMapSize \in Nat /\ ClusterMapSize > 3
  /\ ClusterMapSize < CLUSTER_0_VALUE
  /\ ClusterSize \in Nat \ {0}
  /\ DirSlots \in Nat /\ DirSlots > 1
  /\ Blank \notin Names

Clusters     == 0 .. ClusterMapSize - 1
DataClusters == ROOT_CLUSTER_NUMBER .. ClusterMapSize - 1
Slots        == 0 .. DirSlots - 1

(* struct FAT32FileAllocationTable: the value of a cluster_map cell.       *)
FatValues == Clusters \cup {CLUSTER_0_VALUE, FAT32_FAT_END_OF_FILE}
FatMaps   == [Clusters -> FatValues]
ZeroMap   == [c \in Clusters |-> FAT32_FAT_EMPTY_ENTRY]

(* struct FAT32DirectoryEntry; used says that user_attribute is            *)
(* UATTR_NOT_EMPTY.                                                        *)
AllNames == Names \cup {Blank, ".", "..", RootName}
AllExts  == Exts \cup {Blank}
Entries  == [name : AllNames, ext : AllExts, attr : {0, ATTR_SUBDIRECTORY},
             used : BOOLEAN, filesize : Nat, cluster : Clusters]
EmptyEntry == [name |-> Blank, ext |-> Blank, attr |-> 0, used |-> FALSE,
               filesize |-> 0, cluster |-> 0]

(* Mutated form: the value of user_attribute lands in attribute.           *)
DirEntryWrongAttribute(n, c) ==
  [name |-> n, ext |-> Blank, attr |-> 170, used |-> TRUE,
   filesize |-> 0, cluster |-> c]

DirEntry(n, c) ==
  [name |-> n, ext |-> Blank, attr |-> ATTR_SUBDIRECTORY, used |-> TRUE,
   filesize |-> 0, cluster |-> c]
FileEntry(n, x, size, c) ==
  [name |-> n, ext |-> x, attr |-> 0, used |-> TRUE,
   filesize |-> size, cluster |-> c]

(* struct FAT32DirectoryTable.                                             *)
Tables     == [Slots -> Entries]
EmptyTable == [i \in Slots |-> EmptyEntry]

(* What one cluster holds: a directory table, or the part-th cluster of    *)
(* what a caller stored.  Part 0 is no data: a zeroed cluster.             *)
NoData    == [what |-> "zero", part |-> 0]
Stray     == [what |-> "stray", part |-> 0]   \* a read outside the data area
Datas     == {NoData, Stray}
               \cup [what : Payloads, part : Nat]
Cells     == [table : Tables, data : Datas]
ZeroCell  == [table |-> EmptyTable, data |-> NoData]
TableCell(t)   == [table |-> t, data |-> NoData]
DataCell(p, i) == [table |-> EmptyTable,
                   data  |-> [what |-> p, part |-> i]]
StrayCell == [table |-> EmptyTable, data |-> Stray]

(* The disk: the signature in the boot sector, cluster 1, and the rest.    *)
Disks     == [signed : BOOLEAN, fat : FatMaps, cell : [DataClusters -> Cells]]
BlankDisk == [signed |-> FALSE, fat |-> ZeroMap,
              cell |-> [c \in DataClusters |-> ZeroCell]]

(* The writes of the driver: each is one write_blocks or write_clusters.   *)
WriteSignature(d)   == [d EXCEPT !.signed = TRUE]
WriteFat(d, m)      == [d EXCEPT !.fat = m]
WriteTable(d, c, t) == [d EXCEPT !.cell[c] = TableCell(t)]
ZeroClusters(d, S)  == [d EXCEPT !.cell =
  [c \in DataClusters |-> IF c \in S THEN ZeroCell ELSE d.cell[c]]]

-----------------------------------------------------------------------------
(* Searching and filling tables.                                           *)

Least(S) == CHOOSE i \in S : \A j \in S : i <= j

SlotsNamed(t, n, x) == {i \in Slots : t[i].name = n /\ t[i].ext = x}
FreeSlots(t)        == {i \in Slots : ~ t[i].used}

(* Mutated form: on a full table the search stops at the last slot.        *)
AddEntryOverwriting(t, e) ==
  IF FreeSlots(t) = {} THEN [t EXCEPT ![DirSlots - 1] = e]
  ELSE [t EXCEPT ![Least(FreeSlots(t))] = e]

(* Filling the first free slot.  With no slot free, write() runs past the  *)
(* table into cluster_buf, so the table that reaches the disk is unchanged. *)
AddEntry(t, e) ==
  IF FreeSlots(t) = {} THEN t ELSE [t EXCEPT ![Least(FreeSlots(t))] = e]

ClearEntry(t, i) == [t EXCEPT ![i] = EmptyEntry]

-----------------------------------------------------------------------------
(* Allocating clusters and following chains.                               *)

(* ceil() of a quotient: the clusters that size bytes need.                *)
CeilDiv(size) == (size + ClusterSize - 1) \div ClusterSize

EmptyClusters(m, from) ==
  {c \in from .. ClusterMapSize - 1 : m[c] = FAT32_FAT_EMPTY_ENTRY}

(* The k lowest members of a set of clusters, all of it if it is smaller.  *)
Lowest(S, k) == {c \in S : Cardinality({d \in S : d < c}) < k}

(* Mutated forms: each cluster is linked to the one before it / the last   *)
(* one is left empty.                                                      *)
LinkBackwards(m, A, last) ==
  [c \in Clusters |->
     IF c \notin A THEN m[c]
     ELSE IF \E d \in A : d < c THEN Least({d \in A : d < c}) ELSE last]
LinkWithoutEnd(m, A, last) ==
  [c \in Clusters |->
     IF c \notin A \/ ~ \E d \in A : d > c THEN m[c]
     ELSE Least({d \in A : d > c})]

(* Linking a set of clusters in ascending order: each to the next one, the *)
(* highest to last.                                                        *)
Link(m, A, last) ==
  [c \in Clusters |->
     IF c \notin A THEN m[c]
     ELSE IF \E d \in A : d > c THEN Least({d \in A : d > c}) ELSE last]

(* The clusters met when following cluster_map from c; Walk(m, c)[i] is    *)
(* the cluster reached after i links.  A number outside the map stays put. *)
Walk(m, c) ==
  LET w[i \in 0 .. ClusterMapSize] ==
        IF i = 0 THEN c
        ELSE IF w[i - 1] \in Clusters THEN m[w[i - 1]] ELSE w[i - 1]
  IN  w

(* The links after which the walk is at the end of the chain, if any.      *)
EndsAfter(m, c) ==
  {i \in 0 .. ClusterMapSize - 1 :
     /\ Walk(m, c)[i] \in DataClusters
     /\ m[Walk(m, c)[i]] = FAT32_FAT_END_OF_FILE}

(* The clusters of a chain that does end.                                  *)
Chain(m, c) == {Walk(m, c)[i] : i \in 0 .. Least(EndsAfter(m, c))}

(* read_clusters() of any number at all.                                   *)
CellAt(d, c) == IF c \in DataClusters THEN d.cell[c] ELSE StrayCell
=============================================================================
