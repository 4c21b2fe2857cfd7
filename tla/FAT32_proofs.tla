---------------------------- MODULE FAT32_proofs ----------------------------
(***************************************************************************)
(* Proofs about the FAT32 driver, for every disk geometry and every set of *)
(* requests: types, chains that only lead upwards, the FAT in memory.  The *)
(* second half is about disk images: chains, what is true of an image, and *)
(* what each kind of write makes of it (used by FAT32_tree_proofs).        *)
(***************************************************************************)
EXTENDS FAT32, SequenceTheorems, FiniteSetTheorems, WellFoundedInduction,
        TLAPS

-----------------------------------------------------------------------------
(* Induction over the natural numbers, and functions that are defined by   *)
(* recursion over them, in the form in which proofs about loops use them:  *)
(* with a set or a function in the place of a predicate or an operator.    *)

(* A nonempty set of natural numbers has a least member.                   *)
LEMMA LeastNumber ==
  ASSUME NEW S \in SUBSET Nat, S # {}
  PROVE  \E x \in S : \A y \in S : x <= y
<1> DEFINE Less == {p \in Nat \X Nat : p[1] < p[2]}
<1>1. IsWellFoundedOn(Less, Nat)
  BY NatLessThanWellFounded DEF OpToRel
<1> HIDE DEF Less
<1>2. PICK x \in S : \A y \in S : ~ (<<y, x>> \in Less)
  BY <1>1, WFMin
<1>3. ASSUME NEW y \in S PROVE x <= y
  <2>1. x \in Nat /\ y \in Nat
    OBVIOUS
  <2>2. y < x => <<y, x>> \in Less
    BY <2>1 DEF Less
  <2>3. QED
    BY <1>2, <2>1, <2>2
<1>4. QED
  BY <1>3

(* A set that has 0 and with each number below N the next one has all      *)
(* numbers up to N.                                                        *)
LEMMA UpTo ==
  ASSUME NEW N \in Nat, NEW S, 0 \in S,
         \A n \in 0 .. N - 1 : n \in S => n + 1 \in S
  PROVE  \A n \in 0 .. N : n \in S
<1> DEFINE Bad == {n \in 0 .. N : n \notin S}
<1>1. SUFFICES ASSUME Bad # {} PROVE FALSE
  OBVIOUS
<1>2. Bad \in SUBSET Nat
  OBVIOUS
<1>3. PICK x \in Bad : \A y \in Bad : x <= y
  BY <1>1, <1>2, LeastNumber
<1>4. x \in 0 .. N /\ x \notin S /\ x # 0
  BY <1>3
<1>5. x - 1 \in 0 .. N - 1 /\ x - 1 \in 0 .. N /\ ~ (x <= x - 1)
  BY <1>4
<1>6. x - 1 \in S
  BY <1>3, <1>5
<1>7. (x - 1) + 1 \in S
  BY <1>5, <1>6
<1>8. (x - 1) + 1 = x
  BY <1>4
<1>9. QED
  BY <1>4, <1>7, <1>8

(* A function on 0 .. N with values in X that starts with a and goes on by *)
(* the given step.                                                         *)
Recursion(f, N, X, a, step) ==
  /\ f \in [0 .. N -> X]
  /\ f[0] = a
  /\ \A n \in 1 .. N : f[n] = step[<<f[n - 1], n>>]

(* There is such a function.                                               *)
LEMMA RecursionExists ==
  ASSUME NEW N \in Nat, NEW X, NEW a \in X,
         NEW step \in [X \X (1 .. N) -> X]
  PROVE  \E f : Recursion(f, N, X, a, step)
<1> DEFINE Fits(f, k) == f[0] = a /\ \A n \in 1 .. k : f[n] = step[<<f[n - 1], n>>]
           S == {k \in 0 .. N : \E f \in [0 .. k -> X] : Fits(f, k)}
<1>1. 0 \in S
  <2> DEFINE f == [n \in 0 .. 0 |-> a]
  <2>1. f \in [0 .. 0 -> X] /\ f[0] = a
    OBVIOUS
  <2>2. \A n \in 1 .. 0 : FALSE
    OBVIOUS
  <2>3. Fits(f, 0)
    BY <2>1, <2>2
  <2> HIDE DEF f, Fits
  <2>4. \E h \in [0 .. 0 -> X] : Fits(h, 0)
    BY <2>1, <2>3
  <2>5. 0 \in 0 .. N
    OBVIOUS
  <2>6. QED
    BY <2>4, <2>5
<1>2. ASSUME NEW k \in 0 .. N - 1, k \in S PROVE k + 1 \in S
  <2>1. PICK f \in [0 .. k -> X] : Fits(f, k)
    BY <1>2
  <2> DEFINE g == [n \in 0 .. k + 1 |->
                     IF n = k + 1 THEN step[<<f[k], k + 1>>] ELSE f[n]]
  <2>2. step[<<f[k], k + 1>>] \in X
    OBVIOUS
  <2>3. g \in [0 .. k + 1 -> X]
    BY <2>2
  <2>4. g[0] = a
    BY <2>1
  <2>5. ASSUME NEW n \in 1 .. k + 1 PROVE g[n] = step[<<g[n - 1], n>>]
    <3>1. CASE n = k + 1
      <4>1. g[n] = step[<<f[k], k + 1>>] /\ g[k] = f[k] /\ n - 1 = k
        BY <3>1
      <4>2. QED
        BY <3>1, <4>1, Zenon
    <3>2. CASE n # k + 1
      <4>1. n \in 1 .. k /\ n - 1 \in 0 .. k /\ n \in 0 .. k
        BY <3>2
      <4>2. g[n] = f[n] /\ g[n - 1] = f[n - 1]
        BY <3>2, <4>1
      <4>3. QED
        BY <2>1, <4>1, <4>2
    <3>3. QED
      BY <3>1, <3>2
  <2> HIDE DEF g
  <2>6. Fits(g, k + 1)
    BY <2>4, <2>5
  <2>7. k + 1 \in 0 .. N
    OBVIOUS
  <2>8. QED
    BY <2>3, <2>6, <2>7
<1> HIDE DEF S
<1>3. \A k \in 0 .. N : k \in S
  BY <1>1, <1>2, UpTo
<1>4. N \in S
  BY <1>3
<1>5. QED
  BY <1>4 DEF S, Recursion

-----------------------------------------------------------------------------
(* Numbers and sequences.                                                  *)

(* A non-empty set of natural numbers has a least member, and Least, the   *)
(* first index that a search loop of the driver finds, is that member.     *)
LEMMA LeastProperties ==
  ASSUME NEW S \in SUBSET Nat, S # {}
  PROVE  /\ Least(S) \in S
         /\ \A j \in S : Least(S) <= j
BY LeastNumber DEF Least

(* ceil() of a size is a natural number.                                   *)
LEMMA CeilDivNat ==
  ASSUME NEW size \in Nat
  PROVE  CeilDiv(size) \in Nat
<1>1. size + ClusterSize - 1 \in Nat /\ ClusterSize \in Nat \ {0}
  BY GeometryAssumption
<1>2. \A a \in Nat, b \in Nat \ {0} : a \div b \in Nat
  OBVIOUS
<1>3. QED
  BY <1>1, <1>2 DEF CeilDiv

(* A size that is not zero needs at least one cluster.                     *)
LEMMA CeilDivPositive ==
  ASSUME NEW size \in Nat, size > 0
  PROVE  CeilDiv(size) >= 1
<1>1. /\ size + ClusterSize - 1 \in Nat /\ ClusterSize \in Nat \ {0}
      /\ size + ClusterSize - 1 >= ClusterSize
  BY GeometryAssumption
<1>2. \A a \in Nat, b \in Nat \ {0} : a >= b => a \div b >= 1
  OBVIOUS
<1>3. QED
  BY <1>1, <1>2 DEF CeilDiv

(* Appending two images to a list of images.                               *)
LEMMA AppendImages ==
  ASSUME NEW S, NEW s \in Seq(S), NEW a \in S, NEW b \in S
  PROVE  /\ s \o <<a>> \in Seq(S)
         /\ s \o <<a, b>> \in Seq(S)
         /\ Len(s \o <<a>>) = Len(s) + 1
         /\ Len(s \o <<a, b>>) = Len(s) + 2
         /\ \A i \in 1 .. Len(s) + 1 :
              (s \o <<a>>)[i] = IF i <= Len(s) THEN s[i] ELSE a
         /\ \A i \in 1 .. Len(s) + 2 :
              (s \o <<a, b>>)[i] = IF i <= Len(s) THEN s[i]
                                   ELSE IF i = Len(s) + 1 THEN a ELSE b
<1>1. <<a>> \in Seq(S) /\ <<a, b>> \in Seq(S)
  OBVIOUS
<1>2. Len(<<a>>) = 1 /\ Len(<<a, b>>) = 2
  OBVIOUS
<1>3. Len(s) \in Nat
  BY LenProperties
<1>4. /\ s \o <<a>> \in Seq(S)
      /\ Len(s \o <<a>>) = Len(s) + 1
      /\ \A i \in 1 .. Len(s) + 1 :
           (s \o <<a>>)[i] = IF i <= Len(s) THEN s[i] ELSE <<a>>[i - Len(s)]
  BY <1>1, <1>2, ConcatProperties
<1>5. /\ s \o <<a, b>> \in Seq(S)
      /\ Len(s \o <<a, b>>) = Len(s) + 2
      /\ \A i \in 1 .. Len(s) + 2 :
           (s \o <<a, b>>)[i] = IF i <= Len(s) THEN s[i]
                                ELSE <<a, b>>[i - Len(s)]
  BY <1>1, <1>2, ConcatProperties
<1>6. QED
  BY SMTT(30), <1>3, <1>4, <1>5

-----------------------------------------------------------------------------
(* The parts of a disk image have their types.                             *)

(* The empty FAT, entry, table, cell and disk have their types.            *)
LEMMA EmptyTypes ==
  /\ EmptyEntry \in Entries
  /\ EmptyTable \in Tables
  /\ ZeroCell \in Cells
  /\ StrayCell \in Cells
  /\ ZeroMap \in FatMaps
  /\ FormatMap \in FatMaps
  /\ BlankDisk \in Disks
<1>1. 0 \in Clusters /\ 1 \in Clusters
  BY GeometryAssumption DEF Clusters
<1>2. EmptyEntry \in Entries
  BY <1>1 DEF EmptyEntry, Entries, AllNames, AllExts
<1>3. EmptyTable \in Tables
  BY <1>2 DEF EmptyTable, Tables
<1>4. ZeroCell \in Cells /\ StrayCell \in Cells
  BY <1>3 DEF ZeroCell, StrayCell, Cells, NoData, Stray, Datas
<1>5. ZeroMap \in FatMaps
  BY <1>1 DEF ZeroMap, FatMaps, FatValues, FAT32_FAT_EMPTY_ENTRY
<1>6. FormatMap \in FatMaps
  BY <1>1, <1>5 DEF FormatMap, FatMaps, FatValues, CLUSTER_0_VALUE,
                    CLUSTER_1_VALUE, FAT32_FAT_END_OF_FILE
<1>7. BlankDisk \in Disks
  BY <1>4, <1>5 DEF BlankDisk, Disks
<1>8. QED
  BY <1>2, <1>3, <1>4, <1>5, <1>6, <1>7

(* Slots and cluster numbers are natural numbers.                          *)
LEMMA SlotTypes ==
  /\ 0 \in Slots /\ 1 \in Slots
  /\ Slots \subseteq Nat
  /\ Clusters \subseteq Nat
  /\ DataClusters \subseteq Clusters
  BY GeometryAssumption DEF Slots, Clusters, DataClusters, ROOT_CLUSTER_NUMBER

(* The entries that mkdir and write() make are entries.                    *)
LEMMA EntryTypes ==
  ASSUME NEW n \in AllNames, NEW x \in AllExts, NEW size \in Nat,
         NEW c \in Clusters
  PROVE  DirEntry(n, c) \in Entries /\ FileEntry(n, x, size, c) \in Entries
  BY DEF DirEntry, FileEntry, Entries, AllExts, ATTR_SUBDIRECTORY

(* Adding an entry to a table and clearing one give a table.               *)
LEMMA TableTypes ==
  ASSUME NEW t \in Tables, NEW e \in Entries, NEW i
  PROVE  AddEntry(t, e) \in Tables /\ ClearEntry(t, i) \in Tables
<1>1. ClearEntry(t, i) \in Tables
  BY EmptyTypes DEF ClearEntry, Tables
<1>2. AddEntry(t, e) \in Tables
  BY DEF AddEntry, Tables
<1>3. QED
  BY <1>1, <1>2

(* A single write gives a disk again, and reading it gives a cell.         *)
LEMMA DiskTypes ==
  ASSUME NEW d \in Disks, NEW m \in FatMaps, NEW t \in Tables, NEW c, NEW S
  PROVE  /\ WriteSignature(d) \in Disks
         /\ WriteFat(d, m) \in Disks
         /\ WriteTable(d, c, t) \in Disks
         /\ ZeroClusters(d, S) \in Disks
         /\ CellAt(d, c) \in Cells
<1>1. TableCell(t) \in Cells
  BY DEF TableCell, Cells, Datas
<1>2. WriteSignature(d) \in Disks /\ WriteFat(d, m) \in Disks
  BY DEF WriteSignature, WriteFat, Disks
<1>3. WriteTable(d, c, t) \in Disks
  BY <1>1 DEF WriteTable, Disks
<1>4. ZeroClusters(d, S) \in Disks
  BY EmptyTypes DEF ZeroClusters, Disks
<1>5. CellAt(d, c) \in Cells
  BY EmptyTypes DEF CellAt, Disks
<1>6. QED
  BY <1>2, <1>3, <1>4, <1>5
(* A search for an empty cluster that succeeds gives a cluster number.     *)
LEMMA EmptyClusterTypes ==
  ASSUME NEW m, NEW from \in Nat, EmptyClusters(m, from) # {}
  PROVE  /\ Least(EmptyClusters(m, from)) \in Clusters
         /\ m[Least(EmptyClusters(m, from))] = FAT32_FAT_EMPTY_ENTRY
<1>1. EmptyClusters(m, from) \in SUBSET Nat
  BY GeometryAssumption DEF EmptyClusters
<1>2. Least(EmptyClusters(m, from)) \in EmptyClusters(m, from)
  BY <1>1, LeastProperties
<1>3. QED
  BY <1>2, GeometryAssumption DEF EmptyClusters, Clusters

(* Marking a cluster and linking a set of clusters give a FAT again.       *)
LEMMA MapTypes ==
  ASSUME NEW m \in FatMaps, NEW c, NEW A \in SUBSET DataClusters,
         NEW last \in {FAT32_FAT_EMPTY_ENTRY, FAT32_FAT_END_OF_FILE}
  PROVE  /\ [m EXCEPT ![c] = last] \in FatMaps
         /\ Link(m, A, last) \in FatMaps
<1>1. last \in FatValues
  BY GeometryAssumption DEF FatValues, Clusters, FAT32_FAT_EMPTY_ENTRY
<1>2. ASSUME NEW b \in Clusters
      PROVE  Link(m, A, last)[b] \in FatValues
  <2>1. CASE b \notin A
    BY <2>1 DEF Link, FatMaps
  <2>2. CASE b \in A /\ ~ \E d \in A : d > b
    BY <2>2, <1>1 DEF Link
  <2>3. CASE b \in A /\ \E d \in A : d > b
    <3>1. {d \in A : d > b} \in SUBSET Nat /\ {d \in A : d > b} # {}
      BY <2>3, SlotTypes
    <3>2. Least({d \in A : d > b}) \in A
      BY <3>1, LeastProperties
    <3>3. QED
      BY <2>3, <3>2, SlotTypes DEF Link, FatValues
  <2>4. QED
    BY <2>1, <2>2, <2>3
<1>3. QED
  BY <1>1, <1>2 DEF FatMaps, Link

(* The images of init_directory_table() are disks.                         *)
LEMMA InitDirectoryTableTypes ==
  ASSUME NEW d \in Disks, NEW m \in FatMaps, NEW n \in AllNames,
         NEW parent \in DataClusters, EmptyClusters(m, 1) # {}
  PROVE  InitDirectoryTable(d, m, n, parent) \in Seq(Disks)
<1> DEFINE index  == Least(EmptyClusters(m, 1))
           self   == DirEntry(n, index)
           m2     == [m EXCEPT ![index] = FAT32_FAT_END_OF_FILE]
           inFat  == WriteFat(d, m2)
           above  == AddEntry(d.cell[parent].table, self)
           inDir  == IF index # ROOT_CLUSTER_NUMBER
                       THEN WriteTable(inFat, parent, above) ELSE inFat
           up     == IF index # ROOT_CLUSTER_NUMBER THEN above[0] ELSE self
           table  == [EmptyTable EXCEPT ![0] = self,
                                        ![1] = [up EXCEPT !.name = ".."]]
<1>1. index \in Clusters
  BY EmptyClusterTypes
<1> HIDE DEF index
<1>2. self \in Entries
  BY <1>1, EntryTypes DEF AllExts
<1> HIDE DEF self
<1>3. d.cell[parent].table \in Tables
  BY DEF Disks, Cells
<1>4. above \in Tables
  BY <1>2, <1>3, TableTypes
<1> HIDE DEF above
<1>5. m2 \in FatMaps
  BY MapTypes
<1> HIDE DEF m2
<1>6. inFat \in Disks
  BY <1>5, DiskTypes, EmptyTypes
<1> HIDE DEF inFat
<1>7. inDir \in Disks
  BY <1>4, <1>6, DiskTypes
<1> HIDE DEF inDir
<1>8. up \in Entries
  BY <1>2, <1>4, SlotTypes DEF Tables
<1> HIDE DEF up
<1>9. [up EXCEPT !.name = ".."] \in Entries
  BY <1>8 DEF Entries, AllNames
<1>10. table \in Tables
  BY <1>2, <1>9, EmptyTypes DEF Tables
<1> HIDE DEF table
<1>11. WriteTable(inDir, index, table) \in Disks
  BY <1>7, <1>10, DiskTypes
<1>12. InitDirectoryTable(d, m, n, parent)
         = <<inFat, inDir, WriteTable(inDir, index, table)>>
  BY DEF InitDirectoryTable, index, self, m2, inFat, above, inDir, up, table
<1>13. QED
  BY <1>6, <1>7, <1>11, <1>12

(* So are the images of create_fat32().                                    *)
LEMMA FormatTypes ==
  ASSUME disk \in Disks
  PROVE  /\ FormatImages \in Seq(Disks)
         /\ EmptyClusters(FormatMap, 1) # {}
<1>1. 2 \in EmptyClusters(FormatMap, 1)
  BY GeometryAssumption DEF EmptyClusters, FormatMap, ZeroMap, Clusters
<1>2. WriteSignature(disk) \in Disks
  BY DiskTypes, EmptyTypes
<1>3. WriteFat(WriteSignature(disk), FormatMap) \in Disks
  BY <1>2, DiskTypes, EmptyTypes
<1>4. ROOT_CLUSTER_NUMBER \in DataClusters /\ RootName \in AllNames
  BY GeometryAssumption DEF DataClusters, ROOT_CLUSTER_NUMBER, AllNames
<1>5. InitDirectoryTable(WriteFat(WriteSignature(disk), FormatMap), FormatMap,
                         RootName, ROOT_CLUSTER_NUMBER) \in Seq(Disks)
  BY <1>1, <1>3, <1>4, EmptyTypes, InitDirectoryTableTypes
<1>6. <<WriteSignature(disk), WriteFat(WriteSignature(disk), FormatMap)>>
        \in Seq(Disks)
  BY <1>2, <1>3
<1>7. QED
  BY <1>1, <1>5, <1>6, ConcatProperties DEF FormatImages

(* A disk with some of a file's data written is a disk.                    *)
LEMMA WithDataTypes ==
  ASSUME NEW d \in Disks, NEW m, NEW c, NEW p \in Payloads, NEW i \in Nat
  PROVE  WithData(d, m, c, p, i) \in Disks
<1>1. ASSUME NEW j \in Nat PROVE DataCell(p, j) \in Cells
  BY EmptyTypes DEF DataCell, Cells, Datas
<1>2. ASSUME NEW b \in DataClusters,
             \E j \in 0 .. i - 1 : Walk(m, c)[j] = b
      PROVE  DataCell(p, 1 + CHOOSE j \in 0 .. i - 1 : Walk(m, c)[j] = b)
               \in Cells
  <2>1. (CHOOSE j \in 0 .. i - 1 : Walk(m, c)[j] = b) \in 0 .. i - 1
    BY <1>2
  <2>2. QED
    BY <1>1, <2>1
<1>3. QED
  BY <1>2 DEF WithData, Disks

(* The images of a file's write and of the two kinds of delete.            *)
LEMMA WriteImagesTypes ==
  ASSUME NEW d \in Disks, NEW m \in FatMaps, NEW c, NEW p \in Payloads,
         NEW k \in Nat, NEW parent, NEW t \in Tables
  PROVE  WriteImages(d, m, c, p, k, parent, t) \in Seq(Disks)
<1>1. \A i \in Nat : WithData(d, m, c, p, i) \in Disks
  BY WithDataTypes
<1> DEFINE inFat == WriteFat(WithData(d, m, c, p, k), m)
<1>2. inFat \in Disks
  BY <1>1, DiskTypes
<1>3. WriteTable(inFat, parent, t) \in Disks
  BY <1>2, DiskTypes
<1>4. [i \in 1 .. k |-> WithData(d, m, c, p, i)] \in Seq(Disks)
  BY <1>1
<1>5. WriteImages(d, m, c, p, k, parent, t)
        = [i \in 1 .. k |-> WithData(d, m, c, p, i)]
            \o <<inFat, WriteTable(inFat, parent, t)>>
  BY DEF WriteImages
<1> HIDE DEF inFat
<1>6. QED
  BY <1>2, <1>3, <1>4, <1>5, AppendImages

(* The images of deleting a directory and a file are disks.                *)
LEMMA DeleteImagesTypes ==
  ASSUME NEW d \in Disks, NEW c, NEW parent, NEW t \in Tables, NEW w,
         NEW last \in Nat
  PROVE  /\ DeleteDirImages(d, c, parent, t) \in Seq(Disks)
         /\ DeleteFileImages(d, w, last, parent, t) \in Seq(Disks)
<1>1. DeleteDirImages(d, c, parent, t) \in Seq(Disks)
  <2> DEFINE gone  == ZeroClusters(d, {c})
             m2    == [d.fat EXCEPT ![c] = FAT32_FAT_EMPTY_ENTRY]
             inFat == WriteFat(gone, m2)
  <2>1. gone \in Disks
    BY DiskTypes, EmptyTypes
  <2>2. m2 \in FatMaps
    BY MapTypes DEF Disks
  <2>3. inFat \in Disks
    BY <2>1, <2>2, DiskTypes
  <2>4. WriteTable(inFat, parent, t) \in Disks
    BY <2>3, DiskTypes, EmptyTypes
  <2>5. DeleteDirImages(d, c, parent, t)
          = <<gone, inFat, WriteTable(inFat, parent, t)>>
    BY DEF DeleteDirImages
  <2> HIDE DEF gone, inFat
  <2>6. QED
    BY <2>1, <2>3, <2>4, <2>5
<1>2. DeleteFileImages(d, w, last, parent, t) \in Seq(Disks)
  <2> DEFINE gone(i) == ZeroClusters(d, {w[j] : j \in 0 .. i - 1})
  <2>1. ASSUME NEW i PROVE gone(i) \in Disks
    BY DiskTypes, EmptyTypes
  <2>2. WriteTable(gone(last + 1), parent, t) \in Disks
    BY <2>1, DiskTypes, EmptyTypes
  <2>3. DeleteFileImages(d, w, last, parent, t)
          = [i \in 1 .. last + 1 |-> gone(i)]
              \o <<WriteTable(gone(last + 1), parent, t)>>
    BY DEF DeleteFileImages
  <2> HIDE DEF gone
  <2>4. [i \in 1 .. last + 1 |-> gone(i)] \in Seq(Disks)
    BY <2>1
  <2>5. QED
    BY <2>2, <2>3, <2>4, AppendImages
<1>3. QED
  BY <1>1, <1>2

(* A reply is well formed.                                                 *)
LEMMA ReturnedTypes ==
  ASSUME NEW call \in Calls, NEW parent \in Clusters, NEW n \in AllNames,
         NEW x \in AllExts, NEW size \in Nat,
         NEW p \in Payloads \cup {"zero"}, NEW ret \in {-1, 0, 1, 2},
         NEW out \in Seq(Cells)
  PROVE  Returned(call, parent, n, x, size, p, ret, out) \in Ops
  BY DEF Returned, Ops

(* The reply of a driver that waits is well formed.                        *)
LEMMA NoCallTypes ==
  ASSUME NEW call \in Calls
  PROVE  NoCall \in Ops /\ [NoCall EXCEPT !.call = call] \in Ops
<1>1. 0 \in Clusters
  BY GeometryAssumption DEF Clusters
<1>2. <<>> \in Seq(Cells)
  OBVIOUS
<1>3. QED
  BY <1>1, <1>2 DEF NoCall, Ops, Calls, AllNames, AllExts

(* The clusters that read() delivers form a sequence.                      *)
LEMMA ReadClustersTypes ==
  ASSUME disk \in Disks, NEW e \in Entries
  PROVE  ReadClusters(e) \in Seq(Cells)
<1>1. e.filesize \in Nat /\ ClusterSize \in Nat \ {0}
  BY GeometryAssumption DEF Entries
<1>2. \A a \in Nat, b \in Nat \ {0} : a \div b \in Nat
  OBVIOUS
<1>3. (e.filesize \div ClusterSize) + 1 \in Nat
  BY <1>1, <1>2
<1>4. ASSUME NEW c PROVE CellAt(disk, c) \in Cells
  BY DiskTypes, EmptyTypes
<1> DEFINE k == (e.filesize \div ClusterSize) + 1
<1> HIDE DEF k
<1>5. ReadClusters(e)
        = [j \in 1 .. k |-> CellAt(disk, Walk(map, e.cluster)[j - 1])]
  BY DEF ReadClusters, k
<1>6. k \in Nat
  BY <1>3 DEF k
<1>7. QED
  BY <1>4, <1>5, <1>6

(* The slot that a successful search by name finds.                        *)
LEMMA FoundTypes ==
  ASSUME NEW t \in Tables, NEW n, NEW x, SlotsNamed(t, n, x) # {}
  PROVE  t[Least(SlotsNamed(t, n, x))] \in Entries
<1>1. SlotsNamed(t, n, x) \in SUBSET Nat
  BY SlotTypes DEF SlotsNamed
<1>2. Least(SlotsNamed(t, n, x)) \in SlotsNamed(t, n, x)
  BY <1>1, LeastProperties
<1>3. QED
  BY <1>2 DEF SlotsNamed, Tables

(* The clusters given to a file are empty data clusters.                   *)
LEMMA AllocationTypes ==
  ASSUME NEW size
  PROVE  /\ Allocation(size) \in SUBSET DataClusters
         /\ \A c \in Allocation(size) : disk.fat[c] = FAT32_FAT_EMPTY_ENTRY
  BY GeometryAssumption DEF Allocation, Lowest, EmptyClusters, DataClusters,
                            ROOT_CLUSTER_NUMBER

(* The walk of delete() over a chain that ends.                            *)
LEMMA EndsAfterNat ==
  ASSUME NEW m, NEW c, EndsAfter(m, c) # {}
  PROVE  Least(EndsAfter(m, c)) \in Nat
<1>1. EndsAfter(m, c) \in SUBSET Nat
  BY GeometryAssumption DEF EndsAfter
<1>2. QED
  BY <1>1, LeastProperties

(* A file that gets as many clusters as it needs gets a first one.         *)
LEMMA AllocationFirst ==
  ASSUME NEW size \in Nat, size > 0,
         Cardinality(Allocation(size)) >= CeilDiv(size)
  PROVE  /\ Allocation(size) # {}
         /\ Least(Allocation(size)) \in Allocation(size)
         /\ Least(Allocation(size)) \in Clusters
<1>1. CeilDiv(size) \in Nat /\ CeilDiv(size) >= 1
  BY CeilDivNat, CeilDivPositive
<1>2. Allocation(size) # {}
  BY <1>1, FS_EmptySet
<1>3. Allocation(size) \in SUBSET Nat
  BY AllocationTypes, SlotTypes
<1>4. QED
  BY <1>2, <1>3, LeastProperties, AllocationTypes, SlotTypes

(* The parent's table with the new file's entry.                           *)
LEMMA WriteFileTable ==
  ASSUME disk \in Disks, NEW parent \in DataClusters, NEW n \in Names,
         NEW x \in Exts, NEW size \in Sizes, NEW p,
         WriteFile(parent, n, x, size, p)
  PROVE  AddEntry(disk.cell[parent].table,
                  FileEntry(n, x, size, Least(Allocation(size)))) \in Tables
<1>1. Least(Allocation(size)) \in Clusters /\ size \in Nat
  BY RequestAssumption, AllocationFirst DEF WriteFile
<1>2. n \in AllNames /\ x \in AllExts
  BY DEF AllNames, AllExts
<1>3. disk.cell[parent].table \in Tables
  BY DEF Disks, Cells
<1>4. QED
  BY <1>1, <1>2, <1>3, EntryTypes, TableTypes

-----------------------------------------------------------------------------
(* Type correctness.                                                       *)

(* Every action keeps the types.                                           *)
LEMMA TypeStep ==
  ASSUME TypeOK, Next
  PROVE  TypeOK'
<1> USE DEF TypeOK
<1>1. /\ DataClusters \subseteq Clusters
      /\ Names \subseteq AllNames /\ Exts \subseteq AllExts
      /\ Blank \in AllNames /\ Blank \in AllExts /\ Sizes \subseteq Nat
      /\ 0 \in Nat
  BY SlotTypes, RequestAssumption DEF AllNames, AllExts
<1>2. disk.fat \in FatMaps
  BY DEF Disks
<1>3. ASSUME NEW c \in DataClusters PROVE disk.cell[c].table \in Tables
  BY DEF Disks, Cells
<1>4. CASE Format
  <2>1. todo' \in Seq(Disks)
    BY <1>4, FormatTypes DEF Format
  <2>2. map' \in FatMaps
    BY <1>4, EmptyTypes, MapTypes DEF Format
  <2>3. op' \in Ops
    BY <1>4, NoCallTypes DEF Format, Calls
  <2>4. QED
    BY <1>4, <2>1, <2>2, <2>3 DEF Format
<1>5. CASE Mount
  BY <1>5, <1>2, NoCallTypes DEF Mount, Calls
<1>6. CASE WriteBlocks
  BY <1>6, HeadTailProperties DEF WriteBlocks
<1>7. CASE Return
  BY <1>7, NoCallTypes DEF Return, Calls
<1>8. CASE PowerOff
  BY <1>8, NoCallTypes, EmptyTypes DEF PowerOff, Calls
<1>9. CASE PowerLoss
  <2>1. op' \in Ops
    BY <1>9 DEF PowerLoss, Ops, Calls
  <2>2. losses' \in 0 .. MaxPowerLosses
    BY <1>9, RequestAssumption DEF PowerLoss
  <2>3. todo' \in Seq(Disks)
    BY <1>9 DEF PowerLoss
  <2>4. QED
    BY <1>9, <2>1, <2>2, <2>3, EmptyTypes DEF PowerLoss
<1>10. ASSUME NEW parent \in DataClusters, NEW n \in Names,
              ReadDirectory(parent, n)
       PROVE  TypeOK'
  <2>1. PICK out \in Seq(Cells), ret \in {0, 2} :
          op' = Returned("read_directory", parent, n, Blank, 0, "zero", ret, out)
    <3>1. ASSUME NEW c PROVE <<CellAt(disk, c)>> \in Seq(Cells)
      <4>1. CellAt(disk, c) \in Cells
        BY DiskTypes, EmptyTypes
      <4>2. QED
        BY <4>1
    <3>2. <<>> \in Seq(Cells)
      OBVIOUS
    <3>3. QED
      BY <1>10, <3>1, <3>2 DEF ReadDirectory
  <2>2. op' \in Ops
    BY <1>1, <2>1, ReturnedTypes DEF Calls
  <2>3. QED
    BY <1>10, <2>2 DEF ReadDirectory
<1>11. ASSUME NEW parent \in DataClusters, NEW n \in Names, NEW x \in Exts,
              NEW size \in Sizes, Read(parent, n, x, size)
       PROVE  TypeOK'
  <2> DEFINE found == SlotsNamed(disk.cell[parent].table, n, x)
             e     == disk.cell[parent].table[Least(found)]
  <2>1. PICK out \in Seq(Cells), ret \in {0, 1, 2} :
          op' = Returned("read", parent, n, x, size, "zero", ret, out)
    <3>1. found # {} => ReadClusters(e) \in Seq(Cells)
      BY <1>3, FoundTypes, ReadClustersTypes
    <3>2. <<>> \in Seq(Cells)
      OBVIOUS
    <3>3. QED
      BY <1>11, <3>1, <3>2 DEF Read
  <2>2. op' \in Ops
    BY <1>1, <2>1, ReturnedTypes DEF Calls
  <2>3. QED
    BY <1>11, <2>2 DEF Read
<1>12. ASSUME NEW parent \in DataClusters, NEW n \in AllNames,
              NEW x \in AllExts, NEW size \in Nat,
              NEW p \in Payloads \cup {"zero"}, NEW ret \in {-1, 0, 1, 2}
       PROVE  /\ WriteReply(parent, n, x, size, p, ret) \in Ops
              /\ DeleteReply(parent, n, x, ret) \in Ops
  <2>1. <<>> \in Seq(Cells)
    OBVIOUS
  <2>2. QED
    BY <1>1, <2>1, ReturnedTypes DEF WriteReply, DeleteReply, Calls
<1>13. ASSUME NEW parent \in DataClusters, NEW n \in Names, NEW x \in Exts,
              NEW size \in Sizes, WriteRefused(parent, n, x, size)
       PROVE  TypeOK'
  <2>1. op' \in Ops
    BY <1>1, <1>12, <1>13 DEF WriteRefused
  <2>2. QED
    BY <1>2, <1>13, <2>1 DEF WriteRefused
<1>14. ASSUME NEW parent \in DataClusters, NEW n \in Names, NEW x \in Exts,
              NEW size \in Sizes, WriteRunsOut(parent, n, x, size)
       PROVE  TypeOK'
  <2>1. op' \in Ops
    BY <1>1, <1>12, <1>14 DEF WriteRunsOut
  <2>2. map' \in FatMaps
    BY <1>2, <1>14, AllocationTypes, MapTypes DEF WriteRunsOut
  <2>3. QED
    BY <1>14, <2>1, <2>2 DEF WriteRunsOut
<1>15. ASSUME NEW parent \in DataClusters, NEW n \in Names,
              MakeDirectory(parent, n)
       PROVE  TypeOK'
  <2>1. EmptyClusters(disk.fat, 1) # {}
    BY <1>15, GeometryAssumption
       DEF MakeDirectory, CanWrite, EmptyClusters, ROOT_CLUSTER_NUMBER
  <2>2. todo' \in Seq(Disks)
    BY <1>1, <1>2, <1>15, <2>1, InitDirectoryTableTypes DEF MakeDirectory
  <2>3. map' \in FatMaps
    BY <1>2, <1>15, MapTypes DEF MakeDirectory
  <2>4. op' \in Ops
    BY <1>1, <1>12, <1>15 DEF MakeDirectory
  <2>5. QED
    BY <1>15, <2>2, <2>3, <2>4 DEF MakeDirectory
<1>16. ASSUME NEW parent \in DataClusters, NEW n \in Names, NEW x \in Exts,
              NEW size \in Sizes, NEW p \in Payloads,
              WriteFile(parent, n, x, size, p)
       PROVE  TypeOK'
  <2> DEFINE first == Least(Allocation(size))
             t == AddEntry(disk.cell[parent].table, FileEntry(n, x, size, first))
  <2>1. op' \in Ops
    BY <1>1, <1>12, <1>16 DEF WriteFile
  <2>2. map' \in FatMaps
    BY <1>2, <1>16, AllocationTypes, MapTypes DEF WriteFile
  <2>3. CeilDiv(size) \in Nat
    BY <1>1, CeilDivNat
  <2>4. t \in Tables
    BY <1>16, WriteFileTable
  <2>5. todo' \in Seq(Disks)
    BY <1>16, <2>2, <2>3, <2>4, WriteImagesTypes DEF WriteFile
  <2>6. QED
    BY <1>16, <2>1, <2>2, <2>5 DEF WriteFile
<1>17. ASSUME NEW parent \in DataClusters, NEW n \in Names, NEW x \in Exts,
              DeleteRefused(parent, n, x)
       PROVE  TypeOK'
  <2>1. op' \in Ops
    BY <1>1, <1>12, <1>17 DEF DeleteRefused
  <2>2. QED
    BY <1>2, <1>17, <2>1 DEF DeleteRefused
<1>18. ASSUME NEW parent \in DataClusters, NEW n \in Names, NEW x \in Exts,
              DeleteDirectory(parent, n, x)
       PROVE  TypeOK'
  <2>1. op' \in Ops
    BY <1>1, <1>12, <1>18 DEF DeleteDirectory
  <2>2. map' \in FatMaps
    BY <1>2, <1>18, MapTypes DEF DeleteDirectory
  <2>3. todo' \in Seq(Disks)
    BY <1>3, <1>18, EmptyTypes, TableTypes, DeleteImagesTypes
       DEF DeleteDirectory
  <2>4. QED
    BY <1>18, <2>1, <2>2, <2>3 DEF DeleteDirectory
<1>19. ASSUME NEW parent \in DataClusters, NEW n \in Names, NEW x \in Exts,
              DeleteFile(parent, n, x)
       PROVE  TypeOK'
  <2>1. op' \in Ops
    <3>1. DeleteReply(parent, n, x, 0) \in Ops
      BY <1>1, <1>12
    <3>2. [DeleteReply(parent, n, x, 0) EXCEPT !.call = "runaway"] \in Ops
      BY <3>1 DEF Ops, Calls
    <3>3. QED
      BY <1>19, <3>1, <3>2 DEF DeleteFile
  <2>2. todo' \in Seq(Disks)
    BY <1>3, <1>19, EndsAfterNat, EmptyTypes, TableTypes, DeleteImagesTypes
       DEF DeleteFile
  <2>3. QED
    BY <1>2, <1>19, <2>1, <2>2 DEF DeleteFile
<1>20. QED
  BY <1>4, <1>5, <1>6, <1>7, <1>8, <1>9, <1>10, <1>11, <1>13, <1>14, <1>15,
     <1>16, <1>17, <1>18, <1>19 DEF Next

(* The driver's state always has its types: no operation stores a value    *)
(* that is not a cluster number, a directory entry or a FAT entry.         *)
THEOREM TypeCorrect == Spec => []TypeOK
<1>1. Init => TypeOK
  <2>1. <<>> \in Seq(Disks)
    OBVIOUS
  <2>2. NoCall \in Ops
    BY NoCallTypes DEF Calls
  <2>3. 0 \in 0 .. MaxPowerLosses
    BY RequestAssumption
  <2>4. QED
    BY <2>1, <2>2, <2>3, EmptyTypes DEF Init, TypeOK
<1>2. TypeOK /\ [Next]_vars => TypeOK'
  <2>1. TypeOK /\ Next => TypeOK'
    BY TypeStep
  <2>2. TypeOK /\ UNCHANGED vars => TypeOK'
    BY DEF TypeOK, vars
  <2>3. QED
    BY <2>1, <2>2
<1>3. QED
  BY <1>1, <1>2, PTL DEF Spec

-----------------------------------------------------------------------------
(* The FAT in the images of each operation.                                *)

(* Only the write of the FAT cluster changes the FAT.                      *)
LEMMA WritesKeepFat ==
  ASSUME NEW d \in Disks, NEW c, NEW t, NEW S, NEW m, NEW p, NEW i, NEW m2
  PROVE  /\ WriteSignature(d).fat = d.fat
         /\ WriteFat(d, m).fat = m
         /\ WriteTable(d, c, t).fat = d.fat
         /\ ZeroClusters(d, S).fat = d.fat
         /\ WithData(d, m2, c, p, i).fat = d.fat
         /\ WriteTable(WriteFat(d, m), c, t).fat = m
  BY DEF WriteSignature, WriteFat, WriteTable, ZeroClusters, WithData, Disks

(* Every image of init_directory_table() has the FAT with the new cluster. *)
LEMMA InitDirectoryTableFat ==
  ASSUME NEW d \in Disks, NEW m \in FatMaps, NEW n, NEW parent
  PROVE  LET images == InitDirectoryTable(d, m, n, parent)
             index  == Least(EmptyClusters(m, 1))
         IN  /\ Len(images) = 3
             /\ \A i \in 1 .. 3 :
                  images[i].fat = [m EXCEPT ![index] = FAT32_FAT_END_OF_FILE]
<1> DEFINE index  == Least(EmptyClusters(m, 1))
           self   == DirEntry(n, index)
           m2     == [m EXCEPT ![index] = FAT32_FAT_END_OF_FILE]
           inFat  == WriteFat(d, m2)
           above  == AddEntry(d.cell[parent].table, self)
           inDir  == IF index # ROOT_CLUSTER_NUMBER
                       THEN WriteTable(inFat, parent, above) ELSE inFat
           up     == IF index # ROOT_CLUSTER_NUMBER THEN above[0] ELSE self
           table  == [EmptyTable EXCEPT ![0] = self,
                                        ![1] = [up EXCEPT !.name = ".."]]
           last   == WriteTable(inDir, index, table)
<1>1. InitDirectoryTable(d, m, n, parent) = <<inFat, inDir, last>>
  BY DEF InitDirectoryTable
<1> HIDE DEF index, self, above, up, table
<1>2. m2 \in FatMaps
  BY MapTypes
<1> HIDE DEF m2
<1>3. inFat \in Disks /\ inFat.fat = m2
  BY <1>2, DiskTypes, EmptyTypes, WritesKeepFat
<1> HIDE DEF inFat
<1>4. \A b, t : WriteTable(inFat, b, t).fat = m2
  BY <1>3, WritesKeepFat
<1>5. inDir.fat = m2
  BY <1>3, <1>4
<1>6. last.fat = m2
  <2>1. \A e, b, t : WriteTable(e, b, t).fat = e.fat
    BY DEF WriteTable
  <2>2. QED
    BY <1>5, <2>1
<1> HIDE DEF inDir, last
<1>7. QED
  BY <1>1, <1>3, <1>5, <1>6 DEF index, m2

(* Every image of create_fat32() has one of the FATs it made.              *)
LEMMA FormatFat ==
  ASSUME disk \in Disks
  PROVE  LET formatted == [FormatMap EXCEPT ![Least(EmptyClusters(FormatMap, 1))]
                                                = FAT32_FAT_END_OF_FILE]
         IN  /\ Len(FormatImages) = 5
             /\ \A i \in 1 .. 5 :
                  FormatImages[i].fat \in {disk.fat, FormatMap, formatted}
             /\ FormatImages[5].fat = formatted
<1> DEFINE signed == WriteSignature(disk)
           inFat  == WriteFat(signed, FormatMap)
           rest   == InitDirectoryTable(inFat, FormatMap, RootName,
                                        ROOT_CLUSTER_NUMBER)
           index  == Least(EmptyClusters(FormatMap, 1))
           formatted == [FormatMap EXCEPT ![index] = FAT32_FAT_END_OF_FILE]
<1>1. signed \in Disks /\ signed.fat = disk.fat
  BY DiskTypes, EmptyTypes, WritesKeepFat
<1>2. inFat \in Disks /\ inFat.fat = FormatMap
  BY <1>1, DiskTypes, EmptyTypes, WritesKeepFat
<1>3. FormatImages = <<signed, inFat>> \o rest
  BY DEF FormatImages
<1> HIDE DEF signed, inFat
<1>4. ROOT_CLUSTER_NUMBER \in DataClusters /\ RootName \in AllNames
  BY GeometryAssumption DEF DataClusters, ROOT_CLUSTER_NUMBER, AllNames
<1>5. rest \in Seq(Disks)
  BY <1>2, <1>4, EmptyTypes, FormatTypes, InitDirectoryTableTypes
<1>6. Len(rest) = 3 /\ \A i \in 1 .. 3 : rest[i].fat = formatted
  BY <1>2, EmptyTypes, InitDirectoryTableFat
<1> HIDE DEF rest, formatted
<1>7. <<signed, inFat>> \in Seq(Disks) /\ Len(<<signed, inFat>>) = 2
  BY <1>1, <1>2
<1> DEFINE start == <<signed, inFat>>
<1> HIDE DEF start
<1>8. /\ Len(start \o rest) = Len(start) + Len(rest)
      /\ \A i \in 1 .. Len(start) + Len(rest) : (start \o rest)[i] =
           IF i <= Len(start) THEN start[i] ELSE rest[i - Len(start)]
  BY <1>5, <1>7, ConcatProperties DEF start
<1>9. Len(start) = 2 /\ start[1] = signed /\ start[2] = inFat
  BY <1>7 DEF start
<1>10. /\ Len(FormatImages) = 5
       /\ \A i \in 1 .. 5 : FormatImages[i] =
            IF i <= 2 THEN start[i] ELSE rest[i - 2]
  BY <1>3, <1>6, <1>8, <1>9 DEF start
<1>11. QED
  BY <1>1, <1>2, <1>6, <1>9, <1>10 DEF formatted

(* Every image of a file's write has the old FAT or the new one.           *)
LEMMA WriteImagesFat ==
  ASSUME NEW d \in Disks, NEW m \in FatMaps, NEW c, NEW p \in Payloads,
         NEW k \in Nat, NEW parent, NEW t \in Tables
  PROVE  LET images == WriteImages(d, m, c, p, k, parent, t)
         IN  /\ Len(images) = k + 2
             /\ \A i \in 1 .. k + 2 :
                  images[i].fat = IF i <= k THEN d.fat ELSE m
<1> DEFINE inFat == WriteFat(WithData(d, m, c, p, k), m)
           inDir == WriteTable(inFat, parent, t)
           data  == [i \in 1 .. k |-> WithData(d, m, c, p, i)]
<1>1. \A i \in Nat : WithData(d, m, c, p, i) \in Disks
  BY WithDataTypes
<1>2. inFat \in Disks /\ inFat.fat = m
  BY <1>1, DiskTypes, WritesKeepFat
<1> HIDE DEF inFat
<1>3. inDir \in Disks /\ inDir.fat = m
  BY <1>2, DiskTypes, WritesKeepFat
<1>4. data \in Seq(Disks) /\ Len(data) = k
  BY <1>1
<1>5. \A i \in 1 .. k : data[i].fat = d.fat
  BY WritesKeepFat
<1>6. WriteImages(d, m, c, p, k, parent, t) = data \o <<inFat, inDir>>
  BY DEF WriteImages, inFat
<1> HIDE DEF inDir, data
<1>7. QED
  BY <1>2, <1>3, <1>4, <1>5, <1>6, AppendImages

(* So has every image of deleting a directory.                             *)
LEMMA DeleteDirImagesFat ==
  ASSUME NEW d \in Disks, NEW c, NEW parent, NEW t \in Tables
  PROVE  LET images == DeleteDirImages(d, c, parent, t)
             freed  == [d.fat EXCEPT ![c] = FAT32_FAT_EMPTY_ENTRY]
         IN  /\ Len(images) = 3
             /\ images[1].fat = d.fat
             /\ images[2].fat = freed
             /\ images[3].fat = freed
<1> DEFINE freed == [d.fat EXCEPT ![c] = FAT32_FAT_EMPTY_ENTRY]
           gone  == ZeroClusters(d, {c})
           inFat == WriteFat(gone, freed)
           inDir == WriteTable(inFat, parent, t)
<1>1. gone \in Disks /\ gone.fat = d.fat
  BY DiskTypes, EmptyTypes, WritesKeepFat
<1>2. inFat.fat = freed /\ inDir.fat = freed
  BY <1>1, WritesKeepFat
<1>3. DeleteDirImages(d, c, parent, t) = <<gone, inFat, inDir>>
  BY DEF DeleteDirImages
<1> HIDE DEF gone, inFat, inDir
<1>4. QED
  BY <1>1, <1>2, <1>3

(* Deleting a file leaves the FAT of the disk alone in every image.        *)
LEMMA DeleteFileImagesFat ==
  ASSUME NEW d \in Disks, NEW parent, NEW t \in Tables, NEW w,
         NEW last \in Nat
  PROVE  LET images == DeleteFileImages(d, w, last, parent, t)
         IN  /\ Len(images) = last + 2
             /\ \A i \in 1 .. last + 2 : images[i].fat = d.fat
<1> DEFINE gone(i) == ZeroClusters(d, {w[j] : j \in 0 .. i - 1})
           zeroed  == [i \in 1 .. last + 1 |-> gone(i)]
           e       == gone(last + 1)
           inDir   == WriteTable(e, parent, t)
<1>1. ASSUME NEW i PROVE gone(i) \in Disks /\ gone(i).fat = d.fat
  BY DiskTypes, EmptyTypes, WritesKeepFat
<1>2. e \in Disks /\ e.fat = d.fat
  BY <1>1
<1>3. DeleteFileImages(d, w, last, parent, t) = zeroed \o <<inDir>>
  BY DEF DeleteFileImages
<1> HIDE DEF gone, e
<1>4. inDir \in Disks /\ inDir.fat = d.fat
  BY <1>2, DiskTypes, EmptyTypes, WritesKeepFat
<1>5. /\ zeroed \in Seq(Disks) /\ Len(zeroed) = last + 1
      /\ \A i \in 1 .. last + 1 : zeroed[i].fat = d.fat
  BY <1>1
<1> HIDE DEF zeroed, inDir
<1>6. QED
  BY <1>3, <1>4, <1>5, AppendImages

(* What delete() leaves to be written, in terms of the FAT alone.          *)
LEMMA DeleteDirectoryFat ==
  ASSUME disk \in Disks, NEW parent \in DataClusters, NEW n, NEW x,
         DeleteDirectory(parent, n, x)
  PROVE  /\ Len(todo') = 3
         /\ todo'[1].fat = disk.fat
         /\ todo'[2].fat = map'
         /\ todo'[3].fat = map'
<1>1. disk.cell[parent].table \in Tables
  BY DEF Disks, Cells
<1>2. PICK c, i :
        /\ todo' = DeleteDirImages(disk, c, parent,
                                   ClearEntry(disk.cell[parent].table, i))
        /\ map' = [disk.fat EXCEPT ![c] = FAT32_FAT_EMPTY_ENTRY]
  BY DEF DeleteDirectory
<1>3. ClearEntry(disk.cell[parent].table, i) \in Tables
  BY <1>1, EmptyTypes, TableTypes
<1>4. QED
  BY <1>2, <1>3, DeleteDirImagesFat

(* The same of the whole action of deleting a file.                        *)
LEMMA DeleteFileFat ==
  ASSUME disk \in Disks, NEW parent \in DataClusters, NEW n, NEW x,
         DeleteFile(parent, n, x)
  PROVE  /\ map' = disk.fat
         /\ Len(todo') \in Nat
         /\ \A i \in 1 .. Len(todo') : todo'[i].fat = disk.fat
<1>1. disk.cell[parent].table \in Tables
  BY DEF Disks, Cells
<1>2. map' = disk.fat
  BY DEF DeleteFile
<1>3. CASE todo' = <<>>
  BY <1>2, <1>3
<1>4. CASE todo' # <<>>
  <2>1. PICK w, i, c :
          /\ EndsAfter(disk.fat, c) # {}
          /\ todo' = DeleteFileImages(disk, w, Least(EndsAfter(disk.fat, c)),
                        parent, ClearEntry(disk.cell[parent].table, i))
    BY <1>4, Zenon DEF DeleteFile, Idle, Quiet
  <2>2. Least(EndsAfter(disk.fat, c)) \in Nat
    BY <2>1, EndsAfterNat
  <2>3. ClearEntry(disk.cell[parent].table, i) \in Tables
    BY <1>1, EmptyTypes, TableTypes
  <2>4. QED
    BY <1>2, <2>1, <2>2, <2>3, DeleteFileImagesFat
<1>5. QED
  BY <1>3, <1>4

-----------------------------------------------------------------------------
(* Chains only ever lead upwards.                                          *)

(* Marking and linking clusters keeps a FAT ascending.                     *)
LEMMA AscendingMaps ==
  ASSUME NEW m \in FatMaps, Ascending(m), NEW c,
         NEW A \in SUBSET DataClusters,
         NEW last \in {FAT32_FAT_EMPTY_ENTRY, FAT32_FAT_END_OF_FILE}
  PROVE  /\ Ascending([m EXCEPT ![c] = last])
         /\ Ascending(Link(m, A, last))
<1>1. Ascending([m EXCEPT ![c] = last])
  BY SlotTypes DEF Ascending, FatMaps
<1>2. Ascending(Link(m, A, last))
  <2> SUFFICES ASSUME NEW b \in DataClusters
               PROVE  LET v == Link(m, A, last)[b] IN
                      \/ v \in {FAT32_FAT_EMPTY_ENTRY, FAT32_FAT_END_OF_FILE}
                      \/ v \in DataClusters /\ v > b
    BY DEF Ascending
  <2>1. CASE b \notin A
    BY <2>1, SlotTypes DEF Link, Ascending
  <2>2. CASE b \in A /\ ~ \E d \in A : d > b
    BY <2>2, SlotTypes DEF Link
  <2>3. CASE b \in A /\ \E d \in A : d > b
    <3>1. {d \in A : d > b} \in SUBSET Nat /\ {d \in A : d > b} # {}
      BY <2>3, SlotTypes
    <3>2. Least({d \in A : d > b}) \in {d \in A : d > b}
      BY <3>1, LeastProperties
    <3>3. QED
      BY <2>3, <3>2, SlotTypes DEF Link
  <2>4. QED
    BY <2>1, <2>2, <2>3
<1>3. QED
  BY <1>1, <1>2

(* The FATs at power-on and of a fresh disk hold no link at all.           *)
LEMMA EmptyMapsAscend == Ascending(ZeroMap) /\ Ascending(FormatMap)
  BY SlotTypes DEF Ascending, ZeroMap, FormatMap, DataClusters,
                   ROOT_CLUSTER_NUMBER

(* Every action keeps the chains ascending.                                *)
LEMMA AscendStep ==
  ASSUME TypeOK, ChainsAscend, Next
  PROVE  ChainsAscend'
<1> USE DEF ChainsAscend
<1>1. disk \in Disks /\ disk.fat \in FatMaps /\ todo \in Seq(Disks)
  BY DEF TypeOK, Disks
<1>2. ASSUME NEW c \in DataClusters PROVE disk.cell[c].table \in Tables
  BY <1>1 DEF Disks, Cells
<1>3. \A i \in 1 .. Len(<<>>) : Ascending(<<>>[i].fat)
  OBVIOUS
<1>4. CASE Format
  <2> DEFINE index == Least(EmptyClusters(FormatMap, 1))
             formatted == [FormatMap EXCEPT ![index] = FAT32_FAT_END_OF_FILE]
  <2>1. Ascending(FormatMap) /\ Ascending(formatted)
    BY EmptyTypes, EmptyMapsAscend, AscendingMaps
  <2>2. \A i \in 1 .. Len(todo') : Ascending(todo'[i].fat)
    BY <1>1, <1>4, <2>1, FormatFat DEF Format
  <2>3. QED
    BY <1>4, <2>1, <2>2 DEF Format
<1>5. CASE Mount
  BY <1>5 DEF Mount
<1>6. CASE WriteBlocks
  <2>1. /\ Len(todo') = Len(todo) - 1
        /\ \A i \in 1 .. Len(todo') : todo'[i] = todo[i + 1]
        /\ disk' = todo[1] /\ Len(todo) \in Nat \ {0}
    BY <1>1, <1>6, HeadTailProperties, EmptySeq DEF WriteBlocks
  <2>2. QED
    BY <1>6, <2>1 DEF WriteBlocks
<1>7. CASE Return
  BY <1>7 DEF Return
<1>8. CASE PowerOff
  BY <1>8, EmptyMapsAscend DEF PowerOff
<1>9. CASE PowerLoss
  BY <1>3, <1>9, EmptyMapsAscend DEF PowerLoss
<1>10. ASSUME NEW parent, NEW n, ReadDirectory(parent, n)
       PROVE  ChainsAscend'
  BY <1>10 DEF ReadDirectory
<1>11. ASSUME NEW parent, NEW n, NEW x, NEW size, Read(parent, n, x, size)
       PROVE  ChainsAscend'
  BY <1>11 DEF Read
<1>12. ASSUME NEW parent, NEW n, NEW x, NEW size,
              WriteRefused(parent, n, x, size)
       PROVE  ChainsAscend'
  BY <1>12 DEF WriteRefused
<1>13. ASSUME NEW parent, NEW n, NEW x, NEW size,
              WriteRunsOut(parent, n, x, size)
       PROVE  ChainsAscend'
  <2>1. Ascending(map')
    BY <1>1, <1>13, AllocationTypes, AscendingMaps DEF WriteRunsOut
  <2>2. QED
    BY <1>13, <2>1 DEF WriteRunsOut
<1>14. ASSUME NEW parent \in DataClusters, NEW n, MakeDirectory(parent, n)
       PROVE  ChainsAscend'
  <2>1. Ascending(map')
    BY <1>1, <1>14, AscendingMaps DEF MakeDirectory
  <2>2. Len(todo') = 3 /\ \A i \in 1 .. 3 : todo'[i].fat = map'
    BY <1>1, <1>14, InitDirectoryTableFat DEF MakeDirectory
  <2>3. QED
    BY <1>14, <2>1, <2>2 DEF MakeDirectory
<1>15. ASSUME NEW parent \in DataClusters, NEW n \in Names, NEW x \in Exts,
              NEW size \in Sizes, NEW p \in Payloads,
              WriteFile(parent, n, x, size, p)
       PROVE  ChainsAscend'
  <2>1. Ascending(map') /\ map' \in FatMaps
    BY <1>1, <1>15, AllocationTypes, AscendingMaps, MapTypes DEF WriteFile
  <2>2. CeilDiv(size) \in Nat
    BY RequestAssumption, CeilDivNat
  <2>3. AddEntry(disk.cell[parent].table,
                 FileEntry(n, x, size, Least(Allocation(size)))) \in Tables
    BY <1>1, <1>15, WriteFileTable
  <2>4. \A i \in 1 .. Len(todo') : todo'[i].fat \in {disk.fat, map'}
    BY <1>1, <1>15, <2>1, <2>2, <2>3, WriteImagesFat DEF WriteFile
  <2>5. QED
    BY <1>15, <2>1, <2>4 DEF WriteFile
<1>16. ASSUME NEW parent, NEW n, NEW x, DeleteRefused(parent, n, x)
       PROVE  ChainsAscend'
  BY <1>16 DEF DeleteRefused
<1>17. ASSUME NEW parent \in DataClusters, NEW n, NEW x,
              DeleteDirectory(parent, n, x)
       PROVE  ChainsAscend'
  <2>1. Ascending(map')
    BY <1>1, <1>17, AscendingMaps DEF DeleteDirectory
  <2>2. \A i \in 1 .. Len(todo') : todo'[i].fat \in {disk.fat, map'}
    BY <1>1, <1>17, DeleteDirectoryFat
  <2>3. QED
    BY <1>17, <2>1, <2>2 DEF DeleteDirectory
<1>18. ASSUME NEW parent \in DataClusters, NEW n, NEW x,
              DeleteFile(parent, n, x)
       PROVE  ChainsAscend'
  <2>1. \A i \in 1 .. Len(todo') : todo'[i].fat = disk.fat
    BY <1>1, <1>18, DeleteFileFat
  <2>2. QED
    BY <1>18, <2>1 DEF DeleteFile
<1>19. QED
  BY <1>4, <1>5, <1>6, <1>7, <1>8, <1>9, <1>10, <1>11, <1>12, <1>13, <1>14,
     <1>15, <1>16, <1>17, <1>18 DEF Next

(* No chain ever turns back, for every disk, with power losses anywhere    *)
(* and with every request: the loops of read() and delete() that follow a  *)
(* chain meet each cluster at most once.                                   *)
THEOREM AscendCorrect == Spec => []ChainsAscend
<1>1. Init => ChainsAscend
  BY EmptyMapsAscend DEF Init, ChainsAscend, BlankDisk
<1>2. TypeOK /\ ChainsAscend /\ [Next]_vars => ChainsAscend'
  <2>1. TypeOK /\ ChainsAscend /\ Next => ChainsAscend'
    BY AscendStep
  <2>2. ChainsAscend /\ UNCHANGED vars => ChainsAscend'
    BY DEF ChainsAscend, vars
  <2>3. QED
    BY <2>1, <2>2
<1>3. QED
  BY <1>1, <1>2, TypeCorrect, PTL DEF Spec

-----------------------------------------------------------------------------
(* The FAT in memory.                                                      *)

(* Inductive form of MemoryAgrees: the memory agrees with the disk as it   *)
(* will be after the outstanding writes, and there are none when the       *)
(* machine is off.                                                         *)
Agrees(m, f) ==
  \A c \in Clusters : f[c] # FAT32_FAT_EMPTY_ENTRY => m[c] = f[c]
MemoryInv ==
  /\ ~ mounted => todo = <<>>
  /\ mounted => Agrees(map, Settled.fat)

(* The last image of a list of outstanding writes is what the disk will be. *)
LEMMA SettledLast ==
  ASSUME todo' \in Seq(Disks), todo' # <<>>
  PROVE  Settled' = todo'[Len(todo')]
  BY DEF Settled

(* Every action keeps the FAT in memory in step with the disk to come.     *)
LEMMA MemoryStep ==
  ASSUME TypeOK, TypeOK', MemoryInv, Next
  PROVE  MemoryInv'
<1>1. /\ disk \in Disks /\ disk.fat \in FatMaps /\ todo \in Seq(Disks)
      /\ todo' \in Seq(Disks)
  BY DEF TypeOK, Disks
<1>2. ASSUME NEW m PROVE Agrees(m, m)
  BY DEF Agrees
<1>3. Idle => mounted /\ todo = <<>> /\ Settled = disk
  BY DEF Idle, Quiet, Settled
<1>4. CASE Format
  <2>1. Len(todo') = 5 /\ todo'[5].fat = map' /\ mounted'
    BY <1>1, <1>4, FormatFat DEF Format
  <2>2. Settled'.fat = map'
    <3>1. todo' # <<>>
      BY <2>1
    <3>2. Settled' = todo'[5]
      BY <1>1, <2>1, <3>1, SettledLast
    <3>3. QED
      BY <2>1, <3>2
  <2>3. QED
    BY <1>2, <2>1, <2>2 DEF MemoryInv
<1>5. CASE Mount
  <2>1. todo' = <<>> /\ Settled' = disk /\ map' = disk.fat /\ mounted'
    BY <1>5 DEF Mount, MemoryInv, Settled
  <2>2. QED
    BY <1>2, <2>1 DEF MemoryInv
<1>6. CASE WriteBlocks
  <2>1. /\ Len(todo') = Len(todo) - 1
        /\ \A i \in 1 .. Len(todo') : todo'[i] = todo[i + 1]
        /\ disk' = todo[1] /\ Len(todo) \in Nat \ {0}
    BY <1>1, <1>6, HeadTailProperties, EmptySeq DEF WriteBlocks
  <2>2. Settled = todo[Len(todo)]
    BY <1>6 DEF WriteBlocks, Settled
  <2>3. Settled' = todo[Len(todo)]
    <3>1. CASE todo' = <<>>
      <4>1. Len(todo') = 0
        BY <3>1
      <4>2. Len(todo) = 1
        BY <2>1, <4>1
      <4>3. Settled' = disk'
        BY <3>1 DEF Settled
      <4>4. QED
        BY <2>1, <4>2, <4>3
    <3>2. CASE todo' # <<>>
      <4>1. Len(todo') \in Nat \ {0}
        BY <1>1, <3>2, EmptySeq
      <4>2. todo'[Len(todo')] = todo[Len(todo)]
        BY <2>1, <4>1
      <4>3. QED
        BY <1>1, <3>2, <4>2, SettledLast
    <3>3. QED
      BY <3>1, <3>2
  <2>4. mounted
    BY <1>6 DEF WriteBlocks, MemoryInv
  <2>5. QED
    BY <1>6, <2>2, <2>3, <2>4 DEF WriteBlocks, MemoryInv
<1>7. ASSUME UNCHANGED <<disk, map, mounted, todo>>
      PROVE  MemoryInv'
  BY <1>7 DEF MemoryInv, Settled
<1>8. CASE Return
  BY <1>7, <1>8 DEF Return
<1>9. CASE PowerOff
  BY <1>3, <1>9 DEF PowerOff, MemoryInv
<1>10. CASE PowerLoss
  BY <1>10 DEF PowerLoss, MemoryInv
<1>11. ASSUME NEW parent, NEW n, ReadDirectory(parent, n)
       PROVE  MemoryInv'
  BY <1>7, <1>11 DEF ReadDirectory
<1>12. ASSUME NEW parent, NEW n, NEW x, NEW size, Read(parent, n, x, size)
       PROVE  MemoryInv'
  BY <1>7, <1>12 DEF Read
<1>13. ASSUME Idle, UNCHANGED <<disk, mounted, todo>>, Agrees(map', disk.fat)
       PROVE  MemoryInv'
  BY <1>3, <1>13 DEF MemoryInv, Settled
<1>14. ASSUME NEW parent, NEW n, NEW x, NEW size,
              WriteRefused(parent, n, x, size)
       PROVE  MemoryInv'
  BY <1>2, <1>13, <1>14 DEF WriteRefused
<1>15. ASSUME NEW parent, NEW n, NEW x, NEW size,
              WriteRunsOut(parent, n, x, size)
       PROVE  MemoryInv'
  <2>1. Agrees(map', disk.fat)
    BY <1>15, AllocationTypes DEF WriteRunsOut, Agrees, Link
  <2>2. QED
    BY <1>13, <1>15, <2>1 DEF WriteRunsOut
<1>16. ASSUME mounted', todo' # <<>>, todo'[Len(todo')].fat = map'
       PROVE  MemoryInv'
  BY <1>1, <1>2, <1>16, SettledLast DEF MemoryInv
<1>17. ASSUME NEW parent \in DataClusters, NEW n, MakeDirectory(parent, n)
       PROVE  MemoryInv'
  <2>1. Len(todo') = 3 /\ \A i \in 1 .. 3 : todo'[i].fat = map'
    <3>1. disk \in Disks /\ disk.fat \in FatMaps
      BY <1>1
    <3>2. QED
      BY <1>17, <3>1, InitDirectoryTableFat DEF MakeDirectory
  <2>2. mounted'
    BY <1>3, <1>17 DEF MakeDirectory
  <2>3. todo' # <<>> /\ todo'[Len(todo')].fat = map'
    BY <2>1
  <2>4. QED
    BY <1>16, <2>2, <2>3
<1>18. ASSUME NEW parent \in DataClusters, NEW n \in Names, NEW x \in Exts,
              NEW size \in Sizes, NEW p \in Payloads,
              WriteFile(parent, n, x, size, p)
       PROVE  MemoryInv'
  <2>1. map' \in FatMaps
    BY DEF TypeOK
  <2>2. CeilDiv(size) \in Nat
    BY RequestAssumption, CeilDivNat
  <2>3. PICK t \in Tables :
          todo' = WriteImages(disk, map', Least(Allocation(size)), p,
                              CeilDiv(size), parent, t)
    BY <1>1, <1>18, WriteFileTable DEF WriteFile
  <2>4. Len(todo') = CeilDiv(size) + 2 /\ todo'[CeilDiv(size) + 2].fat = map'
    BY <1>1, <2>1, <2>2, <2>3, WriteImagesFat
  <2>5. mounted'
    BY <1>3, <1>18 DEF WriteFile
  <2>6. QED
    BY <1>1, <1>16, <2>2, <2>4, <2>5
<1>19. ASSUME NEW parent, NEW n, NEW x, DeleteRefused(parent, n, x)
       PROVE  MemoryInv'
  BY <1>2, <1>13, <1>19 DEF DeleteRefused
<1>20. ASSUME NEW parent \in DataClusters, NEW n, NEW x,
              DeleteDirectory(parent, n, x)
       PROVE  MemoryInv'
  <2>1. Len(todo') = 3 /\ todo'[3].fat = map'
    BY <1>1, <1>20, DeleteDirectoryFat
  <2>2. mounted'
    BY <1>3, <1>20 DEF DeleteDirectory
  <2>3. QED
    BY <1>1, <1>16, <2>1, <2>2
<1>21. ASSUME NEW parent \in DataClusters, NEW n, NEW x,
              DeleteFile(parent, n, x)
       PROVE  MemoryInv'
  <2>1. /\ map' = disk.fat /\ Len(todo') \in Nat
        /\ \A i \in 1 .. Len(todo') : todo'[i].fat = disk.fat
    BY <1>1, <1>21, DeleteFileFat
  <2>2. mounted' /\ disk' = disk
    BY <1>3, <1>21 DEF DeleteFile
  <2>3. CASE todo' = <<>>
    BY <1>2, <2>1, <2>2, <2>3 DEF MemoryInv, Settled
  <2>4. CASE todo' # <<>>
    <3>1. Len(todo') \in 1 .. Len(todo')
      BY <1>1, <2>4, EmptySeq
    <3>2. QED
      BY <1>16, <2>1, <2>2, <2>4, <3>1
  <2>5. QED
    BY <2>3, <2>4
<1>22. QED
  BY <1>4, <1>5, <1>6, <1>8, <1>9, <1>10, <1>11, <1>12, <1>14, <1>15, <1>17,
     <1>18, <1>19, <1>20, <1>21 DEF Next

(* Whenever no call is running, the FAT in memory that read() follows      *)
(* without loading it is the FAT on the disk for every allocated cluster:  *)
(* neither a write() that ran out of clusters nor a power loss leaves a    *)
(* stale chain behind.                                                     *)
THEOREM MemoryCorrect == Spec => []MemoryAgrees
<1>1. Init => MemoryInv
  BY DEF Init, MemoryInv
<1>2. TypeOK /\ TypeOK' /\ MemoryInv /\ [Next]_vars => MemoryInv'
  <2>1. TypeOK /\ TypeOK' /\ MemoryInv /\ Next => MemoryInv'
    BY MemoryStep
  <2>2. MemoryInv /\ UNCHANGED vars => MemoryInv'
    BY DEF MemoryInv, Settled, vars
  <2>3. QED
    BY <2>1, <2>2
<1>3. MemoryInv => MemoryAgrees
  BY DEF MemoryInv, MemoryAgrees, Agrees, Quiet, Settled
<1>4. QED
  BY <1>1, <1>2, <1>3, TypeCorrect, PTL DEF Spec

-----------------------------------------------------------------------------
(* Following a chain.                                                      *)

(* The numbers that matter here: a data cluster is neither of the marks of *)
(* the FAT.                                                                *)
LEMMA ClusterFacts ==
  /\ ClusterMapSize \in Nat /\ ClusterMapSize > 3
  /\ DataClusters \subseteq Clusters /\ Clusters \subseteq Nat
  /\ Clusters \subseteq FatValues
  /\ \A c \in DataClusters :
       /\ c >= 2 /\ c \in Nat
       /\ c # FAT32_FAT_END_OF_FILE /\ c # FAT32_FAT_EMPTY_ENTRY
  /\ ROOT_CLUSTER_NUMBER \in DataClusters
  /\ FAT32_FAT_END_OF_FILE # FAT32_FAT_EMPTY_ENTRY
  BY GeometryAssumption DEF Clusters, DataClusters, FatValues,
     ROOT_CLUSTER_NUMBER, FAT32_FAT_END_OF_FILE, FAT32_FAT_EMPTY_ENTRY,
     CLUSTER_0_VALUE

(* What it means to follow the FAT from a cluster, and that Walk does it.  *)
IsWalk(w, m, c) ==
  w = [i \in 0 .. ClusterMapSize |->
         IF i = 0 THEN c
         ELSE IF w[i - 1] \in Clusters THEN m[w[i - 1]] ELSE w[i - 1]]

(* Walk starts at the cluster and takes the successor in the FAT of each   *)
(* cluster it comes to.                                                    *)
LEMMA WalkFacts ==
  ASSUME NEW m \in FatMaps, NEW c \in Clusters
  PROVE  /\ Walk(m, c)[0] = c
         /\ \A i \in 1 .. ClusterMapSize :
              Walk(m, c)[i - 1] \in Clusters =>
                Walk(m, c)[i] = m[Walk(m, c)[i - 1]]
<1> DEFINE N == ClusterMapSize
           step == [p \in FatValues \X (1 .. N) |->
                      IF p[1] \in Clusters THEN m[p[1]] ELSE p[1]]
<1>1. N \in Nat /\ c \in FatValues
  BY ClusterFacts
<1>2. step \in [FatValues \X (1 .. N) -> FatValues]
  BY DEF FatMaps
<1>3. PICK f : Recursion(f, N, FatValues, c, step)
  <2> HIDE DEF N, step
  <2>1. QED
    BY <1>1, <1>2, RecursionExists
<1>4. \A i \in 1 .. N :
        f[i] = IF f[i - 1] \in Clusters THEN m[f[i - 1]] ELSE f[i - 1]
  <2>1. \A i \in 1 .. N : f[i - 1] \in FatValues
    BY <1>1, <1>3 DEF Recursion
  <2>2. \A i \in 1 .. N : <<f[i - 1], i>> \in FatValues \X (1 .. N)
    BY <2>1
  <2> HIDE DEF N
  <2>3. QED
    BY <1>3, <2>2, Zenon DEF Recursion
<1>5. IsWalk(f, m, c)
  <2>1. \A i \in 0 .. N :
          f[i] = IF i = 0 THEN c
                 ELSE IF f[i - 1] \in Clusters THEN m[f[i - 1]] ELSE f[i - 1]
    <3>1. ASSUME NEW i \in 0 .. N, i # 0
          PROVE  f[i] = IF f[i - 1] \in Clusters THEN m[f[i - 1]] ELSE f[i - 1]
      <4>1. i \in 1 .. N
        BY <1>1, <3>1
      <4>2. QED
        BY <1>4, <4>1, Zenon
    <3>2. f[0] = c
      BY <1>3 DEF Recursion
    <3>3. QED
      BY <3>1, <3>2, Zenon
  <2>2. f \in [0 .. N -> FatValues]
    BY <1>3 DEF Recursion
  <2>3. QED
    BY <2>1, <2>2 DEF IsWalk
<1> DEFINE w == Walk(m, c)
<1>6. IsWalk(w, m, c)
  BY <1>5 DEF Walk, IsWalk
<1> HIDE DEF w
<1>7. \A i \in 0 .. N :
        w[i] = IF i = 0 THEN c
               ELSE IF w[i - 1] \in Clusters THEN m[w[i - 1]] ELSE w[i - 1]
  <2>1. w = [i \in 0 .. N |->
               IF i = 0 THEN c
               ELSE IF w[i - 1] \in Clusters THEN m[w[i - 1]] ELSE w[i - 1]]
    BY <1>6 DEF IsWalk
  <2> DEFINE g == [i \in 0 .. N |->
               IF i = 0 THEN c
               ELSE IF w[i - 1] \in Clusters THEN m[w[i - 1]] ELSE w[i - 1]]
  <2>2. \A i \in 0 .. N : g[i] = 
               IF i = 0 THEN c
               ELSE IF w[i - 1] \in Clusters THEN m[w[i - 1]] ELSE w[i - 1]
    BY Zenon
  <2>3. w = g
    BY <2>1
  <2> HIDE DEF g
  <2>4. QED
    BY <2>2, <2>3, Zenon
<1>8. 0 \in 0 .. N /\ \A i \in 1 .. N : i \in 0 .. N /\ i # 0
  BY <1>1
<1>9. w[0] = c /\ \A i \in 1 .. N : w[i - 1] \in Clusters => w[i] = m[w[i - 1]]
  BY <1>7, <1>8, Zenon
<1>10. QED
  BY <1>9 DEF w

(* The chain from c has k links, all of them in the data area, and ends.   *)
ChainIs(m, c, k) ==
  /\ k \in 0 .. ClusterMapSize - 1
  /\ \A j \in 0 .. k : Walk(m, c)[j] \in DataClusters
  /\ \A j \in 0 .. k - 1 :
       m[Walk(m, c)[j]] \notin {FAT32_FAT_END_OF_FILE, FAT32_FAT_EMPTY_ENTRY}
  /\ m[Walk(m, c)[k]] = FAT32_FAT_END_OF_FILE

(* The clusters on it.                                                     *)
OnChain(m, c, k) == {Walk(m, c)[j] : j \in 0 .. k}

(* Such a chain is what delete() and read() find.                          *)
LEMMA ChainFacts ==
  ASSUME NEW m, NEW c, NEW k, ChainIs(m, c, k)
  PROVE  /\ EndsAfter(m, c) # {}
         /\ Least(EndsAfter(m, c)) = k
         /\ Chain(m, c) = OnChain(m, c, k)
         /\ OnChain(m, c, k) \subseteq DataClusters
         /\ \A b \in OnChain(m, c, k) : m[b] # FAT32_FAT_EMPTY_ENTRY
<1>1. k \in Nat /\ k \in 0 .. k /\ k \in 0 .. ClusterMapSize - 1
  BY ClusterFacts DEF ChainIs
<1>2. k \in EndsAfter(m, c)
  BY <1>1 DEF ChainIs, EndsAfter
<1>3. EndsAfter(m, c) \in SUBSET Nat
  BY ClusterFacts DEF EndsAfter
<1>4. /\ Least(EndsAfter(m, c)) \in EndsAfter(m, c)
      /\ Least(EndsAfter(m, c)) <= k
  BY <1>2, <1>3, LeastProperties
<1>5. ASSUME NEW j \in EndsAfter(m, c), j < k PROVE FALSE
  <2>1. j \in 0 .. k - 1
    BY <1>1, <1>3, <1>5
  <2>2. QED
    BY <1>5, <2>1 DEF ChainIs, EndsAfter
<1>6. Least(EndsAfter(m, c)) = k
  BY <1>1, <1>3, <1>4, <1>5
<1>7. Chain(m, c) = OnChain(m, c, k)
  BY <1>6 DEF Chain, OnChain
<1>8. ASSUME NEW j \in 0 .. k PROVE m[Walk(m, c)[j]] # FAT32_FAT_EMPTY_ENTRY
  <2>1. j = k \/ j \in 0 .. k - 1
    BY <1>1
  <2>2. QED
    BY <2>1, ClusterFacts DEF ChainIs
<1>9. QED
  BY <1>2, <1>6, <1>7, <1>8 DEF ChainIs, OnChain

(* A FAT that has the same links on a chain has the same chain.            *)
LEMMA SameChain ==
  ASSUME NEW m \in FatMaps, NEW m2 \in FatMaps, NEW c \in Clusters, NEW k,
         ChainIs(m, c, k), \A b \in OnChain(m, c, k) : m2[b] = m[b]
  PROVE  /\ \A j \in 0 .. k : Walk(m2, c)[j] = Walk(m, c)[j]
         /\ ChainIs(m2, c, k)
         /\ OnChain(m2, c, k) = OnChain(m, c, k)
<1> DEFINE w == Walk(m, c)
           v == Walk(m2, c)
           S == {j \in 0 .. k : v[j] = w[j]}
<1>1. k \in Nat /\ k < ClusterMapSize
  BY ClusterFacts DEF ChainIs
<1>2. \A j \in 0 .. k : w[j] \in DataClusters /\ w[j] \in Clusters /\ m2[w[j]] = m[w[j]]
  BY ClusterFacts DEF ChainIs, OnChain
<1>3. w[0] = c /\ v[0] = c
  BY WalkFacts
<1>4. /\ \A i \in 1 .. ClusterMapSize : w[i - 1] \in Clusters => w[i] = m[w[i - 1]]
      /\ \A i \in 1 .. ClusterMapSize : v[i - 1] \in Clusters => v[i] = m2[v[i - 1]]
  BY WalkFacts
<1> HIDE DEF w, v
<1>5. 0 \in S
  BY <1>1, <1>3
<1>6. ASSUME NEW n \in 0 .. k - 1, n \in S PROVE n + 1 \in S
  <2>1. n + 1 \in 1 .. ClusterMapSize /\ (n + 1) - 1 = n /\ n + 1 \in 0 .. k /\ n \in 0 .. k
    BY <1>1, ClusterFacts
  <2>2. v[n] = w[n]
    BY <1>6
  <2>3. w[n] \in Clusters /\ m2[w[n]] = m[w[n]]
    BY <1>2, <2>1
  <2>4. w[n + 1] = m[w[n]] /\ v[n + 1] = m2[v[n]]
    BY <1>4, <2>1, <2>2, <2>3
  <2>5. QED
    BY <2>1, <2>2, <2>3, <2>4
<1> HIDE DEF S
<1>7. \A j \in 0 .. k : j \in S
  BY <1>1, <1>5, <1>6, UpTo
<1>8. \A j \in 0 .. k : v[j] = w[j]
  BY <1>7 DEF S
<1>9. k \in 0 .. k /\ \A j \in 0 .. k - 1 : j \in 0 .. k
  BY <1>1
<1>10. ChainIs(m2, c, k)
  BY <1>2, <1>8, <1>9 DEF ChainIs, w, v
<1>11. OnChain(m2, c, k) = OnChain(m, c, k)
  BY <1>8 DEF OnChain, w, v
<1>12. QED
  BY <1>8, <1>10, <1>11 DEF w, v

(* The place of a member in a set of clusters that is in rising order.     *)
Rank(A, a) == Cardinality({d \in A : d < a})

(* Places are natural numbers, and a higher member has a higher place.     *)
LEMMA RankFacts ==
  ASSUME NEW A \in SUBSET Nat, IsFiniteSet(A)
  PROVE  /\ \A a \in A : Rank(A, a) \in 0 .. Cardinality(A) - 1
         /\ \A a, b \in A : a < b => Rank(A, a) < Rank(A, b)
         /\ \A a \in A : (Rank(A, a) = Cardinality(A) - 1) => \A d \in A : d <= a
         /\ \A a \in A : (\A d \in A : d <= a) => Rank(A, a) = Cardinality(A) - 1
         /\ \A a, b \in A : a < b /\ (\A d \in A : d > a => b <= d)
                              => Rank(A, b) = Rank(A, a) + 1
<1> DEFINE Low(a) == {d \in A : d < a}
<1>1. ASSUME NEW a \in A
      PROVE  /\ IsFiniteSet(Low(a)) /\ Rank(A, a) \in Nat
             /\ IsFiniteSet(Low(a) \cup {a})
             /\ Cardinality(Low(a) \cup {a}) = Rank(A, a) + 1
             /\ Low(a) \cup {a} \subseteq A
  <2>1. Low(a) \subseteq A /\ a \notin Low(a)
    OBVIOUS
  <2>2. IsFiniteSet(Low(a))
    BY <2>1, FS_Subset
  <2> HIDE DEF Low
  <2>3. Rank(A, a) = Cardinality(Low(a))
    BY DEF Rank, Low
  <2>4. QED
    BY <2>1, <2>2, <2>3, FS_AddElement, FS_CardinalityType
<1>0. \A a \in A : a \in Nat
  OBVIOUS
<1>2. ASSUME NEW a \in A, NEW T, IsFiniteSet(T), Low(a) \cup {a} \subseteq T
      PROVE  /\ Rank(A, a) + 1 <= Cardinality(T) /\ Cardinality(T) \in Nat
             /\ Rank(A, a) + 1 = Cardinality(T) => Low(a) \cup {a} = T
  <2> DEFINE U == Low(a) \cup {a}
  <2>1. Cardinality(U) = Rank(A, a) + 1 /\ U \subseteq T
    BY <1>1, <1>2
  <2> HIDE DEF U
  <2>2. /\ Cardinality(U) <= Cardinality(T)
        /\ Cardinality(U) = Cardinality(T) => U = T
        /\ Cardinality(T) \in Nat
    BY <1>2, <2>1, FS_Subset, FS_CardinalityType
  <2>3. QED
    BY <2>1, <2>2 DEF U
<1>3. ASSUME NEW a \in A PROVE Rank(A, a) \in 0 .. Cardinality(A) - 1
  <2>1. Low(a) \cup {a} \subseteq A /\ Rank(A, a) \in Nat
    BY <1>1
  <2> HIDE DEF Low
  <2>2. Rank(A, a) + 1 <= Cardinality(A) /\ Cardinality(A) \in Nat
    BY <1>2, <2>1
  <2>3. QED
    BY <2>1, <2>2
<1>4. ASSUME NEW a \in A, NEW b \in A, a < b PROVE Rank(A, a) < Rank(A, b)
  <2>1. Low(a) \cup {a} \subseteq Low(b)
    <3>1. ASSUME NEW d \in Low(a) \cup {a} PROVE d \in Low(b)
      <4>1. d \in A /\ (d < a \/ d = a)
        OBVIOUS
      <4>2. QED
        BY <1>0, <1>4, <4>1
    <3>2. QED
      BY <3>1
  <2>2. IsFiniteSet(Low(b)) /\ Rank(A, b) = Cardinality(Low(b))
    BY <1>1 DEF Rank
  <2>3. Rank(A, a) \in Nat /\ Rank(A, b) \in Nat
    BY <1>1
  <2> HIDE DEF Low
  <2>4. Rank(A, a) + 1 <= Cardinality(Low(b))
    BY <1>2, <2>1, <2>2
  <2>5. QED
    BY <2>2, <2>3, <2>4
<1>5. ASSUME NEW a \in A, Rank(A, a) = Cardinality(A) - 1, NEW d \in A
      PROVE  d <= a
  <2>1. Low(a) \cup {a} = A
    <3>1. Cardinality(A) \in Nat
      BY FS_CardinalityType
    <3>2. Low(a) \cup {a} \subseteq A
      BY <1>1
    <3> HIDE DEF Low
    <3>3. QED
      BY <1>1, <1>2, <1>5, <3>1, <3>2
  <2>2. QED
    BY <2>1
<1>6. ASSUME NEW a \in A, \A d \in A : d <= a
      PROVE  Rank(A, a) = Cardinality(A) - 1
  <2>1. Low(a) \cup {a} = A
    <3>1. ASSUME NEW d \in A PROVE d \in Low(a) \cup {a}
      BY <1>0, <1>6
    <3>2. QED
      BY <1>1, <3>1
  <2> HIDE DEF Low
  <2>2. QED
    BY <1>1, <2>1
<1>7. ASSUME NEW a \in A, NEW b \in A, a < b, \A d \in A : d > a => b <= d
      PROVE  Rank(A, b) = Rank(A, a) + 1
  <2>1. Low(b) = Low(a) \cup {a}
    <3>1. ASSUME NEW d \in A PROVE d < b <=> (d < a \/ d = a)
      BY <1>0, <1>7
    <3>2. QED
      BY <3>1
  <2>2. Rank(A, b) = Cardinality(Low(b))
    BY DEF Rank
  <2> HIDE DEF Low
  <2>3. QED
    BY <1>1, <2>1, <2>2
<1> HIDE DEF Low
<1>8. QED
  BY <1>3, <1>4, <1>5, <1>6, <1>7

(* Linking clusters in rising order makes one chain of all of them: its    *)
(* j-th cluster is the one with j others below it.                         *)
LEMMA LinkChain ==
  ASSUME NEW m \in FatMaps, NEW A \in SUBSET DataClusters, A # {}
  PROVE  LET m2 == Link(m, A, FAT32_FAT_END_OF_FILE)
             k  == Cardinality(A) - 1
         IN  /\ k \in Nat
             /\ ChainIs(m2, Least(A), k)
             /\ OnChain(m2, Least(A), k) = A
             /\ \A j \in 0 .. k : Walk(m2, Least(A))[j] \in A
                                  /\ Rank(A, Walk(m2, Least(A))[j]) = j
<1> DEFINE m2 == Link(m, A, FAT32_FAT_END_OF_FILE)
           k  == Cardinality(A) - 1
           w  == Walk(m2, Least(A))
           S  == {j \in 0 .. k : w[j] \in A /\ Rank(A, w[j]) = j}
<1>1. A \in SUBSET Nat /\ A \subseteq Clusters
  BY ClusterFacts
<1>2. IsFiniteSet(A)
  <2>1. IsFiniteSet(Clusters)
    BY ClusterFacts, FS_Interval DEF Clusters
  <2>2. QED
    BY <1>1, <2>1, FS_Subset
<1>3. k \in 0 .. ClusterMapSize - 1
  <2>1. Cardinality(A) <= Cardinality(Clusters) /\ Cardinality(A) \in Nat
    <3>1. IsFiniteSet(Clusters)
      BY ClusterFacts, FS_Interval DEF Clusters
    <3>2. QED
      BY <1>1, <1>2, <3>1, FS_Subset, FS_CardinalityType
  <2>2. Cardinality(Clusters) = ClusterMapSize
    <3>1. 0 \in Int /\ ClusterMapSize - 1 \in Int /\ ~ (0 > ClusterMapSize - 1)
      BY ClusterFacts
    <3>2. Cardinality(Clusters) = ClusterMapSize - 1 - 0 + 1
      BY <3>1, FS_Interval DEF Clusters
    <3>3. QED
      BY <3>2, ClusterFacts
  <2>3. Cardinality(A) # 0
    BY <1>2, FS_EmptySet
  <2>4. QED
    BY <2>1, <2>2, <2>3, ClusterFacts
<1>4. k \in Nat
  BY <1>3
<1>5. Least(A) \in A /\ \A d \in A : Least(A) <= d
  BY <1>1, LeastProperties
<1>6. m2 \in FatMaps
  BY MapTypes
<1>7. /\ w[0] = Least(A)
      /\ \A i \in 1 .. ClusterMapSize : w[i - 1] \in Clusters => w[i] = m2[w[i - 1]]
  BY <1>1, <1>5, <1>6, WalkFacts
<1>8. ASSUME NEW a \in A
      PROVE  /\ Rank(A, a) = k => m2[a] = FAT32_FAT_END_OF_FILE
             /\ Rank(A, a) # k => m2[a] \in A /\ Rank(A, m2[a]) = Rank(A, a) + 1
  <2>1. a \in Clusters /\ a \in Nat
    BY <1>1
  <2>2. m2[a] = IF \E d \in A : d > a THEN Least({d \in A : d > a})
                ELSE FAT32_FAT_END_OF_FILE
    BY <2>1 DEF Link
  <2>3. CASE Rank(A, a) = k
    <3>1. \A d \in A : d <= a
      BY <1>1, <1>2, <2>3, RankFacts
    <3>2. ~ \E d \in A : d > a
      BY <1>1, <2>1, <3>1
    <3>3. QED
      BY <2>2, <2>3, <3>2
  <2>4. CASE Rank(A, a) # k
    <3>1. \E d \in A : d > a
      <4>1. ~ (\A d \in A : d <= a)
        BY <1>1, <1>2, <2>4, RankFacts
      <4>2. QED
        BY <1>1, <2>1, <4>1
    <3>2. m2[a] = Least({d \in A : d > a})
      BY <2>2, <3>1
    <3>3. {d \in A : d > a} \in SUBSET Nat /\ {d \in A : d > a} # {}
      BY <1>1, <3>1
    <3>4. m2[a] \in {d \in A : d > a} /\ \A d \in {d \in A : d > a} : m2[a] <= d
      BY <3>2, <3>3, LeastProperties
    <3>5. m2[a] \in A /\ a < m2[a] /\ \A d \in A : d > a => m2[a] <= d
      BY <1>1, <2>1, <3>4
    <3> HIDE DEF m2
    <3>6. Rank(A, m2[a]) = Rank(A, a) + 1
      <4> DEFINE b == m2[a]
      <4>1. b \in A /\ a < b /\ \A d \in A : d > a => b <= d
        BY <3>5
      <4> HIDE DEF b
      <4>2. Rank(A, b) = Rank(A, a) + 1
        BY <1>1, <1>2, <4>1, RankFacts
      <4>3. QED
        BY <4>2 DEF b
    <3>7. QED
      BY <2>4, <3>5, <3>6
  <2>5. QED
    BY <2>3, <2>4
<1>9. \A a \in A : Rank(A, a) \in 0 .. k
  BY <1>1, <1>2, RankFacts
<1>10. Rank(A, Least(A)) = 0
  <2>1. {d \in A : d < Least(A)} = {}
    <3>1. ASSUME NEW d \in A PROVE ~ (d < Least(A))
      <4>1. d \in Nat /\ Least(A) \in Nat /\ Least(A) <= d
        BY <1>1, <1>5
      <4>2. \A x \in Nat, y \in Nat : x <= y => ~ (y < x)
        OBVIOUS
      <4>3. QED
        BY <4>1, <4>2
    <3>2. QED
      BY <3>1
  <2>2. QED
    BY <2>1, FS_EmptySet DEF Rank
<1> HIDE DEF m2, k, w
<1>11. 0 \in S
  BY <1>4, <1>5, <1>7, <1>10
<1>12. ASSUME NEW n \in 0 .. k - 1, n \in S PROVE n + 1 \in S
  <2>1. n + 1 \in 1 .. ClusterMapSize /\ (n + 1) - 1 = n /\ n + 1 \in 0 .. k /\ n # k
    BY <1>3, ClusterFacts
  <2>2. w[n] \in A /\ Rank(A, w[n]) = n
    BY <1>12
  <2>3. w[n + 1] = m2[w[n]]
    BY <1>1, <1>7, <2>1, <2>2
  <2>4. QED
    BY <1>8, <2>1, <2>2, <2>3
<1> HIDE DEF S
<1>13. \A j \in 0 .. k : j \in S
  BY <1>4, <1>11, <1>12, UpTo
<1>14. \A j \in 0 .. k : w[j] \in A /\ Rank(A, w[j]) = j
  BY <1>13 DEF S
<1>15. ChainIs(m2, Least(A), k)
  <2>1. \A j \in 0 .. k : w[j] \in DataClusters
    BY <1>14
  <2>2. ASSUME NEW j \in 0 .. k - 1
        PROVE  m2[w[j]] \notin {FAT32_FAT_END_OF_FILE, FAT32_FAT_EMPTY_ENTRY}
    <3>1. j \in 0 .. k /\ j # k
      BY <1>4
    <3>2. m2[w[j]] \in A
      BY <1>8, <1>14, <3>1
    <3>3. QED
      BY <3>2, ClusterFacts
  <2>3. m2[w[k]] = FAT32_FAT_END_OF_FILE
    <3>1. k \in 0 .. k
      BY <1>4
    <3>2. QED
      BY <1>8, <1>14, <3>1
  <2>4. QED
    BY <1>3, <2>1, <2>2, <2>3 DEF ChainIs, w
<1>16. OnChain(m2, Least(A), k) = A
  <2>1. OnChain(m2, Least(A), k) \subseteq A
    BY <1>14 DEF OnChain, w
  <2>2. ASSUME NEW a \in A PROVE a \in OnChain(m2, Least(A), k)
    <3>1. Rank(A, a) \in 0 .. k
      BY <1>9
    <3>2. w[Rank(A, a)] \in A /\ Rank(A, w[Rank(A, a)]) = Rank(A, a)
      BY <1>14, <3>1
    <3>3. a = w[Rank(A, a)]
      <4>1. ~ (a < w[Rank(A, a)]) /\ ~ (w[Rank(A, a)] < a)
        <5> DEFINE b == w[Rank(A, a)]
        <5>1. b \in A /\ Rank(A, b) = Rank(A, a) /\ Rank(A, a) \in Nat
          BY <1>4, <3>1, <3>2
        <5> HIDE DEF b
        <5>2. ~ (a < b) /\ ~ (b < a)
          <6>1. a < b => Rank(A, a) < Rank(A, b)
            BY <1>1, <1>2, <5>1, RankFacts
          <6>2. b < a => Rank(A, b) < Rank(A, a)
            BY <1>1, <1>2, <5>1, RankFacts
          <6>3. QED
            BY <5>1, <6>1, <6>2
        <5>3. QED
          BY <5>2 DEF b
      <4>2. a \in Nat /\ w[Rank(A, a)] \in Nat
        BY <1>1, <3>2
      <4>3. \A x \in Nat, y \in Nat : ~ (x < y) /\ ~ (y < x) => x = y
        OBVIOUS
      <4>4. QED
        BY <4>1, <4>2, <4>3
    <3>4. QED
      BY <3>1, <3>3 DEF OnChain, w
  <2>3. QED
    BY <2>1, <2>2
<1>17. QED
  BY <1>4, <1>14, <1>15, <1>16 DEF m2, k, w

(* The k lowest clusters are at most k.                                    *)
LEMMA LowestCount ==
  ASSUME NEW m \in FatMaps, NEW S \in SUBSET DataClusters, NEW k \in Nat \ {0}
  PROVE  /\ Lowest(S, k) \subseteq S
         /\ Cardinality(Lowest(S, k)) \in 0 .. k
<1> DEFINE A == Lowest(S, k)
           n == Cardinality(A)
<1>1. A \subseteq S /\ \A a \in A : Cardinality({d \in S : d < a}) < k
  BY DEF Lowest
<1>2. IsFiniteSet(DataClusters)
  BY ClusterFacts, FS_Interval DEF DataClusters, ROOT_CLUSTER_NUMBER
<1>3. IsFiniteSet(S) /\ IsFiniteSet(A)
  BY <1>1, <1>2, FS_Subset
<1>4. n \in Nat
  BY <1>3, FS_CardinalityType
<1> HIDE DEF A
<1>5. CASE A = {}
  BY <1>1, <1>5, FS_EmptySet DEF A
<1>6. CASE A # {}
  <2> DEFINE w == Walk(Link(m, A, FAT32_FAT_END_OF_FILE), Least(A))[n - 1]
  <2>1. /\ n - 1 \in Nat
        /\ \A j \in 0 .. n - 1 :
             /\ Walk(Link(m, A, FAT32_FAT_END_OF_FILE), Least(A))[j] \in A
             /\ Rank(A, Walk(Link(m, A, FAT32_FAT_END_OF_FILE), Least(A))[j]) = j
    BY <1>1, <1>6, LinkChain
  <2>2. n - 1 \in 0 .. n - 1
    BY <2>1
  <2>3. w \in A /\ Rank(A, w) = n - 1
    BY <2>1, <2>2
  <2> HIDE DEF w, n
  <2>4. {d \in A : d < w} \subseteq {d \in S : d < w}
    BY <1>1
  <2>5. IsFiniteSet({d \in S : d < w})
    BY <1>3, FS_Subset
  <2>6. Rank(A, w) <= Cardinality({d \in S : d < w})
    BY <2>4, <2>5, FS_Subset DEF Rank
  <2>7. Cardinality({d \in S : d < w}) < k /\ Cardinality({d \in S : d < w}) \in Nat
    BY <1>1, <2>3, <2>5, FS_CardinalityType
  <2>8. n <= k
    BY <1>4, <2>3, <2>6, <2>7
  <2>9. QED
    BY <1>1, <1>4, <2>8 DEF A, n
<1>7. QED
  BY <1>5, <1>6

(* Along a chain that only leads upwards no cluster is met twice.          *)
LEMMA ChainInjective ==
  ASSUME NEW m \in FatMaps, Ascending(m), NEW c \in Clusters, NEW k,
         ChainIs(m, c, k), NEW i \in 0 .. k, NEW j \in 0 .. k, i # j
  PROVE  Walk(m, c)[i] # Walk(m, c)[j]
<1> DEFINE w == Walk(m, c)
           S == {n \in 0 .. k : \A b \in 0 .. n - 1 : w[b] < w[n]}
<1>1. k \in Nat /\ k < ClusterMapSize
  BY ClusterFacts DEF ChainIs
<1>2. \A b \in 0 .. k : w[b] \in DataClusters /\ w[b] \in Clusters /\ w[b] \in Nat
  BY ClusterFacts DEF ChainIs
<1>3. \A b \in 1 .. ClusterMapSize : w[b - 1] \in Clusters => w[b] = m[w[b - 1]]
  BY WalkFacts
<1>4. \A b \in 0 .. k - 1 : m[w[b]] \notin {FAT32_FAT_END_OF_FILE, FAT32_FAT_EMPTY_ENTRY}
  BY DEF ChainIs
<1> HIDE DEF w
<1>5. ASSUME NEW b \in 0 .. k - 1 PROVE w[b] < w[b + 1]
  <2>1. b + 1 \in 1 .. ClusterMapSize /\ (b + 1) - 1 = b /\ b \in 0 .. k /\ b + 1 \in 0 .. k
    BY <1>1, ClusterFacts
  <2>2. w[b + 1] = m[w[b]]
    BY <1>2, <1>3, <2>1
  <2>3. m[w[b]] > w[b]
    BY <1>2, <1>4, <2>1 DEF Ascending
  <2>4. QED
    BY <1>2, <2>1, <2>2, <2>3
<1>6. 0 \in S
  BY <1>1
<1>7. ASSUME NEW n \in 0 .. k - 1, n \in S PROVE n + 1 \in S
  <2>1. ASSUME NEW b \in 0 .. (n + 1) - 1 PROVE w[b] < w[n + 1]
    <3>1. b \in 0 .. k /\ n \in 0 .. k /\ n + 1 \in 0 .. k /\ (b = n \/ b \in 0 .. n - 1)
      BY <1>1
    <3>2. w[n] < w[n + 1]
      BY <1>5
    <3>3. b # n => w[b] < w[n]
      BY <1>7, <3>1
    <3>4. QED
      BY <1>2, <3>1, <3>2, <3>3
  <2>2. n + 1 \in 0 .. k
    BY <1>1
  <2>3. QED
    BY <2>1, <2>2
<1> HIDE DEF S
<1>8. \A n \in 0 .. k : n \in S
  BY <1>1, <1>6, <1>7, UpTo
<1>9. \A n \in 0 .. k, b \in 0 .. k : b < n => w[b] < w[n]
  <2>1. ASSUME NEW n \in 0 .. k, NEW b \in 0 .. k, b < n PROVE w[b] < w[n]
    <3>1. b \in 0 .. n - 1
      BY <2>1
    <3>2. QED
      BY <1>8, <3>1 DEF S
  <2>2. QED
    BY <2>1
<1>10. w[i] < w[j] \/ w[j] < w[i]
  <2>1. i < j \/ j < i
    BY <1>1
  <2>2. QED
    BY <1>9, <2>1
<1>11. QED
  BY <1>2, <1>10 DEF w

-----------------------------------------------------------------------------
(* Reading a disk image.                                                   *)

(* The directory table and the file data that a cluster holds.             *)
Tab(d, c) == d.cell[c].table
Dat(d, c) == d.cell[c].data

(* The entries of an image in these terms.                                 *)
LEMMA ListedFacts ==
  ASSUME NEW d
  PROVE  /\ Directories(d) = {c \in DataClusters : Tab(d, c)[0].used}
         /\ \A l : l \in Listed(d) <=>
                     /\ l \in DataClusters \X (Slots \ {0, 1})
                     /\ Tab(d, l[1])[l[2]].used
         /\ \A l : EntryAt(d, l) = Tab(d, l[1])[l[2]]
  BY DEF Directories, Listed, EntryAt, Tab

(* What the tables of a disk hold.                                         *)
LEMMA TabTypes ==
  ASSUME NEW d \in Disks
  PROVE  /\ d.fat \in FatMaps
         /\ \A c \in DataClusters : Tab(d, c) \in Tables
         /\ \A c \in DataClusters, i \in Slots : Tab(d, c)[i] \in Entries
         /\ \A l \in Listed(d) :
              /\ l[1] \in DataClusters /\ l[2] \in Slots /\ l[2] >= 2
              /\ l = <<l[1], l[2]>>
              /\ EntryAt(d, l) \in Entries
              /\ EntryAt(d, l).cluster \in Clusters
              /\ EntryAt(d, l).filesize \in Nat
<1>1. d.fat \in FatMaps /\ \A c \in DataClusters : Tab(d, c) \in Tables
  BY DEF Disks, Cells, Tab
<1>2. \A c \in DataClusters, i \in Slots : Tab(d, c)[i] \in Entries
  BY <1>1 DEF Tables
<1>3. ASSUME NEW l \in Listed(d)
      PROVE  /\ l[1] \in DataClusters /\ l[2] \in Slots /\ l[2] >= 2
             /\ l = <<l[1], l[2]>>
  <2>1. l \in DataClusters \X (Slots \ {0, 1})
    BY ListedFacts
  <2>2. l[1] \in DataClusters /\ l[2] \in Slots /\ l[2] # 0 /\ l[2] # 1
        /\ l = <<l[1], l[2]>>
    BY <2>1
  <2>3. QED
    BY <2>2, SlotTypes
<1>4. ASSUME NEW l \in Listed(d) PROVE EntryAt(d, l) \in Entries
  BY <1>2, <1>3, ListedFacts
<1>5. \A e \in Entries : e.cluster \in Clusters /\ e.filesize \in Nat
  BY DEF Entries
<1>6. QED
  BY <1>1, <1>2, <1>3, <1>4, <1>5

(* What single writes do to the tables and the data.                       *)
LEMMA WriteViews ==
  ASSUME NEW d \in Disks, NEW m \in FatMaps, NEW p \in DataClusters,
         NEW t \in Tables, NEW S
  PROVE  /\ WriteFat(d, m).fat = m
         /\ WriteFat(d, m).signed = d.signed
         /\ \A c \in DataClusters : /\ Tab(WriteFat(d, m), c) = Tab(d, c)
                                    /\ Dat(WriteFat(d, m), c) = Dat(d, c)
         /\ WriteTable(d, p, t).fat = d.fat
         /\ WriteTable(d, p, t).signed = d.signed
         /\ Tab(WriteTable(d, p, t), p) = t
         /\ \A c \in DataClusters \ {p} :
              /\ Tab(WriteTable(d, p, t), c) = Tab(d, c)
              /\ Dat(WriteTable(d, p, t), c) = Dat(d, c)
         /\ ZeroClusters(d, S).fat = d.fat
         /\ ZeroClusters(d, S).signed = d.signed
         /\ \A c \in DataClusters :
              /\ Tab(ZeroClusters(d, S), c) = IF c \in S THEN EmptyTable ELSE Tab(d, c)
              /\ Dat(ZeroClusters(d, S), c) = IF c \in S THEN NoData ELSE Dat(d, c)
<1>1. /\ WriteFat(d, m).fat = m /\ WriteFat(d, m).cell = d.cell
      /\ WriteFat(d, m).signed = d.signed
  BY DEF WriteFat, Disks
<1>2. /\ WriteTable(d, p, t).fat = d.fat
      /\ WriteTable(d, p, t).signed = d.signed
      /\ WriteTable(d, p, t).cell = [d.cell EXCEPT ![p] = TableCell(t)]
  BY DEF WriteTable, Disks
<1>3. /\ ZeroClusters(d, S).fat = d.fat
      /\ ZeroClusters(d, S).signed = d.signed
      /\ ZeroClusters(d, S).cell
           = [c \in DataClusters |-> IF c \in S THEN ZeroCell ELSE d.cell[c]]
  BY DEF ZeroClusters, Disks
<1>4. d.cell \in [DataClusters -> Cells]
  BY DEF Disks
<1>5. TableCell(t).table = t /\ ZeroCell.table = EmptyTable /\ ZeroCell.data = NoData
  BY DEF TableCell, ZeroCell
<1>6. \A c \in DataClusters : /\ Tab(WriteFat(d, m), c) = Tab(d, c)
                              /\ Dat(WriteFat(d, m), c) = Dat(d, c)
  BY <1>1 DEF Tab, Dat
<1>7. /\ Tab(WriteTable(d, p, t), p) = t
      /\ \A c \in DataClusters \ {p} :
           /\ Tab(WriteTable(d, p, t), c) = Tab(d, c)
           /\ Dat(WriteTable(d, p, t), c) = Dat(d, c)
  BY <1>2, <1>4, <1>5 DEF Tab, Dat
<1>8. \A c \in DataClusters :
        /\ Tab(ZeroClusters(d, S), c) = IF c \in S THEN EmptyTable ELSE Tab(d, c)
        /\ Dat(ZeroClusters(d, S), c) = IF c \in S THEN NoData ELSE Dat(d, c)
  BY <1>3, <1>5 DEF Tab, Dat
<1>9. QED
  BY <1>1, <1>2, <1>3, <1>6, <1>7, <1>8

(* The same, for an image that is given as the result of a write.          *)
LEMMA FatWritten ==
  ASSUME NEW d \in Disks, NEW m \in FatMaps, NEW b, b = WriteFat(d, m)
  PROVE  /\ b \in Disks /\ b.fat = m /\ b.signed = d.signed
         /\ \A c \in DataClusters : Tab(b, c) = Tab(d, c) /\ Dat(b, c) = Dat(d, c)
<1>1. ROOT_CLUSTER_NUMBER \in DataClusters /\ EmptyTable \in Tables
  BY ClusterFacts, EmptyTypes
<1>2. b \in Disks
  BY <1>1, DiskTypes
<1>3. QED
  BY <1>1, <1>2, WriteViews

(* Writing a table changes the cluster it is written to and no other.      *)
LEMMA TableWritten ==
  ASSUME NEW d \in Disks, NEW p \in DataClusters, NEW t \in Tables, NEW b,
         b = WriteTable(d, p, t)
  PROVE  /\ b \in Disks /\ b.fat = d.fat /\ b.signed = d.signed
         /\ Tab(b, p) = t
         /\ \A c \in DataClusters \ {p} : Tab(b, c) = Tab(d, c) /\ Dat(b, c) = Dat(d, c)
<1>1. ZeroMap \in FatMaps
  BY EmptyTypes
<1>2. b \in Disks
  BY <1>1, DiskTypes
<1>3. QED
  BY <1>1, <1>2, WriteViews

(* So does writing zeros to some clusters.                                 *)
LEMMA ZeroWritten ==
  ASSUME NEW d \in Disks, NEW S, NEW b, b = ZeroClusters(d, S)
  PROVE  /\ b \in Disks /\ b.fat = d.fat /\ b.signed = d.signed
         /\ \A c \in DataClusters :
              /\ c \notin S => Tab(b, c) = Tab(d, c) /\ Dat(b, c) = Dat(d, c)
              /\ c \in S => Tab(b, c) = EmptyTable /\ Dat(b, c) = NoData
<1>1. /\ ROOT_CLUSTER_NUMBER \in DataClusters /\ EmptyTable \in Tables
      /\ ZeroMap \in FatMaps
  BY ClusterFacts, EmptyTypes
<1>2. b \in Disks
  BY <1>1, DiskTypes
<1>3. QED
  BY <1>1, <1>2, WriteViews

(* What the data writes of write() do.                                     *)
LEMMA DataViews ==
  ASSUME NEW d \in Disks, NEW m, NEW b, NEW p, NEW i
  PROVE  LET D == WithData(d, m, b, p, i)
             hit(c) == \E j \in 0 .. i - 1 : Walk(m, b)[j] = c
         IN  /\ D.fat = d.fat
             /\ D.signed = d.signed
             /\ \A c \in DataClusters :
                  /\ Tab(D, c) = IF hit(c) THEN EmptyTable ELSE Tab(d, c)
                  /\ Dat(D, c) = IF hit(c)
                       THEN [what |-> p, part |->
                              1 + CHOOSE j \in 0 .. i - 1 : Walk(m, b)[j] = c]
                       ELSE Dat(d, c)
<1> DEFINE D == WithData(d, m, b, p, i)
           hit(c) == \E j \in 0 .. i - 1 : Walk(m, b)[j] = c
           nth(c) == 1 + CHOOSE j \in 0 .. i - 1 : Walk(m, b)[j] = c
<1>1. /\ D.fat = d.fat /\ D.signed = d.signed
      /\ D.cell = [c \in DataClusters |->
                     IF hit(c) THEN DataCell(p, nth(c)) ELSE d.cell[c]]
  BY DEF WithData, Disks
<1> HIDE DEF D
<1>2. ASSUME NEW c \in DataClusters
      PROVE  /\ Tab(D, c) = IF hit(c) THEN EmptyTable ELSE Tab(d, c)
             /\ Dat(D, c) = IF hit(c) THEN [what |-> p, part |-> nth(c)] ELSE Dat(d, c)
  <2> DEFINE h == hit(c)
             n == nth(c)
  <2>1. D.cell[c] = IF h THEN DataCell(p, n) ELSE d.cell[c]
    BY <1>1, Zenon
  <2> HIDE DEF h, n
  <2>2. /\ Tab(D, c) = IF h THEN EmptyTable ELSE Tab(d, c)
        /\ Dat(D, c) = IF h THEN [what |-> p, part |-> n] ELSE Dat(d, c)
    BY <2>1 DEF Tab, Dat, DataCell
  <2>3. QED
    BY <2>2 DEF h, n
<1>3. QED
  BY <1>1, <1>2 DEF D

-----------------------------------------------------------------------------
(* What is true of an image of a disk.                                     *)

(* The tables alone: slots that are not used are blank, a table without an *)
(* entry for itself and the table of a free cluster are empty, directories *)
(* have an entry for their parent and exist only on a formatted disk, and  *)
(* entries lead to data clusters.                                          *)
TablesOk(d) ==
  /\ \A c \in DataClusters, i \in Slots :
       ~ Tab(d, c)[i].used => Tab(d, c)[i] = EmptyEntry
  /\ \A c \in DataClusters : ~ Tab(d, c)[0].used => Tab(d, c) = EmptyTable
  /\ \A c \in DataClusters :
       d.fat[c] = FAT32_FAT_EMPTY_ENTRY => Tab(d, c) = EmptyTable
  /\ \A c \in DataClusters : Tab(d, c)[0].used =>
       /\ Tab(d, c)[1].used
       /\ Tab(d, c)[0].filesize = 0 /\ Tab(d, c)[1].filesize = 0
       /\ d.fat[1] # FAT32_FAT_EMPTY_ENTRY /\ d.fat[2] # FAT32_FAT_EMPTY_ENTRY
  /\ \A c \in DataClusters, i \in Slots :
       Tab(d, c)[i].used => Tab(d, c)[i].cluster \in DataClusters

(* A file holds what one write() stored, but for its first clusters, which *)
(* may be zero.                                                            *)
StoredBut(d, e, p, k) ==
  Contents(d, e) = [j \in 1 .. CeilDiv(e.filesize) |->
                      IF j <= k THEN NoData ELSE [what |-> p, part |-> j]]

(* An entry of a file has the whole chain, in clusters that are no         *)
(* directories, and the data.                                              *)
EntryOk(d, e) ==
  IsFile(e) =>
    /\ ChainIs(d.fat, e.cluster, CeilDiv(e.filesize) - 1)
    /\ \A c \in Owned(d, e) : Tab(d, c) = EmptyTable
    /\ \E p \in Payloads, k \in 0 .. CeilDiv(e.filesize) : StoredBut(d, e, p, k)
FileOk(d, l) == EntryOk(d, EntryAt(d, l))

(* No cluster belongs to two entries, and none of them the root.           *)
Apart(d) ==
  \A l1, l2 \in Listed(d) :
    /\ ROOT_CLUSTER_NUMBER \notin Owned(d, EntryAt(d, l1))
    /\ l1 # l2 => Owned(d, EntryAt(d, l1)) \cap Owned(d, EntryAt(d, l2)) = {}

Sound(d) == TablesOk(d) /\ (\A l \in Listed(d) : FileOk(d, l)) /\ Apart(d)

(* The directories form a tree, of which the entries L may be broken.      *)
Entered(d, c) ==
  \E l \in Listed(d) : ~ IsFile(EntryAt(d, l)) /\ EntryAt(d, l).cluster = c
TreeBut(d, L) ==
  /\ \A l \in Listed(d) \ L : EntryWhole(d, l)
  /\ \A c \in Directories(d) \ {ROOT_CLUSTER_NUMBER} : Entered(d, c)
  /\ ROOT_CLUSTER_NUMBER \in Directories(d) =>
       \A j \in {0, 1} : Tab(d, ROOT_CLUSTER_NUMBER)[j].cluster = ROOT_CLUSTER_NUMBER

(* The root is the only directory.                                         *)
Flat(d) ==
  /\ \A l \in Listed(d) : IsFile(EntryAt(d, l))
  /\ Directories(d) \subseteq {ROOT_CLUSTER_NUMBER}

(* What the entries own, in terms of the chain.                            *)
LEMMA OwnedFacts ==
  ASSUME NEW d \in Disks, NEW e \in Entries
  PROVE  /\ ~ IsFile(e) => Owned(d, e) = {e.cluster}
         /\ IsFile(e) /\ ChainIs(d.fat, e.cluster, CeilDiv(e.filesize) - 1) =>
              /\ Owned(d, e)
                   = OnChain(d.fat, e.cluster, CeilDiv(e.filesize) - 1)
              /\ Owned(d, e) \subseteq DataClusters
              /\ e.cluster \in Owned(d, e)
              /\ \A c \in Owned(d, e) : d.fat[c] # FAT32_FAT_EMPTY_ENTRY
<1>1. ~ IsFile(e) => Owned(d, e) = {e.cluster}
  BY DEF Owned
<1>2. ASSUME IsFile(e), ChainIs(d.fat, e.cluster, CeilDiv(e.filesize) - 1)
      PROVE  /\ Owned(d, e) = OnChain(d.fat, e.cluster, CeilDiv(e.filesize) - 1)
             /\ Owned(d, e) \subseteq DataClusters
             /\ e.cluster \in Owned(d, e)
             /\ \A c \in Owned(d, e) : d.fat[c] # FAT32_FAT_EMPTY_ENTRY
  <2> DEFINE k == CeilDiv(e.filesize) - 1
  <2>1. d.fat \in FatMaps /\ e.cluster \in Clusters
    BY TabTypes DEF Entries
  <2>2. Owned(d, e) = OnChain(d.fat, e.cluster, k)
    BY <1>2, ChainFacts DEF Owned
  <2>3. k \in 0 .. ClusterMapSize - 1 /\ k \in Nat
    BY <1>2, ClusterFacts DEF ChainIs
  <2>4. Walk(d.fat, e.cluster)[0] = e.cluster
    BY <2>1, WalkFacts
  <2> HIDE DEF k
  <2>5. e.cluster \in OnChain(d.fat, e.cluster, k)
    <3>1. 0 \in 0 .. k
      BY <2>3
    <3>2. QED
      BY <2>4, <3>1 DEF OnChain
  <2>6. QED
    BY <1>2, <2>2, <2>5, ChainFacts DEF k
<1>3. QED
  BY <1>1, <1>2

(* The clusters of an entry have not changed from one image to the next.   *)
SameClusters(a, b, e) ==
  IsFile(e) =>
    \A c \in Owned(a, e) :
      b.fat[c] = a.fat[c] /\ Tab(b, c) = Tab(a, c) /\ Dat(b, c) = Dat(a, c)

(* It owns what it did and holds what it did.                              *)
LEMMA SameEntry ==
  ASSUME NEW a \in Disks, NEW b \in Disks, NEW e \in Entries,
         EntryOk(a, e), SameClusters(a, b, e)
  PROVE  /\ Owned(b, e) = Owned(a, e)
         /\ EntryOk(b, e)
         /\ IsFile(e) => Contents(b, e) = Contents(a, e)
<1> DEFINE k == CeilDiv(e.filesize) - 1
<1>1. e.cluster \in Clusters /\ e.filesize \in Nat
  BY DEF Entries
<1>2. CASE ~ IsFile(e)
  BY <1>1, <1>2, OwnedFacts DEF EntryOk
<1>3. CASE IsFile(e)
  <2>1. /\ ChainIs(a.fat, e.cluster, k)
        /\ \A c \in Owned(a, e) : Tab(a, c) = EmptyTable
        /\ \E p \in Payloads, n \in 0 .. CeilDiv(e.filesize) : StoredBut(a, e, p, n)
    BY <1>3 DEF EntryOk
  <2>2. \A c \in Owned(a, e) :
          b.fat[c] = a.fat[c] /\ Tab(b, c) = Tab(a, c) /\ Dat(b, c) = Dat(a, c)
    BY <1>3 DEF SameClusters
  <2>3. Owned(a, e) = OnChain(a.fat, e.cluster, k) /\ Owned(a, e) \subseteq DataClusters
    BY <1>1, <1>3, <2>1, OwnedFacts
  <2>4. a.fat \in FatMaps /\ b.fat \in FatMaps
    BY TabTypes
  <2>5. /\ \A j \in 0 .. k : Walk(b.fat, e.cluster)[j] = Walk(a.fat, e.cluster)[j]
        /\ ChainIs(b.fat, e.cluster, k)
        /\ OnChain(b.fat, e.cluster, k) = OnChain(a.fat, e.cluster, k)
    <3> HIDE DEF k
    <3>1. QED
      BY <1>1, <2>1, <2>2, <2>3, <2>4, SameChain
  <2>6. Owned(b, e) = Owned(a, e)
    BY <1>1, <1>3, <2>3, <2>5, OwnedFacts
  <2>7. Contents(b, e) = Contents(a, e)
    <3> DEFINE N == CeilDiv(e.filesize)
    <3>1. ASSUME NEW j \in 1 .. N
          PROVE  CellAt(b, Walk(b.fat, e.cluster)[j - 1]).data
                   = CellAt(a, Walk(a.fat, e.cluster)[j - 1]).data
      <4>1. N \in Nat /\ k = N - 1
        BY <1>1, CeilDivNat
      <4> HIDE DEF N, k
      <4>2. j - 1 \in 0 .. k
        BY <4>1
      <4>3. Walk(b.fat, e.cluster)[j - 1] = Walk(a.fat, e.cluster)[j - 1]
        BY <2>5, <4>2
      <4>4. Walk(a.fat, e.cluster)[j - 1] \in Owned(a, e)
        BY <2>3, <4>2 DEF OnChain
      <4>5. Dat(b, Walk(a.fat, e.cluster)[j - 1]) = Dat(a, Walk(a.fat, e.cluster)[j - 1])
        BY <2>2, <4>4
      <4>6. QED
        BY <2>3, <4>3, <4>4, <4>5 DEF CellAt, Dat
    <3> HIDE DEF N
    <3>2. [j \in 1 .. N |-> CellAt(b, Walk(b.fat, e.cluster)[j - 1]).data]
            = [j \in 1 .. N |-> CellAt(a, Walk(a.fat, e.cluster)[j - 1]).data]
      BY <3>1
    <3>3. QED
      BY <3>2 DEF Contents, N
  <2>8. EntryOk(b, e)
    <3>1. \A c \in Owned(b, e) : Tab(b, c) = EmptyTable
      BY <2>1, <2>2, <2>6
    <3>2. \E p \in Payloads, n \in 0 .. CeilDiv(e.filesize) : StoredBut(b, e, p, n)
      BY <2>1, <2>7 DEF StoredBut
    <3>3. QED
      BY <1>1, <2>5, <3>1, <3>2 DEF EntryOk
  <2>9. QED
    BY <2>6, <2>7, <2>8
<1>4. QED
  BY <1>2, <1>3

(* An entry of both images with these clusters.                            *)
KeptEntry(a, b, l) ==
  /\ l \in Listed(a) /\ l \in Listed(b) /\ EntryAt(b, l) = EntryAt(a, l)
  /\ SameClusters(a, b, EntryAt(a, l))

(* Such an entry owns the same clusters and holds the same contents.       *)
LEMMA KeptFacts ==
  ASSUME NEW a \in Disks, NEW b \in Disks, NEW l, KeptEntry(a, b, l),
         FileOk(a, l)
  PROVE  /\ Owned(b, EntryAt(b, l)) = Owned(a, EntryAt(a, l))
         /\ FileOk(b, l)
         /\ IsFile(EntryAt(a, l)) =>
              Contents(b, EntryAt(a, l)) = Contents(a, EntryAt(a, l))
<1>1. EntryAt(a, l) \in Entries /\ EntryAt(b, l) = EntryAt(a, l)
  BY TabTypes DEF KeptEntry
<1>2. QED
  BY <1>1, SameEntry DEF KeptEntry, FileOk

(* An image is sound if its tables are, all its entries but l are those of *)
(* a sound image, and l, if it is listed, has clusters of its own.         *)
LEMMA SoundStep ==
  ASSUME NEW a \in Disks, NEW b \in Disks, Sound(a), TablesOk(b), NEW l,
         \A k \in Listed(b) : k # l => KeptEntry(a, b, k),
         l \in Listed(b) =>
           /\ FileOk(b, l)
           /\ ROOT_CLUSTER_NUMBER \notin Owned(b, EntryAt(b, l))
           /\ \A k \in Listed(a) : k # l =>
                Owned(b, EntryAt(b, l)) \cap Owned(a, EntryAt(a, k)) = {}
  PROVE  Sound(b)
<1>1. \A k \in Listed(a) : FileOk(a, k)
  BY DEF Sound
<1>2. ASSUME NEW k \in Listed(b), k # l
      PROVE  /\ k \in Listed(a)
             /\ Owned(b, EntryAt(b, k)) = Owned(a, EntryAt(a, k))
             /\ FileOk(b, k)
  <2>1. KeptEntry(a, b, k)
    BY <1>2
  <2>2. k \in Listed(a)
    BY <2>1 DEF KeptEntry
  <2>3. QED
    BY <1>1, <2>1, <2>2, KeptFacts
<1>3. \A k \in Listed(b) : FileOk(b, k)
  BY <1>2
<1>4. Apart(b)
  <2> SUFFICES ASSUME NEW l1 \in Listed(b), NEW l2 \in Listed(b)
               PROVE  /\ ROOT_CLUSTER_NUMBER \notin Owned(b, EntryAt(b, l1))
                      /\ l1 # l2 => Owned(b, EntryAt(b, l1))
                                      \cap Owned(b, EntryAt(b, l2)) = {}
    BY DEF Apart
  <2>1. ROOT_CLUSTER_NUMBER \notin Owned(b, EntryAt(b, l1))
    BY <1>2 DEF Sound, Apart
  <2>2. CASE l1 # l /\ l2 # l
    BY <1>2, <2>1, <2>2 DEF Sound, Apart
  <2>3. CASE l1 = l /\ l2 # l
    BY <1>2, <2>1, <2>3
  <2>4. CASE l1 # l /\ l2 = l
    BY <1>2, <2>1, <2>4
  <2>5. QED
    BY <2>1, <2>2, <2>3, <2>4
<1>5. QED
  BY <1>3, <1>4 DEF Sound

-----------------------------------------------------------------------------
(* The kinds of writes, one by one: what each makes of a sound image.      *)

(* What an image with sound tables lists is in its directories.            *)
LEMMA ListedInDirectory ==
  ASSUME NEW d \in Disks, TablesOk(d), NEW l \in Listed(d)
  PROVE  l[1] \in Directories(d) /\ EntryAt(d, l).cluster \in DataClusters
<1>1. l[1] \in DataClusters /\ l[2] \in Slots /\ Tab(d, l[1])[l[2]].used
  BY TabTypes, ListedFacts
<1>2. Tab(d, l[1]) # EmptyTable
  BY <1>1 DEF EmptyTable, EmptyEntry
<1>3. QED
  BY <1>1, <1>2, ListedFacts DEF TablesOk

(* The entry of a file is whole.                                           *)
LEMMA FileWhole ==
  ASSUME NEW d \in Disks, NEW l \in Listed(d), FileOk(d, l),
         IsFile(EntryAt(d, l)), l[1] \in Directories(d)
  PROVE  EntryWhole(d, l)
<1>1. EntryAt(d, l) \in Entries
  BY TabTypes
<1>2. \A c \in Owned(d, EntryAt(d, l)) : d.fat[c] # FAT32_FAT_EMPTY_ENTRY
  BY <1>1, OwnedFacts DEF FileOk, EntryOk
<1>3. QED
  BY <1>2 DEF EntryWhole

(* An entry that is kept stays whole if the directory it may lead to still *)
(* has its cluster and its first two entries.                              *)
LEMMA WholeKept ==
  ASSUME NEW a \in Disks, NEW b \in Disks, NEW l, KeptEntry(a, b, l),
         FileOk(a, l), EntryWhole(a, l), l[1] \in Directories(b),
         ~ IsFile(EntryAt(a, l)) =>
           LET c == EntryAt(a, l).cluster IN
           /\ b.fat[c] = a.fat[c]
           /\ Tab(b, c)[0] = Tab(a, c)[0] /\ Tab(b, c)[1] = Tab(a, c)[1]
  PROVE  EntryWhole(b, l)
<1> DEFINE e == EntryAt(a, l)
<1>1. /\ l \in Listed(a) /\ l \in Listed(b) /\ EntryAt(b, l) = e
      /\ e \in Entries
  BY TabTypes DEF KeptEntry
<1>2. FileOk(b, l)
  BY KeptFacts
<1>3. CASE IsFile(e)
  BY <1>1, <1>2, <1>3, FileWhole
<1>4. CASE ~ IsFile(e)
  <2>1. Owned(a, e) = {e.cluster} /\ Owned(b, e) = {e.cluster}
    BY <1>1, <1>4, OwnedFacts
  <2> DEFINE c == e.cluster
  <2>2. /\ \A x \in Owned(a, e) : a.fat[x] # FAT32_FAT_EMPTY_ENTRY
        /\ a.fat[c] = FAT32_FAT_END_OF_FILE
        /\ Tab(a, c)[0] = e
        /\ Tab(a, c)[1].used /\ Tab(a, c)[1].name = ".." /\ Tab(a, c)[1].cluster = l[1]
    BY <1>4 DEF EntryWhole, Tab
  <2>3. /\ b.fat[c] = a.fat[c]
        /\ Tab(b, c)[0] = Tab(a, c)[0] /\ Tab(b, c)[1] = Tab(a, c)[1]
    BY <1>4
  <2> HIDE DEF c, e
  <2>4. /\ \A x \in Owned(b, e) : b.fat[x] # FAT32_FAT_EMPTY_ENTRY
        /\ b.fat[c] = FAT32_FAT_END_OF_FILE
        /\ Tab(b, c)[0] = e
        /\ Tab(b, c)[1].used /\ Tab(b, c)[1].name = ".." /\ Tab(b, c)[1].cluster = l[1]
    BY <2>1, <2>2, <2>3, ClusterFacts DEF c
  <2>5. QED
    BY <1>1, <2>4 DEF EntryWhole, Tab, c
<1>5. QED
  BY <1>3, <1>4

(* Two images with the same tables list the same.                          *)
LEMMA SameTables ==
  ASSUME NEW a \in Disks, NEW b \in Disks,
         \A c \in DataClusters : Tab(b, c) = Tab(a, c)
  PROVE  /\ Listed(b) = Listed(a)
         /\ Directories(b) = Directories(a)
         /\ \A l \in Listed(a) : EntryAt(b, l) = EntryAt(a, l)
<1>1. ASSUME NEW l \in DataClusters \X (Slots \ {0, 1})
      PROVE  Tab(b, l[1])[l[2]] = Tab(a, l[1])[l[2]]
  <2>1. l[1] \in DataClusters
    OBVIOUS
  <2>2. QED
    BY <2>1
<1>2. Listed(b) = Listed(a)
  <2>1. ASSUME NEW l PROVE l \in Listed(b) <=> l \in Listed(a)
    BY <1>1, ListedFacts
  <2>2. QED
    BY <2>1
<1>3. Directories(b) = Directories(a)
  BY ListedFacts
<1>4. ASSUME NEW l \in Listed(a) PROVE EntryAt(b, l) = EntryAt(a, l)
  BY <1>1, ListedFacts
<1>5. QED
  BY <1>2, <1>3, <1>4

(* No file of a sound image has a free cluster.                            *)
LEMMA FilesTaken ==
  ASSUME NEW d \in Disks, NEW l \in Listed(d), FileOk(d, l),
         IsFile(EntryAt(d, l))
  PROVE  /\ Owned(d, EntryAt(d, l)) \subseteq DataClusters
         /\ EntryAt(d, l).cluster \in Owned(d, EntryAt(d, l))
         /\ \A c \in Owned(d, EntryAt(d, l)) :
              d.fat[c] # FAT32_FAT_EMPTY_ENTRY /\ Tab(d, c) = EmptyTable
<1>1. EntryAt(d, l) \in Entries
  BY TabTypes
<1>2. QED
  BY <1>1, OwnedFacts DEF FileOk, EntryOk

(* The second image has the tables of the first, and the FAT as well but   *)
(* for clusters that were free.                                            *)
Grown(a, b) ==
  /\ \A c \in DataClusters : Tab(b, c) = Tab(a, c)
  /\ \A c \in Clusters : a.fat[c] # FAT32_FAT_EMPTY_ENTRY => b.fat[c] = a.fat[c]

(* Its tables stay sound, its tree whole, its root the only directory.     *)
LEMMA GrownTables ==
  ASSUME NEW a \in Disks, NEW b \in Disks, Grown(a, b), TablesOk(a)
  PROVE  TablesOk(b)
<1>1. \A c \in DataClusters : Tab(b, c) = Tab(a, c) /\ c \in Clusters
  BY ClusterFacts DEF Grown
<1>2. 1 \in Clusters /\ 2 \in Clusters
  BY ClusterFacts DEF Clusters
<1>3. \A c \in Clusters : b.fat[c] = FAT32_FAT_EMPTY_ENTRY
                            => a.fat[c] = FAT32_FAT_EMPTY_ENTRY
  BY DEF Grown
<1>4. QED
  BY <1>1, <1>2, <1>3 DEF TablesOk

(* A FAT that has grown leaves the tree as it is.                          *)
LEMMA GrownTree ==
  ASSUME NEW a \in Disks, NEW b \in Disks, Grown(a, b), Sound(a), Sound(b),
         NEW L
  PROVE  /\ TreeBut(a, L) => TreeBut(b, L)
         /\ Flat(a) => Flat(b)
<1>1. /\ Listed(b) = Listed(a) /\ Directories(b) = Directories(a)
      /\ \A l \in Listed(a) : EntryAt(b, l) = EntryAt(a, l)
  BY SameTables DEF Grown
<1>2. Flat(a) => Flat(b)
  BY <1>1 DEF Flat
<1>3. ASSUME TreeBut(a, L) PROVE TreeBut(b, L)
  <2>1. ASSUME NEW l \in Listed(b) \ L PROVE EntryWhole(b, l)
    <3>1. /\ EntryWhole(a, l) /\ l \in Listed(a) /\ l \in Listed(b)
          /\ EntryAt(b, l) = EntryAt(a, l)
      BY <1>1, <1>3, <2>1 DEF TreeBut
    <3>2. FileOk(a, l) /\ FileOk(b, l)
      BY <3>1 DEF Sound
    <3>3. l[1] \in Directories(b) /\ EntryAt(a, l).cluster \in DataClusters
      BY <1>1, <3>1, ListedInDirectory DEF Sound
    <3>4. CASE IsFile(EntryAt(b, l))
      BY <3>1, <3>2, <3>3, <3>4, FileWhole
    <3>5. CASE ~ IsFile(EntryAt(b, l))
      <4>1. KeptEntry(a, b, l)
        BY <3>1, <3>5 DEF KeptEntry, SameClusters
      <4>2. /\ b.fat[EntryAt(a, l).cluster] = a.fat[EntryAt(a, l).cluster]
            /\ Tab(b, EntryAt(a, l).cluster) = Tab(a, EntryAt(a, l).cluster)
        <5>1. a.fat[EntryAt(a, l).cluster] # FAT32_FAT_EMPTY_ENTRY
          BY <3>1, <3>5, ClusterFacts DEF EntryWhole
        <5>2. QED
          BY <3>3, <5>1, ClusterFacts DEF Grown
      <4>3. QED
        BY <3>1, <3>2, <3>3, <4>1, <4>2, WholeKept
    <3>6. QED
      BY <3>4, <3>5
  <2>2. ASSUME NEW c \in Directories(b) \ {ROOT_CLUSTER_NUMBER} PROVE Entered(b, c)
    <3>1. Entered(a, c)
      BY <1>1, <1>3 DEF TreeBut
    <3>2. QED
      BY <1>1, <3>1 DEF Entered
  <2>3. ROOT_CLUSTER_NUMBER \in Directories(b) =>
          \A j \in {0, 1} : Tab(b, ROOT_CLUSTER_NUMBER)[j].cluster = ROOT_CLUSTER_NUMBER
    BY <1>1, <1>3, ClusterFacts DEF TreeBut, Grown
  <2>4. QED
    BY <2>1, <2>2, <2>3 DEF TreeBut
<1>4. QED
  BY <1>2, <1>3

(* Writing the FAT with more clusters taken, and data into free clusters.  *)
LEMMA GrowStep ==
  ASSUME NEW a \in Disks, NEW b \in Disks, Grown(a, b), Sound(a),
         \A c \in DataClusters :
           a.fat[c] # FAT32_FAT_EMPTY_ENTRY /\ Tab(a, c) = EmptyTable =>
             Dat(b, c) = Dat(a, c)
  PROVE  /\ Sound(b)
         /\ \A l \in Listed(a) : KeptEntry(a, b, l)
<1>1. /\ Listed(b) = Listed(a)
      /\ \A l \in Listed(a) : EntryAt(b, l) = EntryAt(a, l)
  BY SameTables DEF Grown
<1>2. TablesOk(b)
  BY GrownTables DEF Sound
<1>3. ASSUME NEW l \in Listed(a) PROVE KeptEntry(a, b, l)
  <2>1. FileOk(a, l)
    BY DEF Sound
  <2>2. ASSUME IsFile(EntryAt(a, l)), NEW c \in Owned(a, EntryAt(a, l))
        PROVE  b.fat[c] = a.fat[c] /\ Tab(b, c) = Tab(a, c) /\ Dat(b, c) = Dat(a, c)
    <3>1. /\ c \in DataClusters /\ c \in Clusters
          /\ a.fat[c] # FAT32_FAT_EMPTY_ENTRY /\ Tab(a, c) = EmptyTable
      BY <2>1, <2>2, FilesTaken, ClusterFacts
    <3>2. QED
      BY <3>1 DEF Grown
  <2>3. QED
    BY <1>1, <2>2 DEF KeptEntry, SameClusters
<1>4. Sound(b)
  <2> DEFINE none == <<0, 0>>
  <2>1. none \notin Listed(b)
    <3>1. none \notin DataClusters \X (Slots \ {0, 1})
      OBVIOUS
    <3>2. QED
      BY <3>1, ListedFacts
  <2> HIDE DEF none
  <2>2. QED
    BY <1>1, <1>2, <1>3, <2>1, SoundStep
<1>5. QED
  BY <1>3, <1>4

(* Changing the data of the clusters of one file.                          *)
LEMMA EraseStep ==
  ASSUME NEW a \in Disks, NEW b \in Disks, Grown(a, b), Sound(a),
         NEW l \in Listed(a), FileOk(b, l), b.fat = a.fat,
         \A c \in DataClusters \ Owned(a, EntryAt(a, l)) : Dat(b, c) = Dat(a, c)
  PROVE  /\ Sound(b)
         /\ \A k \in Listed(a) : k # l => KeptEntry(a, b, k)
<1>1. /\ Listed(b) = Listed(a)
      /\ \A k \in Listed(a) : EntryAt(b, k) = EntryAt(a, k)
  BY SameTables DEF Grown
<1>2. TablesOk(b)
  BY GrownTables DEF Sound
<1>3. ASSUME NEW k \in Listed(a), k # l PROVE KeptEntry(a, b, k)
  <2>1. FileOk(a, k)
    BY DEF Sound
  <2>2. Owned(a, EntryAt(a, k)) \cap Owned(a, EntryAt(a, l)) = {}
    BY <1>3 DEF Sound, Apart
  <2>3. ASSUME IsFile(EntryAt(a, k)), NEW c \in Owned(a, EntryAt(a, k))
        PROVE  b.fat[c] = a.fat[c] /\ Tab(b, c) = Tab(a, c) /\ Dat(b, c) = Dat(a, c)
    <3>1. c \in DataClusters /\ c \notin Owned(a, EntryAt(a, l))
      BY <2>1, <2>2, <2>3, FilesTaken
    <3>2. QED
      BY <3>1 DEF Grown
  <2>4. QED
    BY <1>1, <2>3 DEF KeptEntry, SameClusters
<1>4. Sound(b)
  <2>1. EntryAt(b, l) = EntryAt(a, l) /\ EntryAt(a, l) \in Entries
    BY <1>1, TabTypes
  <2>2. Owned(b, EntryAt(b, l)) = Owned(a, EntryAt(a, l))
    BY <2>1 DEF Owned
  <2>3. /\ ROOT_CLUSTER_NUMBER \notin Owned(a, EntryAt(a, l))
        /\ \A k \in Listed(a) : k # l =>
             Owned(a, EntryAt(a, l)) \cap Owned(a, EntryAt(a, k)) = {}
    BY DEF Sound, Apart
  <2>4. QED
    BY <1>1, <1>2, <1>3, <2>2, <2>3, SoundStep
<1>5. QED
  BY <1>3, <1>4

(* One slot below a directory is written, and nothing else.                *)
SlotWritten(a, b, parent, i, e) ==
  /\ b.fat = a.fat
  /\ Tab(b, parent) = [Tab(a, parent) EXCEPT ![i] = e]
  /\ \A c \in DataClusters \ {parent} :
       Tab(b, c) = Tab(a, c) /\ Dat(b, c) = Dat(a, c)

(* The directories, and every entry but the written one, are what they     *)
(* were.                                                                   *)
LEMMA SlotFacts ==
  ASSUME NEW a \in Disks, NEW b \in Disks, NEW parent \in Directories(a),
         NEW i \in Slots, i >= 2, NEW e \in Entries,
         SlotWritten(a, b, parent, i, e), Sound(a)
  PROVE  /\ Directories(b) = Directories(a)
         /\ \A k : k # <<parent, i>> => (k \in Listed(b) <=> k \in Listed(a))
         /\ <<parent, i>> \in Listed(b) <=> e.used
         /\ EntryAt(b, <<parent, i>>) = e
         /\ \A c \in DataClusters :
              Tab(b, c)[0] = Tab(a, c)[0] /\ Tab(b, c)[1] = Tab(a, c)[1]
         /\ \A k \in Listed(a) : k # <<parent, i>> => KeptEntry(a, b, k)
<1>1. parent \in DataClusters /\ Tab(a, parent)[0].used /\ Tab(a, parent) \in Tables
  BY ListedFacts, TabTypes
<1>2. i \in Nat /\ i # 0 /\ i # 1 /\ 0 \in Slots /\ 1 \in Slots
  BY SlotTypes
<1>3. /\ Tab(b, parent)[i] = e
      /\ \A j \in Slots \ {i} : Tab(b, parent)[j] = Tab(a, parent)[j]
  BY <1>1 DEF SlotWritten, Tables
<1>4. ASSUME NEW c \in DataClusters
      PROVE  Tab(b, c)[0] = Tab(a, c)[0] /\ Tab(b, c)[1] = Tab(a, c)[1]
  BY <1>2, <1>3 DEF SlotWritten
<1>5. Directories(b) = Directories(a)
  BY <1>4, ListedFacts
<1>6. ASSUME NEW k \in DataClusters \X (Slots \ {0, 1}), k # <<parent, i>>
      PROVE  Tab(b, k[1])[k[2]] = Tab(a, k[1])[k[2]]
  <2>1. k[1] \in DataClusters /\ k[2] \in Slots /\ k = <<k[1], k[2]>>
    OBVIOUS
  <2>2. CASE k[1] = parent
    BY <1>3, <1>6, <2>1, <2>2
  <2>3. CASE k[1] # parent
    BY <2>1, <2>3 DEF SlotWritten
  <2>4. QED
    BY <2>2, <2>3
<1>7. /\ \A k : k # <<parent, i>> => (k \in Listed(b) <=> k \in Listed(a))
      /\ \A k \in Listed(a) : k # <<parent, i>> => EntryAt(b, k) = EntryAt(a, k)
  <2>1. ASSUME NEW k, k # <<parent, i>>
        PROVE  k \in Listed(b) <=> k \in Listed(a)
    BY <1>6, <2>1, ListedFacts
  <2>2. ASSUME NEW k \in Listed(a), k # <<parent, i>>
        PROVE  EntryAt(b, k) = EntryAt(a, k)
    BY <1>6, <2>2, ListedFacts
  <2>3. QED
    BY <2>1, <2>2
<1>8. /\ <<parent, i>> \in Listed(b) <=> e.used
      /\ EntryAt(b, <<parent, i>>) = e
  <2> DEFINE l == <<parent, i>>
  <2>1. l \in DataClusters \X (Slots \ {0, 1}) /\ l[1] = parent /\ l[2] = i
    BY <1>1, <1>2
  <2> HIDE DEF l
  <2>2. EntryAt(b, l) = e
    <3>1. EntryAt(b, l) = Tab(b, l[1])[l[2]]
      BY DEF EntryAt, Tab
    <3>2. QED
      BY <1>3, <2>1, <3>1
  <2>3. l \in Listed(b) <=> Tab(b, parent)[i].used
    BY <2>1, ListedFacts
  <2>4. l \in Listed(b) <=> e.used
    BY <1>3, <2>3
  <2>5. QED
    BY <2>2, <2>4 DEF l
<1>9. ASSUME NEW k \in Listed(a), k # <<parent, i>> PROVE KeptEntry(a, b, k)
  <2>1. FileOk(a, k)
    BY DEF Sound
  <2>2. Tab(a, parent) # EmptyTable
    BY <1>1, <1>2 DEF EmptyTable, EmptyEntry
  <2>3. ASSUME IsFile(EntryAt(a, k)), NEW c \in Owned(a, EntryAt(a, k))
        PROVE  b.fat[c] = a.fat[c] /\ Tab(b, c) = Tab(a, c) /\ Dat(b, c) = Dat(a, c)
    <3>1. c \in DataClusters /\ Tab(a, c) = EmptyTable
      BY <2>1, <2>3, FilesTaken
    <3>2. c # parent
      BY <2>2, <3>1
    <3>3. QED
      BY <3>1, <3>2 DEF SlotWritten
  <2>4. k \in Listed(b) /\ EntryAt(b, k) = EntryAt(a, k)
    BY <1>7, <1>9
  <2>5. QED
    BY <2>3, <2>4 DEF KeptEntry, SameClusters
<1>10. QED
  BY <1>4, <1>5, <1>7, <1>8, <1>9

(* The tables stay sound when a slot is cleared or given a used entry.     *)
LEMMA SlotTables ==
  ASSUME NEW a \in Disks, NEW b \in Disks, NEW parent \in Directories(a),
         NEW i \in Slots, i >= 2, NEW e \in Entries,
         SlotWritten(a, b, parent, i, e), Sound(a),
         e = EmptyEntry \/ (e.used /\ e.cluster \in DataClusters)
  PROVE  TablesOk(b)
<1>1. parent \in DataClusters /\ Tab(a, parent)[0].used /\ Tab(a, parent) \in Tables
  BY ListedFacts, TabTypes
<1>2. i \in Nat /\ i # 0 /\ i # 1 /\ 0 \in Slots /\ 1 \in Slots
  BY SlotTypes
<1>3. /\ Tab(b, parent)[i] = e
      /\ \A j \in Slots \ {i} : Tab(b, parent)[j] = Tab(a, parent)[j]
  BY <1>1 DEF SlotWritten, Tables
<1>4. TablesOk(a) /\ b.fat = a.fat
  BY DEF Sound, SlotWritten
<1>5. \A c \in DataClusters : c # parent => Tab(b, c) = Tab(a, c)
  BY DEF SlotWritten
<1>6. EmptyEntry.used = FALSE /\ Tab(a, parent) # EmptyTable
  BY <1>1, <1>2 DEF EmptyTable, EmptyEntry
<1>7. ASSUME NEW c \in DataClusters, NEW j \in Slots
      PROVE  /\ ~ Tab(b, c)[j].used => Tab(b, c)[j] = EmptyEntry
             /\ Tab(b, c)[j].used => Tab(b, c)[j].cluster \in DataClusters
  <2>1. CASE c = parent /\ j = i
    BY <1>3, <1>6, <2>1
  <2>2. CASE ~ (c = parent /\ j = i)
    <3>1. Tab(b, c)[j] = Tab(a, c)[j]
      BY <1>3, <1>5, <2>2
    <3>2. QED
      BY <1>4, <3>1 DEF TablesOk
  <2>3. QED
    BY <2>1, <2>2
<1>8. ASSUME NEW c \in DataClusters
      PROVE  /\ ~ Tab(b, c)[0].used => Tab(b, c) = EmptyTable
             /\ b.fat[c] = FAT32_FAT_EMPTY_ENTRY => Tab(b, c) = EmptyTable
             /\ Tab(b, c)[0].used =>
                  /\ Tab(b, c)[1].used
                  /\ Tab(b, c)[0].filesize = 0 /\ Tab(b, c)[1].filesize = 0
                  /\ b.fat[1] # FAT32_FAT_EMPTY_ENTRY /\ b.fat[2] # FAT32_FAT_EMPTY_ENTRY
  <2>1. CASE c = parent
    <3>1. Tab(b, c)[0] = Tab(a, c)[0] /\ Tab(b, c)[1] = Tab(a, c)[1]
      BY <1>2, <1>3, <2>1
    <3>2. QED
      BY <1>1, <1>4, <1>6, <2>1, <3>1 DEF TablesOk
  <2>2. CASE c # parent
    <3>1. Tab(b, c) = Tab(a, c)
      BY <1>5, <2>2
    <3>2. QED
      BY <1>4, <3>1 DEF TablesOk
  <2>3. QED
    BY <2>1, <2>2
<1>9. QED
  BY <1>7, <1>8 DEF TablesOk

(* All entries of a tree stay whole when another slot is written.          *)
LEMMA SlotTree ==
  ASSUME NEW a \in Disks, NEW b \in Disks, NEW parent \in Directories(a),
         NEW i \in Slots, i >= 2, NEW e \in Entries,
         SlotWritten(a, b, parent, i, e), Sound(a), Sound(b), NEW L,
         TreeBut(a, L)
  PROVE  /\ \A k \in Listed(b) \ L : k # <<parent, i>> => EntryWhole(b, k)
         /\ ROOT_CLUSTER_NUMBER \in Directories(b) =>
              \A j \in {0, 1} : Tab(b, ROOT_CLUSTER_NUMBER)[j].cluster = ROOT_CLUSTER_NUMBER
<1>0. \A c \in DataClusters :
        Tab(b, c)[0] = Tab(a, c)[0] /\ Tab(b, c)[1] = Tab(a, c)[1]
  BY SlotFacts
<1>1. /\ Directories(b) = Directories(a)
      /\ \A k : k # <<parent, i>> => (k \in Listed(b) <=> k \in Listed(a))
      /\ \A k \in Listed(a) : k # <<parent, i>> => KeptEntry(a, b, k)
  BY SlotFacts
<1>2. ASSUME NEW k \in Listed(b) \ L, k # <<parent, i>> PROVE EntryWhole(b, k)
  <2>1. /\ k \in Listed(a) /\ k \in Listed(b) /\ KeptEntry(a, b, k)
        /\ EntryWhole(a, k)
    BY <1>1, <1>2 DEF TreeBut
  <2>2. FileOk(a, k)
    BY <2>1 DEF Sound
  <2>3. /\ k[1] \in Directories(b)
        /\ EntryAt(a, k).cluster \in DataClusters
    BY <2>1, ListedInDirectory DEF Sound
  <2>4. b.fat = a.fat
    BY DEF SlotWritten
  <2>5. QED
    BY <1>0, <2>1, <2>2, <2>3, <2>4, WholeKept
<1>3. QED
  BY <1>0, <1>1, <1>2, ClusterFacts DEF TreeBut

(* Entering a file or a directory: the clusters that the entry leads to    *)
(* belong to nobody else.                                                  *)
LEMMA EnterStep ==
  ASSUME NEW a \in Disks, NEW b \in Disks, NEW parent \in Directories(a),
         NEW i \in Slots, i >= 2, ~ Tab(a, parent)[i].used, NEW e \in Entries,
         SlotWritten(a, b, parent, i, e), Sound(a),
         e.used, e.cluster \in DataClusters, EntryOk(a, e),
         ROOT_CLUSTER_NUMBER \notin Owned(a, e),
         \A k \in Listed(a) : Owned(a, e) \cap Owned(a, EntryAt(a, k)) = {}
  PROVE  /\ Sound(b)
         /\ \A k \in Listed(a) : KeptEntry(a, b, k)
         /\ \A L : TreeBut(a, L) => /\ TreeBut(b, L \cup {<<parent, i>>})
                                    /\ IsFile(e) => TreeBut(b, L)
         /\ Flat(a) /\ IsFile(e) => Flat(b)
         /\ Listed(b) = Listed(a) \cup {<<parent, i>>}
         /\ <<parent, i>> \notin Listed(a)
         /\ EntryAt(b, <<parent, i>>) = e
         /\ Directories(b) = Directories(a)
<1> DEFINE l == <<parent, i>>
<1>1. /\ Directories(b) = Directories(a)
      /\ \A k : k # l => (k \in Listed(b) <=> k \in Listed(a))
      /\ l \in Listed(b)
      /\ EntryAt(b, l) = e
      /\ \A k \in Listed(a) : k # l => KeptEntry(a, b, k)
  BY SlotFacts
<1>2. l \notin Listed(a)
  <2>1. l[1] = parent /\ l[2] = i
    OBVIOUS
  <2>2. QED
    BY <2>1, ListedFacts
<1>3. Listed(b) = Listed(a) \cup {l}
  BY <1>1, <1>2
<1>4. TablesOk(b)
  BY SlotTables
<1>5. FileOk(b, l) /\ Owned(b, e) = Owned(a, e)
  <2>1. SameClusters(a, b, e)
    <3> SUFFICES ASSUME IsFile(e), NEW c \in Owned(a, e)
                 PROVE  b.fat[c] = a.fat[c] /\ Tab(b, c) = Tab(a, c) /\ Dat(b, c) = Dat(a, c)
      BY DEF SameClusters
    <3>1. c \in DataClusters /\ Tab(a, c) = EmptyTable
      BY OwnedFacts DEF EntryOk
    <3>2. Tab(a, parent)[0].used
      BY ListedFacts
    <3>3. c # parent
      BY <3>1, <3>2, SlotTypes DEF EmptyTable, EmptyEntry
    <3>4. QED
      BY <3>1, <3>3 DEF SlotWritten
  <2>2. QED
    BY <1>1, <2>1, SameEntry DEF FileOk
<1> HIDE DEF l
<1>6. Sound(b)
  BY <1>1, <1>2, <1>4, <1>5, SoundStep
<1>7. ASSUME NEW L, TreeBut(a, L)
      PROVE  TreeBut(b, L \cup {l}) /\ (IsFile(e) => TreeBut(b, L))
  <2>1. /\ \A k \in Listed(b) \ L : k # l => EntryWhole(b, k)
        /\ ROOT_CLUSTER_NUMBER \in Directories(b) =>
             \A j \in {0, 1} : Tab(b, ROOT_CLUSTER_NUMBER)[j].cluster = ROOT_CLUSTER_NUMBER
    BY <1>6, <1>7, SlotTree DEF l
  <2>2. ASSUME NEW c \in Directories(b) \ {ROOT_CLUSTER_NUMBER} PROVE Entered(b, c)
    <3>1. PICK k \in Listed(a) : ~ IsFile(EntryAt(a, k)) /\ EntryAt(a, k).cluster = c
      BY <1>1, <1>7 DEF TreeBut, Entered
    <3>2. k \in Listed(b) /\ EntryAt(b, k) = EntryAt(a, k)
      BY <1>1, <1>2 DEF KeptEntry
    <3>3. QED
      BY <3>1, <3>2 DEF Entered
  <2>3. IsFile(e) => EntryWhole(b, l)
    BY <1>1, <1>4, <1>5, FileWhole, ListedInDirectory
  <2>4. QED
    BY <2>1, <2>2, <2>3 DEF TreeBut
<1>8. ASSUME Flat(a), IsFile(e) PROVE Flat(b)
  <2>1. ASSUME NEW k \in Listed(b) PROVE IsFile(EntryAt(b, k))
    <3>1. CASE k = l
      BY <1>1, <1>8, <3>1
    <3>2. CASE k # l
      BY <1>1, <1>8, <3>2 DEF Flat, KeptEntry
    <3>3. QED
      BY <3>1, <3>2
  <2>2. QED
    BY <1>1, <1>8, <2>1 DEF Flat
<1>9. QED
  BY <1>1, <1>2, <1>3, <1>6, <1>7, <1>8 DEF l

(* Clearing an entry: it leads to no directory any more.                   *)
LEMMA ClearStep ==
  ASSUME NEW a \in Disks, NEW b \in Disks, NEW parent \in Directories(a),
         NEW i \in Slots, i >= 2,
         SlotWritten(a, b, parent, i, EmptyEntry), Sound(a),
         LET e == Tab(a, parent)[i] IN IsFile(e) \/ e.cluster \notin Directories(a)
  PROVE  /\ Sound(b)
         /\ \A k \in Listed(a) : k # <<parent, i>> => KeptEntry(a, b, k)
         /\ Listed(b) = Listed(a) \ {<<parent, i>>}
         /\ Directories(b) = Directories(a)
         /\ \A L : TreeBut(a, L) => TreeBut(b, L \ {<<parent, i>>})
         /\ Flat(a) => Flat(b)
<1> DEFINE l == <<parent, i>>
<1>0. EmptyEntry \in Entries /\ ~ EmptyEntry.used
  BY EmptyTypes DEF EmptyEntry
<1>1. /\ Directories(b) = Directories(a)
      /\ \A k : k # l => (k \in Listed(b) <=> k \in Listed(a))
      /\ l \notin Listed(b)
      /\ \A k \in Listed(a) : k # l => KeptEntry(a, b, k)
  BY <1>0, SlotFacts
<1>2. Listed(b) = Listed(a) \ {l}
  BY <1>1
<1>3. TablesOk(b)
  BY <1>0, SlotTables
<1>4. EntryAt(a, l) = Tab(a, parent)[i]
  <2>1. l[1] = parent /\ l[2] = i
    OBVIOUS
  <2>2. QED
    BY <2>1, ListedFacts
<1> HIDE DEF l
<1>5. Sound(b)
  BY <1>1, <1>2, <1>3, SoundStep
<1>6. ASSUME NEW L, TreeBut(a, L) PROVE TreeBut(b, L \ {l})
  <2>1. /\ \A k \in Listed(b) \ L : k # l => EntryWhole(b, k)
        /\ ROOT_CLUSTER_NUMBER \in Directories(b) =>
             \A j \in {0, 1} : Tab(b, ROOT_CLUSTER_NUMBER)[j].cluster = ROOT_CLUSTER_NUMBER
    BY <1>0, <1>5, <1>6, SlotTree DEF l
  <2>2. ASSUME NEW c \in Directories(b) \ {ROOT_CLUSTER_NUMBER} PROVE Entered(b, c)
    <3>1. PICK k \in Listed(a) : ~ IsFile(EntryAt(a, k)) /\ EntryAt(a, k).cluster = c
      BY <1>1, <1>6 DEF TreeBut, Entered
    <3>2. k # l
      BY <1>1, <1>4, <3>1
    <3>3. k \in Listed(b) /\ EntryAt(b, k) = EntryAt(a, k)
      BY <1>1, <3>2 DEF KeptEntry
    <3>4. QED
      BY <3>1, <3>3 DEF Entered
  <2>3. QED
    BY <1>1, <2>1, <2>2 DEF TreeBut
<1>7. ASSUME Flat(a) PROVE Flat(b)
  <2>1. ASSUME NEW k \in Listed(b) PROVE IsFile(EntryAt(b, k))
    BY <1>1, <1>2, <1>7 DEF Flat, KeptEntry
  <2>2. QED
    BY <1>1, <1>7, <2>1 DEF Flat
<1>8. QED
  BY <1>1, <1>2, <1>5, <1>6, <1>7 DEF l

(* Writing the table of a new directory into a cluster without one.        *)
LEMMA TableStep ==
  ASSUME NEW a \in Disks, NEW b \in Disks, Sound(a), NEW c \in DataClusters,
         Tab(a, c) = EmptyTable, a.fat[c] # FAT32_FAT_EMPTY_ENTRY,
         a.fat[1] # FAT32_FAT_EMPTY_ENTRY, a.fat[2] # FAT32_FAT_EMPTY_ENTRY,
         \A k \in Listed(a) :
           IsFile(EntryAt(a, k)) => c \notin Owned(a, EntryAt(a, k)),
         b.fat = a.fat,
         \A x \in DataClusters \ {c} : Tab(b, x) = Tab(a, x) /\ Dat(b, x) = Dat(a, x),
         \A j \in {0, 1} : /\ Tab(b, c)[j].used /\ Tab(b, c)[j].filesize = 0
                           /\ Tab(b, c)[j].cluster \in DataClusters,
         \A j \in Slots \ {0, 1} : Tab(b, c)[j] = EmptyEntry
  PROVE  /\ Sound(b)
         /\ Listed(b) = Listed(a)
         /\ \A k \in Listed(a) : KeptEntry(a, b, k)
         /\ Directories(b) = Directories(a) \cup {c}
<1>1. /\ 0 \in Slots /\ 1 \in Slots /\ ~ EmptyEntry.used
      /\ \A j \in Slots : EmptyTable[j] = EmptyEntry
  BY SlotTypes DEF EmptyEntry, EmptyTable
<1>2. ASSUME NEW k \in DataClusters \X (Slots \ {0, 1})
      PROVE  Tab(b, k[1])[k[2]] = Tab(a, k[1])[k[2]]
  <2>1. k[1] \in DataClusters /\ k[2] \in Slots \ {0, 1}
    OBVIOUS
  <2>2. CASE k[1] = c
    BY <1>1, <2>1, <2>2
  <2>3. CASE k[1] # c
    BY <2>1, <2>3
  <2>4. QED
    BY <2>2, <2>3
<1>3. Listed(b) = Listed(a) /\ \A k \in Listed(a) : EntryAt(b, k) = EntryAt(a, k)
  <2>1. ASSUME NEW k PROVE k \in Listed(b) <=> k \in Listed(a)
    BY ZenonT(30), <1>2, ListedFacts
  <2>2. ASSUME NEW k \in Listed(a) PROVE EntryAt(b, k) = EntryAt(a, k)
    <3>1. Tab(b, k[1])[k[2]] = Tab(a, k[1])[k[2]]
      BY <1>2, ListedFacts
    <3>2. QED
      BY <3>1 DEF EntryAt, Tab
  <2>3. QED
    BY <2>1, <2>2
<1>4. Directories(b) = Directories(a) \cup {c}
  <2>1. ASSUME NEW x \in DataClusters
        PROVE  Tab(b, x)[0].used <=> Tab(a, x)[0].used \/ x = c
    BY <1>1
  <2>2. QED
    BY <2>1, ListedFacts
<1>5. ASSUME NEW k \in Listed(a) PROVE KeptEntry(a, b, k)
  <2>1. FileOk(a, k)
    BY DEF Sound
  <2>2. ASSUME IsFile(EntryAt(a, k)), NEW x \in Owned(a, EntryAt(a, k))
        PROVE  b.fat[x] = a.fat[x] /\ Tab(b, x) = Tab(a, x) /\ Dat(b, x) = Dat(a, x)
    BY <2>1, <2>2, FilesTaken
  <2>3. QED
    BY <1>3, <2>2 DEF KeptEntry, SameClusters
<1>6. TablesOk(b)
  <2>1. TablesOk(a)
    BY DEF Sound
  <2>2. ASSUME NEW x \in DataClusters, NEW j \in Slots
        PROVE  /\ ~ Tab(b, x)[j].used => Tab(b, x)[j] = EmptyEntry
               /\ Tab(b, x)[j].used => Tab(b, x)[j].cluster \in DataClusters
    <3>1. CASE x = c
      BY <1>1, <3>1
    <3>2. CASE x # c
      BY <2>1, <3>2 DEF TablesOk
    <3>3. QED
      BY <3>1, <3>2
  <2>3. ASSUME NEW x \in DataClusters
        PROVE  /\ ~ Tab(b, x)[0].used => Tab(b, x) = EmptyTable
               /\ b.fat[x] = FAT32_FAT_EMPTY_ENTRY => Tab(b, x) = EmptyTable
               /\ Tab(b, x)[0].used =>
                    /\ Tab(b, x)[1].used
                    /\ Tab(b, x)[0].filesize = 0 /\ Tab(b, x)[1].filesize = 0
                    /\ b.fat[1] # FAT32_FAT_EMPTY_ENTRY
                    /\ b.fat[2] # FAT32_FAT_EMPTY_ENTRY
    <3>1. CASE x = c
      BY <3>1
    <3>2. CASE x # c
      BY <2>1, <3>2 DEF TablesOk
    <3>3. QED
      BY <3>1, <3>2
  <2>4. QED
    BY <2>2, <2>3 DEF TablesOk
<1>7. Sound(b)
  <2> DEFINE none == <<0, 0>>
  <2>1. none \notin Listed(b)
    <3>1. none \notin DataClusters \X (Slots \ {0, 1})
      OBVIOUS
    <3>2. QED
      BY <3>1, ListedFacts
  <2> HIDE DEF none
  <2>2. QED
    BY <1>3, <1>5, <1>6, <2>1, SoundStep
<1>8. QED
  BY <1>3, <1>4, <1>5, <1>7

(* Zeroing the cluster of a directory without entries, and freeing it.     *)
LEMMA DropStep ==
  ASSUME NEW a \in Disks, NEW b \in Disks, Sound(a), NEW l \in Listed(a),
         TreeBut(a, {l}), ~ IsFile(EntryAt(a, l)), NEW c,
         c = EntryAt(a, l).cluster, c # ROOT_CLUSTER_NUMBER,
         \A j \in Slots \ {0, 1} : ~ Tab(a, c)[j].used,
         Tab(b, c) = EmptyTable,
         \A x \in Clusters \ {c} : b.fat[x] = a.fat[x],
         \A x \in DataClusters \ {c} : Tab(b, x) = Tab(a, x) /\ Dat(b, x) = Dat(a, x)
  PROVE  /\ Sound(b)
         /\ TreeBut(b, {l})
         /\ Listed(b) = Listed(a)
         /\ Directories(b) = Directories(a) \ {c}
         /\ \A k \in Listed(a) : KeptEntry(a, b, k)
<1>1. /\ 0 \in Slots /\ 1 \in Slots /\ ~ EmptyEntry.used
      /\ \A j \in Slots : EmptyTable[j] = EmptyEntry
  BY SlotTypes DEF EmptyEntry, EmptyTable
<1>2. c \in DataClusters /\ c \in Clusters
  BY ListedInDirectory, ClusterFacts DEF Sound
<1>3. TablesOk(a) /\ \A k \in Listed(a) : FileOk(a, k)
  BY DEF Sound
<1>4. ASSUME NEW k \in DataClusters \X (Slots \ {0, 1})
      PROVE  Tab(b, k[1])[k[2]] = Tab(a, k[1])[k[2]]
  <2>1. k[1] \in DataClusters /\ k[2] \in Slots \ {0, 1} /\ k[2] \in Slots
    OBVIOUS
  <2>2. CASE k[1] = c
    BY <1>1, <1>3, <2>1, <2>2 DEF TablesOk
  <2>3. CASE k[1] # c
    BY <2>1, <2>3
  <2>4. QED
    BY <2>2, <2>3
<1>5. Listed(b) = Listed(a) /\ \A k \in Listed(a) : EntryAt(b, k) = EntryAt(a, k)
  <2>1. ASSUME NEW k PROVE k \in Listed(b) <=> k \in Listed(a)
    BY ZenonT(30), <1>4, ListedFacts
  <2>2. ASSUME NEW k \in Listed(a) PROVE EntryAt(b, k) = EntryAt(a, k)
    <3>1. Tab(b, k[1])[k[2]] = Tab(a, k[1])[k[2]]
      BY <1>4, ListedFacts
    <3>2. QED
      BY <3>1 DEF EntryAt, Tab
  <2>3. QED
    BY <2>1, <2>2
<1>6. Directories(b) = Directories(a) \ {c}
  <2>1. ASSUME NEW x \in DataClusters
        PROVE  Tab(b, x)[0].used <=> Tab(a, x)[0].used /\ x # c
    BY <1>1
  <2>2. ASSUME NEW x PROVE x \in Directories(b) <=> x \in Directories(a) \ {c}
    <3>1. /\ x \in Directories(b) <=> x \in DataClusters /\ Tab(b, x)[0].used
          /\ x \in Directories(a) <=> x \in DataClusters /\ Tab(a, x)[0].used
      BY Zenon DEF Directories, Tab
    <3>2. QED
      BY <2>1, <3>1, Zenon
  <2>3. QED
    BY <2>2
<1>7. Owned(a, EntryAt(a, l)) = {c}
  <2>1. EntryAt(a, l) \in Entries
    BY TabTypes
  <2>2. QED
    BY <2>1, OwnedFacts
<1>8. \A k \in Listed(a) : k # l => c \notin Owned(a, EntryAt(a, k))
  BY <1>7 DEF Sound, Apart
<1>9. ASSUME NEW k \in Listed(a) PROVE KeptEntry(a, b, k)
  <2>1. ASSUME IsFile(EntryAt(a, k)), NEW x \in Owned(a, EntryAt(a, k))
        PROVE  b.fat[x] = a.fat[x] /\ Tab(b, x) = Tab(a, x) /\ Dat(b, x) = Dat(a, x)
    <3>1. x \in DataClusters /\ x \in Clusters
      BY <1>3, <2>1, FilesTaken, ClusterFacts
    <3>2. x # c
      BY <1>8, <2>1
    <3>3. QED
      BY <3>1, <3>2
  <2>2. QED
    BY <1>5, <2>1 DEF KeptEntry, SameClusters
<1>10. TablesOk(b)
  <2>1. ASSUME NEW x \in DataClusters, NEW j \in Slots
        PROVE  /\ ~ Tab(b, x)[j].used => Tab(b, x)[j] = EmptyEntry
               /\ Tab(b, x)[j].used => Tab(b, x)[j].cluster \in DataClusters
    <3>1. CASE x = c
      BY <1>1, <3>1
    <3>2. CASE x # c
      BY <1>3, <3>2 DEF TablesOk
    <3>3. QED
      BY <3>1, <3>2
  <2>2. ASSUME NEW x \in DataClusters
        PROVE  /\ ~ Tab(b, x)[0].used => Tab(b, x) = EmptyTable
               /\ b.fat[x] = FAT32_FAT_EMPTY_ENTRY => Tab(b, x) = EmptyTable
               /\ Tab(b, x)[0].used =>
                    /\ Tab(b, x)[1].used
                    /\ Tab(b, x)[0].filesize = 0 /\ Tab(b, x)[1].filesize = 0
                    /\ b.fat[1] # FAT32_FAT_EMPTY_ENTRY
                    /\ b.fat[2] # FAT32_FAT_EMPTY_ENTRY
    <3>1. CASE x = c
      BY <1>1, <3>1
    <3>2. CASE x # c
      <4>1. Tab(b, x) = Tab(a, x) /\ b.fat[x] = a.fat[x]
        BY <3>2, ClusterFacts
      <4>2. b.fat[1] = a.fat[1] /\ b.fat[2] = a.fat[2]
        <5>1. 1 \in Clusters /\ 2 \in Clusters /\ c # 1 /\ c # 2
          BY <1>2, ClusterFacts DEF Clusters, ROOT_CLUSTER_NUMBER
        <5>2. QED
          BY <5>1
      <4>3. QED
        BY <1>3, <4>1, <4>2 DEF TablesOk
    <3>3. QED
      BY <3>1, <3>2
  <2>3. QED
    BY <2>1, <2>2 DEF TablesOk
<1>11. Sound(b)
  <2> DEFINE none == <<0, 0>>
  <2>1. none \notin Listed(b)
    <3>1. none \notin DataClusters \X (Slots \ {0, 1})
      OBVIOUS
    <3>2. QED
      BY <3>1, ListedFacts
  <2> HIDE DEF none
  <2>2. QED
    BY <1>5, <1>9, <1>10, <2>1, SoundStep
<1>12. TreeBut(b, {l})
  <2>1. ASSUME NEW k \in Listed(b) \ {l} PROVE EntryWhole(b, k)
    <3>1. k \in Listed(a) /\ k # l /\ KeptEntry(a, b, k) /\ FileOk(a, k)
      BY <1>3, <1>5, <1>9, <2>1
    <3>2. EntryWhole(a, k)
      BY <3>1 DEF TreeBut
    <3>3. k[1] \in Directories(b)
      BY <1>5, <1>10, <3>1, ListedInDirectory
    <3>4. ASSUME ~ IsFile(EntryAt(a, k))
          PROVE  /\ b.fat[EntryAt(a, k).cluster] = a.fat[EntryAt(a, k).cluster]
                 /\ Tab(b, EntryAt(a, k).cluster) = Tab(a, EntryAt(a, k).cluster)
      <4>1. EntryAt(a, k) \in Entries
        BY <3>1, TabTypes
      <4>2. EntryAt(a, k).cluster \in DataClusters
        BY <1>3, <3>1, ListedInDirectory
      <4>3. EntryAt(a, k).cluster # c
        BY <1>8, <3>1, <3>4, <4>1, OwnedFacts
      <4>4. QED
        BY <4>2, <4>3, ClusterFacts
    <3>5. QED
      BY <3>1, <3>2, <3>3, <3>4, WholeKept
  <2>2. ASSUME NEW x \in Directories(b) \ {ROOT_CLUSTER_NUMBER} PROVE Entered(b, x)
    <3>1. Entered(a, x)
      BY <1>6 DEF TreeBut
    <3>2. QED
      BY <1>5, <3>1 DEF Entered
  <2>3. ROOT_CLUSTER_NUMBER \in Directories(b) =>
          \A j \in {0, 1} : Tab(b, ROOT_CLUSTER_NUMBER)[j].cluster = ROOT_CLUSTER_NUMBER
    BY <1>6, ClusterFacts DEF TreeBut
  <2>4. QED
    BY <2>1, <2>2, <2>3 DEF TreeBut
<1>13. QED
  BY <1>5, <1>6, <1>9, <1>11, <1>12

=============================================================================
