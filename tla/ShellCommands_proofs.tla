------------------------ MODULE ShellCommands_proofs ------------------------
(***************************************************************************)
(* Proofs about the commands of the shell, for every disk geometry, every  *)
(* stack and every set of names: the stack of cd never goes stale, but for *)
(* the cluster number that an empty component takes from the boot sector,  *)
(* the path in the prompt is true, and find misses nothing on the paths    *)
(* that are short enough.  What a call of the driver does to the tree is   *)
(* taken from the proofs about the driver, module FAT32_tree_proofs.       *)
(***************************************************************************)
EXTENDS ShellCommands, TLAPS

(* The proofs about the driver, for requests of any size.  The shell only  *)
(* switches off between calls.                                             *)
FSP == INSTANCE FAT32_tree_proofs WITH Sizes <- Nat, MaxPowerLosses <- 0

(* What the proofs about the driver assume of the constants holds here.    *)
LEMMA Given == FSP!GeometryAssumption /\ FSP!RequestAssumption
  BY GeometryAssumption, ShellAssumption
     DEF FSP!Blank, Blank, FSP!CLUSTER_0_VALUE, CLUSTER_0_VALUE

-----------------------------------------------------------------------------
(* Numbers and recursion.                                                  *)

(* A set that has 0 and with each number below N the next one has all      *)
(* numbers up to N.                                                        *)
LEMMA UpTo ==
  ASSUME NEW N \in Nat, NEW S, 0 \in S,
         \A n \in 0 .. N - 1 : n \in S => n + 1 \in S
  PROVE  \A n \in 0 .. N : n \in S
  BY Given, FSP!UpTo

(* The function that starts with a and goes on by the given step.          *)
Recurs(f, N, a, step) ==
  f = [n \in 0 .. N |-> IF n = 0 THEN a ELSE step[<<f[n - 1], n>>]]

(* There is such a function.                                               *)
LEMMA RecursExists ==
  ASSUME NEW N \in Nat, NEW X, NEW a \in X, NEW step \in [X \X (1 .. N) -> X]
  PROVE  \E f \in [0 .. N -> X] : Recurs(f, N, a, step)
<1>1. PICK f : FSP!Recursion(f, N, X, a, step)
  BY Given, FSP!RecursionExists
<1>2. /\ f \in [0 .. N -> X] /\ f[0] = a
      /\ \A n \in 1 .. N : f[n] = step[<<f[n - 1], n>>]
  BY <1>1 DEF FSP!Recursion
<1>3. \A n \in 0 .. N : f[n] = IF n = 0 THEN a ELSE step[<<f[n - 1], n>>]
  <2>1. ASSUME NEW n \in 0 .. N, n # 0 PROVE n \in 1 .. N
    BY <2>1
  <2>2. QED
    BY <1>2, <2>1, Zenon
<1>4. QED
  BY <1>2, <1>3, Zenon DEF Recurs

(* Least is the least member.                                              *)
LEMMA LeastIs ==
  ASSUME NEW S \in SUBSET Nat, NEW k \in S, \A j \in S : k <= j
  PROVE  Least(S) = k
<1>1. \E i \in S : \A j \in S : i <= j
  OBVIOUS
<1>2. Least(S) \in S /\ \A j \in S : Least(S) <= j
  BY <1>1 DEF Least
<1>3. QED
  BY <1>2, k \in Nat, Least(S) \in Nat

(* It is in the set.                                                       *)
LEMMA LeastOf ==
  ASSUME NEW S \in SUBSET Nat, S # {}
  PROVE  Least(S) \in S /\ \A j \in S : Least(S) <= j
<1>1. FSP!Least(S) \in S /\ \A j \in S : FSP!Least(S) <= j
  BY Given, FSP!LeastProperties
<1>2. QED
  BY <1>1 DEF FSP!Least, Least

-----------------------------------------------------------------------------
(* The proofs about the driver speak of the disk of the shell.             *)
LEMMA SameWords ==
  /\ FSP!ROOT_CLUSTER_NUMBER = ROOT_CLUSTER_NUMBER
  /\ FSP!ATTR_SUBDIRECTORY = ATTR_SUBDIRECTORY
  /\ FSP!Blank = Blank
  /\ FSP!DataClusters = DataClusters
  /\ FSP!Clusters = Clusters
  /\ FSP!Slots = Slots
  /\ FSP!EmptyEntry = EmptyEntry
  /\ FSP!EmptyTable = EmptyTable
  /\ FSP!NoData = NoData
  /\ FSP!Disks = Disks
  BY DEF FSP!ROOT_CLUSTER_NUMBER, ROOT_CLUSTER_NUMBER, FSP!ATTR_SUBDIRECTORY,
         ATTR_SUBDIRECTORY, FSP!Blank, Blank, FSP!DataClusters, DataClusters,
         FSP!Clusters, Clusters, FSP!Slots, Slots, FSP!EmptyEntry, EmptyEntry,
         FSP!EmptyTable, EmptyTable, FSP!NoData, NoData, FSP!Disks, Disks,
         FSP!FatMaps, FatMaps, FSP!FatValues, FatValues, FSP!Cells, Cells,
         FSP!CLUSTER_0_VALUE, CLUSTER_0_VALUE,
         FSP!FAT32_FAT_END_OF_FILE, FAT32_FAT_END_OF_FILE,
         FSP!Tables, Tables, FSP!Datas, Datas, FSP!Stray, Stray, FSP!Entries, Entries,
         FSP!AllNames, AllNames, FSP!AllExts, AllExts

(* The constants of the format.                                            *)
LEMMA Constants ==
  /\ ClusterMapSize \in Nat /\ ClusterMapSize > 3 /\ ROOT_CLUSTER_NUMBER = 2
  /\ DirSlots \in Nat /\ DirSlots > 1 /\ 0 \in Slots /\ 1 \in Slots /\ Slots \subseteq Nat
  /\ ROOT_CLUSTER_NUMBER \in DataClusters /\ DataClusters \subseteq Clusters
  /\ Clusters \subseteq Nat /\ 0 \in Clusters /\ 0 \notin DataClusters
  /\ DataClusters = 2 .. ClusterMapSize - 1
  /\ BootCluster \in Nat /\ BootCluster \notin Clusters /\ BootCluster \notin DataClusters
  BY GeometryAssumption, ShellAssumption
     DEF Slots, DataClusters, Clusters, ROOT_CLUSTER_NUMBER, BootCluster

(* So do tables and data.                                                  *)
LEMMA SameTables ==
  ASSUME NEW c \in DataClusters
  PROVE  /\ TableAt(c) = disk.cell[c].table /\ FSP!Tab(disk, c) = TableAt(c)
         /\ CellAt(disk, c).data = disk.cell[c].data
         /\ FSP!Dat(disk, c) = CellAt(disk, c).data
  BY DEF TableAt, CellAt, FSP!Tab, FSP!Dat

(* So do the directories.                                                  *)
LEMMA SameDirectories ==
  /\ FSP!Directories(disk) = FS!Directories(disk)
  /\ \A c : c \in FS!Directories(disk) <=> c \in DataClusters /\ TableAt(c)[0].used
  BY DEF FSP!Directories, FS!Directories, FSP!DataClusters, FS!DataClusters,
         FSP!ROOT_CLUSTER_NUMBER, FS!ROOT_CLUSTER_NUMBER, DataClusters,
         ROOT_CLUSTER_NUMBER, TableAt, CellAt

(* Whatever number is looked up, the entries have the right kind.          *)
LEMMA TableKinds ==
  ASSUME disk \in Disks, NEW c
  PROVE  /\ TableAt(c) \in Tables
         /\ \A i \in Slots : TableAt(c)[i] \in Entries
                             /\ TableAt(c)[i].cluster \in Clusters
<1>1. TableAt(c) \in Tables
  <2>1. EmptyEntry \in Entries
    BY Constants, GeometryAssumption DEF EmptyEntry, Entries, AllNames, AllExts
  <2>2. EmptyTable \in Tables
    BY <2>1 DEF EmptyTable, Tables
  <2>3. QED
    BY <2>2 DEF TableAt, CellAt, StrayCell, Disks, Cells
<1>2. QED
  BY <1>1 DEF Tables, Entries

(* Outside of the data area there are no entries.                          *)
LEMMA NoTable ==
  ASSUME NEW c, c \notin DataClusters
  PROVE  /\ CellAt(disk, c) = StrayCell /\ TableAt(c) = EmptyTable
         /\ \A i \in Slots : TableAt(c)[i] = EmptyEntry
  BY DEF CellAt, TableAt, StrayCell, EmptyTable

-----------------------------------------------------------------------------
(* The walk of print_dir_tree().                                           *)

(* What it means to follow the second entries from a cluster.              *)
NextUp == [d \in Clusters \cup {BootCluster} |-> OwnTable(d)[1].cluster]
IsUpWalk(u, c) ==
  u = [k \in 0 .. ClusterMapSize |-> IF k = 0 THEN c ELSE NextUp[u[k - 1]]]

(* UpWalk does so.                                                         *)
LEMMA UpWalkFacts ==
  ASSUME disk \in Disks, NEW c \in Clusters \cup {BootCluster}
  PROVE  /\ UpWalk(c)[0] = c
         /\ \A k \in 1 .. ClusterMapSize :
              /\ UpWalk(c)[k] = OwnTable(UpWalk(c)[k - 1])[1].cluster
              /\ UpWalk(c)[k] \in Clusters
<1> DEFINE N == ClusterMapSize
           X == Clusters \cup {BootCluster}
           step == [y \in X \X (1 .. N) |-> NextUp[y[1]]]
<1>1. N \in Nat /\ \A b : OwnTable(b)[1].cluster \in Clusters
  BY TableKinds, Constants DEF OwnTable
<1>2. NextUp \in [X -> Clusters] /\ \A b \in X : NextUp[b] = OwnTable(b)[1].cluster
  BY <1>1 DEF NextUp
<1>3. step \in [X \X (1 .. N) -> X]
  BY <1>2
<1>4. PICK f \in [0 .. N -> X] : Recurs(f, N, c, step)
  <2> HIDE DEF N, step, X
  <2>1. c \in X
    BY DEF X
  <2>2. QED
    BY <1>1, <1>3, <2>1, RecursExists
<1>5. \A k \in 0 .. N : f[k] = IF k = 0 THEN c ELSE step[<<f[k - 1], k>>]
  <2> HIDE DEF step, N, X
  <2>1. QED
    BY <1>4, Zenon DEF Recurs
<1>6. ASSUME NEW k \in 0 .. N, k # 0 PROVE step[<<f[k - 1], k>>] = NextUp[f[k - 1]]
  <2> HIDE DEF X
  <2>1. k \in 1 .. N /\ f[k - 1] \in X
    BY <1>1, <1>6
  <2>2. QED
    BY <2>1
<1>7. \A k \in 0 .. N : f[k] = IF k = 0 THEN c ELSE NextUp[f[k - 1]]
  <2> HIDE DEF step, N, X
  <2>1. QED
    BY <1>5, <1>6, Zenon
<1>8. IsUpWalk(f, c)
  BY <1>7, Zenon DEF IsUpWalk
<1> DEFINE u == UpWalk(c)
<1>9. IsUpWalk(u, c)
  BY <1>8 DEF UpWalk, IsUpWalk, NextUp
<1> HIDE DEF u
<1>10. \A k \in 0 .. N : u[k] = IF k = 0 THEN c ELSE NextUp[u[k - 1]]
  BY <1>9, Zenon DEF IsUpWalk
<1>11. 0 \in 0 .. N /\ \A k \in 0 .. N - 1 : k + 1 \in 0 .. N /\ k + 1 # 0 /\ (k + 1) - 1 = k
  BY <1>1
<1> DEFINE S == {k \in 0 .. N : u[k] \in X}
<1>12. \A k \in 0 .. N : k \in S
  <2>1. 0 \in S
    BY <1>10, <1>11
  <2>2. ASSUME NEW k \in 0 .. N - 1, k \in S PROVE k + 1 \in S
    <3>1. u[k + 1] = NextUp[u[k]] /\ u[k] \in X
      BY <1>10, <1>11, <2>2
    <3>2. u[k + 1] \in X
      BY <1>2, <3>1
    <3>3. QED
      BY <1>11, <3>2
  <2> HIDE DEF S, N
  <2>3. QED
    BY <1>1, <2>1, <2>2, UpTo
<1>13. ASSUME NEW k \in 1 .. N PROVE u[k] = OwnTable(u[k - 1])[1].cluster /\ u[k] \in Clusters
  <2>1. k \in 0 .. N /\ k # 0 /\ k - 1 \in 0 .. N
    BY <1>1
  <2>2. u[k] = NextUp[u[k - 1]] /\ u[k - 1] \in X
    BY <1>10, <1>12, <2>1
  <2> HIDE DEF X
  <2>3. QED
    BY <1>2, <2>2
<1>14. u[0] = c
  BY <1>10, <1>11
<1>15. QED
  BY <1>13, <1>14 DEF u

(* From the cluster number in the boot sector the walk never comes to the  *)
(* root: what is read there has no entries.                                *)
LEMMA BootAstray ==
  ASSUME disk \in Disks
  PROVE  Rounds(BootCluster) = {}
<1> DEFINE N == ClusterMapSize
           u == UpWalk(BootCluster)
           S == {k \in 0 .. N : u[k] \notin DataClusters}
<1>1. /\ N \in Nat /\ u[0] = BootCluster /\ BootCluster \notin DataClusters
      /\ \A k \in 1 .. N : u[k] = OwnTable(u[k - 1])[1].cluster
  BY UpWalkFacts, Constants
<1>2. ASSUME NEW c, c \notin DataClusters PROVE OwnTable(c)[1].cluster = 0
  <2>1. TableAt(c)[0].cluster = 0
    BY <1>2, NoTable, Constants DEF EmptyEntry
  <2>2. TableAt(0)[1].cluster = 0
    BY NoTable, Constants DEF EmptyEntry
  <2>3. QED
    BY <2>1, <2>2 DEF OwnTable
<1> HIDE DEF u
<1>3. 0 \in S
  BY <1>1
<1>4. ASSUME NEW k \in 0 .. N - 1, k \in S PROVE k + 1 \in S
  <2>1. k + 1 \in 1 .. N /\ k + 1 \in 0 .. N /\ (k + 1) - 1 = k
    BY <1>1
  <2>2. u[k + 1] = OwnTable(u[k])[1].cluster /\ u[k] \notin DataClusters
    BY <1>1, <1>4, <2>1
  <2>3. QED
    BY <1>2, <2>1, <2>2, Constants
<1>5. \A k \in 0 .. N : k \in S
  <2> HIDE DEF S, N
  <2>1. QED
    BY <1>1, <1>3, <1>4, UpTo
<1>6. \A k \in 1 .. N : u[k] # ROOT_CLUSTER_NUMBER
  BY <1>1, <1>5, Constants
<1>7. QED
  BY <1>6 DEF Rounds, u

(* What the proofs about the driver call the way up, in the shell's words. *)
LEMMA WayIs ==
  ASSUME NEW c, NEW p, NEW n, FSP!WayUp(disk, c, p, n)
  PROVE  /\ n \in Nat /\ n < ClusterMapSize - 2 /\ p \in [0 .. n -> DataClusters]
         /\ p[0] = c /\ p[n] = ROOT_CLUSTER_NUMBER
         /\ \A k \in 0 .. n - 1 :
              /\ p[k] \in FS!Directories(disk) /\ p[k] # ROOT_CLUSTER_NUMBER
              /\ OwnTable(p[k]) = TableAt(p[k]) /\ TableAt(p[k])[1].cluster = p[k + 1]
         /\ \A i, j \in 0 .. n : p[i] = p[j] => i = j
<1>1. /\ n \in Nat /\ p \in [0 .. n -> DataClusters]
      /\ p[0] = c /\ p[n] = ROOT_CLUSTER_NUMBER
      /\ \A k \in 0 .. n - 1 :
           /\ p[k] \in FS!Directories(disk) /\ p[k] # ROOT_CLUSTER_NUMBER
           /\ FSP!Tab(disk, p[k])[0].cluster = p[k]
           /\ FSP!Tab(disk, p[k])[1].cluster = p[k + 1]
  BY SameWords, SameDirectories DEF FSP!WayUp
<1>2. n < ClusterMapSize - 2 /\ \A i, j \in 0 .. n : p[i] = p[j] => i = j
  BY Given, FSP!WayBounded
<1>3. \A k \in 0 .. n - 1 : TableAt(p[k])[0].cluster = p[k] /\ TableAt(p[k])[1].cluster = p[k + 1]
  BY <1>1, SameTables, SameDirectories
<1>4. QED
  BY <1>1, <1>2, <1>3 DEF OwnTable

(* The walk goes the way up.                                               *)
LEMMA WayWalk ==
  ASSUME disk \in Disks, NEW c, NEW p, NEW n, FSP!WayUp(disk, c, p, n)
  PROVE  \A k \in 0 .. n : UpWalk(c)[k] = p[k]
<1> DEFINE S == {k \in 0 .. n : UpWalk(c)[k] = p[k]}
<1>1. /\ n \in Nat /\ n < ClusterMapSize - 2 /\ p[0] = c /\ c \in Clusters
      /\ \A k \in 0 .. n - 1 : OwnTable(p[k])[1].cluster = p[k + 1]
  <2>1. /\ n \in Nat /\ n < ClusterMapSize - 2 /\ p \in [0 .. n -> DataClusters]
        /\ p[0] = c
        /\ \A k \in 0 .. n - 1 : /\ OwnTable(p[k]) = TableAt(p[k])
                                 /\ TableAt(p[k])[1].cluster = p[k + 1]
    BY WayIs
  <2>2. c \in Clusters
    <3>1. 0 \in 0 .. n
      BY <2>1
    <3>2. p[0] \in DataClusters
      BY <2>1, <3>1
    <3>3. QED
      BY <2>1, <3>2, Constants
  <2>3. \A k \in 0 .. n - 1 : OwnTable(p[k])[1].cluster = p[k + 1]
    BY <2>1, Zenon
  <2>4. QED
    BY <2>1, <2>2, <2>3, Zenon
<1>2. /\ UpWalk(c)[0] = c
      /\ \A k \in 1 .. ClusterMapSize : UpWalk(c)[k] = OwnTable(UpWalk(c)[k - 1])[1].cluster
  BY <1>1, UpWalkFacts
<1>3. 0 \in S
  BY <1>1, <1>2
<1>4. ASSUME NEW k \in 0 .. n - 1, k \in S PROVE k + 1 \in S
  <2>1. k + 1 \in 1 .. ClusterMapSize /\ (k + 1) - 1 = k /\ k + 1 \in 0 .. n
    BY <1>1, Constants
  <2>2. UpWalk(c)[k + 1] = OwnTable(UpWalk(c)[k])[1].cluster
    BY <1>2, <2>1
  <2>3. QED
    BY <1>1, <1>4, <2>1, <2>2
<1> HIDE DEF S
<1>5. \A k \in 0 .. n : k \in S
  BY <1>1, <1>3, <1>4, UpTo
<1>6. QED
  BY <1>5 DEF S

(* The first two entries of the root lead to the root.                     *)
RootLoops == \A j \in {0, 1} : TableAt(ROOT_CLUSTER_NUMBER)[j].cluster = ROOT_CLUSTER_NUMBER

(* It ends at the root, after one round at least.                          *)
LEMMA WayRounds ==
  ASSUME disk \in Disks, NEW c, NEW p, NEW n, FSP!WayUp(disk, c, p, n),
         c = ROOT_CLUSTER_NUMBER => RootLoops
  PROVE  /\ Rounds(c) # {} /\ Least(Rounds(c)) = IF n = 0 THEN 1 ELSE n
         /\ Above(c) = {p[k] : k \in 0 .. n}
<1>1. /\ n \in Nat /\ n < ClusterMapSize - 2 /\ p[0] = c /\ c \in Clusters
      /\ p[n] = ROOT_CLUSTER_NUMBER
      /\ \A k \in 0 .. n - 1 : p[k] # ROOT_CLUSTER_NUMBER
  BY WayIs, Constants
<1>2. \A k \in 0 .. n : UpWalk(c)[k] = p[k]
  BY WayWalk
<1>3. Rounds(c) \in SUBSET Nat
  BY DEF Rounds
<1>4. CASE n = 0
  <2>1. UpWalk(c)[1] = ROOT_CLUSTER_NUMBER /\ UpWalk(c)[0] = ROOT_CLUSTER_NUMBER
    <3>1. 1 \in 1 .. ClusterMapSize /\ 1 - 1 = 0
      BY Constants
    <3>2. UpWalk(c)[0] = c /\ UpWalk(c)[1] = OwnTable(UpWalk(c)[0])[1].cluster
      BY <1>1, <3>1, UpWalkFacts
    <3>3. c = ROOT_CLUSTER_NUMBER /\ OwnTable(c)[1].cluster = c
      BY <1>1, <1>4 DEF OwnTable, RootLoops
    <3>4. QED
      BY <3>2, <3>3
  <2>2. 1 \in Rounds(c) /\ \A k \in Rounds(c) : 1 <= k
    BY <2>1, Constants DEF Rounds
  <2>3. Least(Rounds(c)) = 1
    BY <1>3, <2>2, LeastIs
  <2>4. Above(c) = {p[k] : k \in 0 .. n}
    <3>1. Above(c) = {UpWalk(c)[k] : k \in {0, 1}}
      BY <2>3 DEF Above
    <3>2. QED
      BY <1>1, <1>4, <2>1, <3>1
  <2>5. QED
    BY <1>4, <2>2, <2>3, <2>4
<1>5. CASE n # 0
  <2>1. n \in Rounds(c)
    BY <1>1, <1>2, <1>5, Constants DEF Rounds
  <2>2. ASSUME NEW k \in Rounds(c) PROVE n <= k
    <3>1. k \in 1 .. ClusterMapSize /\ UpWalk(c)[k] = ROOT_CLUSTER_NUMBER
      BY DEF Rounds
    <3>2. k < n => k \in 0 .. n - 1 /\ k \in 0 .. n
      BY <1>1, <3>1
    <3>3. QED
      BY <1>1, <1>2, <3>1, <3>2
  <2>3. Least(Rounds(c)) = n
    BY <1>3, <2>1, <2>2, LeastIs
  <2>4. Above(c) = {p[k] : k \in 0 .. n}
    BY <1>2, <2>3 DEF Above
  <2>5. QED
    BY <1>5, <2>1, <2>3, <2>4
<1>6. QED
  BY <1>4, <1>5

(* The clusters above one are those on its way up.                         *)
LEMMA UnderAbove ==
  ASSUME disk \in Disks, NEW c, FSP!Under(disk, c, c),
         c = ROOT_CLUSTER_NUMBER => RootLoops
  PROVE  /\ c \in FS!Directories(disk) /\ Rounds(c) # {}
         /\ \A b : b \in Above(c) <=> FSP!Under(disk, c, b)
<1>1. PICK p, n : FSP!WayUp(disk, c, p, n)
  BY DEF FSP!Under
<1>2. Rounds(c) # {} /\ Above(c) = {p[k] : k \in 0 .. n}
  BY <1>1, WayRounds
<1>3. c \in FSP!Directories(disk)
  BY DEF FSP!Under
<1>4. ASSUME NEW b \in Above(c) PROVE FSP!Under(disk, c, b)
  BY <1>1, <1>2, <1>3 DEF FSP!Under
<1>5. ASSUME NEW b, FSP!Under(disk, c, b) PROVE b \in Above(c)
  <2>1. PICK q, m : FSP!WayUp(disk, c, q, m) /\ \E j \in 0 .. m : q[j] = b
    BY <1>5 DEF FSP!Under
  <2>2. Above(c) = {q[k] : k \in 0 .. m}
    BY <2>1, WayRounds
  <2>3. QED
    BY <2>1, <2>2
<1>6. QED
  BY <1>2, <1>3, <1>4, <1>5, SameDirectories

(* Whatever has something above it is on its own way up.                   *)
LEMMA UnderSelf ==
  ASSUME NEW c, NEW b, FSP!Under(disk, c, b)
  PROVE  FSP!Under(disk, c, c)
<1>1. PICK p, n : FSP!WayUp(disk, c, p, n)
  BY DEF FSP!Under
<1>2. n \in Nat /\ p[0] = c
  BY <1>1, WayIs
<1>3. 0 \in 0 .. n
  BY <1>2
<1>4. QED
  BY <1>1, <1>2, <1>3 DEF FSP!Under

-----------------------------------------------------------------------------
(* The driver that the shell calls and the one that the proofs are about.  *)

(* They agree on the constants of the format,                              *)
LEMMA SameConstants ==
  /\ FS!ROOT_CLUSTER_NUMBER = FSP!ROOT_CLUSTER_NUMBER
  /\ FS!FAT32_FAT_EMPTY_ENTRY = FSP!FAT32_FAT_EMPTY_ENTRY
  /\ FS!FAT32_FAT_END_OF_FILE = FSP!FAT32_FAT_END_OF_FILE
  /\ FS!Blank = FSP!Blank
  /\ FS!Slots = FSP!Slots
  /\ FS!DataClusters = FSP!DataClusters
  /\ FS!Clusters = FSP!Clusters
  /\ FS!EmptyEntry = FSP!EmptyEntry
  /\ FS!EmptyTable = FSP!EmptyTable
  /\ FS!NoData = FSP!NoData
  /\ FS!ZeroCell = FSP!ZeroCell
  /\ FS!StrayCell = FSP!StrayCell
  /\ FS!ZeroMap = FSP!ZeroMap
  /\ FS!NoCall = FSP!NoCall
  /\ FS!FormatMap = FSP!FormatMap
  BY DEF FS!ROOT_CLUSTER_NUMBER, FSP!ROOT_CLUSTER_NUMBER,
         FS!FAT32_FAT_EMPTY_ENTRY, FSP!FAT32_FAT_EMPTY_ENTRY,
         FS!FAT32_FAT_END_OF_FILE, FSP!FAT32_FAT_END_OF_FILE, FS!Blank,
         FSP!Blank, FS!Slots, FSP!Slots, FS!DataClusters, FSP!DataClusters,
         FS!Clusters, FSP!Clusters, FS!EmptyEntry, FSP!EmptyEntry,
         FS!EmptyTable, FSP!EmptyTable, FS!NoData, FSP!NoData, FS!ZeroCell,
         FSP!ZeroCell, FS!StrayCell, FSP!StrayCell, FS!ZeroMap, FSP!ZeroMap,
         FS!NoCall, FSP!NoCall, FS!FormatMap, FSP!FormatMap, FS!Stray,
         FSP!Stray, FS!CLUSTER_0_VALUE, FSP!CLUSTER_0_VALUE,
         FS!CLUSTER_1_VALUE, FSP!CLUSTER_1_VALUE

(* on searching, filling and writing tables and FATs,                      *)
LEMMA SameOperators ==
  /\ \A S : FS!Cardinality(S) = FSP!Cardinality(S)
  /\ \A S : FS!Least(S) = FSP!Least(S)
  /\ \A S, k : FS!Lowest(S, k) = FSP!Lowest(S, k)
  /\ \A k : FS!CeilDiv(k) = FSP!CeilDiv(k)
  /\ \A t, n, x : FS!SlotsNamed(t, n, x) = FSP!SlotsNamed(t, n, x)
  /\ \A t : FS!FreeSlots(t) = FSP!FreeSlots(t)
  /\ \A t, e : FS!AddEntry(t, e) = FSP!AddEntry(t, e)
  /\ \A t, i : FS!ClearEntry(t, i) = FSP!ClearEntry(t, i)
  /\ \A n, c : FS!DirEntry(n, c) = FSP!DirEntry(n, c)
  /\ \A n, x, k, c : FS!FileEntry(n, x, k, c) = FSP!FileEntry(n, x, k, c)
  /\ \A t : FS!TableCell(t) = FSP!TableCell(t)
  /\ \A p, i : FS!DataCell(p, i) = FSP!DataCell(p, i)
  /\ \A d : FS!WriteSignature(d) = FSP!WriteSignature(d)
  /\ \A d, m : FS!WriteFat(d, m) = FSP!WriteFat(d, m)
  /\ \A d, c, t : FS!WriteTable(d, c, t) = FSP!WriteTable(d, c, t)
  /\ \A d, S : FS!ZeroClusters(d, S) = FSP!ZeroClusters(d, S)
  /\ \A m, k : FS!EmptyClusters(m, k) = FSP!EmptyClusters(m, k)
  /\ \A m, A, k : FS!Link(m, A, k) = FSP!Link(m, A, k)
  /\ \A m, c : FS!Walk(m, c) = FSP!Walk(m, c)
  /\ \A m, c : FS!EndsAfter(m, c) = FSP!EndsAfter(m, c)
  /\ \A d, c : FS!CellAt(d, c) = FSP!CellAt(d, c)
  /\ \A t : FS!Occupied(t) = FSP!Occupied(t)
  /\ \A call, c, n, x, k, p, ret, out :
       FS!Returned(call, c, n, x, k, p, ret, out)
         = FSP!Returned(call, c, n, x, k, p, ret, out)
  BY SameConstants
     DEF FS!Cardinality, FSP!Cardinality, FS!Least, FSP!Least, FS!Lowest,
         FSP!Lowest, FS!CeilDiv, FSP!CeilDiv, FS!SlotsNamed, FSP!SlotsNamed,
         FS!FreeSlots, FSP!FreeSlots, FS!AddEntry, FSP!AddEntry,
         FS!ClearEntry, FSP!ClearEntry, FS!DirEntry, FSP!DirEntry,
         FS!FileEntry, FSP!FileEntry, FS!TableCell, FSP!TableCell,
         FS!DataCell, FSP!DataCell, FS!WriteSignature, FSP!WriteSignature,
         FS!WriteFat, FSP!WriteFat, FS!WriteTable, FSP!WriteTable,
         FS!ZeroClusters, FSP!ZeroClusters, FS!EmptyClusters,
         FSP!EmptyClusters, FS!Link, FSP!Link, FS!Walk, FSP!Walk,
         FS!EndsAfter, FSP!EndsAfter, FS!CellAt, FSP!CellAt, FS!Occupied,
         FSP!Occupied, FS!Returned, FSP!Returned, FS!ATTR_SUBDIRECTORY,
         FSP!ATTR_SUBDIRECTORY

(* on the images that a call lines up,                                     *)
LEMMA SameImages ==
  /\ \A d, m, c, p, i :
       FS!WithData(d, m, c, p, i) = FSP!WithData(d, m, c, p, i)
  /\ \A d, m, n, c :
       FS!InitDirectoryTable(d, m, n, c) = FSP!InitDirectoryTable(d, m, n, c)
  /\ \A d, m, c, p, k, parent, t :
       FS!WriteImages(d, m, c, p, k, parent, t) =
         FSP!WriteImages(d, m, c, p, k, parent, t)
  /\ \A d, c, parent, t :
       FS!DeleteDirImages(d, c, parent, t) =
         FSP!DeleteDirImages(d, c, parent, t)
  /\ \A d, w, k, parent, t :
       FS!DeleteFileImages(d, w, k, parent, t) =
         FSP!DeleteFileImages(d, w, k, parent, t)
<1>1. ASSUME NEW d, NEW m, NEW c, NEW p, NEW i
      PROVE  FS!WithData(d, m, c, p, i) = FSP!WithData(d, m, c, p, i)
  BY SameConstants, SameOperators DEF FS!WithData, FSP!WithData
<1>2. ASSUME NEW d, NEW m, NEW n, NEW c
      PROVE  FS!InitDirectoryTable(d, m, n, c) = FSP!InitDirectoryTable(d, m, n, c)
  BY SameConstants, SameOperators DEF FS!InitDirectoryTable, FSP!InitDirectoryTable
<1>3. ASSUME NEW d, NEW m, NEW c, NEW p, NEW k, NEW parent, NEW t
      PROVE  FS!WriteImages(d, m, c, p, k, parent, t) = FSP!WriteImages(d, m, c, p, k, parent, t)
  BY SameConstants, SameOperators, <1>1 DEF FS!WriteImages, FSP!WriteImages
<1>4. ASSUME NEW d, NEW c, NEW parent, NEW t
      PROVE  FS!DeleteDirImages(d, c, parent, t) = FSP!DeleteDirImages(d, c, parent, t)
  BY SameConstants, SameOperators DEF FS!DeleteDirImages, FSP!DeleteDirImages
<1>5. ASSUME NEW d, NEW w, NEW k, NEW parent, NEW t
      PROVE  FS!DeleteFileImages(d, w, k, parent, t) = FSP!DeleteFileImages(d, w, k, parent, t)
  BY SameConstants, SameOperators DEF FS!DeleteFileImages, FSP!DeleteFileImages
<1>6. QED
  BY <1>1, <1>2, <1>3, <1>4, <1>5

(* and on what their actions do.                                           *)
LEMMA SameIdle == (FS!Quiet <=> FSP!Quiet) /\ (FS!Idle <=> FSP!Idle)
  BY DEF FS!Quiet, FSP!Quiet, FS!Idle, FSP!Idle

(* read_directory().                                                       *)
LEMMA SameReadDirectory ==
  ASSUME NEW c, NEW n
  PROVE  FS!ReadDirectory(c, n) <=> FSP!ReadDirectory(c, n)
  BY SameConstants, SameOperators, SameImages, SameIdle
     DEF FS!ReadDirectory, FSP!ReadDirectory

(* read().                                                                 *)
LEMMA SameRead ==
  ASSUME NEW c, NEW n, NEW x, NEW k
  PROVE  FS!Read(c, n, x, k) <=> FSP!Read(c, n, x, k)
  BY SameConstants, SameOperators, SameImages, SameIdle
     DEF FS!Read, FSP!Read, FS!ReadClusters, FSP!ReadClusters

(* write() that refuses a request.                                         *)
LEMMA SameWriteRefused ==
  ASSUME NEW c, NEW n, NEW x, NEW k
  PROVE  FS!WriteRefused(c, n, x, k) <=> FSP!WriteRefused(c, n, x, k)
  BY SameConstants, SameOperators, SameImages, SameIdle
     DEF FS!WriteRefused, FSP!WriteRefused, FS!WriteReply, FSP!WriteReply,
         FS!CanWrite, FSP!CanWrite

(* write() of a directory.                                                 *)
LEMMA SameMakeDirectory ==
  ASSUME NEW c, NEW n
  PROVE  FS!MakeDirectory(c, n) <=> FSP!MakeDirectory(c, n)
  BY SameConstants, SameOperators, SameImages, SameIdle
     DEF FS!MakeDirectory, FSP!MakeDirectory, FS!WriteReply, FSP!WriteReply,
         FS!CanWrite, FSP!CanWrite

(* write() without enough room.                                            *)
LEMMA SameWriteRunsOut ==
  ASSUME NEW c, NEW n, NEW x, NEW k
  PROVE  FS!WriteRunsOut(c, n, x, k) <=> FSP!WriteRunsOut(c, n, x, k)
  BY SameConstants, SameOperators, SameImages, SameIdle
     DEF FS!WriteRunsOut, FSP!WriteRunsOut, FS!WriteReply, FSP!WriteReply,
         FS!CanWrite, FSP!CanWrite, FS!Allocation, FSP!Allocation

(* write() of a file.                                                      *)
LEMMA SameWriteFile ==
  ASSUME NEW c, NEW n, NEW x, NEW k, NEW p
  PROVE  FS!WriteFile(c, n, x, k, p) <=> FSP!WriteFile(c, n, x, k, p)
  BY SameConstants, SameOperators, SameImages, SameIdle
     DEF FS!WriteFile, FSP!WriteFile, FS!WriteReply, FSP!WriteReply,
         FS!CanWrite, FSP!CanWrite, FS!Allocation, FSP!Allocation

(* delete() that refuses a request.                                        *)
LEMMA SameDeleteRefused ==
  ASSUME NEW c, NEW n, NEW x
  PROVE  FS!DeleteRefused(c, n, x) <=> FSP!DeleteRefused(c, n, x)
  BY SameConstants, SameOperators, SameImages, SameIdle
     DEF FS!DeleteRefused, FSP!DeleteRefused, FS!DeleteReply, FSP!DeleteReply

(* delete() of a directory.                                                *)
LEMMA SameDeleteDirectory ==
  ASSUME NEW c, NEW n, NEW x
  PROVE  FS!DeleteDirectory(c, n, x) <=> FSP!DeleteDirectory(c, n, x)
  BY SameConstants, SameOperators, SameImages, SameIdle
     DEF FS!DeleteDirectory, FSP!DeleteDirectory, FS!DeleteReply,
         FSP!DeleteReply, FS!MayDelete, FSP!MayDelete

(* delete() of a file.                                                     *)
LEMMA SameDeleteFile ==
  ASSUME NEW c, NEW n, NEW x
  PROVE  FS!DeleteFile(c, n, x) <=> FSP!DeleteFile(c, n, x)
  BY SameConstants, SameOperators, SameImages, SameIdle
     DEF FS!DeleteFile, FSP!DeleteFile, FS!DeleteReply, FSP!DeleteReply

(* The start, the disk writes, the return of a call and the end.           *)
LEMMA SameMachine ==
  /\ FS!Init <=> FSP!Init
  /\ FS!Format <=> FSP!Format
  /\ FS!Mount <=> FSP!Mount
  /\ FS!WriteBlocks <=> FSP!WriteBlocks
  /\ FS!Return <=> FSP!Return
  /\ FS!PowerOff <=> FSP!PowerOff
  BY SameConstants, SameOperators, SameImages, SameIdle
     DEF FS!Init, FSP!Init, FS!BlankDisk, FSP!BlankDisk, FS!Format,
         FSP!Format, FS!FormatImages, FSP!FormatImages, FS!Mount, FSP!Mount,
         FS!WriteBlocks, FSP!WriteBlocks, FS!Return, FSP!Return, FS!PowerOff,
         FSP!PowerOff

-----------------------------------------------------------------------------
(* The tree that the shell looks at.                                       *)

(* The directories on the disk.                                            *)
Dirs == FS!Directories(disk)

(* A slot of the directory c that has an entry.                            *)
NamedSlot(c, e) ==
  /\ e.used /\ e.name \in Names /\ c \in Dirs
  /\ e.attr = ATTR_SUBDIRECTORY =>
       /\ e.cluster \in Dirs \ {ROOT_CLUSTER_NUMBER}
       /\ TableAt(e.cluster)[0] = e /\ TableAt(e.cluster)[1].cluster = c
  /\ e.attr # ATTR_SUBDIRECTORY =>
       e.cluster \in DataClusters /\ TableAt(e.cluster) = EmptyTable

(* Directories hold no data, have a way up and an entry in the directory   *)
(* above them, and no two entries of a directory have the same name.       *)
TreeOk ==
  /\ disk \in Disks /\ ROOT_CLUSTER_NUMBER \in Dirs /\ RootLoops
  /\ \A c \in Dirs :
       /\ c \in DataClusters /\ CellAt(disk, c).data = NoData
       /\ TableAt(c)[0].cluster = c /\ TableAt(c)[1].name = ".."
       /\ TableAt(c)[1].cluster \in Dirs /\ FSP!Under(disk, c, c)
  /\ \A c \in Dirs \ {ROOT_CLUSTER_NUMBER} :
       /\ TableAt(c)[0].name \in Names /\ TableAt(c)[0].attr = ATTR_SUBDIRECTORY
       /\ \E i \in Slots \ {0, 1} : TableAt(TableAt(c)[1].cluster)[i] = TableAt(c)[0]
  /\ \A c \in DataClusters, i \in Slots \ {0, 1} :
       TableAt(c)[i] = EmptyEntry \/ NamedSlot(c, TableAt(c)[i])
  /\ \A c \in DataClusters, i, j \in Slots \ {0, 1} :
       TableAt(c)[i].name = TableAt(c)[j].name /\ TableAt(c)[i].name \in Names => i = j
  /\ \A c \in DataClusters, i \in Slots :
       TableAt(c)[i].name # Blank => TableAt(c)[i].cluster \in DataClusters
  /\ \A c \in DataClusters, i \in Slots \ {0, 1} : TableAt(c)[i].name # ".."

(* That is what the driver keeps between calls.                            *)
LEMMA TreeIsOk ==
  ASSUME FSP!ProperInv, FSP!Quiet
  PROVE  TreeOk
<1>1. /\ FSP!Ready(disk) /\ FSP!Proper(disk)
      /\ FSP!ROOT_CLUSTER_NUMBER \in FSP!Directories(disk)
  BY Given, FSP!ProperIdle
<1>2. disk \in Disks
  BY <1>1, SameWords DEF FSP!Ready
<1>3. /\ \A c \in Dirs :
           /\ c \in DataClusters /\ FSP!Dat(disk, c) = NoData
           /\ FSP!Tab(disk, c)[0].cluster = c /\ FSP!Tab(disk, c)[1].name = ".."
           /\ FSP!Tab(disk, c)[1].cluster \in Dirs /\ FSP!Under(disk, c, c)
      /\ \A c \in Dirs \ {ROOT_CLUSTER_NUMBER} :
           /\ FSP!Tab(disk, c)[0].name \in Names
           /\ FSP!Tab(disk, c)[0].attr = ATTR_SUBDIRECTORY
           /\ \E i \in Slots \ {0, 1} :
                FSP!Tab(disk, FSP!Tab(disk, c)[1].cluster)[i] = FSP!Tab(disk, c)[0]
      /\ FSP!Tab(disk, ROOT_CLUSTER_NUMBER)[1].cluster = ROOT_CLUSTER_NUMBER
      /\ \A c \in DataClusters, i \in Slots \ {0, 1} :
           \/ FSP!Tab(disk, c)[i] = EmptyEntry
           \/ FSP!NamedSlot(disk, c, FSP!Tab(disk, c)[i])
      /\ \A c \in DataClusters, i, j \in Slots \ {0, 1} :
           FSP!Tab(disk, c)[i].name = FSP!Tab(disk, c)[j].name
           /\ FSP!Tab(disk, c)[i].name \in Names => i = j
      /\ \A c \in DataClusters, i \in Slots :
           FSP!Tab(disk, c)[i].name # Blank => FSP!Tab(disk, c)[i].cluster \in DataClusters
      /\ \A c \in DataClusters, i \in Slots \ {0, 1} : FSP!Tab(disk, c)[i].name # ".."
  <2>1. FSP!Directories(disk) = Dirs
    BY SameDirectories DEF Dirs
  <2>2. QED
    BY <1>1, <2>1, Given, FSP!TreeShape, SameWords
<1>4. \A c \in DataClusters : FSP!Tab(disk, c) = TableAt(c)
                              /\ FSP!Dat(disk, c) = CellAt(disk, c).data
  BY SameTables
<1>5. \A c \in Dirs : c \in DataClusters
  BY <1>3
<1>6. ASSUME NEW c \in DataClusters, NEW e, FSP!NamedSlot(disk, c, e)
      PROVE  NamedSlot(c, e)
  BY <1>4, <1>5, <1>6, SameWords, SameDirectories DEF FSP!NamedSlot, NamedSlot, Dirs
<1>7. ROOT_CLUSTER_NUMBER \in Dirs
  BY <1>1, SameWords, SameDirectories DEF Dirs
<1>8. \A c \in DataClusters, i \in Slots \ {0, 1} :
        TableAt(c)[i] = EmptyEntry \/ NamedSlot(c, TableAt(c)[i])
  BY <1>3, <1>4, <1>6
<1>9. \A c \in Dirs :
        /\ c \in DataClusters /\ CellAt(disk, c).data = NoData
        /\ TableAt(c)[0].cluster = c /\ TableAt(c)[1].name = ".."
        /\ TableAt(c)[1].cluster \in Dirs /\ FSP!Under(disk, c, c)
  BY <1>3, <1>4
<1>10. \A c \in Dirs \ {ROOT_CLUSTER_NUMBER} :
         /\ TableAt(c)[0].name \in Names /\ TableAt(c)[0].attr = ATTR_SUBDIRECTORY
         /\ \E i \in Slots \ {0, 1} : TableAt(TableAt(c)[1].cluster)[i] = TableAt(c)[0]
  BY <1>3, <1>4, <1>5
<1>11. /\ RootLoops
       /\ \A c \in DataClusters, i, j \in Slots \ {0, 1} :
            TableAt(c)[i].name = TableAt(c)[j].name /\ TableAt(c)[i].name \in Names => i = j
       /\ \A c \in DataClusters, i \in Slots :
            TableAt(c)[i].name # Blank => TableAt(c)[i].cluster \in DataClusters
       /\ \A c \in DataClusters, i \in Slots \ {0, 1} : TableAt(c)[i].name # ".."
  <2>1. RootLoops
    BY <1>3, <1>4, <1>7, <1>9, Constants DEF RootLoops
  <2>2. ASSUME NEW c \in DataClusters
        PROVE  FSP!Tab(disk, c) = TableAt(c)
    BY <1>4, Zenon
  <2>3. \A c \in DataClusters, i, j \in Slots \ {0, 1} :
          TableAt(c)[i].name = TableAt(c)[j].name /\ TableAt(c)[i].name \in Names => i = j
    <3>1. TAKE c \in DataClusters
    <3>2. QED
      BY <1>3, <2>2
  <2>4. \A c \in DataClusters, i \in Slots :
          TableAt(c)[i].name # Blank => TableAt(c)[i].cluster \in DataClusters
    <3>1. TAKE c \in DataClusters
    <3>2. QED
      BY <1>3, <2>2
  <2>5. \A c \in DataClusters, i \in Slots \ {0, 1} : TableAt(c)[i].name # ".."
    <3>1. TAKE c \in DataClusters
    <3>2. QED
      BY <1>3, <2>2
  <2>6. QED
    BY <2>1, <2>3, <2>4, <2>5
<1>12. QED
  BY <1>2, <1>7, <1>8, <1>9, <1>10, <1>11 DEF TreeOk

(* A request for "." in a directory delivers its own table.                *)
LEMMA OwnDirectory ==
  ASSUME TreeOk, NEW c \in Dirs
  PROVE  OwnTable(c) = TableAt(c)
  BY DEF TreeOk, OwnTable

-----------------------------------------------------------------------------
(* The loop of cd.                                                         *)

(* What a round of the loop leaves, and what it begins with.               *)
Ends  == {"more", "long", "missing", "unknown"}
Walks == [at : Clusters \cup {BootCluster}, found : BOOLEAN, end : Ends]
Start(from) == [at |-> from, found |-> FALSE, end |-> "more"]

(* A round leaves a record of the same kind.                               *)
LEMMA RoundKinds ==
  ASSUME disk \in Disks, NEW w \in Walks, NEW n
  PROVE  CdRound(w, n) \in Walks
<1>1. CellFor(w.at, n).table[0].cluster \in Clusters
  BY TableKinds, Constants DEF CellFor, TableAt
<1>2. Entered(CellFor(w.at, n)) \in Clusters \cup {BootCluster}
  BY <1>1 DEF Entered
<1>3. QED
  BY <1>2 DEF CdRound, Walks, Ends

(* The function that PathWalk is defined by.                               *)
IsPathWalk(f, from, path) ==
  f = [k \in 0 .. Len(path) |->
         IF k = 0 THEN [at |-> from, found |-> FALSE, end |-> "more"]
         ELSE CdRound(f[k - 1], path[k])]

(* PathWalk takes one round after another.                                 *)
LEMMA PathWalkFacts ==
  ASSUME disk \in Disks, NEW from \in Clusters, NEW path, Len(path) \in Nat
  PROVE  \E f : /\ f[0] = Start(from)
                /\ \A k \in 1 .. Len(path) : f[k] = CdRound(f[k - 1], path[k])
                /\ PathWalk(from, path) = f[Len(path)]
<1> DEFINE N == Len(path)
           step == [y \in Walks \X (1 .. N) |-> CdRound(y[1], path[y[2]])]
           a == [at |-> from, found |-> FALSE, end |-> "more"]
<1>1. N \in Nat /\ a \in Walks
  BY DEF Walks, Ends
<1>2. step \in [Walks \X (1 .. N) -> Walks]
  BY RoundKinds
<1>3. PICK f \in [0 .. N -> Walks] : Recurs(f, N, a, step)
  <2> HIDE DEF N, step, a
  <2>1. QED
    BY <1>1, <1>2, RecursExists
<1>4. \A k \in 0 .. N : f[k] = IF k = 0 THEN a ELSE step[<<f[k - 1], k>>]
  <2> HIDE DEF step, N, a
  <2>1. QED
    BY <1>3, Zenon DEF Recurs
<1>5. ASSUME NEW k \in 0 .. N, k # 0 PROVE step[<<f[k - 1], k>>] = CdRound(f[k - 1], path[k])
  <2>1. k \in 1 .. N /\ f[k - 1] \in Walks
    BY <1>1, <1>5
  <2>2. QED
    BY <2>1
<1>6. \A k \in 0 .. N : f[k] = IF k = 0 THEN a ELSE CdRound(f[k - 1], path[k])
  <2> HIDE DEF step, N, a
  <2>1. QED
    BY <1>4, <1>5, Zenon
<1>7. IsPathWalk(f, from, path)
  BY <1>6, Zenon DEF IsPathWalk
<1>8. PICK g : IsPathWalk(g, from, path) /\ PathWalk(from, path) = g[N]
  <2> DEFINE g == CHOOSE h : h = [k \in 0 .. Len(path) |->
                    IF k = 0 THEN [at |-> from, found |-> FALSE, end |-> "more"]
                    ELSE CdRound(h[k - 1], path[k])]
  <2>1. IsPathWalk(g, from, path)
    BY <1>7 DEF IsPathWalk
  <2>2. PathWalk(from, path) = g[N]
    BY DEF PathWalk
  <2>3. QED
    BY <2>1, <2>2
<1>9. \A k \in 0 .. N : g[k] = IF k = 0 THEN a ELSE CdRound(g[k - 1], path[k])
  BY <1>8, Zenon DEF IsPathWalk
<1>10. 0 \in 0 .. N /\ \A k \in 1 .. N : k \in 0 .. N /\ k # 0
  BY <1>1
<1>11. g[0] = a /\ \A k \in 1 .. N : g[k] = CdRound(g[k - 1], path[k])
  BY <1>9, <1>10, Zenon
<1>12. QED
  BY <1>8, <1>11 DEF Start

(* The slot of a name that cd is given.                                    *)
LEMMA SlotFound ==
  ASSUME TreeOk, NEW c \in Dirs, NEW n \in Names, n \notin {".", ".."},
         SlotFor(c, n) # {}
  PROVE  LET i == Least(SlotFor(c, n)) IN
         /\ i \in Slots \ {0, 1} /\ TableAt(c)[i].name = n
         /\ NamedSlot(c, TableAt(c)[i]) /\ SlotFor(c, n) = {i}
<1> DEFINE i == Least(SlotFor(c, n))
<1>1. SlotFor(c, n) = {j \in Slots \ {0} : TableAt(c)[j].name = n}
  BY DEF SlotFor
<1>2. i \in SlotFor(c, n)
  BY <1>1, Constants, LeastOf
<1> HIDE DEF i
<1>3. ASSUME NEW j \in SlotFor(c, n) PROVE j \in Slots \ {0, 1} /\ TableAt(c)[j].name = n
  BY <1>1 DEF TreeOk
<1>4. c \in DataClusters /\ n # Blank
  BY GeometryAssumption DEF TreeOk
<1>5. NamedSlot(c, TableAt(c)[i])
  BY <1>2, <1>3, <1>4 DEF TreeOk, EmptyEntry
<1>6. \A j \in SlotFor(c, n) : j = i
  BY <1>2, <1>3, <1>4 DEF TreeOk
<1>7. QED
  BY <1>2, <1>3, <1>5, <1>6 DEF i

(* An empty component stands for the first slot without an entry, if there *)
(* is one, and that leads to the boot sector.                              *)
LEMMA BlankEnters ==
  ASSUME TreeOk, NEW c \in Dirs, SlotFor(c, Blank) # {}
  PROVE  CellFor(c, Blank) = StrayCell
<1> DEFINE i == Least(SlotFor(c, Blank))
<1>1. SlotFor(c, Blank) = {j \in Slots \ {0} : TableAt(c)[j].name = Blank}
  BY DEF SlotFor, Blank
<1>2. i \in SlotFor(c, Blank)
  BY <1>1, Constants, LeastOf
<1> HIDE DEF i
<1>3. i \in Slots \ {0, 1} /\ TableAt(c)[i].name = Blank /\ c \in DataClusters
  BY <1>1, <1>2 DEF TreeOk, Blank
<1>4. TableAt(c)[i] = EmptyEntry
  BY <1>3, GeometryAssumption DEF TreeOk, NamedSlot
<1>5. TableAt(c)[i].cluster = 0
  BY <1>4 DEF EmptyEntry
<1>6. QED
  BY <1>5, NoTable, Constants DEF CellFor, i

(* A round of cd goes nowhere but to a directory below, and by its name,   *)
(* or to the cluster number in the boot sector.                            *)
LEMMA RoundDown ==
  ASSUME TreeOk, NEW w \in Walks, w.at \in Dirs, NEW n,
         n \in Names \cup {".", Long, Blank}, n # ".."
  PROVE  LET v == CdRound(w, n)
         IN  \/ v.at \in {w.at, BootCluster}
             \/ /\ v.at \in Dirs \ {ROOT_CLUSTER_NUMBER} /\ TableAt(v.at)[1].cluster = w.at
                /\ TableAt(v.at)[0].name # "."
<1> DEFINE c == w.at
           v == CdRound(w, n)
<1>1. CASE w.end # "more" \/ n = Long
  BY <1>1 DEF CdRound, Walks
<1>2. CASE w.end = "more" /\ n # Long
  <2>1. \/ v.at = c
        \/ /\ SlotFor(c, n) # {} /\ ~ NoName(CellFor(c, n))
           /\ CellFor(c, n).data.what \notin TextPayloads
           /\ v.at \in {CellFor(c, n).table[0].cluster, BootCluster}
    BY <1>2 DEF CdRound, Walks, Entered
  <2>2. ASSUME SlotFor(c, n) # {}, ~ NoName(CellFor(c, n)),
               CellFor(c, n).data.what \notin TextPayloads,
               v.at = CellFor(c, n).table[0].cluster, n # Blank
        PROVE  \/ v.at = c
               \/ /\ v.at \in Dirs \ {ROOT_CLUSTER_NUMBER} /\ TableAt(v.at)[1].cluster = c
                  /\ TableAt(v.at)[0].name # "."
    <3>1. CellFor(c, n).table = TableAt(TableAt(c)[Least(SlotFor(c, n))].cluster)
      BY DEF CellFor, TableAt
    <3>2. CASE n = "."
      <4>1. SlotFor(c, n) = {0} /\ Least({0}) = 0
        BY <3>2, LeastIs DEF SlotFor
      <4>2. QED
        BY <2>2, <3>1, <4>1 DEF TreeOk
    <3>3. CASE n # "."
      <4> DEFINE e == TableAt(c)[Least(SlotFor(c, n))]
      <4>1. n \in Names /\ n \notin {".", ".."}
        BY <1>2, <2>2, <3>3
      <4>2. NamedSlot(c, e) /\ e.name = n
        BY <2>2, <4>1, SlotFound
      <4> HIDE DEF e
      <4>3. CellFor(c, n).table = TableAt(e.cluster) /\ CellFor(c, n) = CellAt(disk, e.cluster)
        BY <3>1 DEF e, CellFor
      <4>4. e.attr = ATTR_SUBDIRECTORY
        <5>1. SUFFICES ASSUME e.attr # ATTR_SUBDIRECTORY PROVE FALSE
          OBVIOUS
        <5>2. CellFor(c, n).table = EmptyTable /\ e.cluster \in DataClusters
          BY <4>2, <4>3, <5>1 DEF NamedSlot
        <5>3. CellFor(c, n).table[0].cluster = 0 /\ CellFor(c, n).table[0].name = Blank
          BY <5>2, Constants DEF EmptyTable, EmptyEntry
        <5>4. CellFor(c, n).data.what = "stray"
          BY <2>2, <5>3 DEF NoName
        <5>5. v.at = BootCluster \/ v.at = c
          BY <1>2, <5>4 DEF CdRound, Entered, Walks
        <5>6. QED
          BY <2>2, <5>3, <5>5, Constants DEF TreeOk
      <4>5. QED
        BY <2>2, <3>3, <4>2, <4>3, <4>4 DEF NamedSlot, TreeOk
    <3>4. QED
      BY <3>2, <3>3
  <2>3. CASE n = Blank
    <3>1. ASSUME SlotFor(c, n) # {} PROVE Entered(CellFor(c, n)) = BootCluster
      <4>1. CellFor(c, n) = StrayCell
        BY <2>3, <3>1, BlankEnters
      <4>2. QED
        BY <4>1 DEF StrayCell, Stray, Entered
    <3>2. QED
      BY <1>2, <3>1 DEF CdRound, Walks
  <2>4. QED
    BY <2>1, <2>2, <2>3
<1>3. QED
  BY <1>1, <1>2

(* From there no round leads anywhere.                                     *)
LEMMA RoundStuck ==
  ASSUME NEW w \in Walks, w.at = BootCluster, NEW n
  PROVE  CdRound(w, n).at = BootCluster
  BY DEF CdRound, Walks

(* What cd enters has the working directory on its way up, and names lead  *)
(* to it if they do to the working directory, unless it is the cluster     *)
(* number in the boot sector.                                              *)
LEMMA CdUnder ==
  ASSUME TreeOk, NEW from \in Dirs, NEW path, Len(path) \in Nat,
         FSP!Reached(disk, from),
         \A k \in 1 .. Len(path) : path[k] \in Names \cup {".", Long, Blank} /\ path[k] # ".."
  PROVE  LET w == PathWalk(from, path)
         IN  /\ w \in Walks
             /\ \/ w.at = BootCluster
                \/ /\ w.at \in Dirs
                   /\ FSP!Under(disk, w.at, from) /\ FSP!Reached(disk, w.at)
<1>1. from \in Clusters /\ disk \in Disks /\ FSP!Under(disk, from, from)
  BY Constants DEF TreeOk
<1>2. PICK f : /\ f[0] = Start(from)
               /\ \A k \in 1 .. Len(path) : f[k] = CdRound(f[k - 1], path[k])
               /\ PathWalk(from, path) = f[Len(path)]
  BY <1>1, PathWalkFacts
<1> DEFINE Below(c) == c \in Dirs /\ FSP!Under(disk, c, from) /\ FSP!Reached(disk, c)
           S == {k \in 0 .. Len(path) :
                   f[k] \in Walks /\ (f[k].at = BootCluster \/ Below(f[k].at))}
<1>3. 0 \in S
  <2>1. Start(from) \in Walks /\ Start(from).at = from
    BY <1>1 DEF Start, Walks, Ends
  <2>2. QED
    BY <1>1, <1>2, <2>1
<1>4. ASSUME NEW k \in 0 .. Len(path) - 1, k \in S PROVE k + 1 \in S
  <2>1. k + 1 \in 1 .. Len(path) /\ (k + 1) - 1 = k /\ k + 1 \in 0 .. Len(path)
    OBVIOUS
  <2>2. f[k + 1] = CdRound(f[k], path[k + 1])
    BY <1>2, <2>1
  <2>3. f[k] \in Walks /\ (f[k].at = BootCluster \/ Below(f[k].at))
    BY <1>4
  <2>4. f[k + 1] \in Walks
    BY <1>1, <2>2, <2>3, RoundKinds
  <2>5. CASE f[k].at = BootCluster
    <3>1. f[k + 1].at = BootCluster
      BY <2>2, <2>3, <2>5, RoundStuck
    <3>2. QED
      BY <2>1, <2>4, <3>1
  <2>6. CASE Below(f[k].at)
    <3>1. \/ f[k + 1].at \in {f[k].at, BootCluster}
          \/ /\ f[k + 1].at \in Dirs \ {ROOT_CLUSTER_NUMBER}
             /\ TableAt(f[k + 1].at)[1].cluster = f[k].at
             /\ TableAt(f[k + 1].at)[0].name # "."
      BY <2>1, <2>2, <2>3, <2>6, RoundDown
    <3>2. ASSUME f[k + 1].at \in Dirs \ {ROOT_CLUSTER_NUMBER},
                 TableAt(f[k + 1].at)[1].cluster = f[k].at,
                 TableAt(f[k + 1].at)[0].name # "."
          PROVE  Below(f[k + 1].at)
      <4>1. /\ f[k + 1].at \in FSP!Directories(disk)
            /\ f[k + 1].at # FSP!ROOT_CLUSTER_NUMBER
            /\ FSP!Tab(disk, f[k + 1].at)[0].cluster = f[k + 1].at
            /\ FSP!Tab(disk, f[k + 1].at)[1].cluster = f[k].at
            /\ FSP!Tab(disk, f[k + 1].at)[0].name # "."
        BY <3>2, SameDirectories, SameTables, SameWords DEF Dirs, TreeOk
      <4>2. FSP!Under(disk, f[k + 1].at, from)
        BY <2>6, <4>1, Given, FSP!ChildUnder
      <4>3. FSP!Reached(disk, f[k + 1].at)
        BY <2>6, <4>1, Given, FSP!ChildReached
      <4>4. QED
        BY <3>2, <4>2, <4>3
    <3>3. QED
      BY <2>1, <2>4, <2>6, <3>1, <3>2
  <2>7. QED
    BY <2>3, <2>5, <2>6
<1> HIDE DEF S
<1>5. \A k \in 0 .. Len(path) : k \in S
  BY <1>3, <1>4, UpTo
<1>6. Len(path) \in S
  BY <1>5
<1>7. QED
  BY <1>2, <1>6 DEF S

-----------------------------------------------------------------------------
(* The inductive invariant.                                                *)

(* Under which requests the shell keeps its bearings: rm is not given the  *)
(* name of the working directory, and no path goes up in its middle.       *)
Orderly == ~ SelfRequests /\ ".." \notin Components

(* The clusters that cd has gone through from the root: all of clusters,   *)
(* but for the cluster number in the boot sector, from where the shell     *)
(* does not come back to the prompt.                                       *)
OnStack(s) ==
  /\ s \in Seq(DataClusters) /\ Len(s) \in Nat \ {0} /\ s[1] = ROOT_CLUSTER_NUMBER
  /\ \/ clusters = s
     \/ clusters = Append(s, BootCluster) /\ place \in {"busy", "astray"}

(* The driver keeps a proper tree; the clusters of the stack begin with    *)
(* the root and each is a directory on the way up from the next one, also  *)
(* in every image that is still to be written; the prompt is only shown    *)
(* when the driver waits.                                                  *)
ShellInv ==
  /\ FSP!ProperInv
  /\ \E s : OnStack(s) /\ FSP!Stacked(s)
  /\ Len(clusters) \in 1 .. StackSize
  /\ place \in PlaceNames
  /\ place = "off" <=> ~ mounted
  /\ place = "off" => Len(clusters) = 1
  /\ place = "ready" => FSP!Idle
  /\ place = "astray" => cwd = BootCluster

(* The last element of a longer sequence.                                  *)
LEMMA AppendedLast ==
  ASSUME NEW S, NEW s \in Seq(S), NEW x
  PROVE  /\ Len(Append(s, x)) = Len(s) + 1 /\ Append(s, x)[Len(s) + 1] = x
         /\ \A k \in 1 .. Len(s) : Append(s, x)[k] = s[k]
  OBVIOUS

(* What the stack is unless it ends in the boot sector.                    *)
LEMMA CwdStack ==
  ASSUME ShellInv
  PROVE  /\ Len(clusters) \in Nat \ {0}
         /\ place \notin {"busy", "astray"} => cwd # BootCluster
         /\ cwd # BootCluster =>
              /\ OnStack(clusters) /\ FSP!Stacked(clusters)
              /\ clusters \in Seq(DataClusters) /\ cwd \in DataClusters
              /\ clusters[1] = ROOT_CLUSTER_NUMBER
<1>1. PICK s : OnStack(s) /\ FSP!Stacked(s)
  BY DEF ShellInv
<1>2. s \in Seq(DataClusters) /\ Len(s) \in Nat \ {0} /\ s[1] = ROOT_CLUSTER_NUMBER
  BY <1>1 DEF OnStack
<1>3. CASE clusters = s
  <2>1. s[Len(s)] \in DataClusters
    BY <1>2
  <2>2. QED
    BY <1>1, <1>2, <1>3, <2>1, Constants DEF cwd
<1>4. CASE clusters = Append(s, BootCluster) /\ place \in {"busy", "astray"}
  <2>1. Len(clusters) = Len(s) + 1 /\ clusters[Len(s) + 1] = BootCluster
    BY <1>2, <1>4, AppendedLast
  <2>2. QED
    BY <1>2, <1>4, <2>1 DEF cwd
<1>5. QED
  BY <1>1, <1>3, <1>4 DEF OnStack

(* The working directory, and what the commands take for granted.          *)
LEMMA CwdFacts ==
  ASSUME ShellInv
  PROVE  /\ FSP!Quiet => TreeOk
         /\ FSP!Quiet /\ cwd # BootCluster => cwd \in Dirs /\ FSP!Reached(disk, cwd)
<1>1. FSP!Quiet => TreeOk
  BY TreeIsOk DEF ShellInv
<1>2. ASSUME FSP!Quiet, cwd # BootCluster PROVE cwd \in Dirs /\ FSP!Reached(disk, cwd)
  <2>1. TreeOk
    BY <1>1, <1>2
  <2>2. Len(clusters) \in Nat \ {0} /\ FSP!Stacked(clusters) /\ clusters[1] = ROOT_CLUSTER_NUMBER
    BY <1>2, CwdStack
  <2>3. CASE Len(clusters) = 1
    <3>1. cwd = ROOT_CLUSTER_NUMBER /\ cwd \in Dirs /\ FSP!Under(disk, cwd, cwd)
      BY <2>1, <2>2, <2>3 DEF cwd, TreeOk
    <3>2. FSP!Reached(disk, cwd)
      BY <3>1, SameWords, Given, FSP!RootReached
    <3>3. QED
      BY <3>1, <3>2
  <2>4. CASE Len(clusters) # 1
    <3>1. Len(clusters) \in 2 .. Len(clusters)
      <4>1. \A k \in Nat \ {0} : k # 1 => k \in 2 .. k
        OBVIOUS
      <4>2. QED
        BY <2>2, <2>4, <4>1
    <3>2. FSP!Under(disk, cwd, clusters[Len(clusters) - 1]) /\ FSP!Reached(disk, cwd)
      BY <2>2, <3>1 DEF FSP!Stacked, FSP!StackOn, cwd
    <3>3. QED
      BY <3>2, SameDirectories DEF FSP!Under, Dirs
  <2>5. QED
    BY <2>3, <2>4
<1>3. QED
  BY <1>1, <1>2

(* A stack of one cluster, at the start.                                   *)
LEMMA RootStacked ==
  /\ \A s : s = <<ROOT_CLUSTER_NUMBER>> =>
       /\ s \in Seq(DataClusters) /\ Len(s) = 1 /\ Len(s) \in 1 .. StackSize
       /\ s[1] = ROOT_CLUSTER_NUMBER
  /\ FSP!Stacked(<<ROOT_CLUSTER_NUMBER>>)
  /\ \A s : s = <<ROOT_CLUSTER_NUMBER>> => FSP!Stacked(s)'
<1>1. 1 \in 1 .. StackSize
  BY ShellAssumption
<1>2. ASSUME NEW s, s = <<ROOT_CLUSTER_NUMBER>>
      PROVE  /\ s \in Seq(DataClusters) /\ Len(s) = 1 /\ s[1] = ROOT_CLUSTER_NUMBER
             /\ FSP!Stacked(s) /\ FSP!Stacked(s)'
  <2>1. s \in Seq(DataClusters) /\ Len(s) = 1 /\ s[1] = ROOT_CLUSTER_NUMBER
    BY <1>2, Constants
  <2>2. FSP!Stacked(s) /\ FSP!Stacked(s)'
    BY <2>1, Given, FSP!OneStacked
  <2>3. QED
    BY <2>1, <2>2
<1>3. QED
  BY <1>1, <1>2

(* It holds before the machine is switched on.                             *)
LEMMA InitInv == ASSUME Init PROVE ShellInv
<1>1. FSP!ProperInv
  BY Given, FSP!InitProper, SameMachine DEF Init
<1>2. ~ mounted /\ clusters = <<ROOT_CLUSTER_NUMBER>> /\ place = "off"
  BY DEF Init, FS!Init
<1>3. Len(clusters) = 1 /\ Len(clusters) \in 1 .. StackSize
  BY <1>2, RootStacked
<1>4. OnStack(clusters) /\ FSP!Stacked(clusters)
  BY <1>2, RootStacked DEF OnStack
<1>5. QED
  BY <1>1, <1>2, <1>3, <1>4 DEF ShellInv, PlaceNames

(* A stack of one cluster after a step.                                    *)
LEMMA RestartInv ==
  ASSUME FSP!ProperInv', clusters' = <<ROOT_CLUSTER_NUMBER>>,
         \/ place' = "busy" /\ mounted'
         \/ place' = "off" /\ ~ mounted'
  PROVE  ShellInv'
<1>1. PICK s : s = <<ROOT_CLUSTER_NUMBER>>
  OBVIOUS
<1>2. /\ s \in Seq(DataClusters) /\ Len(s) = 1 /\ Len(s) \in 1 .. StackSize
      /\ s[1] = ROOT_CLUSTER_NUMBER /\ FSP!Stacked(s)' /\ clusters' = s
  BY <1>1, RootStacked
<1>3. OnStack(s)'
  BY <1>2 DEF OnStack
<1>4. QED
  BY <1>2, <1>3 DEF ShellInv, PlaceNames

(* The start keeps it.                                                     *)
LEMMA BootInv == ASSUME Orderly, ShellInv, Boot PROVE ShellInv'
<1>1. FSP!ProperInv'
  BY Given, SameMachine, FSP!FormatProper, FSP!PowerProper DEF Boot, ShellInv, Orderly
<1>2. mounted' /\ place' = "busy" /\ clusters' = <<ROOT_CLUSTER_NUMBER>>
  BY DEF Boot, FS!Format, FS!Mount
<1>3. QED
  BY <1>1, <1>2, RestartInv

(* So does switching off.                                                  *)
LEMMA SwitchOffInv == ASSUME Orderly, ShellInv, SwitchOff PROVE ShellInv'
<1>1. FSP!ProperInv'
  BY Given, SameMachine, FSP!PowerProper DEF SwitchOff, ShellInv, Orderly
<1>2. ~ mounted' /\ place' = "off" /\ clusters' = <<ROOT_CLUSTER_NUMBER>>
  BY DEF SwitchOff, FS!PowerOff
<1>3. QED
  BY <1>1, <1>2, RestartInv

(* So does every write of a running call, and its return.                  *)
LEMMA DriverInv == ASSUME Orderly, ShellInv, DriverStep PROVE ShellInv'
<1>1. PICK s : OnStack(s) /\ FSP!Stacked(s)
  BY DEF ShellInv
<1>2. FSP!ProperInv' /\ FSP!Stacked(s)'
  <2>1. FSP!ProperInv /\ FSP!Stacked(s) /\ ~ SelfRequests
    BY <1>1 DEF ShellInv, Orderly
  <2>2. QED
    BY <2>1, Given, SameMachine, FSP!WriteProper, FSP!ReturnProper DEF DriverStep
<1>3. clusters' = clusters /\ place' = place /\ mounted' = mounted
  BY DEF DriverStep, FS!WriteBlocks, FS!Return
<1>4. OnStack(s)' /\ cwd' = cwd
  BY <1>1, <1>3 DEF OnStack, cwd
<1>5. place # "ready"
  BY DEF ShellInv, DriverStep, FS!WriteBlocks, FS!Return, FSP!Idle, FSP!Quiet
<1>6. QED
  BY <1>2, <1>3, <1>4, <1>5 DEF ShellInv

(* A step that leaves the driver alone.                                    *)
LEMMA SameDriver ==
  ASSUME UNCHANGED fsVars
  PROVE  /\ FSP!ProperInv' <=> FSP!ProperInv
         /\ FSP!Idle' <=> FSP!Idle
         /\ mounted' = mounted /\ disk' = disk /\ todo' = todo
<1>1. /\ disk' = disk /\ map' = map /\ mounted' = mounted /\ todo' = todo /\ op' = op
      /\ losses' = losses
  BY DEF fsVars
<1>2. FSP!Idle' <=> FSP!Idle
  BY <1>1 DEF FSP!Idle, FSP!Quiet
<1>3. FSP!TypeOK' <=> FSP!TypeOK
  BY <1>1 DEF FSP!TypeOK
<1>4. FSP!ChainsAscend' <=> FSP!ChainsAscend
  BY <1>1 DEF FSP!ChainsAscend
<1>5. FSP!Settled' = FSP!Settled
  BY <1>1 DEF FSP!Settled
<1>6. FSP!TreeInv' <=> FSP!TreeInv
  BY <1>1, <1>5 DEF FSP!TreeInv, FSP!CalmInv, FSP!RootInv, FSP!LostInv, FSP!OpKey, FSP!Calm
<1>7. FSP!ProperInv' <=> FSP!ProperInv
  BY <1>1, <1>3, <1>4, <1>5, <1>6 DEF FSP!ProperInv
<1>8. QED
  BY <1>1, <1>2, <1>7

-----------------------------------------------------------------------------
(* The steps of the shell keep it.                                         *)

(* The prompt finds its way up, but from the boot sector.                  *)
LEMMA PromptInv == ASSUME ShellInv, ShowPrompt PROVE ShellInv'
<1>1. /\ UNCHANGED fsVars /\ clusters' = clusters /\ FSP!Idle /\ place = "busy"
      /\ place' = CASE Rounds(cwd) = {} -> "astray"
                    [] PathFits(cwd)     -> "ready"
                    [] OTHER             -> "undefined"
  BY SameIdle DEF ShowPrompt
<1>2. TreeOk
  BY <1>1, CwdFacts DEF FSP!Idle
<1>3. FSP!ProperInv' /\ FSP!Idle' /\ mounted' = mounted /\ disk' = disk /\ todo' = todo
  BY <1>1, SameDriver DEF ShellInv
<1>4. cwd' = cwd
  BY <1>1 DEF cwd
<1>5. CASE cwd = BootCluster
  <2>1. place' = "astray"
    <3>1. Rounds(cwd) = {}
      BY <1>2, <1>5, BootAstray DEF TreeOk
    <3>2. ~ PathFits(cwd)
      BY <3>1 DEF PathFits
    <3>3. QED
      BY <1>1, <3>1, <3>2
  <2>2. PICK s : OnStack(s) /\ FSP!Stacked(s)
    BY DEF ShellInv
  <2>3. FSP!Stacked(s)'
    BY <1>3, <2>2 DEF FSP!Stacked
  <2>4. OnStack(s)'
    <3>1. s[Len(s)] \in DataClusters
      BY <2>2 DEF OnStack
    <3>2. clusters # s
      BY <1>5, <3>1, Constants DEF cwd
    <3>3. QED
      BY <1>1, <2>1, <2>2, <3>2 DEF OnStack
  <2>5. QED
    BY <1>1, <1>3, <1>4, <1>5, <2>1, <2>3, <2>4 DEF ShellInv, PlaceNames
<1>6. CASE cwd # BootCluster
  <2>1. cwd \in Dirs
    BY <1>1, <1>6, CwdFacts DEF FSP!Idle
  <2>2. Rounds(cwd) # {}
    BY <1>2, <2>1, UnderAbove DEF TreeOk
  <2>3. place' \in {"ready", "undefined"}
    BY <1>1, <2>2 DEF PathFits
  <2>4. PICK s : s = clusters /\ OnStack(s) /\ FSP!Stacked(s)
    BY <1>6, CwdStack
  <2>5. OnStack(s)' /\ FSP!Stacked(s)'
    BY <1>1, <1>3, <2>4 DEF OnStack, FSP!Stacked
  <2>6. QED
    BY <1>1, <1>3, <2>3, <2>5 DEF ShellInv, PlaceNames
<1>7. QED
  BY <1>5, <1>6

(* A command that leaves the defined behaviour changes nothing else.       *)
LEMMA UndefinedInv == ASSUME ShellInv, place = "ready", Undefined PROVE ShellInv'
<1>1. UNCHANGED fsVars /\ clusters' = clusters /\ place' = "undefined"
  BY DEF Undefined
<1>2. FSP!ProperInv' /\ mounted' = mounted /\ disk' = disk /\ todo' = todo
  BY <1>1, SameDriver DEF ShellInv
<1>3. PICK s : s = clusters /\ OnStack(s) /\ FSP!Stacked(s)
  BY CwdStack
<1>4. OnStack(s)' /\ FSP!Stacked(s)'
  BY <1>1, <1>2, <1>3 DEF OnStack, FSP!Stacked
<1>5. QED
  BY <1>1, <1>2, <1>4 DEF ShellInv, PlaceNames

(* A command that hands a call to the driver.                              *)
LEMMA CallingInv ==
  ASSUME ShellInv, place = "ready", place' = "busy", clusters' = clusters,
         mounted' = mounted, FSP!ProperInv', NEW s, s = clusters, FSP!Stacked(s)'
  PROVE  ShellInv'
<1>1. OnStack(s)'
  BY CwdStack DEF OnStack
<1>2. QED
  BY <1>1 DEF ShellInv, PlaceNames

(* cd only changes the stack.                                              *)
LEMMA StackInv ==
  ASSUME ShellInv, place = "ready", place' = "busy", UNCHANGED fsVars,
         NEW s \in Seq(DataClusters), Len(s) \in Nat \ {0}, s[1] = ROOT_CLUSTER_NUMBER,
         FSP!StackOn(disk, s), Len(clusters') \in 1 .. StackSize,
         clusters' = s \/ clusters' = Append(s, BootCluster)
  PROVE  ShellInv'
<1>1. FSP!ProperInv' /\ mounted' = mounted /\ disk' = disk /\ todo' = todo
  BY SameDriver DEF ShellInv
<1>2. todo = <<>>
  BY DEF ShellInv, FSP!Idle, FSP!Quiet
<1>3. FSP!Stacked(s)'
  BY <1>1, <1>2 DEF FSP!Stacked
<1>4. OnStack(s)'
  BY DEF OnStack
<1>5. QED
  BY <1>1, <1>3, <1>4 DEF ShellInv, PlaceNames

(* cd with "..".                                                           *)
LEMMA CdUpInv == ASSUME ShellInv, CdUp PROVE ShellInv'
<1> DEFINE N == Len(clusters)
           s == SubSeq(clusters, 1, N - 1)
<1>1. place = "ready" /\ place' = "busy" /\ UNCHANGED fsVars
  BY DEF CdUp
<1>2. /\ clusters \in Seq(DataClusters) /\ N \in 1 .. StackSize /\ N \in Nat \ {0}
      /\ clusters[1] = ROOT_CLUSTER_NUMBER /\ FSP!StackOn(disk, clusters)
  BY <1>1, CwdStack DEF ShellInv, FSP!Stacked
<1>3. CASE N = 1
  <2>1. clusters' = clusters
    BY <1>3 DEF CdUp
  <2>2. QED
    BY <1>1, <1>2, <2>1, StackInv
<1>4. CASE N # 1
  <2>1. clusters' = s
    BY <1>4 DEF CdUp
  <2>2. N - 1 \in 1 .. N
    <3>1. \A k \in Nat \ {0} : k # 1 => k - 1 \in 1 .. k
      OBVIOUS
    <3>2. QED
      BY <1>2, <1>4, <3>1
  <2>3. /\ s \in Seq(DataClusters) /\ Len(s) = N - 1
        /\ \A k \in 1 .. N - 1 : s[k] = clusters[k]
    BY <1>2, <2>2
  <2> HIDE DEF s
  <2>4. /\ Len(s) \in 1 .. StackSize /\ Len(s) \in Nat \ {0}
        /\ s[1] = ROOT_CLUSTER_NUMBER
    BY <1>2, <2>2, <2>3, ShellAssumption
  <2>5. FSP!StackOn(disk, s)
    <3>1. ASSUME NEW k \in 2 .. N - 1
          PROVE  s[k] = clusters[k] /\ s[k - 1] = clusters[k - 1] /\ k \in 2 .. N
      BY <1>2, <2>3
    <3>2. QED
      BY <1>2, <2>3, <3>1 DEF FSP!StackOn
  <2>6. QED
    BY <1>1, <2>1, <2>3, <2>4, <2>5, StackInv
<1>5. QED
  BY <1>3, <1>4

(* cd along any other path: it stays below where it starts, or goes to the *)
(* cluster number in the boot sector.                                      *)
LEMMA CdInv ==
  ASSUME Orderly, ShellInv, NEW path \in Paths, Cd(path)
  PROVE  ShellInv'
<1> DEFINE w == PathWalk(cwd, path)
           enters == w.found /\ w.end \in {"more", "long"}
           N == Len(clusters)
<1>1. place = "ready"
  BY DEF Cd
<1>2. CASE Undefined
  BY <1>1, <1>2, UndefinedInv
<1>3. CASE ~ Undefined
  <2>1. /\ place' = "busy" /\ UNCHANGED fsVars
        /\ clusters' = IF enters THEN Append(clusters, w.at) ELSE clusters
        /\ enters => N < StackSize
    BY <1>3 DEF Cd
  <2>2. /\ clusters \in Seq(DataClusters) /\ N \in 1 .. StackSize /\ N \in Nat \ {0}
        /\ clusters[1] = ROOT_CLUSTER_NUMBER /\ FSP!StackOn(disk, clusters)
    BY <1>1, CwdStack DEF ShellInv, FSP!Stacked
  <2>3. CASE ~ enters
    <3>1. clusters' = clusters
      BY <2>1, <2>3
    <3>2. QED
      BY <1>1, <2>1, <2>2, <3>1, StackInv
  <2>4. CASE enters
    <3>1. TreeOk /\ cwd \in Dirs /\ FSP!Reached(disk, cwd)
      BY <1>1, CwdStack, CwdFacts DEF ShellInv, FSP!Idle
    <3>2. /\ Len(path) \in Nat
          /\ \A k \in 1 .. Len(path) : path[k] \in Names \cup {".", Long, Blank} /\ path[k] # ".."
      <4>1. PICK m \in 1 .. MaxComponents : path \in [1 .. m -> Components]
        BY DEF Paths
      <4>2. m \in Nat
        BY ShellAssumption
      <4>3. Len(path) = m
        BY <4>1, <4>2
      <4>4. QED
        BY <4>1, <4>2, <4>3, ShellAssumption DEF Orderly
    <3>3. \/ w.at = BootCluster
          \/ w.at \in Dirs /\ FSP!Under(disk, w.at, cwd) /\ FSP!Reached(disk, w.at)
      BY <3>1, <3>2, CdUnder
    <3> DEFINE b == w.at
               s == Append(clusters, b)
    <3>4. clusters' = s
      BY <2>1, <2>4
    <3> HIDE DEF b, w, enters
    <3>5. Len(s) = N + 1 /\ s[N + 1] = b /\ \A k \in 1 .. N : s[k] = clusters[k]
      BY <2>2, AppendedLast
    <3>6. Len(s) \in 1 .. StackSize /\ Len(s) \in Nat \ {0} /\ s[1] = ROOT_CLUSTER_NUMBER
      <4> HIDE DEF s
      <4>1. QED
        BY <2>1, <2>2, <2>4, <3>5, ShellAssumption
    <3>7. CASE b = BootCluster
      BY <1>1, <2>1, <2>2, <3>4, <3>6, <3>7, StackInv
    <3>8. CASE b # BootCluster
      <4>1. b \in Dirs /\ b \in DataClusters /\ FSP!Under(disk, b, cwd) /\ FSP!Reached(disk, b)
        BY <3>1, <3>3, <3>8 DEF b, TreeOk
      <4>2. s \in Seq(DataClusters)
        BY <2>2, <4>1
      <4> HIDE DEF s
      <4>3. FSP!StackOn(disk, s)
        <5>1. ASSUME NEW k \in 2 .. N + 1
              PROVE  FSP!Under(disk, s[k], s[k - 1]) /\ FSP!Reached(disk, s[k])
          <6>1. CASE k = N + 1
            <7>1. s[k] = b /\ s[k - 1] = cwd
              BY <2>2, <3>5, <6>1 DEF cwd
            <7>2. QED
              BY <4>1, <7>1
          <6>2. CASE k # N + 1
            <7>1. k \in 2 .. N /\ s[k] = clusters[k] /\ s[k - 1] = clusters[k - 1]
              BY <2>2, <3>5, <6>2
            <7>2. QED
              BY <2>2, <7>1 DEF FSP!StackOn
          <6>3. QED
            BY <6>1, <6>2
        <5>2. QED
          BY <3>5, <5>1 DEF FSP!StackOn
      <4>4. QED
        BY <1>1, <2>1, <3>4, <3>6, <4>2, <4>3, StackInv
    <3>9. QED
      BY <3>7, <3>8
  <2>5. QED
    BY <2>3, <2>4
<1>4. QED
  BY <1>2, <1>3

(* The calls that a command makes on the directory it is in.               *)
LEMMA CommandReady ==
  ASSUME Orderly, ShellInv, place = "ready"
  PROVE  /\ FSP!ProperInv /\ ~ SelfRequests /\ FSP!Idle /\ cwd \in FSP!DataClusters
         /\ cwd \in DataClusters
         /\ 0 \in Nat /\ FSP!Blank \in Exts /\ TreeOk /\ cwd \in Dirs
         /\ \E s : /\ s = clusters /\ FSP!Stacked(s) /\ Len(s) \in Nat \ {0}
                   /\ cwd = s[Len(s)]
<1>1. Len(clusters) \in Nat \ {0} /\ cwd # BootCluster
  BY CwdStack
<1>2. cwd \in DataClusters /\ FSP!Stacked(clusters)
  BY <1>1, CwdStack
<1>3. FSP!Idle /\ TreeOk /\ cwd \in Dirs
  BY <1>1, CwdFacts DEF ShellInv, FSP!Idle
<1>4. QED
  BY <1>1, <1>2, <1>3, SameWords, ShellAssumption DEF Orderly, ShellInv, cwd

(* ls, and find once it has found a way.                                   *)
LEMMA ListInv ==
  ASSUME Orderly, ShellInv, place = "ready", Calling(FS!ReadDirectory(cwd, "."))
  PROVE  ShellInv'
<1>1. place' = "busy" /\ clusters' = clusters /\ FS!ReadDirectory(cwd, ".")
  BY DEF Calling
<1>2. PICK s : s = clusters /\ FSP!Stacked(s) /\ Len(s) \in Nat \ {0} /\ cwd = s[Len(s)]
  BY <1>1, CommandReady
<1>3. FSP!ReadDirectory(cwd, ".") /\ mounted' = mounted
  BY <1>1, SameReadDirectory DEF FS!ReadDirectory
<1>4. FSP!ProperInv' /\ FSP!Stacked(s)'
  <2>1. PICK c : c = cwd
    OBVIOUS
  <2>2. c \in FSP!DataClusters /\ FSP!ReadDirectory(c, ".") /\ FSP!ProperInv
    BY <1>1, <1>3, <2>1, CommandReady
  <2>3. QED
    BY <1>2, <2>2, Given, FSP!ListProper
<1>5. QED
  BY <1>1, <1>2, <1>3, <1>4, CallingInv

(* The calls that fail or read.                                            *)
LEMMA FailInv ==
  ASSUME Orderly, ShellInv, place = "ready", place' = "busy", clusters' = clusters,
         NEW c \in DataClusters, NEW n \in Names, NEW x \in Exts, NEW k \in Nat,
         \/ FS!Read(c, n, x, k) \/ FS!DeleteRefused(c, n, x)
         \/ FS!WriteRefused(c, n, x, k) \/ FS!WriteRunsOut(c, n, x, k)
  PROVE  ShellInv'
<1>1. PICK s : s = clusters /\ FSP!Stacked(s)
  BY CommandReady
<1>2. /\ \/ FSP!Read(c, n, x, k) \/ FSP!DeleteRefused(c, n, x)
         \/ FSP!WriteRefused(c, n, x, k) \/ FSP!WriteRunsOut(c, n, x, k)
      /\ mounted' = mounted
  BY SameRead, SameDeleteRefused, SameWriteRefused, SameWriteRunsOut
     DEF FS!Read, FS!DeleteRefused, FS!WriteRefused, FS!WriteRunsOut
<1>3. c \in FSP!DataClusters /\ FSP!ProperInv /\ ~ SelfRequests
  BY SameWords, CommandReady
<1>4. FSP!ProperInv' /\ FSP!Stacked(s)'
  BY <1>1, <1>2, <1>3, Given, FSP!FailProper
<1>5. QED
  BY <1>1, <1>2, <1>4, CallingInv

(* A call that reads, with a name or without.                              *)
LEMMA ReadCallInv ==
  ASSUME Orderly, ShellInv, place = "ready", NEW n \in Names \cup {Blank}, NEW x \in Exts,
         NEW k \in Nat, Calling(FS!Read(cwd, n, x, k))
  PROVE  ShellInv'
<1>1. place' = "busy" /\ clusters' = clusters /\ FS!Read(cwd, n, x, k)
  BY DEF Calling
<1>2. PICK s : s = clusters /\ FSP!Stacked(s)
  BY CommandReady
<1>3. PICK c : c = cwd
  OBVIOUS
<1>4. FSP!Read(c, n, x, k) /\ mounted' = mounted
  BY <1>1, <1>3, SameRead DEF FS!Read
<1>5. /\ c \in FSP!DataClusters /\ n \in FSP!AllNames /\ x \in FSP!AllExts
      /\ FSP!ProperInv
  BY <1>3, CommandReady, SameWords DEF FSP!AllNames, FSP!AllExts
<1>6. FSP!ProperInv' /\ FSP!Stacked(s)'
  BY <1>2, <1>4, <1>5, Given, FSP!ReadProper
<1>7. QED
  BY <1>1, <1>2, <1>4, <1>6, CallingInv

(* mkdir, with a name or without.                                          *)
LEMMA MkdirInv ==
  ASSUME Orderly, ShellInv, NEW n \in Names \cup {Blank}, Mkdir(n)
  PROVE  ShellInv'
<1>1. /\ place = "ready" /\ place' = "busy" /\ clusters' = clusters
      /\ FS!MakeDirectory(cwd, n) \/ FS!WriteRefused(cwd, n, Blank, 0)
  BY DEF Mkdir, Calling
<1>2. PICK s : s = clusters /\ FSP!Stacked(s) /\ Len(s) \in Nat \ {0} /\ cwd = s[Len(s)]
  BY <1>1, CommandReady
<1>3. PICK c : c = cwd
  OBVIOUS
<1>4. /\ c \in FSP!DataClusters /\ FSP!ProperInv /\ ~ SelfRequests /\ Blank = FSP!Blank
      /\ c = s[Len(s)] /\ c \in DataClusters /\ Blank \in Exts
  BY <1>1, <1>2, <1>3, CommandReady, SameWords
<1>5. CASE FS!MakeDirectory(cwd, n)
  <2>1. FSP!MakeDirectory(c, n) /\ mounted' = mounted
    BY <1>3, <1>5, SameMakeDirectory DEF FS!MakeDirectory
  <2>2. n \in Names
    BY <1>4, <2>1, Given, FSP!NamelessRefused
  <2>3. FSP!MakeDirectory(s[Len(s)], n) /\ s[Len(s)] \in FSP!DataClusters
    BY <1>4, <2>1
  <2>4. FSP!ProperInv' /\ FSP!Stacked(s)'
    BY <1>2, <1>4, <2>2, <2>3, Given, FSP!MakeProper
  <2>5. QED
    BY <1>1, <1>2, <2>1, <2>4, CallingInv
<1>6. CASE FS!WriteRefused(cwd, n, Blank, 0)
  <2>1. FS!WriteRefused(c, n, Blank, 0) /\ mounted' = mounted
    BY <1>3, <1>6 DEF FS!WriteRefused
  <2>2. CASE n \in Names
    BY <1>1, <1>4, <2>1, <2>2, FailInv
  <2>3. CASE n = Blank
    <3>1. FSP!WriteRefused(c, FSP!Blank, FSP!Blank, 0)
      BY <1>4, <2>1, <2>3, SameWriteRefused
    <3>2. FSP!ProperInv' /\ FSP!Stacked(s)'
      BY <1>2, <1>4, <3>1, Given, FSP!RefusedProper
    <3>3. QED
      BY <1>1, <1>2, <2>1, <3>2, CallingInv
  <2>4. QED
    BY <2>2, <2>3
<1>7. QED
  BY <1>1, <1>5, <1>6

(* rm of something that is not there, of a directory and of a file.        *)
LEMMA RmInv ==
  ASSUME Orderly, ShellInv, NEW n \in Names, Rm(n)
  PROVE  ShellInv'
<1>1. /\ place = "ready" /\ place' = "busy" /\ clusters' = clusters
      /\ \/ FS!DeleteRefused(cwd, n, Blank) \/ FS!DeleteDirectory(cwd, n, Blank)
         \/ FS!DeleteFile(cwd, n, Blank)
  BY DEF Rm, Calling
<1>2. PICK s : s = clusters /\ FSP!Stacked(s) /\ Len(s) \in Nat \ {0} /\ cwd = s[Len(s)]
  BY <1>1, CommandReady
<1>3. PICK c : c = cwd
  OBVIOUS
<1>4. /\ FSP!ProperInv /\ ~ SelfRequests /\ c = s[Len(s)] /\ c \in DataClusters
      /\ s[Len(s)] \in FSP!DataClusters /\ Blank \in Exts
  BY <1>1, <1>2, <1>3, CommandReady, SameWords
<1>5. CASE FS!DeleteRefused(cwd, n, Blank)
  <2>1. FS!DeleteRefused(c, n, Blank) /\ 0 \in Nat
    BY <1>3, <1>5
  <2>2. QED
    BY <1>1, <1>4, <2>1, FailInv
<1>6. CASE FS!DeleteDirectory(cwd, n, Blank)
  <2>1. FSP!DeleteDirectory(s[Len(s)], n, Blank) /\ mounted' = mounted
    BY <1>2, <1>6, SameDeleteDirectory DEF FS!DeleteDirectory
  <2>2. FSP!ProperInv' /\ FSP!Stacked(s)'
    BY <1>2, <1>4, <2>1, Given, FSP!DropProper
  <2>3. QED
    BY <1>1, <1>2, <2>1, <2>2, CallingInv
<1>7. CASE FS!DeleteFile(cwd, n, Blank)
  <2>1. FSP!DeleteFile(s[Len(s)], n, Blank) /\ mounted' = mounted
    BY <1>2, <1>7, SameDeleteFile DEF FS!DeleteFile
  <2>2. FSP!ProperInv' /\ FSP!Stacked(s)'
    BY <1>2, <1>4, <2>1, Given, FSP!EraseProper
  <2>3. QED
    BY <1>1, <1>2, <2>1, <2>2, CallingInv
<1>8. QED
  BY <1>1, <1>5, <1>6, <1>7

(* The buffers of cat, cp and mv.                                          *)
LEMMA BufferSizes == CatClusters * ClusterSize \in Nat /\ CopyClusters * ClusterSize \in Nat
<1>1. CatClusters \in Nat /\ CopyClusters \in Nat /\ ClusterSize \in Nat
  BY ShellAssumption, GeometryAssumption
<1>2. \A a, b \in Nat : a * b \in Nat
  OBVIOUS
<1>3. QED
  BY <1>1, <1>2

(* cat and mv only read.                                                   *)
LEMMA ReadInv ==
  ASSUME Orderly, ShellInv, NEW n \in Names \cup {Blank}, NEW x \in Exts,
         Cat(n, x) \/ Mv(n, x)
  PROVE  ShellInv'
<1>1. place = "ready"
  BY DEF Cat, Mv
<1>2. Undefined \/ \E k \in Nat : Calling(FS!Read(cwd, n, x, k))
  BY BufferSizes DEF Cat, Mv
<1>3. QED
  BY <1>1, <1>2, UndefinedInv, ReadCallInv

(* A copy to nowhere is a refused write into the boot sector.              *)
LEMMA BootWriteInv ==
  ASSUME Orderly, ShellInv, place = "ready", NEW n \in Names \cup {Blank}, NEW x \in Exts,
         NEW k \in Nat, Calling(WriteToBoot(n, x, k))
  PROVE  ShellInv'
<1>1. place' = "busy" /\ clusters' = clusters /\ WriteToBoot(n, x, k)
  BY DEF Calling
<1>2. PICK s : s = clusters /\ FSP!Stacked(s)
  BY CommandReady
<1>3. /\ UNCHANGED <<disk, mounted, todo, losses>> /\ map' = disk.fat
      /\ op' = FSP!WriteReply(0, n, x, k, "zero", -1)
  BY <1>1, SameOperators DEF WriteToBoot, FS!WriteReply, FSP!WriteReply
<1>4. /\ n \in FSP!AllNames /\ x \in FSP!AllExts
      /\ FSP!ProperInv /\ FSP!Idle
  BY CommandReady, SameWords DEF FSP!AllNames, FSP!AllExts
<1>5. FSP!ProperInv' /\ FSP!Stacked(s)'
  BY <1>2, <1>3, <1>4, Given, FSP!BootProper
<1>6. QED
  BY <1>1, <1>2, <1>3, <1>5, CallingInv

(* cp writes into a directory.                                             *)
LEMMA CpInv ==
  ASSUME Orderly, ShellInv, NEW n \in Names \cup {Blank}, NEW x \in Exts,
         NEW dest \in Destinations(n), Cp(n, x, dest)
  PROVE  ShellInv'
<1> DEFINE size == CopyClusters * ClusterSize
           t == CellFor(cwd, dest).table
           to == t[Least(Target(dest))].cluster
<1>1. place = "ready"
  BY DEF Cp
<1>2. size \in Nat
  BY BufferSizes
<1>3. CASE Undefined
  BY <1>1, <1>3, UndefinedInv
<1>4. CASE Calling(FS!Read(cwd, n, x, size))
  <2> HIDE DEF size
  <2>1. QED
    BY <1>1, <1>2, <1>4, ReadCallInv
<1>5. CASE Calling(WriteToBoot(n, x, size))
  <2> HIDE DEF size
  <2>1. QED
    BY <1>1, <1>2, <1>5, BootWriteInv
<1>6. CASE /\ dest # Blank /\ Target(dest) # {} /\ SlotsNamed(TableAt(cwd), n, x) # {}
           /\ Calling(\/ FS!WriteRefused(to, n, x, size) \/ FS!WriteRunsOut(to, n, x, size)
                      \/ \E p \in CopiedPayload(n, x) : FS!WriteFile(to, n, x, size, p))
  <2>1. /\ place' = "busy" /\ clusters' = clusters
        /\ \/ FS!WriteRefused(to, n, x, size) \/ FS!WriteRunsOut(to, n, x, size)
           \/ \E p \in CopiedPayload(n, x) : FS!WriteFile(to, n, x, size, p)
    BY <1>6 DEF Calling
  <2>2. TreeOk /\ cwd \in Dirs /\ FSP!Idle /\ FSP!ProperInv /\ ~ SelfRequests
    BY <1>1, CommandReady
  <2>3. PICK b : b = to
    OBVIOUS
  <2>4. n \in Names /\ dest \in Names \cup {".", ".."}
    BY <1>6 DEF Destinations
  <2>5. b \in DataClusters
    <3> DEFINE i == Least(Target(dest))
    <3>1. i \in Slots /\ t[i].name \in {".", "..", dest}
      <4>1. Target(dest) = {j \in Slots : t[j].name \in IF dest = "." THEN {".", ".."} ELSE {dest}}
        BY <1>6 DEF Target
      <4>2. Target(dest) \in SUBSET Nat
        BY <4>1, Constants
      <4>3. i \in Target(dest)
        BY <1>6, <4>2, LeastOf
      <4>4. QED
        BY <4>1, <4>3
    <3>2. t[i].name # Blank
      BY <2>4, <3>1, GeometryAssumption DEF Blank
    <3>3. PICK y : t = TableAt(y)
      BY DEF CellFor, TableAt
    <3>4. CASE y \in DataClusters
      BY <2>2, <2>3, <3>1, <3>2, <3>3, <3>4 DEF TreeOk
    <3>5. CASE y \notin DataClusters
      <4>1. t[i].name = Blank
        BY <3>1, <3>3, <3>5, NoTable DEF EmptyEntry
      <4>2. QED
        BY <3>2, <4>1
    <3>6. QED
      BY <3>4, <3>5
  <2>6. CASE FS!WriteRefused(to, n, x, size) \/ FS!WriteRunsOut(to, n, x, size)
    <3>1. FS!WriteRefused(b, n, x, size) \/ FS!WriteRunsOut(b, n, x, size)
      BY <2>3, <2>6
    <3> HIDE DEF size
    <3>2. QED
      BY <1>1, <1>2, <2>1, <2>4, <2>5, <3>1, FailInv
  <2>7. CASE \E p \in CopiedPayload(n, x) : FS!WriteFile(to, n, x, size, p)
    <3>1. PICK p : p \in CopiedPayload(n, x) /\ FS!WriteFile(b, n, x, size, p)
      BY <2>3, <2>7
    <3>2. p \in Payloads
      BY <3>1, ShellAssumption DEF CopiedPayload
    <3>3. x = Blank
      <4>1. FSP!Ready(disk) /\ FSP!Proper(disk)
        BY <2>2, Given, FSP!ProperIdle DEF FSP!Idle
      <4>2. cwd \in DataClusters /\ cwd \in FSP!DataClusters
        BY <2>2, SameWords DEF TreeOk
      <4>3. FSP!SlotsNamed(FSP!Tab(disk, cwd), n, x) # {}
        BY <1>6, <4>2, SameTables, SameWords DEF FSP!SlotsNamed, SlotsNamed
      <4>4. PICK d, c : d = disk /\ c = cwd
        OBVIOUS
      <4>5. /\ FSP!Ready(d) /\ FSP!Proper(d) /\ c \in FSP!DataClusters
            /\ FSP!SlotsNamed(FSP!Tab(d, c), n, x) # {}
        BY <4>1, <4>2, <4>3, <4>4
      <4>6. x = FSP!Blank
        BY <2>4, <4>5, Given, FSP!PlainFound
      <4>7. QED
        BY <4>6, SameWords
    <3>4. PICK s : s = clusters /\ FSP!Stacked(s) /\ Len(s) \in Nat \ {0}
      BY <1>1, CommandReady
    <3> HIDE DEF size
    <3>5. FSP!WriteFile(b, n, FSP!Blank, size, p) /\ mounted' = mounted
      BY <3>1, <3>3, SameWriteFile, SameWords DEF FS!WriteFile
    <3>6. b \in FSP!DataClusters /\ FSP!Blank \in Exts
      BY <2>5, SameWords, ShellAssumption
    <3>7. FSP!ProperInv' /\ FSP!Stacked(s)'
      BY <1>2, <2>2, <2>4, <3>2, <3>4, <3>5, <3>6, Given, FSP!FileProper
    <3>8. QED
      BY <1>1, <2>1, <3>4, <3>5, <3>7, CallingInv
  <2>8. QED
    BY <2>1, <2>6, <2>7
<1>7. \/ Undefined \/ Calling(FS!Read(cwd, n, x, size)) \/ Calling(WriteToBoot(n, x, size))
      \/ /\ dest # Blank /\ Target(dest) # {} /\ SlotsNamed(TableAt(cwd), n, x) # {}
         /\ Calling(\/ FS!WriteRefused(to, n, x, size) \/ FS!WriteRunsOut(to, n, x, size)
                    \/ \E p \in CopiedPayload(n, x) : FS!WriteFile(to, n, x, size, p))
  BY DEF Cp
<1>8. QED
  BY <1>3, <1>4, <1>5, <1>6, <1>7

(* find looks at the disk and leaves it.                                   *)
LEMMA FindInv ==
  ASSUME Orderly, ShellInv, NEW n \in Names, Find(n)
  PROVE  ShellInv'
<1>1. place = "ready" /\ (Calling(FS!ReadDirectory(cwd, ".")) \/ Undefined)
  BY DEF Find
<1>2. QED
  BY <1>1, ListInv, UndefinedInv

(* While the machine is off a step that only changes the disk leaves the   *)
(* shell as it was.                                                        *)
LEMMA OffInv ==
  ASSUME ShellInv, place = "off", UNCHANGED <<mounted, clusters, place>>, FSP!ProperInv'
  PROVE  ShellInv'
<1>1. PICK s : OnStack(s) /\ FSP!Stacked(s)
  BY DEF ShellInv
<1>2. Len(s) = 1 /\ OnStack(s)'
  BY <1>1 DEF OnStack, ShellInv
<1>3. FSP!Stacked(s)'
  BY <1>2, Given, FSP!OneStacked
<1>4. QED
  BY <1>2, <1>3 DEF ShellInv

(* The inserter does what a call of write() would, all at once.            *)
LEMMA InsertInv ==
  ASSUME Orderly, ShellInv, NEW parent \in DataClusters, NEW n \in Names,
         NEW size \in Sizes, NEW p \in Payloads, Insert(parent, n, size, p)
  PROVE  ShellInv'
<1>1. /\ place = "off" /\ disk.signed
      /\ UNCHANGED <<map, mounted, todo, op, losses, clusters, place>>
  BY DEF Insert
<1>2. ~ mounted /\ FSP!ProperInv
  BY <1>1 DEF ShellInv
<1>3. /\ parent \in FSP!DataClusters /\ FSP!CanWrite(parent, n, FSP!Blank)
      /\ 0 \in Nat /\ size \in Nat
  BY SameWords, SameConstants, SameOperators, ShellAssumption
     DEF Insert, FS!CanWrite, FSP!CanWrite
<1>4. /\ FSP!Allocation(size) = FS!Allocation(size)
      /\ \A S : Least(S) = FSP!Least(S) /\ Cardinality(S) = FSP!Cardinality(S)
      /\ \A t : FreeSlots(t) = FSP!FreeSlots(t)
      /\ \A m, A, k : Link(m, A, k) = FSP!Link(m, A, k)
      /\ \A t, e : AddEntry(t, e) = FSP!AddEntry(t, e)
      /\ \A a, x, k, c : FileEntry(a, x, k, c) = FSP!FileEntry(a, x, k, c)
      /\ CeilDiv(size) = FSP!CeilDiv(size)
      /\ FAT32_FAT_END_OF_FILE = FSP!FAT32_FAT_END_OF_FILE
  BY SameWords, SameConstants, SameOperators
     DEF FS!Allocation, FSP!Allocation, Least, FSP!Least, Cardinality, FSP!Cardinality,
         FreeSlots, FSP!FreeSlots, Link, FSP!Link, AddEntry, FSP!AddEntry,
         FileEntry, FSP!FileEntry, CeilDiv, FSP!CeilDiv,
         FAT32_FAT_END_OF_FILE, FSP!FAT32_FAT_END_OF_FILE
<1>5. \/ /\ FSP!FreeSlots(disk.cell[parent].table) # {}
         /\ disk' = FSP!InitDirectoryTable(disk, disk.fat, n, parent)[3]
      \/ /\ size > 0 /\ FSP!Cardinality(FSP!Allocation(size)) >= FSP!CeilDiv(size)
         /\ disk' = FSP!WriteImages(disk,
              FSP!Link(disk.fat, FSP!Allocation(size), FSP!FAT32_FAT_END_OF_FILE),
              FSP!Least(FSP!Allocation(size)), p, FSP!CeilDiv(size), parent,
              FSP!AddEntry(disk.cell[parent].table,
                FSP!FileEntry(n, FSP!Blank, size, FSP!Least(FSP!Allocation(size)))))
              [FSP!CeilDiv(size) + 2]
  BY <1>4, SameWords, SameImages DEF Insert
<1>6. FSP!ProperInv'
  BY <1>1, <1>2, <1>3, <1>5, Given, FSP!InsertProper
<1>7. QED
  BY <1>1, <1>6, OffInv

(* It also makes a file system.                                            *)
LEMMA InsertFormatInv == ASSUME Orderly, ShellInv, InsertFormat PROVE ShellInv'
<1>1. /\ place = "off" /\ ~ disk.signed /\ disk' = FS!FormatImages[5]
      /\ UNCHANGED <<map, mounted, todo, op, losses, clusters, place>>
  BY DEF InsertFormat
<1>2. ~ mounted /\ FSP!ProperInv
  BY <1>1 DEF ShellInv
<1>3. FS!FormatImages = FSP!FormatImages
  BY SameConstants, SameOperators, SameImages DEF FS!FormatImages, FSP!FormatImages
<1>4. FSP!ProperInv'
  BY <1>1, <1>2, <1>3, Given, FSP!FormattedProper
<1>5. QED
  BY <1>1, <1>4, OffInv

(* Every step keeps the invariant.                                         *)
LEMMA InvStep == ASSUME Orderly, ShellInv, Next PROVE ShellInv'
<1>1. CASE Command
  <2>1. CASE Ls
    BY <2>1, ListInv DEF Ls
  <2>2. CASE \E n \in Names : Rm(n) \/ Find(n)
    BY <2>2, RmInv, FindInv
  <2>3. CASE \E n \in Names \cup {Blank} :
               \/ Mkdir(n)
               \/ \E x \in Exts : Cat(n, x) \/ Mv(n, x)
               \/ \E x \in Exts, dest \in Destinations(n) : Cp(n, x, dest)
    BY <2>3, MkdirInv, ReadInv, CpInv
  <2>4. QED
    BY <1>1, <2>1, <2>2, <2>3, CdUpInv, CdInv DEF Command
<1>2. QED
  BY <1>1, BootInv, SwitchOffInv, PromptInv, DriverInv, InsertInv, InsertFormatInv DEF Next

(* A step of no one keeps it.                                              *)
LEMMA InvStutter == ASSUME ShellInv, UNCHANGED vars PROVE ShellInv'
<1>1. UNCHANGED fsVars /\ clusters' = clusters /\ place' = place
  BY DEF vars
<1>2. PICK s : OnStack(s) /\ FSP!Stacked(s)
  BY DEF ShellInv
<1>3. /\ FSP!ProperInv' /\ mounted' = mounted /\ (FSP!Idle' <=> FSP!Idle)
      /\ disk' = disk /\ todo' = todo
  BY <1>1, SameDriver DEF ShellInv
<1>4. OnStack(s)' /\ FSP!Stacked(s)' /\ cwd' = cwd
  BY <1>1, <1>2, <1>3 DEF OnStack, FSP!Stacked, cwd
<1>5. QED
  BY <1>1, <1>3, <1>4 DEF ShellInv

(* It holds at any time.                                                   *)
THEOREM ShellInvariant == ASSUME Orderly PROVE Spec => []ShellInv
<1>1. Init => ShellInv
  BY InitInv
<1>2. ShellInv /\ [Next]_vars => ShellInv'
  BY InvStep, InvStutter
<1>3. QED
  BY <1>1, <1>2, PTL DEF Spec

-----------------------------------------------------------------------------
(* Every variable holds a value of its kind: no command makes the driver   *)
(* leave what it is made for, and no path, empty components included,      *)
(* takes cd out of the FAT but for the number in the boot sector.          *)
THEOREM TypeCorrect == ASSUME Orderly PROVE Spec => []TypeOK
<1>1. ShellInv => TypeOK
  <2> SUFFICES ASSUME ShellInv PROVE TypeOK
    OBVIOUS
  <2>1. FSP!TypeOK
    BY DEF ShellInv, FSP!ProperInv
  <2>2. FS!TypeOK
    BY <2>1 DEF FS!TypeOK, FSP!TypeOK, FS!Disks, FSP!Disks, FS!FatMaps, FSP!FatMaps,
       FS!Ops, FSP!Ops, FS!Cells, FSP!Cells, FS!DataClusters, FSP!DataClusters,
       FS!Clusters, FSP!Clusters, FS!FatValues, FSP!FatValues, FS!Tables, FSP!Tables,
       FS!Datas, FSP!Datas, FS!NoData, FSP!NoData, FS!Stray, FSP!Stray,
       FS!Slots, FSP!Slots, FS!Entries, FSP!Entries, FS!AllNames, FSP!AllNames,
       FS!AllExts, FSP!AllExts, FS!Blank, FSP!Blank, FS!Calls, FSP!Calls,
       FS!CLUSTER_0_VALUE, FSP!CLUSTER_0_VALUE,
       FS!FAT32_FAT_END_OF_FILE, FSP!FAT32_FAT_END_OF_FILE,
       FS!ROOT_CLUSTER_NUMBER, FSP!ROOT_CLUSTER_NUMBER,
       FS!ATTR_SUBDIRECTORY, FSP!ATTR_SUBDIRECTORY
  <2>3. clusters \in Seq(Clusters \cup {BootCluster})
    <3>1. PICK s : OnStack(s)
      BY DEF ShellInv
    <3>2. s \in Seq(Clusters \cup {BootCluster})
      BY <3>1, Constants DEF OnStack
    <3>3. Append(s, BootCluster) \in Seq(Clusters \cup {BootCluster})
      BY <3>2
    <3>4. QED
      BY <3>1, <3>2, <3>3 DEF OnStack
  <2>4. QED
    BY <2>2, <2>3 DEF ShellInv, TypeOK
<1>2. QED
  BY <1>1, ShellInvariant, PTL

(* The stack of cd never goes stale: in the midst of any call, whatever    *)
(* was made and removed since, each cluster on it is a directory that has  *)
(* the one before it on its way up to the root.  Only the last one can be  *)
(* the cluster number in the boot sector, and only until print_dir_tree()  *)
(* goes astray there.                                                      *)
THEOREM StackCorrect == ASSUME Orderly PROVE Spec => []StackIsPath
<1>1. ShellInv => StackIsPath
  <2> SUFFICES ASSUME ShellInv, NEW k \in 2 .. Len(clusters)
               PROVE  \/ /\ clusters[k] \in FS!Directories(disk)
                         /\ Rounds(clusters[k]) # {}
                         /\ clusters[k - 1] \in Above(clusters[k])
                      \/ /\ clusters[k] = BootCluster
                         /\ k = Len(clusters) /\ place \in {"busy", "astray"}
    BY DEF StackIsPath
  <2>1. PICK s : OnStack(s) /\ FSP!Stacked(s)
    BY DEF ShellInv
  <2>2. s \in Seq(DataClusters) /\ Len(s) \in Nat \ {0}
    BY <2>1 DEF OnStack
  <2>3. ASSUME k \in 2 .. Len(s), clusters[k] = s[k], clusters[k - 1] = s[k - 1]
        PROVE  /\ clusters[k] \in FS!Directories(disk)
               /\ Rounds(clusters[k]) # {}
               /\ clusters[k - 1] \in Above(clusters[k])
    <3>1. FSP!Under(disk, clusters[k], clusters[k - 1])
      BY <2>1, <2>3 DEF FSP!Stacked, FSP!StackOn
    <3>2. FSP!Under(disk, clusters[k], clusters[k])
      BY <3>1, UnderSelf
    <3>3. disk \in Disks
      BY SameWords DEF ShellInv, FSP!ProperInv, FSP!TypeOK
    <3>4. ASSUME clusters[k] = ROOT_CLUSTER_NUMBER PROVE RootLoops
      <4>1. FSP!ROOT_CLUSTER_NUMBER \in FSP!Directories(disk)
        BY <3>1, <3>4, SameWords DEF FSP!Under
      <4>2. \A j \in {0, 1} :
              FSP!Tab(disk, ROOT_CLUSTER_NUMBER)[j].cluster = ROOT_CLUSTER_NUMBER
        BY <4>1, SameWords, Given, FSP!RootUp DEF ShellInv
      <4>3. QED
        BY <4>2, SameTables, Constants DEF RootLoops
    <3>5. QED
      BY <3>1, <3>2, <3>3, <3>4, UnderAbove
  <2>4. CASE clusters = s
    BY <2>3, <2>4
  <2>5. CASE clusters = Append(s, BootCluster) /\ place \in {"busy", "astray"}
    <3>1. /\ Len(clusters) = Len(s) + 1 /\ clusters[Len(s) + 1] = BootCluster
          /\ \A j \in 1 .. Len(s) : clusters[j] = s[j]
      BY <2>2, <2>5, AppendedLast
    <3>2. CASE k = Len(s) + 1
      BY <2>5, <3>1, <3>2
    <3>3. CASE k # Len(s) + 1
      <4>1. k \in 2 .. Len(s) /\ k \in 1 .. Len(s) /\ k - 1 \in 1 .. Len(s)
        BY <2>2, <3>1, <3>3
      <4>2. QED
        BY <2>3, <3>1, <4>1
    <3>4. QED
      BY <3>2, <3>3
  <2>6. QED
    BY <2>1, <2>4, <2>5 DEF OnStack
<1>2. QED
  BY <1>1, ShellInvariant, PTL

-----------------------------------------------------------------------------
(* The path in the prompt.                                                 *)

(* From a directory, the name of one below it leads there.                 *)
LEMMA RoundEnters ==
  ASSUME TreeOk, NEW b \in Dirs \ {ROOT_CLUSTER_NUMBER}, TableAt(b)[0].name # ".",
         NEW w \in Walks, w.at = TableAt(b)[1].cluster, w.end = "more"
  PROVE  LET v == CdRound(w, TableAt(b)[0].name) IN v.at = b /\ v.end = "more"
<1> DEFINE a == w.at
           n == TableAt(b)[0].name
<1>1. a \in Dirs /\ a \in DataClusters /\ b \in DataClusters /\ a # BootCluster
  <2>1. \A c \in Dirs : c \in DataClusters /\ TableAt(c)[1].cluster \in Dirs
    BY DEF TreeOk
  <2>2. QED
    BY <2>1, Constants
<1>2. PICK i \in Slots \ {0, 1} : TableAt(a)[i] = TableAt(b)[0]
  BY DEF TreeOk
<1>3. n \in Names /\ n \notin {".", "..", Long} /\ n # Blank
  BY <1>1, <1>2, ShellAssumption, GeometryAssumption DEF TreeOk
<1> HIDE DEF n
<1>4. i \in SlotFor(a, n)
  BY <1>2, <1>3 DEF SlotFor, n
<1>5. Least(SlotFor(a, n)) = i
  BY <1>1, <1>3, <1>4, SlotFound
<1>6. CellFor(a, n) = CellAt(disk, b)
  BY <1>2, <1>5 DEF CellFor, TreeOk
<1>7. /\ CellFor(a, n).table = TableAt(b) /\ CellFor(a, n).data.what = "zero"
      /\ TableAt(b)[0].cluster = b
  BY <1>6 DEF TableAt, TreeOk, NoData
<1>8. ~ NoName(CellFor(a, n)) /\ CellFor(a, n).data.what \notin TextPayloads
  BY <1>3, <1>7, ShellAssumption DEF NoName, n
<1>9. Entered(CellFor(a, n)) = b
  BY <1>7 DEF Entered
<1>10. CdRound(w, n) = [w EXCEPT !.at = b, !.found = TRUE]
  BY <1>1, <1>3, <1>4, <1>8, <1>9 DEF CdRound
<1>11. QED
  BY <1>10 DEF Walks, n

(* cd along the path that is shown leads to the directory it is shown of.  *)
LEMMA PathLeadsBack ==
  ASSUME TreeOk, NEW c \in Dirs, c # ROOT_CLUSTER_NUMBER, FSP!Reached(disk, c)
  PROVE  LET w == PathWalk(ROOT_CLUSTER_NUMBER, ShownPath(c))
         IN  w.at = c /\ w.end = "more"
<1> DEFINE path == ShownPath(c)
           r == ROOT_CLUSTER_NUMBER
<1>1. disk \in Disks /\ r \in Clusters /\ RootLoops
  BY Constants DEF TreeOk
<1>2. PICK p, n : /\ FSP!WayUp(disk, c, p, n)
                  /\ \A k \in 0 .. n - 1 : FSP!Tab(disk, p[k])[0].name # "."
  BY DEF FSP!Reached
<1>3. /\ n \in Nat /\ p[0] = c /\ p[n] = r
      /\ \A k \in 0 .. n - 1 : /\ p[k] \in Dirs \ {r} /\ TableAt(p[k])[1].cluster = p[k + 1]
                               /\ TableAt(p[k])[0].name # "."
  <2>1. /\ n \in Nat /\ p[0] = c /\ p[n] = r
        /\ \A k \in 0 .. n - 1 : p[k] \in Dirs \ {r} /\ TableAt(p[k])[1].cluster = p[k + 1]
    BY <1>2, WayIs DEF Dirs
  <2>2. \A k \in 0 .. n - 1 : FSP!Tab(disk, p[k]) = TableAt(p[k])
    BY <2>1, SameTables DEF TreeOk
  <2>3. QED
    BY <1>2, <2>1, <2>2
<1>4. n # 0
  BY <1>3
<1>5. /\ Least(Rounds(c)) = n /\ \A k \in 0 .. n : UpWalk(c)[k] = p[k]
      /\ \A k \in 0 .. n - 1 : OwnTable(p[k]) = TableAt(p[k])
  BY <1>1, <1>2, <1>4, WayRounds, WayWalk, WayIs
<1>6. Len(path) = n /\ \A k \in 1 .. n : path[k] = TableAt(p[n - k])[0].name
  <2> DEFINE name(k) == OwnTable(UpWalk(c)[n - k])[0].name
  <2>1. path = [k \in 1 .. n |-> name(k)]
    BY <1>5 DEF ShownPath
  <2> DEFINE X == {name(k) : k \in 1 .. n}
  <2>2. path \in [1 .. n -> X]
    <3> HIDE DEF path, name
    <3>1. QED
      BY <2>1
  <2>3. Len(path) = n
    <3> HIDE DEF path, X
    <3>1. QED
      BY <1>3, <2>2
  <2>4. \A k \in 1 .. n : path[k] = name(k)
    <3> HIDE DEF path, name
    <3>1. QED
      BY <2>1
  <2>5. ASSUME NEW k \in 1 .. n PROVE name(k) = TableAt(p[n - k])[0].name
    <3>1. n - k \in 0 .. n /\ n - k \in 0 .. n - 1
      BY <1>3
    <3>2. QED
      BY <1>5, <3>1
  <2> HIDE DEF path, name
  <2>6. QED
    BY <2>3, <2>4, <2>5
<1> HIDE DEF path
<1>7. PICK f : /\ f[0] = Start(r)
               /\ \A k \in 1 .. n : f[k] = CdRound(f[k - 1], path[k])
               /\ PathWalk(r, path) = f[n]
  <2> HIDE DEF r
  <2>1. Len(path) = n /\ Len(path) \in Nat
    BY <1>3, <1>6
  <2>2. PICK f : /\ f[0] = Start(r)
                 /\ \A k \in 1 .. Len(path) : f[k] = CdRound(f[k - 1], path[k])
                 /\ PathWalk(r, path) = f[Len(path)]
    BY <1>1, <2>1, PathWalkFacts
  <2>3. QED
    BY <2>1, <2>2
<1> DEFINE S == {k \in 0 .. n : f[k] \in Walks /\ f[k].at = p[n - k] /\ f[k].end = "more"}
<1>8. 0 \in S
  <2>1. Start(r) \in Walks /\ Start(r).at = r /\ Start(r).end = "more"
    BY <1>1 DEF Start, Walks, Ends
  <2>2. n - 0 = n
    BY <1>3
  <2>3. QED
    BY <1>3, <1>7, <2>1, <2>2
<1>9. ASSUME NEW k \in 0 .. n - 1, k \in S PROVE k + 1 \in S
  <2> DEFINE b == p[n - (k + 1)]
  <2>1. /\ k + 1 \in 1 .. n /\ (k + 1) - 1 = k /\ k + 1 \in 0 .. n
        /\ n - (k + 1) \in 0 .. n - 1 /\ (n - (k + 1)) + 1 = n - k
    BY <1>3
  <2>2. b \in Dirs \ {r} /\ TableAt(b)[1].cluster = p[n - k] /\ TableAt(b)[0].name # "."
    BY <1>3, <2>1
  <2>3. f[k + 1] = CdRound(f[k], TableAt(b)[0].name)
    BY <1>6, <1>7, <2>1
  <2>4. f[k] \in Walks /\ f[k].at = p[n - k] /\ f[k].end = "more"
    BY <1>9
  <2>5. f[k + 1].at = b /\ f[k + 1].end = "more"
    BY <2>2, <2>3, <2>4, RoundEnters
  <2>6. f[k + 1] \in Walks
    BY <1>1, <2>3, <2>4, RoundKinds
  <2>7. QED
    BY <2>1, <2>5, <2>6
<1> HIDE DEF S
<1>10. \A k \in 0 .. n : k \in S
  BY <1>3, <1>8, <1>9, UpTo
<1>11. f[n].at = p[n - n] /\ f[n].end = "more" /\ n - n = 0
  BY <1>3, <1>10 DEF S
<1>12. QED
  BY <1>3, <1>7, <1>11 DEF path

(* The walk up to the root only goes astray from the cluster number in the *)
(* boot sector, and the path in the prompt is true: cd along it from the   *)
(* root, with a backslash after the last name, leads to the working        *)
(* directory.                                                              *)
THEOREM PromptCorrect ==
  ASSUME Orderly PROVE Spec => []PromptTruthful
<1>1. ShellInv => PromptTruthful
  <2> SUFFICES ASSUME ShellInv PROVE PromptTruthful
    OBVIOUS
  <2> DEFINE r == ROOT_CLUSTER_NUMBER
             path == IF cwd = r THEN <<>> ELSE ShownPath(cwd)
             w == PathWalk(r, path)
  <2>1. place = "astray" => cwd = BootCluster
    BY DEF ShellInv
  <2>2. ASSUME place = "ready" PROVE w.at = cwd /\ w.end = "more"
    <3>1. TreeOk /\ cwd \in Dirs /\ FSP!Reached(disk, cwd)
      BY <2>2, CwdStack, CwdFacts DEF ShellInv, FSP!Idle
    <3>2. CASE cwd = r
      <4>1. path = <<>> /\ Len(<<>>) = 0
        BY <3>2
      <4>2. disk \in Disks /\ r \in Clusters
        BY <3>1, Constants DEF TreeOk
      <4>3. PICK f : f[0] = Start(r) /\ PathWalk(r, <<>>) = f[0]
        BY <4>1, <4>2, PathWalkFacts
      <4>4. QED
        BY <3>2, <4>1, <4>3 DEF Start
    <3>3. CASE cwd # r
      <4>1. path = ShownPath(cwd)
        BY <3>3
      <4>2. QED
        BY <3>1, <3>3, <4>1, PathLeadsBack
    <3>4. QED
      BY <3>2, <3>3
  <2>3. QED
    BY <2>1, <2>2 DEF PromptTruthful
<1>2. QED
  BY <1>1, ShellInvariant, PTL

-----------------------------------------------------------------------------
(* The search of find.                                                     *)

(* What the search, k levels deep, finds in the directories of a table by  *)
(* way of slot i: g is what it finds one level less deep, and open are the *)
(* directories that it enters.                                             *)
Below(g, k, t, i, open) ==
  IF k = 0 \/ t[i].attr # ATTR_SUBDIRECTORY \/ t[i].cluster \notin open
    THEN <<>> ELSE g[t[i].cluster]

(* The slots of a table that lead to the name.                             *)
Hits(g, k, t, n, open) ==
  {i \in Slots \ {0, 1} : t[i].name = n \/ Below(g, k, t, i, open) # <<>>}

(* What the search finds in a directory with the table t.                  *)
FindsIn(g, k, d, t, n, open) ==
  IF Hits(g, k, t, n, open) = {} THEN <<>>
  ELSE IF t[Least(Hits(g, k, t, n, open))].name = n
         THEN <<d, Least(Hits(g, k, t, n, open))>>
  ELSE Below(g, k, t, Least(Hits(g, k, t, n, open)), open)

(* One level of the search: what it finds in each directory.               *)
FindRow(g, k, n, open) ==
  [d \in DataClusters |-> FindsIn(g, k, d, OwnTable(d), n, open)]

(* The function that FindInDirectory is defined by.                        *)
IsFind(f, n, open) == f = [k \in 0 .. ClusterMapSize |-> FindRow(f[k - 1], k, n, open)]

(* What a search can find.                                                 *)
Founds == {<<>>} \cup (DataClusters \X Slots)

(* A slot with a directory leads to a directory.                           *)
LEMMA SubdirectorySlot ==
  ASSUME TreeOk, NEW d \in DataClusters, NEW i \in Slots \ {0, 1},
         TableAt(d)[i].attr = ATTR_SUBDIRECTORY
  PROVE  LET b == TableAt(d)[i].cluster IN
         /\ d \in Dirs /\ b \in Dirs \ {ROOT_CLUSTER_NUMBER} /\ b \in DataClusters
         /\ TableAt(b)[1].cluster = d
<1>1. TableAt(d)[i] # EmptyEntry
  BY DEF EmptyEntry, ATTR_SUBDIRECTORY
<1>2. NamedSlot(d, TableAt(d)[i])
  BY <1>1 DEF TreeOk
<1>3. QED
  BY <1>2 DEF NamedSlot, TreeOk

(* The search deals with each directory in the same way.                   *)
LEMMA RowKinds ==
  ASSUME TreeOk, NEW g \in [DataClusters -> Founds], NEW k, NEW n, NEW open
  PROVE  FindRow(g, k, n, open) \in [DataClusters -> Founds]
<1> SUFFICES ASSUME NEW d \in DataClusters
             PROVE  FindsIn(g, k, d, OwnTable(d), n, open) \in Founds
  BY DEF FindRow
<1> DEFINE t == OwnTable(d)
           H == Hits(g, k, t, n, open)
           i == Least(H)
<1>1. CASE H = {}
  BY <1>1 DEF FindsIn, Founds
<1>2. CASE H # {}
  <2>1. H \in SUBSET Nat
    BY Constants DEF Hits
  <2>2. i \in Slots \ {0, 1}
    BY <1>2, <2>1, LeastOf DEF Hits
  <2> HIDE DEF i
  <2>3. Below(g, k, t, i, open) \in Founds
    <3>1. CASE k = 0 \/ t[i].attr # ATTR_SUBDIRECTORY \/ t[i].cluster \notin open
      BY <3>1 DEF Below, Founds
    <3>2. CASE k # 0 /\ t[i].attr = ATTR_SUBDIRECTORY /\ t[i].cluster \in open
      <4> DEFINE c == TableAt(d)[0].cluster
      <4>1. t = TableAt(c)
        BY DEF OwnTable
      <4>2. c \in DataClusters
        <5>1. CASE c \notin DataClusters
          <6>1. t[i] = EmptyEntry
            BY <2>2, <4>1, <5>1, NoTable
          <6>2. QED
            BY <3>2, <6>1 DEF EmptyEntry, ATTR_SUBDIRECTORY
        <5>2. QED
          BY <5>1
      <4> HIDE DEF c, t
      <4>3. t[i].cluster \in DataClusters
        BY <2>2, <3>2, <4>1, <4>2, SubdirectorySlot
      <4>4. QED
        BY <3>2, <4>3 DEF Below
    <3>3. QED
      BY <3>1, <3>2
  <2>4. <<d, i>> \in Founds
    BY <2>2 DEF Founds
  <2>5. QED
    BY <1>2, <2>3, <2>4 DEF FindsIn, i
<1>3. QED
  BY <1>1, <1>2

(* In a directory it finds something if one of the slots from 2 on has the *)
(* name or is of a directory in which it finds something.                  *)
LEMMA RowHit ==
  ASSUME TreeOk, NEW g, NEW k, NEW n, NEW open, NEW d \in Dirs
  PROVE  FindRow(g, k, n, open)[d] # <<>>
           <=> \E i \in Slots \ {0, 1} :
                 \/ TableAt(d)[i].name = n
                 \/ /\ k # 0 /\ TableAt(d)[i].attr = ATTR_SUBDIRECTORY
                    /\ TableAt(d)[i].cluster \in open
                    /\ g[TableAt(d)[i].cluster] # <<>>
<1> DEFINE t == TableAt(d)
           H == Hits(g, k, t, n, open)
           i == Least(H)
<1>1. FindRow(g, k, n, open)[d] = FindsIn(g, k, d, t, n, open)
  <2>1. d \in DataClusters /\ OwnTable(d) = t
    BY OwnDirectory DEF TreeOk
  <2>2. FindRow(g, k, n, open)[d] = FindsIn(g, k, d, OwnTable(d), n, open)
    BY <2>1 DEF FindRow
  <2> HIDE DEF t
  <2>3. QED
    BY <2>1, <2>2
<1>2. FindsIn(g, k, d, t, n, open) =
        IF H = {} THEN <<>>
        ELSE IF t[i].name = n THEN <<d, i>> ELSE Below(g, k, t, i, open)
  BY DEF FindsIn
<1> HIDE DEF t
<1>3. ASSUME H # {}
      PROVE  i \in Slots \ {0, 1} /\ (t[i].name = n \/ Below(g, k, t, i, open) # <<>>)
  <2>1. H \in SUBSET Nat
    BY Constants DEF Hits
  <2>2. i \in H
    BY <1>3, <2>1, LeastOf
  <2>3. QED
    BY <2>2 DEF Hits
<1>4. <<d, i>> # <<>>
  <2>1. Len(<<d, i>>) = 2 /\ Len(<<>>) = 0
    OBVIOUS
  <2>2. QED
    BY <2>1
<1>5. FindsIn(g, k, d, t, n, open) # <<>> <=> H # {}
  <2> HIDE DEF i, H
  <2>1. QED
    BY <1>2, <1>3, <1>4
<1>6. QED
  BY <1>1, <1>5 DEF Hits, Below, t

(* find_in_directory() searches so, level by level.                        *)
LEMMA FindFacts ==
  ASSUME TreeOk, NEW n, NEW open
  PROVE  \E f : /\ \A k \in 0 .. ClusterMapSize : f[k] = FindRow(f[k - 1], k, n, open)
                /\ \A c : FindInDirectory(c, n, open) = f[ClusterMapSize][c]
<1> DEFINE N == ClusterMapSize
           X == [DataClusters -> Founds]
           none == [d \in DataClusters |-> <<>>]
           a == FindRow(none, 0, n, open)
           step == [y \in X \X (1 .. N) |-> FindRow(y[1], y[2], n, open)]
<1>1. N \in Nat /\ none \in X
  BY Constants DEF Founds
<1>2. a \in X
  BY <1>1, RowKinds
<1>3. step \in [X \X (1 .. N) -> X]
  BY RowKinds
<1>4. PICK f \in [0 .. N -> X] : Recurs(f, N, a, step)
  <2> HIDE DEF N, step, a, X
  <2>1. QED
    BY <1>1, <1>2, <1>3, RecursExists
<1>5. \A k \in 0 .. N : f[k] = IF k = 0 THEN a ELSE step[<<f[k - 1], k>>]
  <2> HIDE DEF step, N, a, X
  <2>1. QED
    BY <1>4, Zenon DEF Recurs
<1>6. ASSUME NEW k \in 0 .. N, k # 0
      PROVE  step[<<f[k - 1], k>>] = FindRow(f[k - 1], k, n, open)
  <2> HIDE DEF X
  <2>1. k \in 1 .. N /\ f[k - 1] \in X
    BY <1>1, <1>6
  <2>2. QED
    BY <2>1
<1>7. ASSUME NEW g PROVE FindRow(g, 0, n, open) = a
  <2>1. \A t, i : Below(g, 0, t, i, open) = Below(none, 0, t, i, open)
    BY DEF Below
  <2>2. \A t : Hits(g, 0, t, n, open) = Hits(none, 0, t, n, open)
    BY <2>1 DEF Hits
  <2> HIDE DEF none
  <2>3. \A d, t : FindsIn(g, 0, d, t, n, open) = FindsIn(none, 0, d, t, n, open)
    BY <2>1, <2>2 DEF FindsIn
  <2>4. QED
    BY <2>3 DEF FindRow
<1>8. \A k \in 0 .. N : f[k] = FindRow(f[k - 1], k, n, open)
  <2> HIDE DEF step, N, a
  <2>1. QED
    BY <1>5, <1>6, <1>7, Zenon
<1>9. IsFind(f, n, open)
  <2>1. f = [k \in 0 .. N |-> f[k]]
    <3> HIDE DEF X
    <3>1. QED
      BY <1>4
  <2>2. QED
    BY <1>8, <2>1, Zenon DEF IsFind
<1> DEFINE g == CHOOSE h : IsFind(h, n, open)
<1>10. IsFind(g, n, open)
  BY <1>9
<1>11. \A c : FindInDirectory(c, n, open) = g[N][c]
  BY DEF FindInDirectory, IsFind, FindRow, FindsIn, Hits, Below
<1> HIDE DEF g
<1>12. \A k \in 0 .. N : g[k] = FindRow(g[k - 1], k, n, open)
  BY <1>10, Zenon DEF IsFind
<1>13. QED
  BY <1>11, <1>12

(* A level of the search, as FindFacts describes it.                       *)
Searches(f, n, open) ==
  \A k \in 0 .. ClusterMapSize : f[k] = FindRow(f[k - 1], k, n, open)

(* An entry with a name of the user's is in a directory.                   *)
LEMMA NamedIsListed ==
  ASSUME TreeOk, NEW d \in DataClusters, NEW i \in Slots \ {0, 1},
         TableAt(d)[i].name \in Names
  PROVE  d \in Dirs /\ TableAt(d)[i].used
<1>1. TableAt(d)[i] # EmptyEntry
  BY GeometryAssumption DEF EmptyEntry
<1>2. NamedSlot(d, TableAt(d)[i])
  BY <1>1 DEF TreeOk
<1>3. QED
  BY <1>2 DEF NamedSlot

(* The way up from y comes by d through none but directories of open.      *)
Passes(y, d, open) ==
  \E p, m : /\ FSP!WayUp(disk, y, p, m)
            /\ \E j \in 0 .. m : p[j] = d /\ \A l \in 0 .. j - 1 : p[l] \in open

(* So does the walk of print_dir_tree().                                   *)
LEMMA PassesWalk ==
  ASSUME TreeOk, NEW y \in Dirs, NEW d, NEW open
  PROVE  Passes(y, d, open)
           <=> \E k \in 0 .. Least(Rounds(y)) :
                 UpWalk(y)[k] = d /\ \A j \in 0 .. k - 1 : UpWalk(y)[j] \in open
<1> DEFINE W == \E k \in 0 .. Least(Rounds(y)) :
                  UpWalk(y)[k] = d /\ \A j \in 0 .. k - 1 : UpWalk(y)[j] \in open
<1>1. ASSUME NEW p, NEW m, FSP!WayUp(disk, y, p, m)
      PROVE  /\ m \in Nat /\ p[0] = y /\ p[m] = ROOT_CLUSTER_NUMBER
             /\ Least(Rounds(y)) = IF m = 0 THEN 1 ELSE m
             /\ \A k \in 0 .. m : UpWalk(y)[k] = p[k]
  BY <1>1, WayIs, WayWalk, WayRounds DEF TreeOk
<1>2. ASSUME Passes(y, d, open) PROVE W
  <2>1. PICK p, m : /\ FSP!WayUp(disk, y, p, m)
                    /\ \E j \in 0 .. m : p[j] = d /\ \A l \in 0 .. j - 1 : p[l] \in open
    BY <1>2 DEF Passes
  <2>2. PICK j \in 0 .. m : p[j] = d /\ \A l \in 0 .. j - 1 : p[l] \in open
    BY <2>1
  <2>3. /\ m \in Nat /\ Least(Rounds(y)) = IF m = 0 THEN 1 ELSE m
        /\ \A k \in 0 .. m : UpWalk(y)[k] = p[k]
    BY <1>1, <2>1
  <2>4. j \in 0 .. Least(Rounds(y)) /\ \A l \in 0 .. j - 1 : l \in 0 .. m
    BY <2>3
  <2>5. QED
    BY <2>2, <2>3, <2>4
<1>3. ASSUME W PROVE Passes(y, d, open)
  <2>1. PICK p, m : FSP!WayUp(disk, y, p, m)
    BY DEF TreeOk, FSP!Under
  <2>2. PICK k \in 0 .. Least(Rounds(y)) :
          UpWalk(y)[k] = d /\ \A j \in 0 .. k - 1 : UpWalk(y)[j] \in open
    BY <1>3
  <2>3. /\ m \in Nat /\ p[0] = y /\ p[m] = ROOT_CLUSTER_NUMBER
        /\ Least(Rounds(y)) = IF m = 0 THEN 1 ELSE m
        /\ \A i \in 0 .. m : UpWalk(y)[i] = p[i]
    BY <1>1, <2>1
  <2>4. CASE k \in 0 .. m
    <3>1. p[k] = d /\ \A l \in 0 .. k - 1 : l \in 0 .. m /\ p[l] \in open
      BY <2>2, <2>3, <2>4
    <3>2. QED
      BY <2>1, <2>4, <3>1 DEF Passes
  <2>5. CASE k \notin 0 .. m
    <3>1. k = 1 /\ m = 0
      BY <2>3, <2>5
    <3>2. UpWalk(y)[1] = ROOT_CLUSTER_NUMBER
      <4>1. Rounds(y) # {} /\ Rounds(y) \in SUBSET Nat
        BY <2>1, WayRounds DEF TreeOk, Rounds
      <4>2. Least(Rounds(y)) \in Rounds(y)
        BY <4>1, LeastOf
      <4>3. QED
        BY <2>3, <3>1, <4>2 DEF Rounds
    <3>3. p[0] = d /\ 0 \in 0 .. m /\ \A l \in 0 .. 0 - 1 : p[l] \in open
      BY <2>2, <2>3, <3>1, <3>2
    <3>4. QED
      BY <2>1, <3>3 DEF Passes
  <2>6. QED
    BY <2>4, <2>5
<1>4. QED
  BY <1>2, <1>3

(* A way up that passes a directory goes on to the one above it.           *)
LEMMA PassesParent ==
  ASSUME NEW y, NEW b, NEW open, Passes(y, b, open), b \in open, b # ROOT_CLUSTER_NUMBER
  PROVE  Passes(y, TableAt(b)[1].cluster, open)
<1>1. PICK p, m : /\ FSP!WayUp(disk, y, p, m)
                  /\ \E j \in 0 .. m : p[j] = b /\ \A l \in 0 .. j - 1 : p[l] \in open
  BY DEF Passes
<1>2. PICK j \in 0 .. m : p[j] = b /\ \A l \in 0 .. j - 1 : p[l] \in open
  BY <1>1
<1>3. /\ m \in Nat /\ p[m] = ROOT_CLUSTER_NUMBER
      /\ \A k \in 0 .. m - 1 : TableAt(p[k])[1].cluster = p[k + 1]
  BY <1>1, WayIs
<1>4. j # m
  BY <1>2, <1>3
<1>5. j \in 0 .. m - 1 /\ j + 1 \in 0 .. m
  BY <1>3, <1>4
<1>6. p[j + 1] = TableAt(b)[1].cluster
  BY <1>2, <1>3, <1>5
<1>7. ASSUME NEW l \in 0 .. (j + 1) - 1 PROVE p[l] \in open
  <2>1. l = j \/ l \in 0 .. j - 1
    BY <1>3
  <2>2. QED
    BY <1>2, <2>1
<1>8. QED
  BY <1>1, <1>5, <1>6, <1>7 DEF Passes

(* Whatever the search finds in a directory is below it.                   *)
LEMMA FindSound ==
  ASSUME TreeOk, NEW n \in Names, NEW open, NEW f, Searches(f, n, open)
  PROVE  \A k \in 0 .. ClusterMapSize : \A d \in Dirs :
           f[k][d] # <<>> =>
             \E y \in DataClusters, i \in Slots \ {0, 1} :
               TableAt(y)[i].name = n /\ Passes(y, d, open)
<1> DEFINE Lies(d) == \E y \in DataClusters, i \in Slots \ {0, 1} :
                        TableAt(y)[i].name = n /\ Passes(y, d, open)
           N == ClusterMapSize
           S == {k \in 0 .. N : \A d \in Dirs : f[k][d] # <<>> => Lies(d)}
<1>1. N \in Nat
  BY Constants
<1>2. ASSUME NEW d \in Dirs, NEW i \in Slots \ {0, 1}, TableAt(d)[i].name = n
      PROVE  Lies(d)
  <2>1. d \in DataClusters
    BY DEF TreeOk
  <2>2. PICK p, m : FSP!WayUp(disk, d, p, m)
    BY DEF TreeOk, FSP!Under
  <2>3. p[0] = d /\ 0 \in 0 .. m /\ \A l \in 0 .. 0 - 1 : p[l] \in open
    BY <2>2, WayIs
  <2>4. Passes(d, d, open)
    BY <2>2, <2>3 DEF Passes
  <2>5. QED
    BY <1>2, <2>1, <2>4
<1>3. ASSUME NEW k \in 0 .. N, k # 0 => k - 1 \in S PROVE k \in S
  <2> SUFFICES ASSUME NEW d \in Dirs, f[k][d] # <<>> PROVE Lies(d)
    OBVIOUS
  <2> HIDE DEF Lies
  <2>1. f[k] = FindRow(f[k - 1], k, n, open)
    BY DEF Searches
  <2>2. PICK i \in Slots \ {0, 1} :
          \/ TableAt(d)[i].name = n
          \/ /\ k # 0 /\ TableAt(d)[i].attr = ATTR_SUBDIRECTORY
             /\ TableAt(d)[i].cluster \in open
             /\ f[k - 1][TableAt(d)[i].cluster] # <<>>
    BY <2>1, RowHit
  <2>3. CASE TableAt(d)[i].name = n
    BY <1>2, <2>3
  <2>4. CASE /\ k # 0 /\ TableAt(d)[i].attr = ATTR_SUBDIRECTORY
             /\ TableAt(d)[i].cluster \in open
             /\ f[k - 1][TableAt(d)[i].cluster] # <<>>
    <3> DEFINE b == TableAt(d)[i].cluster
    <3>1. d \in DataClusters
      BY DEF TreeOk
    <3>2. b \in Dirs /\ b # ROOT_CLUSTER_NUMBER /\ TableAt(b)[1].cluster = d
      BY <2>4, <3>1, SubdirectorySlot
    <3>3. Lies(b)
      BY <1>3, <2>4, <3>2
    <3>4. PICK y \in DataClusters, j \in Slots \ {0, 1} :
            TableAt(y)[j].name = n /\ Passes(y, b, open)
      BY <3>3 DEF Lies
    <3>5. Passes(y, d, open)
      BY <2>4, <3>2, <3>4, PassesParent
    <3>6. QED
      BY <3>4, <3>5 DEF Lies
  <2>5. QED
    BY <2>2, <2>3, <2>4
<1> HIDE DEF S
<1>4. 0 \in S
  BY <1>1, <1>3
<1>5. ASSUME NEW k \in 0 .. N - 1, k \in S PROVE k + 1 \in S
  <2>1. k + 1 \in 0 .. N /\ (k + 1) - 1 = k
    BY <1>1
  <2>2. QED
    BY <1>3, <1>5, <2>1
<1>6. \A k \in 0 .. N : k \in S
  <2> HIDE DEF N
  <2>1. QED
    BY <1>1, <1>4, <1>5, UpTo
<1>7. QED
  BY <1>6 DEF S

(* Whatever is below a directory is found in it, if the search goes deep   *)
(* enough: no way is longer than the disk.                                 *)
LEMMA FindMissesNothing ==
  ASSUME TreeOk, NEW n \in Names, NEW open, NEW f, Searches(f, n, open),
         NEW y \in Dirs, NEW i \in Slots \ {0, 1}, TableAt(y)[i].name = n,
         NEW d, Passes(y, d, open)
  PROVE  f[ClusterMapSize][d] # <<>>
<1> DEFINE N == ClusterMapSize
<1>1. PICK p, m : /\ FSP!WayUp(disk, y, p, m)
                  /\ \E j \in 0 .. m : p[j] = d /\ \A l \in 0 .. j - 1 : p[l] \in open
  BY DEF Passes
<1>2. PICK j \in 0 .. m : p[j] = d /\ \A l \in 0 .. j - 1 : p[l] \in open
  BY <1>1
<1>3. /\ m \in Nat /\ m < N /\ N \in Nat /\ p[0] = y
      /\ \A l \in 0 .. m : p[l] \in Dirs
      /\ \A l \in 0 .. m - 1 :
           /\ p[l] \in Dirs \ {ROOT_CLUSTER_NUMBER}
           /\ TableAt(p[l])[1].cluster = p[l + 1]
  <2>1. /\ m \in Nat /\ m < N - 2 /\ p \in [0 .. m -> DataClusters] /\ p[0] = y
        /\ p[m] = ROOT_CLUSTER_NUMBER
        /\ \A l \in 0 .. m - 1 :
             /\ p[l] \in FS!Directories(disk) /\ p[l] # ROOT_CLUSTER_NUMBER
             /\ TableAt(p[l])[1].cluster = p[l + 1]
    BY <1>1, WayIs
  <2>2. N \in Nat /\ m < N
    BY <2>1, Constants
  <2>3. ASSUME NEW l \in 0 .. m PROVE p[l] \in Dirs
    <3>1. l = m \/ l \in 0 .. m - 1
      BY <2>1
    <3>2. QED
      BY <2>1, <3>1 DEF TreeOk, Dirs
  <2>4. QED
    BY <2>1, <2>2, <2>3 DEF Dirs
<1> DEFINE S == {l \in 0 .. j : \A k \in l .. N : f[k][p[l]] # <<>>}
<1>4. 0 \in S
  <2>1. ASSUME NEW k \in 0 .. N PROVE f[k][y] # <<>>
    <3>1. f[k] = FindRow(f[k - 1], k, n, open)
      BY DEF Searches
    <3>2. QED
      BY <3>1, RowHit
  <2>2. QED
    BY <1>3, <2>1
<1>5. ASSUME NEW l \in 0 .. j - 1, l \in S PROVE l + 1 \in S
  <2> DEFINE a == p[l + 1]
             b == p[l]
  <2>1. l + 1 \in 0 .. j /\ l + 1 \in 0 .. m /\ l \in 0 .. m - 1
    BY <1>3
  <2>2. a \in Dirs /\ b \in Dirs \ {ROOT_CLUSTER_NUMBER} /\ TableAt(b)[1].cluster = a
    BY <1>3, <2>1
  <2>3. b \in open
    BY <1>2
  <2>4. PICK s \in Slots \ {0, 1} : TableAt(a)[s] = TableAt(b)[0]
    BY <2>2 DEF TreeOk
  <2>5. TableAt(a)[s].attr = ATTR_SUBDIRECTORY /\ TableAt(a)[s].cluster = b
    BY <2>2, <2>4 DEF TreeOk
  <2>6. ASSUME NEW k \in l + 1 .. N PROVE f[k][a] # <<>>
    <3>1. k \in 0 .. N /\ k - 1 \in l .. N /\ k # 0
      BY <1>3
    <3>2. f[k - 1][b] # <<>>
      BY <1>5, <3>1
    <3>3. f[k] = FindRow(f[k - 1], k, n, open)
      BY <3>1 DEF Searches
    <3> HIDE DEF a, b
    <3>4. QED
      BY <2>2, <2>3, <2>5, <3>1, <3>2, <3>3, RowHit
  <2>7. QED
    BY <2>1, <2>6
<1> HIDE DEF S
<1>6. \A l \in 0 .. j : l \in S
  <2>1. j \in Nat
    BY <1>3
  <2>2. QED
    BY <1>4, <1>5, <2>1, UpTo
<1>7. j \in S /\ N \in j .. N
  BY <1>3, <1>6
<1>8. QED
  BY <1>2, <1>7 DEF S

(* find misses nothing, and finds nothing that is not there, whichever     *)
(* paths are short enough for it: it finds a name exactly if some          *)
(* directory lists it from which print_dir_tree() would come by the        *)
(* working directory through none but directories with such paths.         *)
THEOREM FindCorrect ==
  ASSUME Orderly PROVE Spec => []FindComplete
<1>1. ShellInv => FindComplete
  <2> SUFFICES ASSUME ShellInv, place = "ready", NEW n \in Names,
                      NEW open \in SUBSET DataClusters
               PROVE  FindInDirectory(cwd, n, open) # <<>>
                        <=> \E l \in FS!Listed(disk) :
                              /\ FS!EntryAt(disk, l).name = n
                              /\ \E k \in 0 .. Least(Rounds(l[1])) :
                                   /\ UpWalk(l[1])[k] = cwd
                                   /\ \A j \in 0 .. k - 1 : UpWalk(l[1])[j] \in open
    BY DEF FindComplete
  <2>1. TreeOk /\ cwd \in Dirs
    BY CwdStack, CwdFacts DEF ShellInv, FSP!Idle
  <2>2. PICK f : /\ Searches(f, n, open)
                 /\ \A c : FindInDirectory(c, n, open) = f[ClusterMapSize][c]
    BY <2>1, FindFacts DEF Searches
  <2>3. ASSUME NEW y \in DataClusters, NEW i \in Slots \ {0, 1}
        PROVE  /\ FS!EntryAt(disk, <<y, i>>) = TableAt(y)[i]
               /\ <<y, i>> \in FS!Listed(disk) <=> TableAt(y)[i].used
    BY SameTables DEF FS!EntryAt, FS!Listed, FS!DataClusters, DataClusters,
       FS!ROOT_CLUSTER_NUMBER, ROOT_CLUSTER_NUMBER, FS!Slots, Slots
  <2> DEFINE Comes(y) == \E k \in 0 .. Least(Rounds(y)) :
                           UpWalk(y)[k] = cwd /\ \A j \in 0 .. k - 1 : UpWalk(y)[j] \in open
  <2>4. ASSUME NEW y \in Dirs PROVE Comes(y) <=> Passes(y, cwd, open)
    BY <2>1, PassesWalk
  <2>5. ASSUME FindInDirectory(cwd, n, open) # <<>>
        PROVE  \E l \in FS!Listed(disk) : FS!EntryAt(disk, l).name = n /\ Comes(l[1])
    <3>1. ClusterMapSize \in 0 .. ClusterMapSize
      BY Constants
    <3>2. PICK y \in DataClusters, i \in Slots \ {0, 1} :
            TableAt(y)[i].name = n /\ Passes(y, cwd, open)
      BY <2>1, <2>2, <2>5, <3>1, FindSound
    <3>3. y \in Dirs /\ TableAt(y)[i].used
      BY <2>1, <3>2, NamedIsListed
    <3>4. Comes(y)
      BY <2>4, <3>2, <3>3
    <3>5. <<y, i>> \in FS!Listed(disk) /\ FS!EntryAt(disk, <<y, i>>).name = n
      BY <2>3, <3>2, <3>3
    <3>6. <<y, i>>[1] = y
      OBVIOUS
    <3> HIDE DEF Comes
    <3>7. QED
      BY <3>4, <3>5, <3>6
  <2>6. ASSUME NEW l \in FS!Listed(disk), FS!EntryAt(disk, l).name = n, Comes(l[1])
        PROVE  FindInDirectory(cwd, n, open) # <<>>
    <3>1. PICK y \in DataClusters, i \in Slots \ {0, 1} : l = <<y, i>>
      BY DEF FS!Listed, FS!DataClusters, DataClusters,
         FS!ROOT_CLUSTER_NUMBER, ROOT_CLUSTER_NUMBER, FS!Slots, Slots
    <3>2. TableAt(y)[i].name = n /\ l[1] = y
      BY <2>3, <2>6, <3>1
    <3>3. y \in Dirs
      BY <2>1, <3>2, NamedIsListed
    <3>4. Passes(y, cwd, open)
      BY <2>4, <2>6, <3>2, <3>3
    <3>5. QED
      BY <2>1, <2>2, <3>2, <3>3, <3>4, FindMissesNothing
  <2>7. QED
    BY <2>5, <2>6
<1>2. QED
  BY <1>1, ShellInvariant, PTL

=============================================================================
