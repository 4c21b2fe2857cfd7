-------------------------- MODULE FAT32_tree_proofs --------------------------
(***************************************************************************)
(* Proofs that the entries of the FAT32 driver own whole and disjoint      *)
(* chains, that its directories form a tree, that files keep what was      *)
(* written to them and that it implements the file store, for every disk   *)
(* geometry and every set of requests.  The last part is about the tree as *)
(* a program sees it that walks through it: every directory has a way up   *)
(* to the root, and directories on a stack, each on the way up from the    *)
(* next one, stay there (used by ShellCommands_proofs).                    *)
(***************************************************************************)
EXTENDS FAT32_proofs, FunctionTheorems

-----------------------------------------------------------------------------
(* The images of write() for a file.                                       *)

(* Two images agree outside a set of clusters.                             *)
Only(a, b, S) ==
  \A c \in DataClusters \ S :
    b.fat[c] = a.fat[c] /\ Tab(b, c) = Tab(a, c) /\ Dat(b, c) = Dat(a, c)

(* What write() has made of an image: there is an entry e below parent, if *)
(* there was room, and clusters S that were free hold no entries.          *)
Filled(a, b, S, parent, e) ==
  /\ Only(a, b, S \cup {parent}) /\ parent \notin S /\ S \subseteq DataClusters
  /\ Tab(b, parent) = AddEntry(Tab(a, parent), e)
  /\ \A c \in S : /\ a.fat[c] = FAT32_FAT_EMPTY_ENTRY
                  /\ \A j \in Slots \ {0, 1} : ~ Tab(b, c)[j].used

(* What delete() has made of it: the slot i of parent is clear, and so are *)
(* the clusters S, which had no entries.                                   *)
Cleared(a, b, S, parent, i) ==
  /\ Only(a, b, S \cup {parent}) /\ parent \notin S /\ S \subseteq DataClusters
  /\ i >= 2 /\ Tab(b, parent) = [Tab(a, parent) EXCEPT ![i] = EmptyEntry]
  /\ \A c \in S : /\ Tab(b, c) = EmptyTable
                  /\ \A j \in Slots \ {0, 1} : ~ Tab(a, c)[j].used

(* The image that the last of some writes leaves.                          *)
Final(s) == s[Len(s)]

(* A disk between two operations.                                          *)
Ready(d) ==
  /\ d \in Disks /\ d.signed
  /\ Sound(d)
  /\ TreeBut(d, {})
  /\ 0 \notin Sizes => Flat(d)

(* The entries that a call with this directory and name is about.          *)
NamedBy(d, K) == {l \in Listed(d) : Key(d, l) = K}

(* A disk in the midst of an operation.                                    *)
Image(d, K) ==
  /\ d \in Disks /\ d.signed
  /\ Sound(d)
  /\ TreeBut(d, NamedBy(d, K))
  /\ 0 \notin Sizes => Flat(d)

(* A write leaves the files alone that its call does not name.             *)
Untouched(a, b, K) ==
  \A l \in Listed(a) :
    LET e == EntryAt(a, l) IN
    IsFile(e) /\ Key(a, l) # K =>
      l \in Listed(b) /\ EntryAt(b, l) = e /\ Contents(b, e) = Contents(a, e)

(* It is so if all other entries keep their clusters.                      *)
LEMMA KeptUntouched ==
  ASSUME NEW a \in Disks, NEW b \in Disks, Sound(a), NEW K,
         \A l \in Listed(a) : Key(a, l) # K => KeptEntry(a, b, l)
  PROVE  Untouched(a, b, K)
<1>1. ASSUME NEW l \in Listed(a), IsFile(EntryAt(a, l)), Key(a, l) # K
      PROVE  /\ l \in Listed(b) /\ EntryAt(b, l) = EntryAt(a, l)
             /\ Contents(b, EntryAt(a, l)) = Contents(a, EntryAt(a, l))
  <2>1. KeptEntry(a, b, l) /\ FileOk(a, l)
    BY <1>1 DEF Sound
  <2>2. QED
    BY <1>1, <2>1, KeptFacts DEF KeptEntry
<1>2. QED
  BY <1>1 DEF Untouched

(* The more may be broken, the weaker the tree.                            *)
LEMMA TreeMore ==
  ASSUME NEW d, NEW L, NEW M, TreeBut(d, L), \A l \in Listed(d) : l \in L => l \in M
  PROVE  TreeBut(d, M)
  BY DEF TreeBut

(* A disk between two operations may be one in the midst of any.           *)
LEMMA ReadyImage ==
  ASSUME NEW d, Ready(d), NEW K
  PROVE  Image(d, K)
<1>1. TreeBut(d, NamedBy(d, K))
  BY TreeMore DEF Ready
<1>2. QED
  BY <1>1 DEF Ready, Image

(* A free cluster of such a disk belongs to nobody and is empty.           *)
LEMMA FreeFacts ==
  ASSUME NEW d, Ready(d), NEW c \in DataClusters,
         d.fat[c] = FAT32_FAT_EMPTY_ENTRY
  PROVE  /\ Tab(d, c) = EmptyTable
         /\ \A l \in Listed(d) : c \notin Owned(d, EntryAt(d, l))
<1>1. Tab(d, c) = EmptyTable
  BY DEF Ready, Sound, TablesOk
<1>2. ASSUME NEW l \in Listed(d) PROVE c \notin Owned(d, EntryAt(d, l))
  <2>1. EntryWhole(d, l)
    BY DEF Ready, TreeBut
  <2>2. QED
    BY <2>1 DEF EntryWhole
<1>3. QED
  BY <1>1, <1>2

(* From one such disk to the next, when nothing is entered or cleared.     *)
LEMMA ReadyGrows ==
  ASSUME NEW a, NEW b \in Disks, Ready(a), b.signed, Grown(a, b), NEW K,
         \A c \in DataClusters :
           a.fat[c] # FAT32_FAT_EMPTY_ENTRY /\ Tab(a, c) = EmptyTable =>
             Dat(b, c) = Dat(a, c)
  PROVE  Ready(b) /\ Untouched(a, b, K)
<1>1. a \in Disks /\ Sound(a)
  BY DEF Ready
<1>2. Sound(b) /\ \A l \in Listed(a) : KeptEntry(a, b, l)
  BY <1>1, GrowStep
<1>3. (TreeBut(a, {}) => TreeBut(b, {})) /\ (Flat(a) => Flat(b))
  BY <1>1, <1>2, GrownTree
<1>4. Untouched(a, b, K)
  BY <1>1, <1>2, KeptUntouched
<1>5. QED
  BY <1>2, <1>3, <1>4 DEF Ready

(* The slot that AddEntry fills is below the first two.                    *)
LEMMA AddSlot ==
  ASSUME NEW d \in Disks, TablesOk(d), NEW parent \in Directories(d),
         NEW e \in Entries
  PROVE  LET t == Tab(d, parent)
             i == Least(FreeSlots(t))
         IN  /\ FreeSlots(t) = {} => AddEntry(t, e) = t
             /\ FreeSlots(t) # {} =>
                  /\ i \in Slots /\ i >= 2 /\ ~ t[i].used
                  /\ AddEntry(t, e) = [t EXCEPT ![i] = e]
<1> DEFINE t == Tab(d, parent)
           i == Least(FreeSlots(t))
<1>1. parent \in DataClusters /\ t[0].used
  BY ListedFacts
<1>2. t[1].used
  BY <1>1 DEF TablesOk
<1>3. FreeSlots(t) \in SUBSET Nat
  BY SlotTypes DEF FreeSlots
<1>4. ASSUME FreeSlots(t) # {} PROVE i \in Slots /\ i >= 2 /\ ~ t[i].used
  <2>1. i \in FreeSlots(t)
    BY <1>3, <1>4, LeastProperties
  <2> HIDE DEF i
  <2>2. i \in Slots /\ ~ t[i].used
    BY <2>1 DEF FreeSlots
  <2>3. i # 0 /\ i # 1 /\ i \in Nat
    BY <1>1, <1>2, <2>2, SlotTypes
  <2>4. QED
    BY <2>2, <2>3
<1>5. QED
  BY <1>4 DEF AddEntry

(* The clusters that a file is given, and the chain that they make.        *)
LEMMA GivenClusters ==
  ASSUME NEW d, Ready(d), NEW size \in Nat, size > 0, NEW A,
         A = Lowest(EmptyClusters(d.fat, ROOT_CLUSTER_NUMBER + 1), CeilDiv(size)),
         Cardinality(A) >= CeilDiv(size)
  PROVE  LET m == Link(d.fat, A, FAT32_FAT_END_OF_FILE)
             k == CeilDiv(size) - 1
         IN  /\ A \in SUBSET DataClusters /\ A # {} /\ Least(A) \in A
             /\ ROOT_CLUSTER_NUMBER \notin A
             /\ \A c \in A : d.fat[c] = FAT32_FAT_EMPTY_ENTRY
             /\ m \in FatMaps
             /\ \A c \in Clusters \ A : m[c] = d.fat[c]
             /\ k \in Nat
             /\ ChainIs(m, Least(A), k)
             /\ OnChain(m, Least(A), k) = A
             /\ \A i, j \in 0 .. k :
                  Walk(m, Least(A))[i] = Walk(m, Least(A))[j] => i = j
<1> DEFINE S == EmptyClusters(d.fat, ROOT_CLUSTER_NUMBER + 1)
           m == Link(d.fat, A, FAT32_FAT_END_OF_FILE)
           k == CeilDiv(size) - 1
<1>1. /\ S \subseteq DataClusters /\ ROOT_CLUSTER_NUMBER \notin S
      /\ \A c \in S : d.fat[c] = FAT32_FAT_EMPTY_ENTRY
  BY ClusterFacts DEF EmptyClusters, DataClusters, ROOT_CLUSTER_NUMBER
<1>2. CeilDiv(size) \in Nat \ {0}
  BY CeilDivNat, CeilDivPositive
<1>3. d.fat \in FatMaps
  BY TabTypes DEF Ready
<1>4. A \subseteq S /\ Cardinality(A) = CeilDiv(size)
  <2> HIDE DEF S
  <2>1. A \subseteq S /\ Cardinality(A) \in 0 .. CeilDiv(size)
    BY <1>1, <1>2, <1>3, LowestCount DEF S
  <2>2. QED
    BY <1>2, <2>1
<1>5. A \in SUBSET DataClusters /\ A # {}
  BY <1>1, <1>2, <1>4, FS_EmptySet
<1>6. Least(A) \in A
  <2>1. A \in SUBSET Nat
    BY <1>5, ClusterFacts
  <2>2. QED
    BY <1>5, <2>1, LeastProperties
<1>7. m \in FatMaps
  BY <1>3, <1>5, MapTypes
<1>8. \A c \in Clusters \ A : m[c] = d.fat[c]
  BY DEF Link
<1>9. /\ k \in Nat
      /\ ChainIs(m, Least(A), k)
      /\ OnChain(m, Least(A), k) = A
      /\ \A j \in 0 .. k : Walk(m, Least(A))[j] \in A
                           /\ Rank(A, Walk(m, Least(A))[j]) = j
  BY <1>3, <1>4, <1>5, LinkChain
<1> HIDE DEF m, k
<1>10. \A i, j \in 0 .. k :
         Walk(m, Least(A))[i] = Walk(m, Least(A))[j] => i = j
  BY <1>9
<1>11. QED
  BY <1>1, <1>4, <1>5, <1>6, <1>7, <1>8, <1>9, <1>10 DEF m, k

(* The writes that are to be made to the disk d: each of them leaves an    *)
(* image as above and does not touch what the call does not name, and the  *)
(* last one leaves the disk ready.                                         *)
Prev(d, s, i) == IF i = 1 THEN d ELSE s[i - 1]
Outstanding(d, s, K) ==
  /\ Len(s) >= 1
  /\ \A i \in 1 .. Len(s) : Image(s[i], K) /\ Untouched(Prev(d, s, i), s[i], K)
  /\ Ready(s[Len(s)])

(* What an operation lines up: such writes, which do not lose the root.    *)
LinedUp(d, s, K) ==
  /\ Outstanding(d, s, K)
  /\ ROOT_CLUSTER_NUMBER \in Directories(d) =>
       ROOT_CLUSTER_NUMBER \in Directories(s[Len(s)])

(* The new file holds what was written to its clusters.                    *)
LEMMA WrittenData ==
  ASSUME NEW d \in Disks, NEW f \in Disks, NEW m \in FatMaps, NEW c \in Clusters,
         NEW p, NEW n, NEW x, NEW size \in Nat, CeilDiv(size) - 1 \in Nat,
         ChainIs(m, c, CeilDiv(size) - 1), f.fat = m,
         \A i, j \in 0 .. CeilDiv(size) - 1 : Walk(m, c)[i] = Walk(m, c)[j] => i = j,
         \A b \in DataClusters : Dat(f, b) = Dat(WithData(d, m, c, p, CeilDiv(size)), b)
  PROVE  StoredBut(f, FileEntry(n, x, size, c), p, 0)
<1> DEFINE e == FileEntry(n, x, size, c)
           N == CeilDiv(size)
           w == Walk(m, c)
           D == WithData(d, m, c, p, N)
<1>1. e.filesize = size /\ e.cluster = c
  BY DEF FileEntry
<1>2. N \in Nat
  BY CeilDivNat
<1>3. ASSUME NEW j \in 1 .. N
      PROVE  CellAt(f, w[j - 1]).data = [what |-> p, part |-> j]
  <2>1. j - 1 \in 0 .. N - 1
    BY <1>2
  <2>2. w[j - 1] \in DataClusters
    BY <2>1 DEF ChainIs
  <2>3. CellAt(f, w[j - 1]).data = Dat(D, w[j - 1])
    BY <2>2 DEF CellAt, Dat
  <2>4. \E i \in 0 .. N - 1 : w[i] = w[j - 1]
    BY <2>1
  <2>5. Dat(D, w[j - 1])
          = [what |-> p, part |-> 1 + CHOOSE i \in 0 .. N - 1 : w[i] = w[j - 1]]
    BY <2>2, <2>4, DataViews
  <2>6. (CHOOSE i \in 0 .. N - 1 : w[i] = w[j - 1]) = j - 1
    <3> DEFINE g == CHOOSE i \in 0 .. N - 1 : w[i] = w[j - 1]
    <3>1. g \in 0 .. N - 1 /\ w[g] = w[j - 1]
      BY <2>4
    <3> HIDE DEF g
    <3>2. g = j - 1
      BY <2>1, <3>1
    <3>3. QED
      BY <3>2 DEF g
  <2>7. 1 + (j - 1) = j
    BY <1>2
  <2>8. QED
    BY <2>3, <2>5, <2>6, <2>7, Zenon
<1>4. ASSUME NEW j \in 1 .. N
      PROVE  CellAt(f, w[j - 1]).data
               = IF j <= 0 THEN NoData ELSE [what |-> p, part |-> j]
  <2>1. ~ (j <= 0)
    BY <1>2
  <2>2. QED
    BY <1>3, <2>1
<1>5. Contents(f, e) = [j \in 1 .. N |-> CellAt(f, w[j - 1]).data]
  BY <1>1 DEF Contents
<1> HIDE DEF e, N, w, D
<1>6. Contents(f, e)
        = [j \in 1 .. N |-> IF j <= 0 THEN NoData ELSE [what |-> p, part |-> j]]
  BY <1>4, <1>5
<1>7. QED
  BY <1>1, <1>6 DEF StoredBut, e, N

(* Every image of a file's write is a ready disk, and the last one has the *)
(* file and its entry, if there is room for it.                            *)
LEMMA WriteLinedUp ==
  ASSUME NEW d, Ready(d), NEW parent \in Directories(d), NEW n \in AllNames,
         NEW x \in AllExts, NEW size \in Nat, size > 0, NEW p \in Payloads,
         NEW A, NEW K,
         A = Lowest(EmptyClusters(d.fat, ROOT_CLUSTER_NUMBER + 1), CeilDiv(size)),
         Cardinality(A) >= CeilDiv(size)
  PROVE  LET g == FileEntry(n, x, size, Least(A))
             i == WriteImages(d, Link(d.fat, A, FAT32_FAT_END_OF_FILE), Least(A), p,
                    CeilDiv(size), parent, AddEntry(d.cell[parent].table, g))
         IN  /\ LinedUp(d, i, K)
             /\ Filled(d, Final(i), A, parent, g)
             /\ \A y \in A : Tab(Final(i), y) = EmptyTable
             /\ StoredBut(Final(i), g, p, 0)
<1> DEFINE m == Link(d.fat, A, FAT32_FAT_END_OF_FILE)
           c == Least(A)
           N == CeilDiv(size)
           e == FileEntry(n, x, size, c)
           W(i) == WithData(d, m, c, p, i)
           F == WriteFat(W(N), m)
           t == Tab(d, parent)
           G == WriteTable(F, parent, AddEntry(t, e))
<1>1. /\ A \in SUBSET DataClusters /\ c \in A /\ ROOT_CLUSTER_NUMBER \notin A
      /\ \A b \in A : d.fat[b] = FAT32_FAT_EMPTY_ENTRY
      /\ m \in FatMaps
      /\ \A b \in Clusters \ A : m[b] = d.fat[b]
      /\ N - 1 \in Nat
      /\ ChainIs(m, c, N - 1)
      /\ OnChain(m, c, N - 1) = A
      /\ \A i, j \in 0 .. N - 1 : Walk(m, c)[i] = Walk(m, c)[j] => i = j
  BY GivenClusters
<1>2. d \in Disks /\ d.signed /\ N \in Nat /\ Sound(d)
  BY CeilDivNat DEF Ready
<1>3. e \in Entries /\ e.used /\ e.cluster = c /\ e.filesize = size /\ IsFile(e)
  <2>1. c \in Clusters
    BY <1>1, ClusterFacts
  <2>2. QED
    BY <2>1, EntryTypes DEF FileEntry, IsFile
<1>4. parent \in DataClusters /\ t \in Tables
  BY <1>2, ListedFacts, TabTypes
<1>5. t[0].used
  BY ListedFacts
<1>6. parent \notin A
  <2>1. ASSUME parent \in A PROVE FALSE
    <3>1. Tab(d, parent) = EmptyTable
      BY <1>1, <1>4, <2>1, FreeFacts
    <3>2. QED
      BY <1>5, <3>1, SlotTypes DEF EmptyTable, EmptyEntry
  <2>2. QED
    BY <2>1
<1> HIDE DEF m, c, N, e, t
<1>7. ASSUME NEW i \in 0 .. N
      PROVE  /\ W(i) \in Disks /\ W(i).fat = d.fat /\ W(i).signed = d.signed
             /\ \A b \in DataClusters : Tab(W(i), b) = Tab(d, b)
             /\ \A b \in DataClusters \ A : Dat(W(i), b) = Dat(d, b)
  <2>1. W(i) \in Disks
    BY <1>2, WithDataTypes
  <2>2. ASSUME NEW b \in DataClusters, \E j \in 0 .. i - 1 : Walk(m, c)[j] = b
        PROVE  b \in A
    <3>1. PICK j \in 0 .. i - 1 : Walk(m, c)[j] = b
      BY <2>2
    <3>2. j \in 0 .. N - 1
      BY <1>2
    <3>3. QED
      BY <1>1, <3>1, <3>2 DEF OnChain
  <2>3. \A b \in A : Tab(d, b) = EmptyTable
    BY <1>1, FreeFacts
  <2>4. ASSUME NEW b \in DataClusters
        PROVE  Tab(W(i), b) = Tab(d, b) /\ (b \notin A => Dat(W(i), b) = Dat(d, b))
    <3>1. CASE \E j \in 0 .. i - 1 : Walk(m, c)[j] = b
      BY <1>2, <2>2, <2>3, <3>1, DataViews
    <3>2. CASE ~ \E j \in 0 .. i - 1 : Walk(m, c)[j] = b
      BY <1>2, <3>2, DataViews
    <3>3. QED
      BY <3>1, <3>2
  <2>5. W(i).fat = d.fat /\ W(i).signed = d.signed
    BY <1>2 DEF WithData, Disks
  <2>6. QED
    BY <2>1, <2>4, <2>5, Zenon
<1> DEFINE Like(a) == /\ a \in Disks /\ a.fat = d.fat /\ a.signed = d.signed
                      /\ \A b \in DataClusters : Tab(a, b) = Tab(d, b)
                      /\ \A b \in DataClusters \ A : Dat(a, b) = Dat(d, b)
<1>8. Like(d) /\ \A i \in 0 .. N : Like(W(i))
  BY <1>2, <1>7
<1>9. ASSUME NEW a, Ready(a), Like(a), NEW b, Like(b)
      PROVE  Ready(b) /\ Untouched(a, b, K)
  <2>1. Grown(a, b)
    BY <1>9 DEF Grown
  <2>2. \A y \in DataClusters : a.fat[y] # FAT32_FAT_EMPTY_ENTRY => Dat(b, y) = Dat(a, y)
    BY <1>1, <1>9
  <2>3. QED
    BY <1>2, <1>9, <2>1, <2>2, ReadyGrows
<1>10. \A i \in 0 .. N : Ready(W(i))
  BY <1>8, <1>9
<1>11. N \in 0 .. N
  BY <1>2
<1>12. /\ F \in Disks /\ F.fat = m /\ F.signed = d.signed
       /\ \A b \in DataClusters : Tab(F, b) = Tab(d, b) /\ Dat(F, b) = Dat(W(N), b)
  <2> DEFINE V == W(N)
  <2>1. V \in Disks /\ V.signed = d.signed /\ \A b \in DataClusters : Tab(V, b) = Tab(d, b)
    BY <1>7, <1>11
  <2>2. F = WriteFat(V, m)
    OBVIOUS
  <2> HIDE DEF V, F, W
  <2>3. /\ F \in Disks /\ F.fat = m /\ F.signed = V.signed
        /\ \A b \in DataClusters : Tab(F, b) = Tab(V, b) /\ Dat(F, b) = Dat(V, b)
    BY <1>1, <2>1, <2>2, FatWritten
  <2>4. QED
    BY <2>1, <2>3 DEF V
<1>13. Ready(F) /\ Untouched(W(N), F, K)
  <2>1. Grown(W(N), F)
    BY <1>1, <1>7, <1>11, <1>12 DEF Grown
  <2> HIDE DEF F, W
  <2>2. QED
    BY <1>2, <1>10, <1>11, <1>12, <2>1, ReadyGrows
<1>14. AddEntry(t, e) \in Tables
  BY <1>3, <1>4, TableTypes
<1>15. /\ G \in Disks /\ G.fat = F.fat /\ G.signed = d.signed
       /\ Tab(G, parent) = AddEntry(t, e)
       /\ \A b \in DataClusters \ {parent} : Tab(G, b) = Tab(F, b) /\ Dat(G, b) = Dat(F, b)
  <2> DEFINE t2 == AddEntry(t, e)
  <2>1. t2 \in Tables /\ G = WriteTable(F, parent, t2)
    BY <1>14
  <2> HIDE DEF F, G, t2
  <2>2. /\ G \in Disks /\ G.fat = F.fat /\ G.signed = F.signed
        /\ Tab(G, parent) = t2
        /\ \A b \in DataClusters \ {parent} : Tab(G, b) = Tab(F, b) /\ Dat(G, b) = Dat(F, b)
    BY <1>4, <1>12, <2>1, TableWritten
  <2>3. QED
    BY <1>12, <2>2 DEF t2
<1>16. Tab(F, parent) = t /\ parent \in Directories(F) /\ Directories(F) = Directories(d)
  <2>1. Directories(F) = Directories(d)
    BY <1>2, <1>12, SameTables
  <2>2. QED
    BY <1>4, <1>12, <2>1 DEF t
<1>17. /\ FreeSlots(t) = {} => AddEntry(t, e) = t
       /\ FreeSlots(t) # {} =>
            /\ Least(FreeSlots(t)) \in Slots /\ Least(FreeSlots(t)) >= 2
            /\ ~ t[Least(FreeSlots(t))].used
            /\ AddEntry(t, e) = [t EXCEPT ![Least(FreeSlots(t))] = e]
  BY <1>2, <1>3, AddSlot DEF Sound, t
<1> HIDE DEF F, G
<1>18. EntryOk(F, e) /\ Owned(F, e) = A /\ StoredBut(F, e, p, 0)
  <2>1. ChainIs(F.fat, e.cluster, CeilDiv(e.filesize) - 1)
    BY <1>1, <1>3, <1>12 DEF N
  <2>2. Owned(F, e) = A
    BY <1>1, <1>3, <1>12, <2>1, OwnedFacts DEF N
  <2>3. \A b \in A : Tab(F, b) = EmptyTable
    BY <1>1, <1>12, FreeFacts
  <2>4. StoredBut(F, e, p, 0)
    <3>1. c \in Clusters
      BY <1>1, ClusterFacts
    <3>2. QED
      BY <1>1, <1>2, <1>12, <3>1, WrittenData DEF e, N
  <2>5. 0 \in 0 .. CeilDiv(e.filesize)
    BY <1>2, <1>3 DEF N
  <2>6. QED
    BY <2>1, <2>2, <2>3, <2>4, <2>5 DEF EntryOk
<1>19. Ready(G) /\ Untouched(F, G, K) /\ Directories(G) = Directories(d)
  <2>1. CASE FreeSlots(t) = {}
    <3>1. \A b \in DataClusters : Tab(G, b) = Tab(F, b)
      BY <1>15, <1>16, <1>17, <2>1
    <3>2. Grown(F, G)
      BY <1>15, <3>1 DEF Grown
    <3>3. ASSUME NEW b \in DataClusters, Tab(F, b) = EmptyTable
          PROVE  Dat(G, b) = Dat(F, b)
      <4>1. b # parent
        BY <1>5, <1>16, <3>3, SlotTypes DEF EmptyTable, EmptyEntry
      <4>2. QED
        BY <1>15, <4>1
    <3>4. Directories(G) = Directories(F)
      BY <1>12, <1>15, <3>1, SameTables
    <3>5. QED
      BY <1>2, <1>13, <1>15, <1>16, <3>2, <3>3, <3>4, ReadyGrows
  <2>2. CASE FreeSlots(t) # {}
    <3> DEFINE i == Least(FreeSlots(t))
    <3>1. /\ i \in Slots /\ i >= 2 /\ ~ t[i].used
          /\ AddEntry(t, e) = [t EXCEPT ![i] = e]
      BY <1>17, <2>2
    <3> HIDE DEF i
    <3>2. SlotWritten(F, G, parent, i, e)
      BY <1>15, <1>16, <3>1 DEF SlotWritten
    <3>3. EntryOk(F, e) /\ Owned(F, e) = A
      BY <1>18
    <3>4. ASSUME NEW k \in Listed(F) PROVE Owned(F, e) \cap Owned(F, EntryAt(F, k)) = {}
      <4>1. k \in Listed(d) /\ EntryAt(F, k) = EntryAt(d, k) /\ EntryAt(d, k) \in Entries
        BY <1>2, <1>12, <3>4, SameTables, TabTypes
      <4>2. FileOk(d, k) /\ EntryOk(d, EntryAt(d, k))
        BY <1>2, <4>1 DEF Sound, FileOk
      <4>3. \A b \in A : b \notin Owned(d, EntryAt(d, k))
        BY <1>1, <4>1, FreeFacts
      <4>4. Owned(F, EntryAt(d, k)) = Owned(d, EntryAt(d, k))
        <5>1. CASE ~ IsFile(EntryAt(d, k))
          BY <1>2, <1>12, <4>1, <5>1, OwnedFacts
        <5>2. CASE IsFile(EntryAt(d, k))
          <6> DEFINE g == EntryAt(d, k)
                     q == CeilDiv(g.filesize) - 1
          <6>1. /\ ChainIs(d.fat, g.cluster, q) /\ g.cluster \in Clusters
                /\ Owned(d, g) = OnChain(d.fat, g.cluster, q)
            BY <1>2, <4>1, <4>2, <5>2, OwnedFacts DEF EntryOk, Entries
          <6>2. Owned(d, g) \subseteq DataClusters
            BY <1>2, <4>1, <4>2, <5>2, FilesTaken
          <6>3. \A b \in Owned(d, g) : m[b] = d.fat[b]
            BY <1>1, <4>3, <6>2, ClusterFacts
          <6>4. d.fat \in FatMaps
            BY <1>2, TabTypes
          <6> HIDE DEF q, g
          <6>5. ChainIs(m, g.cluster, q) /\ OnChain(m, g.cluster, q) = OnChain(d.fat, g.cluster, q)
            BY <1>1, <6>1, <6>3, <6>4, SameChain
          <6>6. Owned(F, g) = OnChain(m, g.cluster, q)
            BY <1>12, <4>1, <5>2, <6>5, OwnedFacts DEF q, g
          <6>7. QED
            BY <6>1, <6>5, <6>6 DEF g
        <5>3. QED
          BY <5>1, <5>2
      <4>5. QED
        BY <3>3, <4>1, <4>3, <4>4
    <3>5. Sound(F) /\ e.cluster \in DataClusters /\ ROOT_CLUSTER_NUMBER \notin Owned(F, e)
      BY <1>1, <1>3, <1>13, <3>3 DEF Ready
    <3>6. /\ Sound(G)
          /\ \A k \in Listed(F) : KeptEntry(F, G, k)
          /\ TreeBut(F, {}) => TreeBut(G, {})
          /\ Flat(F) => Flat(G)
          /\ Directories(G) = Directories(F)
      BY <1>3, <1>12, <1>15, <1>16, <3>1, <3>2, <3>3, <3>4, <3>5, EnterStep
    <3>7. Untouched(F, G, K)
      BY <1>12, <1>15, <3>5, <3>6, KeptUntouched
    <3>8. QED
      BY <1>2, <1>13, <1>15, <1>16, <3>6, <3>7 DEF Ready
  <2>3. QED
    BY <2>1, <2>2
<1> DEFINE s == WriteImages(d, m, c, p, N, parent, AddEntry(t, e))
<1>20. /\ Len(s) = N + 2
       /\ \A i \in 1 .. N + 2 : s[i] = IF i <= N THEN W(i) ELSE IF i = N + 1 THEN F ELSE G
  <2> DEFINE D == [i \in 1 .. N |-> W(i)]
  <2>1. \A i \in 1 .. N : W(i) \in Disks
    <3>1. \A i \in 1 .. N : i \in 0 .. N
      BY <1>2
    <3>2. QED
      BY <1>7, <3>1
  <2> HIDE DEF W
  <2>2. D \in Seq(Disks) /\ Len(D) = N
    BY <1>2, <2>1
  <2>3. \A i \in 1 .. N : D[i] = W(i)
    OBVIOUS
  <2>4. s = D \o <<F, G>>
    BY DEF WriteImages, W, F, G
  <2> HIDE DEF D, s
  <2>5. /\ Len(s) = N + 2
        /\ \A i \in 1 .. N + 2 : s[i] = IF i <= N THEN D[i] ELSE IF i = N + 1 THEN F ELSE G
    <3>1. F \in Disks /\ G \in Disks
      BY <1>12, <1>15
    <3> HIDE DEF F, G
    <3>2. /\ Len(D \o <<F, G>>) = Len(D) + 2
          /\ \A i \in 1 .. Len(D) + 2 :
               (D \o <<F, G>>)[i] = IF i <= Len(D) THEN D[i]
                                   ELSE IF i = Len(D) + 1 THEN F ELSE G
      BY <2>2, <3>1, AppendImages
    <3>3. QED
      BY <2>2, <2>4, <3>2, Zenon
  <2>6. QED
    BY <1>2, <2>3, <2>5
<1> HIDE DEF s, W, Like
<1>21. LinedUp(d, s, K)
  <2>1. ASSUME NEW i \in 1 .. N + 2
        PROVE  Ready(s[i]) /\ Untouched(Prev(d, s, i), s[i], K)
    <3>1. CASE i = 1
      <4>1. s[1] = W(1) /\ 1 \in 0 .. N
        BY <1>1, <1>2, <1>20
      <4>2. QED
        BY <1>8, <1>9, <1>10, <3>1, <4>1 DEF Prev
    <3>2. CASE i # 1 /\ i <= N
      <4>1. s[i] = W(i) /\ s[i - 1] = W(i - 1) /\ i \in 0 .. N /\ i - 1 \in 0 .. N
        BY <1>2, <1>20, <3>2
      <4>2. QED
        BY <1>8, <1>9, <1>10, <3>2, <4>1 DEF Prev
    <3>3. CASE i = N + 1
      <4>1. s[i] = F /\ s[i - 1] = W(N) /\ i # 1
        BY <1>1, <1>2, <1>20, <3>3
      <4>2. QED
        BY <1>13, <4>1 DEF Prev
    <3>4. CASE i = N + 2
      <4>1. s[i] = G /\ s[i - 1] = F /\ i # 1
        BY <1>2, <1>20, <3>4
      <4>2. QED
        BY <1>19, <4>1 DEF Prev
    <3>5. QED
      BY <1>2, <3>1, <3>2, <3>3, <3>4
  <2>2. s[N + 2] = G /\ N + 2 \in 1 .. N + 2
    BY <1>2, <1>20
  <2>3. QED
    BY <1>19, <1>20, <2>1, <2>2, ReadyImage DEF LinedUp, Outstanding
<1>22. /\ Only(d, G, A \cup {parent})
        /\ \A b \in A : Tab(G, b) = EmptyTable
  <2>1. ASSUME NEW b \in DataClusters \ (A \cup {parent})
        PROVE  G.fat[b] = d.fat[b] /\ Tab(G, b) = Tab(d, b) /\ Dat(G, b) = Dat(d, b)
    <3>1. Tab(G, b) = Tab(d, b) /\ Dat(G, b) = Dat(W(N), b)
      BY <1>12, <1>15
    <3>2. Dat(W(N), b) = Dat(d, b)
      BY <1>7, <1>11
    <3>3. G.fat[b] = d.fat[b]
      BY <1>1, <1>12, <1>15, ClusterFacts
    <3>4. QED
      BY <3>1, <3>2, <3>3
  <2>2. ASSUME NEW b \in A PROVE Tab(G, b) = EmptyTable
    <3>1. b \in DataClusters /\ b # parent /\ Tab(d, b) = EmptyTable
      BY <1>1, <1>6, FreeFacts
    <3>2. QED
      BY <1>12, <1>15, <3>1
  <2>3. QED
    BY <2>1, <2>2 DEF Only
<1>23. StoredBut(G, e, p, 0)
  <2>1. SameClusters(F, G, e)
    <3>1. \A b \in A : b \in DataClusters \ {parent}
      BY <1>1, <1>6
    <3>2. QED
      BY <1>15, <1>18, <3>1 DEF SameClusters
  <2>2. Contents(G, e) = Contents(F, e)
    BY <1>3, <1>12, <1>15, <1>18, <2>1, SameEntry
  <2>3. QED
    BY <1>18, <2>2 DEF StoredBut
<1>24. G = s[Len(s)]
  BY <1>2, <1>20
<1>25. Filled(d, G, A, parent, e)
  <2>1. \A y \in A, j \in Slots \ {0, 1} : ~ EmptyTable[j].used
    BY DEF EmptyTable, EmptyEntry
  <2>2. QED
    BY <1>1, <1>6, <1>15, <1>22, <2>1 DEF Filled, t
<1>26. Final(s) = G
  BY <1>24 DEF Final
<1>27. QED
  <2>1. LinedUp(d, s, K) /\ Filled(d, Final(s), A, parent, e)
        /\ (\A y \in A : Tab(Final(s), y) = EmptyTable) /\ StoredBut(Final(s), e, p, 0)
    BY <1>21, <1>22, <1>23, <1>25, <1>26
  <2>2. QED
    BY <2>1 DEF s, m, c, N, e, t, Tab

-----------------------------------------------------------------------------
(* The images of write() for a directory.                                  *)

(* Three images in a row.                                                  *)
LEMMA ThreeImages ==
  ASSUME NEW d, NEW a, NEW b, NEW c, NEW K, Image(a, K), Image(b, K), Ready(c),
         Untouched(d, a, K), Untouched(a, b, K), Untouched(b, c, K),
         ROOT_CLUSTER_NUMBER \in Directories(d) =>
           ROOT_CLUSTER_NUMBER \in Directories(c)
  PROVE  LinedUp(d, <<a, b, c>>, K)
<1> DEFINE s == <<a, b, c>>
<1>1. Len(s) = 3 /\ s[1] = a /\ s[2] = b /\ s[3] = c
  OBVIOUS
<1> HIDE DEF s
<1>2. Prev(d, s, 1) = d /\ Prev(d, s, 2) = a /\ Prev(d, s, 3) = b
  BY <1>1 DEF Prev
<1>3. Image(c, K)
  BY ReadyImage
<1>4. ASSUME NEW i \in 1 .. 3 PROVE Image(s[i], K) /\ Untouched(Prev(d, s, i), s[i], K)
  <2>1. i = 1 \/ i = 2 \/ i = 3
    OBVIOUS
  <2>2. QED
    BY <1>1, <1>2, <1>3, <2>1
<1>5. QED
  BY <1>1, <1>4 DEF LinedUp, Outstanding, s

(* A tree whose broken entry l is given the table that it leads to is      *)
(* whole again.                                                            *)
LEMMA TableTree ==
  ASSUME NEW a \in Disks, NEW b \in Disks, Sound(a), Sound(b), NEW l \in Listed(a),
         TreeBut(a, {l}), ~ IsFile(EntryAt(a, l)), NEW c,
         c = EntryAt(a, l).cluster, c # ROOT_CLUSTER_NUMBER, b.fat = a.fat,
         a.fat[c] = FAT32_FAT_END_OF_FILE,
         \A x \in DataClusters \ {c} : Tab(b, x) = Tab(a, x),
         Tab(b, c)[0] = EntryAt(a, l), Tab(b, c)[1].used,
         Tab(b, c)[1].name = "..", Tab(b, c)[1].cluster = l[1],
         Listed(b) = Listed(a), Directories(b) = Directories(a) \cup {c},
         \A k \in Listed(a) : KeptEntry(a, b, k)
  PROVE  TreeBut(b, {})
<1>1. TablesOk(a) /\ \A k \in Listed(a) : FileOk(a, k)
  BY DEF Sound
<1>2. Owned(a, EntryAt(a, l)) = {c}
  <2>1. EntryAt(a, l) \in Entries
    BY TabTypes
  <2>2. QED
    BY <2>1, OwnedFacts
<1>3. ASSUME NEW k \in Listed(a), k # l PROVE EntryWhole(b, k)
  <2>1. EntryWhole(a, k) /\ FileOk(a, k) /\ KeptEntry(a, b, k)
    BY <1>1, <1>3 DEF TreeBut
  <2>2. k[1] \in Directories(b)
    BY <1>1, <1>3, ListedInDirectory
  <2>3. ASSUME ~ IsFile(EntryAt(a, k))
        PROVE  Tab(b, EntryAt(a, k).cluster) = Tab(a, EntryAt(a, k).cluster)
    <3>1. EntryAt(a, k) \in Entries
      BY <1>3, TabTypes
    <3>2. EntryAt(a, k).cluster \in DataClusters
      BY <1>1, <1>3, ListedInDirectory
    <3>3. Owned(a, EntryAt(a, k)) = {EntryAt(a, k).cluster}
      BY <2>3, <3>1, OwnedFacts
    <3>4. EntryAt(a, k).cluster # c
      BY <1>2, <1>3, <3>3 DEF Sound, Apart
    <3>5. QED
      BY <3>2, <3>4
  <2>4. QED
    BY <2>1, <2>2, <2>3, WholeKept
<1>4. EntryWhole(b, l)
  <2>1. EntryAt(b, l) = EntryAt(a, l)
    BY DEF KeptEntry
  <2>2. Owned(b, EntryAt(b, l)) = {c}
    <3>1. EntryAt(a, l) \in Entries
      BY TabTypes
    <3>2. QED
      BY <2>1, <3>1, OwnedFacts
  <2>3. l[1] \in Directories(b)
    BY <1>1, ListedInDirectory
  <2>4. c \in DataClusters
    BY <1>1, ListedInDirectory
  <2>5. QED
    BY <2>1, <2>2, <2>3, <2>4, ClusterFacts DEF EntryWhole, Tab
<1>5. ASSUME NEW x \in Directories(b) \ {ROOT_CLUSTER_NUMBER} PROVE Entered(b, x)
  <2>1. \A k \in Listed(a) : EntryAt(b, k) = EntryAt(a, k)
    BY DEF KeptEntry
  <2>2. Entered(a, x)
    <3>1. CASE x = c
      BY <3>1 DEF Entered
    <3>2. CASE x # c
      BY <1>5, <3>2 DEF TreeBut
    <3>3. QED
      BY <3>1, <3>2
  <2>3. QED
    BY <2>1, <2>2 DEF Entered
<1>6. ASSUME ROOT_CLUSTER_NUMBER \in Directories(b), NEW j \in {0, 1}
      PROVE  Tab(b, ROOT_CLUSTER_NUMBER)[j].cluster = ROOT_CLUSTER_NUMBER
  <2>1. Tab(b, ROOT_CLUSTER_NUMBER) = Tab(a, ROOT_CLUSTER_NUMBER)
    BY ClusterFacts
  <2>2. QED
    BY <1>6, <2>1 DEF TreeBut
<1>7. QED
  BY <1>3, <1>4, <1>5, <1>6 DEF TreeBut

(* A directory's own entry leads to it.                                    *)
LEMMA OwnEntry ==
  ASSUME NEW d \in Disks, TreeBut(d, {}), NEW c \in Directories(d)
  PROVE  Tab(d, c)[0].cluster = c
<1>1. CASE c = ROOT_CLUSTER_NUMBER
  BY <1>1 DEF TreeBut
<1>2. CASE c # ROOT_CLUSTER_NUMBER
  <2>1. PICK l \in Listed(d) : ~ IsFile(EntryAt(d, l)) /\ EntryAt(d, l).cluster = c
    BY <1>2 DEF TreeBut, Entered
  <2>2. EntryWhole(d, l)
    BY DEF TreeBut
  <2>3. QED
    BY <2>1, <2>2 DEF EntryWhole, Tab
<1>3. QED
  BY <1>1, <1>2

(* The cluster that a new directory is given.                              *)
LEMMA NewCluster ==
  ASSUME NEW d, Ready(d), Directories(d) # {}, NEW index,
         EmptyClusters(d.fat, ROOT_CLUSTER_NUMBER + 1) # {},
         index = Least(EmptyClusters(d.fat, 1))
  PROVE  /\ index \in DataClusters /\ index # ROOT_CLUSTER_NUMBER
         /\ d.fat[index] = FAT32_FAT_EMPTY_ENTRY
<1>1. PICK c \in Directories(d) : TRUE
  OBVIOUS
<1>2. c \in DataClusters /\ Tab(d, c)[0].used
  BY <1>1, ListedFacts
<1>3. d.fat[1] # FAT32_FAT_EMPTY_ENTRY /\ d.fat[2] # FAT32_FAT_EMPTY_ENTRY
  BY <1>2 DEF Ready, Sound, TablesOk
<1> DEFINE S == EmptyClusters(d.fat, 1)
<1>4. S \in SUBSET Nat
  BY DEF EmptyClusters
<1>5. S # {}
  BY ClusterFacts DEF EmptyClusters, ROOT_CLUSTER_NUMBER
<1> HIDE DEF S
<1>6. index \in S
  BY <1>4, <1>5, LeastProperties DEF S
<1>7. index \in 1 .. ClusterMapSize - 1 /\ d.fat[index] = FAT32_FAT_EMPTY_ENTRY
  BY <1>6 DEF S, EmptyClusters
<1>8. QED
  BY <1>3, <1>7, ClusterFacts DEF DataClusters, ROOT_CLUSTER_NUMBER

(* The cluster is taken in the FAT, the directory is entered, and then its *)
(* table is written: in between its entry may be broken, and no other.     *)
LEMMA MakeLinedUp ==
  ASSUME NEW d, Ready(d), NEW parent \in Directories(d), NEW n \in AllNames,
         0 \in Sizes, FreeSlots(d.cell[parent].table) # {},
         EmptyClusters(d.fat, ROOT_CLUSTER_NUMBER + 1) # {}
  PROVE  LET b == Least(EmptyClusters(d.fat, 1))
             s == InitDirectoryTable(d, d.fat, n, parent)
         IN  /\ LinedUp(d, s, <<parent, n, Blank>>)
             /\ Filled(d, Final(s), {b}, parent, DirEntry(n, b))
             /\ Tab(Final(s), b)[0] = DirEntry(n, b) /\ Tab(Final(s), b)[1].name = ".."
<1> DEFINE K == <<parent, n, Blank>>
           index == Least(EmptyClusters(d.fat, 1))
           self == DirEntry(n, index)
           m == [d.fat EXCEPT ![index] = FAT32_FAT_END_OF_FILE]
           F == WriteFat(d, m)
           t == Tab(d, parent)
           above == AddEntry(t, self)
           i == Least(FreeSlots(t))
           l == <<parent, i>>
           G == WriteTable(F, parent, above)
           table == [EmptyTable EXCEPT ![0] = self, ![1] = [above[0] EXCEPT !.name = ".."]]
           H == WriteTable(G, index, table)
<1>1. /\ index \in DataClusters /\ index # ROOT_CLUSTER_NUMBER /\ index \in Clusters
      /\ d.fat[index] = FAT32_FAT_EMPTY_ENTRY
  BY NewCluster, ClusterFacts
<1>2. d \in Disks /\ d.signed /\ Sound(d) /\ TreeBut(d, {}) /\ TablesOk(d)
  BY DEF Ready, Sound
<1>3. InitDirectoryTable(d, d.fat, n, parent) = <<F, G, H>>
  <2>1. index # ROOT_CLUSTER_NUMBER
    BY <1>1
  <2>2. QED
    BY <2>1 DEF InitDirectoryTable, Tab
<1> HIDE DEF index
<1>4. /\ self \in Entries /\ self.used /\ self.cluster = index /\ self.name = n
      /\ self.ext = Blank /\ self.filesize = 0 /\ ~ IsFile(self)
  <2>1. Blank \in AllExts /\ 0 \in Nat
    BY DEF AllExts
  <2>2. self \in Entries
    BY <1>1, <2>1, EntryTypes
  <2>3. QED
    BY <2>2 DEF DirEntry, IsFile
<1>5. parent \in DataClusters /\ t \in Tables /\ t[0].used /\ t[1].used
  <2>1. parent \in DataClusters /\ t[0].used
    BY ListedFacts
  <2>2. QED
    BY <1>2, <2>1, TabTypes DEF TablesOk
<1>6. t[0].cluster = parent /\ t[0].filesize = 0 /\ t[0] \in Entries
  BY <1>2, <1>5, OwnEntry, TabTypes, SlotTypes DEF TablesOk
<1>7. /\ i \in Slots /\ i >= 2 /\ ~ t[i].used
      /\ above = [t EXCEPT ![i] = self]
  <2>1. FreeSlots(t) # {}
    BY DEF Tab
  <2> HIDE DEF self
  <2>2. QED
    BY <1>2, <1>4, <2>1, AddSlot
<1>8. Tab(d, index) = EmptyTable /\ \A k \in Listed(d) : index \notin Owned(d, EntryAt(d, k))
  BY <1>1, FreeFacts
<1>9. parent # index
  <2>1. ~ EmptyTable[0].used
    BY SlotTypes DEF EmptyTable, EmptyEntry
  <2>2. QED
    BY <1>5, <1>8, <2>1
<1>10. m \in FatMaps /\ m[index] = FAT32_FAT_END_OF_FILE
       /\ \A c \in Clusters \ {index} : m[c] = d.fat[c]
  <2>1. d.fat \in FatMaps
    BY <1>2, TabTypes
  <2>2. FAT32_FAT_END_OF_FILE \in FatValues
    BY DEF FatValues
  <2>3. QED
    BY <1>1, <2>1, <2>2 DEF FatMaps
<1> HIDE DEF m
<1>11. /\ F \in Disks /\ F.fat = m /\ F.signed
       /\ \A c \in DataClusters : Tab(F, c) = Tab(d, c) /\ Dat(F, c) = Dat(d, c)
  <2>1. F = WriteFat(d, m)
    OBVIOUS
  <2> HIDE DEF F
  <2>2. QED
    BY <1>2, <1>10, <2>1, FatWritten
<1>12. above \in Tables
  BY <1>4, <1>5, TableTypes
<1> HIDE DEF above
<1>13. /\ G \in Disks /\ G.fat = m /\ G.signed /\ Tab(G, parent) = above
       /\ \A c \in DataClusters \ {parent} : Tab(G, c) = Tab(F, c) /\ Dat(G, c) = Dat(F, c)
  <2>1. G = WriteTable(F, parent, above)
    OBVIOUS
  <2> HIDE DEF F, G
  <2>2. QED
    BY <1>5, <1>11, <1>12, <2>1, TableWritten
<1>14. above[0] = t[0]
  BY <1>5, <1>7, SlotTypes DEF Tables
<1>15. /\ table \in Tables /\ table[0] = self
       /\ table[1].used /\ table[1].name = ".." /\ table[1].cluster = parent
       /\ table[1].filesize = 0
       /\ \A j \in Slots \ {0, 1} : table[j] = EmptyEntry
  <2> DEFINE up == [above[0] EXCEPT !.name = ".."]
  <2>1. up \in Entries
    BY <1>6, <1>14 DEF Entries, AllNames
  <2>2. up.used /\ up.name = ".." /\ up.cluster = parent /\ up.filesize = 0
    BY <1>5, <1>6, <1>14 DEF Entries
  <2>3. table = [EmptyTable EXCEPT ![0] = self, ![1] = up]
    OBVIOUS
  <2> HIDE DEF up, self
  <2>4. EmptyTable = [j \in Slots |-> EmptyEntry] /\ EmptyEntry \in Entries
    BY EmptyTypes DEF EmptyTable
  <2>5. QED
    BY <1>4, <2>1, <2>2, <2>3, <2>4, SlotTypes DEF Tables
<1> HIDE DEF table
<1>16. /\ H \in Disks /\ H.fat = m /\ H.signed /\ Tab(H, index) = table
       /\ \A c \in DataClusters \ {index} : Tab(H, c) = Tab(G, c) /\ Dat(H, c) = Dat(G, c)
  <2>1. H = WriteTable(G, index, table)
    OBVIOUS
  <2> HIDE DEF G, H
  <2>2. QED
    BY <1>1, <1>13, <1>15, <2>1, TableWritten
<1> HIDE DEF F, G, H, self, t, i
<1>17. Ready(F) /\ Untouched(d, F, K) /\ Directories(F) = Directories(d)
       /\ \A k \in Listed(F) : index \notin Owned(F, EntryAt(F, k))
  <2>1. Grown(d, F)
    BY <1>1, <1>10, <1>11 DEF Grown
  <2>2. Ready(F) /\ Untouched(d, F, K)
    BY <1>11, <2>1, ReadyGrows
  <2>3. Directories(F) = Directories(d) /\ Listed(F) = Listed(d)
    BY <1>2, <1>11, SameTables
  <2>4. \A k \in Listed(d) : KeptEntry(d, F, k)
    BY <1>2, <1>11, <2>1, GrowStep
  <2>5. ASSUME NEW k \in Listed(F) PROVE index \notin Owned(F, EntryAt(F, k))
    <3>1. k \in Listed(d) /\ KeptEntry(d, F, k) /\ FileOk(d, k)
      BY <1>2, <2>3, <2>4 DEF Sound
    <3>2. Owned(F, EntryAt(F, k)) = Owned(d, EntryAt(d, k))
      BY <1>2, <1>11, <3>1, KeptFacts
    <3>3. QED
      BY <1>8, <3>1, <3>2
  <2>6. QED
    BY <2>2, <2>3, <2>5
<1>18. SlotWritten(F, G, parent, i, self)
  BY <1>5, <1>7, <1>11, <1>13 DEF SlotWritten, t
<1>19. Owned(F, self) = {index} /\ EntryOk(F, self)
  BY <1>4, <1>11, OwnedFacts DEF EntryOk
<1>20. Sound(F) /\ TreeBut(F, {}) /\ parent \in Directories(F) /\ ~ Tab(F, parent)[i].used
  BY <1>5, <1>7, <1>11, <1>17 DEF Ready, t
<1>21. /\ Sound(G)
       /\ \A k \in Listed(F) : KeptEntry(F, G, k)
       /\ TreeBut(G, {} \cup {<<parent, i>>})
       /\ Listed(G) = Listed(F) \cup {<<parent, i>>}
       /\ EntryAt(G, <<parent, i>>) = self
       /\ Directories(G) = Directories(F)
  <2>1. ROOT_CLUSTER_NUMBER \notin Owned(F, self) /\ self.cluster \in DataClusters
    BY <1>1, <1>4, <1>19
  <2>2. \A k \in Listed(F) : Owned(F, self) \cap Owned(F, EntryAt(F, k)) = {}
    BY <1>17, <1>19
  <2>3. QED
    BY <1>4, <1>7, <1>11, <1>13, <1>18, <1>19, <1>20, <2>1, <2>2, EnterStep
<1>22. /\ l \in Listed(G) /\ EntryAt(G, l) = self /\ l[1] = parent /\ TreeBut(G, {l})
       /\ Key(G, l) = K
  <2>1. {} \cup {<<parent, i>>} = {l}
    OBVIOUS
  <2>2. Key(G, l) = K
    BY <1>4, <1>21 DEF Key
  <2>3. QED
    BY <1>21, <2>1, <2>2
<1> HIDE DEF l
<1>23. Image(G, K) /\ Untouched(F, G, K)
  <2>1. TreeBut(G, NamedBy(G, K))
    <3>1. l \in NamedBy(G, K)
      BY <1>22 DEF NamedBy
    <3>2. QED
      BY <1>22, <3>1, TreeMore
  <2>2. QED
    BY <1>11, <1>13, <1>20, <1>21, <2>1, KeptUntouched DEF Image
<1>24. index \notin Directories(G) /\ Tab(G, index) = EmptyTable
  <2>1. Tab(G, index) = EmptyTable
    BY <1>1, <1>8, <1>9, <1>11, <1>13
  <2>2. ~ EmptyTable[0].used
    BY SlotTypes DEF EmptyTable, EmptyEntry
  <2>3. QED
    BY <2>1, <2>2, ListedFacts
<1>25. ASSUME NEW k \in Listed(G), IsFile(EntryAt(G, k))
       PROVE  index \notin Owned(G, EntryAt(G, k))
  <2>1. k # l
    BY <1>4, <1>22, <1>25
  <2>2. Owned(G, EntryAt(G, l)) = {index}
    BY <1>4, <1>13, <1>22, OwnedFacts
  <2>3. QED
    BY <1>21, <1>22, <1>25, <2>1, <2>2 DEF Sound, Apart
<1>26. /\ Sound(H) /\ Listed(H) = Listed(G)
       /\ \A k \in Listed(G) : KeptEntry(G, H, k)
       /\ Directories(H) = Directories(G) \cup {index}
  <2>1. /\ G.fat[index] # FAT32_FAT_EMPTY_ENTRY
        /\ G.fat[1] # FAT32_FAT_EMPTY_ENTRY /\ G.fat[2] # FAT32_FAT_EMPTY_ENTRY
    <3>1. G.fat[index] # FAT32_FAT_EMPTY_ENTRY
      BY <1>10, <1>13, ClusterFacts
    <3>2. /\ parent \in Directories(G) /\ parent \in DataClusters
      BY <1>5, <1>20, <1>21
    <3>3. Tab(G, parent)[0].used
      BY <3>2, ListedFacts
    <3>4. QED
      BY <1>21, <3>1, <3>2, <3>3 DEF Sound, TablesOk
  <2>2. \A j \in {0, 1} : /\ Tab(H, index)[j].used /\ Tab(H, index)[j].filesize = 0
                          /\ Tab(H, index)[j].cluster \in DataClusters
    BY <1>1, <1>4, <1>5, <1>15, <1>16
  <2>3. \A j \in Slots \ {0, 1} : Tab(H, index)[j] = EmptyEntry
    BY <1>15, <1>16
  <2>4. H.fat = G.fat
    BY <1>13, <1>16
  <2>5. QED
    BY <1>1, <1>13, <1>16, <1>21, <1>24, <1>25, <2>1, <2>2, <2>3, <2>4, TableStep
<1>27. TreeBut(H, {})
  <2>1. G.fat[index] = FAT32_FAT_END_OF_FILE /\ H.fat = G.fat
    BY <1>10, <1>13, <1>16
  <2>2. Tab(H, index)[0] = EntryAt(G, l) /\ Tab(H, index)[1].used
        /\ Tab(H, index)[1].name = ".." /\ Tab(H, index)[1].cluster = l[1]
    BY <1>15, <1>16, <1>22
  <2>3. index = EntryAt(G, l).cluster /\ ~ IsFile(EntryAt(G, l))
    BY <1>4, <1>22
  <2>4. QED
    BY <1>1, <1>13, <1>16, <1>21, <1>22, <1>26, <2>1, <2>2, <2>3, TableTree
<1>28. Ready(H) /\ Untouched(G, H, K)
  BY <1>13, <1>16, <1>21, <1>26, <1>27, KeptUntouched DEF Ready
<1>29. Image(F, K)
  BY <1>17, ReadyImage
<1>30. ROOT_CLUSTER_NUMBER \in Directories(d) => ROOT_CLUSTER_NUMBER \in Directories(H)
  BY <1>17, <1>21, <1>26
<1> HIDE DEF K
<1>31. LinedUp(d, <<F, G, H>>, K)
  BY <1>17, <1>23, <1>28, <1>29, <1>30, ThreeImages
<1>32. /\ Only(d, H, {index} \cup {parent}) /\ Tab(H, parent) = above
       /\ \A j \in Slots \ {0, 1} : ~ Tab(H, index)[j].used
  <2>1. ASSUME NEW y \in DataClusters \ ({index} \cup {parent})
        PROVE  H.fat[y] = d.fat[y] /\ Tab(H, y) = Tab(d, y) /\ Dat(H, y) = Dat(d, y)
    <3>1. /\ y \in Clusters \ {index} /\ y \in DataClusters \ {index}
          /\ y \in DataClusters \ {parent}
      BY ClusterFacts
    <3>2. QED
      BY <1>10, <1>11, <1>13, <1>16, <3>1
  <2>2. Tab(H, parent) = above
    BY <1>5, <1>9, <1>13, <1>16
  <2>3. ~ EmptyEntry.used
    BY DEF EmptyEntry
  <2>4. QED
    BY <1>15, <1>16, <2>1, <2>2, <2>3 DEF Only
<1>33. QED
  <2>1. Final(<<F, G, H>>) = H
    BY DEF Final
  <2>2. Filled(d, H, {index}, parent, self)
    BY <1>1, <1>9, <1>32 DEF Filled, above, t
  <2>3. LinedUp(d, <<F, G, H>>, <<parent, n, Blank>>)
    BY <1>31 DEF K
  <2>4. Tab(H, index)[0] = self /\ Tab(H, index)[1].name = ".."
    BY <1>15, <1>16
  <2>5. QED
    BY <1>3, <2>1, <2>2, <2>3, <2>4 DEF index, self

-----------------------------------------------------------------------------
(* The images of delete() for a directory.                                 *)

(* What a search by name finds is in use, below a directory.               *)
LEMMA FoundSlot ==
  ASSUME NEW d \in Disks, TablesOk(d), NEW parent \in DataClusters, NEW n, NEW x,
         n # Blank, SlotsNamed(Tab(d, parent), n, x) # {}, NEW i,
         i = Least(SlotsNamed(Tab(d, parent), n, x))
  PROVE  /\ i \in Slots /\ Tab(d, parent)[i].used
         /\ Tab(d, parent)[i].name = n /\ Tab(d, parent)[i].ext = x
         /\ parent \in Directories(d)
         /\ i >= 2 => /\ <<parent, i>> \in Listed(d)
                      /\ EntryAt(d, <<parent, i>>) = Tab(d, parent)[i]
                      /\ Key(d, <<parent, i>>) = <<parent, n, x>>
<1> DEFINE t == Tab(d, parent)
           S == SlotsNamed(t, n, x)
<1>1. S \in SUBSET Nat
  BY SlotTypes DEF SlotsNamed
<1>2. i \in S
  BY <1>1, LeastProperties
<1>3. i \in Slots /\ t[i].name = n /\ t[i].ext = x
  BY <1>2 DEF SlotsNamed
<1>4. t[i].used
  <2>1. EmptyEntry.name = Blank
    BY DEF EmptyEntry
  <2>2. QED
    BY <1>3, <2>1 DEF TablesOk
<1>5. t[0].used
  <2>1. EmptyTable[i] = EmptyEntry /\ ~ EmptyEntry.used
    BY <1>3 DEF EmptyTable, EmptyEntry
  <2>2. QED
    BY <1>4, <2>1 DEF TablesOk
<1>6. parent \in Directories(d)
  BY <1>5, ListedFacts
<1>7. ASSUME i >= 2
      PROVE  /\ <<parent, i>> \in Listed(d)
             /\ EntryAt(d, <<parent, i>>) = Tab(d, parent)[i]
             /\ Key(d, <<parent, i>>) = <<parent, n, x>>
  <2> DEFINE l == <<parent, i>>
  <2>1. l[1] = parent /\ l[2] = i /\ l \in DataClusters \X (Slots \ {0, 1})
    BY <1>3, <1>7
  <2> HIDE DEF l
  <2>2. l \in Listed(d) /\ EntryAt(d, l) = Tab(d, parent)[i]
    BY <1>4, <2>1, ListedFacts
  <2>3. Key(d, l) = <<parent, n, x>>
    BY <1>3, <2>1, <2>2 DEF Key
  <2>4. QED
    BY <2>2, <2>3 DEF l
<1>8. QED
  BY <1>3, <1>4, <1>6, <1>7

(* The search by the name of an empty directory below the root finds       *)
(* neither the directory's own entry nor that of its parent.               *)
LEMMA FoundDirectory ==
  ASSUME NEW d, Ready(d), NEW parent \in DataClusters, NEW n, NEW x,
         n # Blank, SlotsNamed(Tab(d, parent), n, x) # {}, NEW i,
         i = Least(SlotsNamed(Tab(d, parent), n, x)),
         n # Tab(d, parent)[0].name,
         Tab(d, parent)[i].cluster # ROOT_CLUSTER_NUMBER,
         Occupied(CellAt(d, Tab(d, parent)[i].cluster).table) = {}
  PROVE  i >= 2
<1> DEFINE t == Tab(d, parent)
<1>1. d \in Disks /\ TablesOk(d) /\ TreeBut(d, {})
  BY DEF Ready, Sound
<1>2. /\ i \in Slots /\ t[i].name = n /\ t[i].used /\ parent \in Directories(d)
      /\ i >= 2 => Key(d, <<parent, i>>) = <<parent, n, x>>
  BY <1>1, FoundSlot
<1>3. i # 0
  BY <1>2
<1>4. ASSUME i = 1 PROVE FALSE
  <2>1. parent # ROOT_CLUSTER_NUMBER
    BY <1>1, <1>2, <1>4 DEF TreeBut
  <2>2. PICK l \in Listed(d) : ~ IsFile(EntryAt(d, l)) /\ EntryAt(d, l).cluster = parent
    BY <1>1, <1>2, <2>1 DEF TreeBut, Entered
  <2>3. EntryWhole(d, l)
    BY <1>1 DEF TreeBut
  <2>4. t[1].cluster = l[1]
    BY <2>2, <2>3 DEF EntryWhole, Tab
  <2>5. /\ l[1] \in DataClusters /\ l[2] \in Slots /\ l[2] >= 2
        /\ Tab(d, l[1])[l[2]].used
    BY <1>1, TabTypes, ListedFacts
  <2>6. CellAt(d, t[i].cluster).table = Tab(d, l[1])
    BY <1>4, <2>4, <2>5 DEF CellAt, Tab
  <2>7. l[2] \in Occupied(Tab(d, l[1]))
    BY <2>5 DEF Occupied
  <2>8. QED
    BY <2>6, <2>7
<1>5. QED
  BY <1>2, <1>3, <1>4, SlotTypes

(* Its cluster is zeroed, freed, and then the entry is cleared.            *)
LEMMA DropLinedUp ==
  ASSUME NEW d, Ready(d), NEW parent \in DataClusters, NEW n, NEW x,
         n # Blank, SlotsNamed(Tab(d, parent), n, x) # {}, NEW i,
         i = Least(SlotsNamed(Tab(d, parent), n, x)),
         n # Tab(d, parent)[0].name,
         NEW c, c = Tab(d, parent)[i].cluster, c # ROOT_CLUSTER_NUMBER,
         Tab(d, parent)[i].filesize = 0,
         Occupied(CellAt(d, c).table) = {}
  PROVE  LET s == DeleteDirImages(d, c, parent, ClearEntry(Tab(d, parent), i))
         IN  /\ LinedUp(d, s, <<parent, n, x>>)
             /\ Cleared(d, Final(s), {c}, parent, i)
<1> DEFINE K == <<parent, n, x>>
           t == Tab(d, parent)
           l == <<parent, i>>
           m == [d.fat EXCEPT ![c] = FAT32_FAT_EMPTY_ENTRY]
           F == ZeroClusters(d, {c})
           G == WriteFat(F, m)
           t2 == ClearEntry(t, i)
           H == WriteTable(G, parent, t2)
<1>1. d \in Disks /\ d.signed /\ Sound(d) /\ TablesOk(d) /\ TreeBut(d, {})
  BY DEF Ready, Sound
<1>2. i >= 2
  BY FoundDirectory
<1>3. /\ i \in Slots /\ t[i].used /\ t[i].name = n /\ parent \in Directories(d)
      /\ l \in Listed(d) /\ EntryAt(d, l) = t[i] /\ Key(d, l) = K
  BY <1>1, <1>2, FoundSlot
<1>4. ~ IsFile(EntryAt(d, l)) /\ c = EntryAt(d, l).cluster
  BY <1>3 DEF IsFile
<1>5. 0 \in Sizes
  BY <1>3, <1>4 DEF Ready, Flat
<1>6. c \in DataClusters /\ c \in Clusters
  BY <1>1, <1>3, <1>4, ListedInDirectory, ClusterFacts
<1>7. parent # c
  <2>1. EntryWhole(d, l)
    BY <1>1, <1>3 DEF TreeBut
  <2>2. Tab(d, c)[0] = t[i]
    BY <1>3, <1>4, <2>1 DEF EntryWhole, Tab
  <2>3. QED
    BY <1>3, <2>2
<1>8. \A j \in Slots \ {0, 1} : ~ Tab(d, c)[j].used
  <2>1. CellAt(d, c).table = Tab(d, c)
    BY <1>6 DEF CellAt, Tab
  <2>2. ASSUME NEW j \in Slots \ {0, 1} PROVE j \in Slots /\ j >= 2
    BY SlotTypes
  <2>3. QED
    BY <2>1, <2>2 DEF Occupied
<1>9. /\ m \in FatMaps /\ \A y \in Clusters \ {c} : m[y] = d.fat[y]
  <2>1. d.fat \in FatMaps
    BY <1>1, TabTypes
  <2>2. FAT32_FAT_EMPTY_ENTRY \in FatValues
    BY ClusterFacts DEF FatValues, Clusters, FAT32_FAT_EMPTY_ENTRY
  <2>3. QED
    BY <1>6, <2>1, <2>2 DEF FatMaps
<1>10. t \in Tables /\ t2 \in Tables /\ t2 = [t EXCEPT ![i] = EmptyEntry]
  <2>1. t \in Tables
    BY <1>1, TabTypes
  <2>2. EmptyEntry \in Entries
    BY EmptyTypes
  <2>3. QED
    BY <2>1, <2>2, TableTypes DEF ClearEntry
<1>11. DeleteDirImages(d, c, parent, t2) = <<F, G, H>>
  BY DEF DeleteDirImages
<1> HIDE DEF m, t2
<1>12. /\ F \in Disks /\ F.fat = d.fat /\ F.signed /\ Tab(F, c) = EmptyTable
       /\ \A y \in DataClusters \ {c} : Tab(F, y) = Tab(d, y) /\ Dat(F, y) = Dat(d, y)
  <2>1. F = ZeroClusters(d, {c})
    OBVIOUS
  <2> HIDE DEF F
  <2>2. QED
    BY <1>1, <1>6, <2>1, ZeroWritten
<1>13. /\ G \in Disks /\ G.fat = m /\ G.signed
       /\ \A y \in DataClusters : Tab(G, y) = Tab(F, y) /\ Dat(G, y) = Dat(F, y)
  <2>1. G = WriteFat(F, m)
    OBVIOUS
  <2> HIDE DEF F, G
  <2>2. QED
    BY <1>9, <1>12, <2>1, FatWritten
<1>14. /\ H \in Disks /\ H.fat = G.fat /\ H.signed /\ Tab(H, parent) = t2
       /\ \A y \in DataClusters \ {parent} : Tab(H, y) = Tab(G, y) /\ Dat(H, y) = Dat(G, y)
  <2>1. H = WriteTable(G, parent, t2) /\ t2 \in Tables /\ G \in Disks /\ G.signed
    BY <1>10, <1>13
  <2> HIDE DEF G, H
  <2>2. QED
    BY <2>1, TableWritten
<1> HIDE DEF F, G, H
<1>15. l[1] = parent
  OBVIOUS
<1> HIDE DEF l, K
<1>16. /\ Sound(F) /\ TreeBut(F, {l}) /\ Listed(F) = Listed(d)
       /\ Directories(F) = Directories(d) \ {c}
       /\ \A k \in Listed(d) : KeptEntry(d, F, k)
  <2>1. TreeBut(d, {l})
    BY <1>1, TreeMore
  <2>2. \A y \in Clusters \ {c} : F.fat[y] = d.fat[y]
    BY <1>12
  <2>3. QED
    BY SMTT(60), <1>1, <1>3, <1>4, <1>8, <1>12, <2>1, <2>2, DropStep
<1>17. EntryAt(F, l) = EntryAt(d, l) /\ l \in Listed(F)
  BY <1>3, <1>16 DEF KeptEntry
<1>18. /\ Sound(G) /\ TreeBut(G, {l}) /\ Listed(G) = Listed(F)
       /\ Directories(G) = Directories(F) \ {c}
       /\ \A k \in Listed(F) : KeptEntry(F, G, k)
  <2>1. Tab(G, c) = EmptyTable
    BY <1>6, <1>12, <1>13
  <2>2. \A y \in Clusters \ {c} : G.fat[y] = F.fat[y]
    BY <1>9, <1>12, <1>13
  <2>3. \A j \in Slots \ {0, 1} : ~ Tab(F, c)[j].used
    BY <1>12 DEF EmptyTable, EmptyEntry
  <2>4. ~ IsFile(EntryAt(F, l)) /\ c = EntryAt(F, l).cluster
    BY <1>4, <1>17
  <2>5. QED
    BY SMTT(30), <1>12, <1>13, <1>16, <1>17, <2>1, <2>2, <2>3, <2>4, DropStep
<1>19. EntryAt(G, l) = EntryAt(d, l) /\ l \in Listed(G)
  BY <1>17, <1>18 DEF KeptEntry
<1>20. Key(F, l) = K /\ Key(G, l) = K
  BY <1>3, <1>17, <1>19 DEF Key
<1>21. Image(F, K) /\ Untouched(d, F, K)
  <2>1. l \in NamedBy(F, K)
    BY <1>17, <1>20 DEF NamedBy
  <2>2. TreeBut(F, NamedBy(F, K))
    BY <1>16, <2>1, TreeMore
  <2>3. QED
    BY <1>1, <1>5, <1>12, <1>16, <2>2, KeptUntouched DEF Image
<1>22. Image(G, K) /\ Untouched(F, G, K)
  <2>1. l \in NamedBy(G, K)
    BY <1>19, <1>20 DEF NamedBy
  <2>2. TreeBut(G, NamedBy(G, K))
    BY <1>18, <2>1, TreeMore
  <2>3. QED
    BY <1>5, <1>12, <1>13, <1>16, <1>18, <2>2, KeptUntouched DEF Image
<1>23. parent \in Directories(G) /\ Tab(G, parent) = t
  BY <1>3, <1>7, <1>12, <1>13, <1>16, <1>18
<1>24. SlotWritten(G, H, parent, i, EmptyEntry)
  BY <1>10, <1>14, <1>23 DEF SlotWritten
<1>25. Tab(G, parent)[i].cluster \notin Directories(G)
  BY <1>18, <1>23
<1>26. /\ Sound(H)
       /\ \A k \in Listed(G) : k # <<parent, i>> => KeptEntry(G, H, k)
       /\ Directories(H) = Directories(G)
       /\ TreeBut(H, {l} \ {<<parent, i>>})
  BY <1>2, <1>3, <1>13, <1>14, <1>18, <1>23, <1>24, <1>25, ClearStep
<1>27. TreeBut(H, {}) /\ \A k \in Listed(G) : Key(G, k) # K => KeptEntry(G, H, k)
  <2>1. l = <<parent, i>>
    BY DEF l
  <2>2. {l} \ {<<parent, i>>} = {}
    BY <2>1
  <2>3. QED
    BY <1>20, <1>26, <2>1, <2>2
<1>28. Ready(H) /\ Untouched(G, H, K)
  BY <1>5, <1>13, <1>14, <1>18, <1>26, <1>27, KeptUntouched DEF Ready
<1>29. ROOT_CLUSTER_NUMBER \in Directories(d) => ROOT_CLUSTER_NUMBER \in Directories(H)
  BY <1>16, <1>18, <1>26
<1>30. LinedUp(d, <<F, G, H>>, K)
  BY <1>21, <1>22, <1>28, <1>29, ThreeImages
<1>31. /\ Only(d, H, {c} \cup {parent}) /\ Tab(H, c) = EmptyTable
       /\ Tab(H, parent) = [t EXCEPT ![i] = EmptyEntry]
  <2>1. ASSUME NEW y \in DataClusters \ ({c} \cup {parent})
        PROVE  H.fat[y] = d.fat[y] /\ Tab(H, y) = Tab(d, y) /\ Dat(H, y) = Dat(d, y)
    <3>1. y \in Clusters \ {c} /\ y \in DataClusters \ {c} /\ y \in DataClusters \ {parent}
      BY ClusterFacts
    <3>2. QED
      BY <1>9, <1>12, <1>13, <1>14, <3>1
  <2>2. Tab(H, c) = EmptyTable
    BY <1>6, <1>7, <1>12, <1>13, <1>14
  <2>3. QED
    BY <1>10, <1>14, <2>1, <2>2 DEF Only
<1>32. QED
  <2>1. Final(<<F, G, H>>) = H
    BY DEF Final
  <2>2. Cleared(d, H, {c}, parent, i)
    BY <1>2, <1>6, <1>7, <1>8, <1>31 DEF Cleared
  <2>3. LinedUp(d, <<F, G, H>>, <<parent, n, x>>)
    BY <1>30 DEF K
  <2>4. QED
    BY <1>11, <2>1, <2>2, <2>3 DEF t2

-----------------------------------------------------------------------------
(* The images of delete() for a file.                                      *)

(* After the first q clusters of its chain are zeroed, a file is one with  *)
(* its first clusters erased.                                              *)
LEMMA ErasedData ==
  ASSUME NEW d \in Disks, Ascending(d.fat), NEW e \in Entries, IsFile(e),
         EntryOk(d, e), NEW q \in 0 .. CeilDiv(e.filesize), NEW b \in Disks,
         b.fat = d.fat, NEW Z, Z = {Walk(d.fat, e.cluster)[j] : j \in 0 .. q - 1},
         \A c \in DataClusters :
           /\ c \notin Z => Tab(b, c) = Tab(d, c) /\ Dat(b, c) = Dat(d, c)
           /\ c \in Z => Tab(b, c) = EmptyTable /\ Dat(b, c) = NoData
  PROVE  /\ \A c \in DataClusters : Tab(b, c) = Tab(d, c)
         /\ \A c \in DataClusters \ Owned(d, e) : Dat(b, c) = Dat(d, c)
         /\ EntryOk(b, e)
<1> DEFINE N == CeilDiv(e.filesize)
           w == Walk(d.fat, e.cluster)
           S == {w[j] : j \in 0 .. q - 1}
<1>1. /\ N \in Nat /\ N - 1 \in Nat /\ ChainIs(d.fat, e.cluster, N - 1)
      /\ \A c \in Owned(d, e) : Tab(d, c) = EmptyTable
  <2>1. ChainIs(d.fat, e.cluster, N - 1) /\ \A c \in Owned(d, e) : Tab(d, c) = EmptyTable
    BY DEF EntryOk
  <2>2. e.filesize \in Nat
    BY DEF Entries
  <2>3. N \in Nat
    BY <2>2, CeilDivNat
  <2>4. N - 1 \in 0 .. ClusterMapSize - 1
    BY <2>1 DEF ChainIs
  <2>5. QED
    BY <2>1, <2>3, <2>4, ClusterFacts
<1>2. d.fat \in FatMaps /\ e.cluster \in Clusters
  BY TabTypes DEF Entries
<1>3. Owned(d, e) = OnChain(d.fat, e.cluster, N - 1) /\ Owned(d, e) \subseteq DataClusters
  BY <1>1, OwnedFacts
<1>4. S \subseteq Owned(d, e)
  <2>1. \A j \in 0 .. q - 1 : j \in 0 .. N - 1
    BY <1>1
  <2>2. QED
    BY <1>3, <2>1 DEF OnChain
<1>5. \A c \in DataClusters :
        /\ c \notin S => Tab(b, c) = Tab(d, c) /\ Dat(b, c) = Dat(d, c)
        /\ c \in S => Tab(b, c) = EmptyTable /\ Dat(b, c) = NoData
  <2>1. S = Z
    OBVIOUS
  <2> HIDE DEF S
  <2>2. QED
    BY <2>1, Zenon
<1>6. \A i, j \in 0 .. N - 1 : i # j => w[i] # w[j]
  BY <1>1, <1>2, ChainInjective
<1>7. \A j \in 0 .. N - 1 : w[j] \in DataClusters
  BY <1>1 DEF ChainIs
<1> HIDE DEF w, N
<1>8. ASSUME NEW j \in 1 .. N
      PROVE  Dat(b, w[j - 1]) = IF j <= q THEN NoData ELSE Dat(d, w[j - 1])
  <2>1. j - 1 \in 0 .. N - 1
    BY <1>1
  <2>2. w[j - 1] \in DataClusters
    BY <1>7, <2>1
  <2>3. CASE j <= q
    <3>1. j - 1 \in 0 .. q - 1
      BY <1>1, <2>3
    <3>2. w[j - 1] \in S
      BY <3>1
    <3> HIDE DEF S
    <3>3. QED
      BY <1>5, <2>2, <2>3, <3>2
  <2>4. CASE ~ (j <= q)
    <3>1. ASSUME NEW i \in 0 .. q - 1 PROVE w[i] # w[j - 1]
      <4>1. i \in 0 .. N - 1 /\ i # j - 1
        BY <1>1, <2>4 DEF N
      <4>2. QED
        BY <1>6, <2>1, <4>1
    <3>2. w[j - 1] \notin S
      BY <3>1
    <3> HIDE DEF S
    <3>3. QED
      BY <1>5, <2>2, <2>4, <3>2
  <2>5. QED
    BY <2>3, <2>4
<1> HIDE DEF S
<1>9. \A c \in DataClusters : Tab(b, c) = Tab(d, c)
  BY <1>1, <1>4, <1>5
<1>10. \A c \in DataClusters \ Owned(d, e) : Dat(b, c) = Dat(d, c)
  BY <1>4, <1>5
<1>11. Owned(b, e) = Owned(d, e)
  BY DEF Owned
<1>12. PICK p \in Payloads, k \in 0 .. N : StoredBut(d, e, p, k)
  BY DEF EntryOk, N
<1>13. ASSUME NEW j \in 1 .. N
       PROVE  CellAt(d, w[j - 1]).data = Dat(d, w[j - 1])
              /\ CellAt(b, w[j - 1]).data = Dat(b, w[j - 1])
  <2>1. j - 1 \in 0 .. N - 1
    BY <1>1
  <2>2. QED
    BY <1>7, <2>1 DEF CellAt, Dat
<1>14. /\ Contents(d, e) = [j \in 1 .. N |-> CellAt(d, w[j - 1]).data]
       /\ Contents(b, e) = [j \in 1 .. N |-> CellAt(b, w[j - 1]).data]
  BY DEF Contents, N, w
<1>15. \A j \in 1 .. N :
         Dat(d, w[j - 1]) = IF j <= k THEN NoData ELSE [what |-> p, part |-> j]
  <2>1. Contents(d, e) = [j \in 1 .. N |-> IF j <= k THEN NoData ELSE [what |-> p, part |-> j]]
    BY <1>12 DEF StoredBut, N
  <2>2. ASSUME NEW j \in 1 .. N
        PROVE  /\ Contents(d, e)[j] = IF j <= k THEN NoData ELSE [what |-> p, part |-> j]
               /\ Contents(d, e)[j] = CellAt(d, w[j - 1]).data
    <3> DEFINE f == [y \in 1 .. N |-> IF y <= k THEN NoData ELSE [what |-> p, part |-> y]]
               g == [y \in 1 .. N |-> CellAt(d, w[y - 1]).data]
    <3>1. f[j] = IF j <= k THEN NoData ELSE [what |-> p, part |-> j]
      BY Zenon
    <3>2. g[j] = CellAt(d, w[j - 1]).data
      BY Zenon
    <3>3. Contents(d, e) = f /\ Contents(d, e) = g
      BY <1>14, <2>1, Zenon
    <3> HIDE DEF f, g
    <3>4. QED
      BY <3>1, <3>2, <3>3, Zenon
  <2>3. QED
    BY <1>13, <2>2
<1>16. ASSUME NEW z \in 0 .. N, k <= z, q <= z, z = k \/ z = q
       PROVE  StoredBut(b, e, p, z)
  <2>1. ASSUME NEW j \in 1 .. N
        PROVE  CellAt(b, w[j - 1]).data
                 = IF j <= z THEN NoData ELSE [what |-> p, part |-> j]
    <3>1. (j <= z) <=> (j <= k \/ j <= q)
      BY <1>1, <1>16 DEF N
    <3>2. CellAt(b, w[j - 1]).data = IF j <= q THEN NoData ELSE Dat(d, w[j - 1])
      BY <1>8, <1>13
    <3>3. Dat(d, w[j - 1]) = IF j <= k THEN NoData ELSE [what |-> p, part |-> j]
      BY <1>15
    <3>4. QED
      BY <3>1, <3>2, <3>3, Zenon
  <2>2. Contents(b, e) = [j \in 1 .. N |-> IF j <= z THEN NoData ELSE [what |-> p, part |-> j]]
    BY <1>14, <2>1
  <2>3. QED
    BY <2>2 DEF StoredBut, N
<1>17. \E z \in 0 .. N : StoredBut(b, e, p, z)
  <2>1. q \in 0 .. N /\ (k <= q \/ q <= k) /\ k <= k /\ q <= q
    BY <1>1 DEF N
  <2>2. QED
    BY <1>16, <2>1
<1>18. EntryOk(b, e)
  BY <1>1, <1>3, <1>9, <1>11, <1>17 DEF EntryOk, N
<1>19. QED
  BY <1>9, <1>10, <1>18

(* The clusters of a file are zeroed one after the other, then its entry   *)
(* is cleared.  The walk meets the end of the chain.                       *)
LEMMA EraseLinedUp ==
  ASSUME NEW d, Ready(d), Ascending(d.fat), NEW parent \in DataClusters, NEW n, NEW x,
         n # Blank, SlotsNamed(Tab(d, parent), n, x) # {}, NEW i,
         i = Least(SlotsNamed(Tab(d, parent), n, x)),
         NEW c, c = Tab(d, parent)[i].cluster, Tab(d, parent)[i].filesize # 0
  PROVE  LET v == DeleteFileImages(d, Walk(d.fat, c), Least(EndsAfter(d.fat, c)),
                                    parent, ClearEntry(Tab(d, parent), i))
         IN  /\ EndsAfter(d.fat, c) # {}
             /\ LinedUp(d, v, <<parent, n, x>>)
             /\ Cleared(d, Final(v), Owned(d, Tab(d, parent)[i]), parent, i)
<1> DEFINE K == <<parent, n, x>>
           t == Tab(d, parent)
           l == <<parent, i>>
           e == t[i]
           k == CeilDiv(e.filesize) - 1
           w == Walk(d.fat, c)
           Z(q) == {w[j] : j \in 0 .. q - 1}
           D(q) == ZeroClusters(d, Z(q))
           t2 == ClearEntry(t, i)
           G == WriteTable(D(k + 1), parent, t2)
           s == DeleteFileImages(d, w, k, parent, t2)
<1>1. d \in Disks /\ d.signed /\ Sound(d) /\ TablesOk(d) /\ TreeBut(d, {})
  BY DEF Ready, Sound
<1>2. /\ i \in Slots /\ e.used /\ parent \in Directories(d)
      /\ i >= 2 => /\ l \in Listed(d) /\ EntryAt(d, l) = e /\ Key(d, l) = K
  BY <1>1, FoundSlot
<1>3. i >= 2
  <2>1. t[0].used
    BY <1>2, ListedFacts
  <2>2. t[0].filesize = 0 /\ t[1].filesize = 0
    BY <1>1, <2>1 DEF TablesOk
  <2>3. QED
    BY <1>2, <2>2, SlotTypes
<1>4. l \in Listed(d) /\ EntryAt(d, l) = e /\ Key(d, l) = K
  BY <1>2, <1>3
<1>5. e \in Entries /\ IsFile(e) /\ EntryOk(d, e) /\ c = e.cluster
  <2>1. e \in Entries
    BY <1>1, <1>4, TabTypes
  <2>2. EntryOk(d, e)
    BY <1>1, <1>4 DEF Sound, FileOk
  <2>3. QED
    BY <2>1, <2>2 DEF IsFile
<1>6. ChainIs(d.fat, c, k)
  BY <1>5 DEF EntryOk
<1>7. EndsAfter(d.fat, c) # {} /\ Least(EndsAfter(d.fat, c)) = k
  BY <1>6, ChainFacts
<1>8. k \in Nat /\ CeilDiv(e.filesize) = k + 1
  <2>1. e.filesize \in Nat
    BY <1>5 DEF Entries
  <2>2. CeilDiv(e.filesize) \in Nat
    BY <2>1, CeilDivNat
  <2>3. k \in 0 .. ClusterMapSize - 1
    BY <1>6 DEF ChainIs
  <2>4. QED
    BY <2>2, <2>3, ClusterFacts
<1>9. t \in Tables /\ t2 \in Tables /\ t2 = [t EXCEPT ![i] = EmptyEntry]
  <2>1. t \in Tables
    BY <1>1, TabTypes
  <2>2. EmptyEntry \in Entries
    BY EmptyTypes
  <2>3. QED
    BY <2>1, <2>2, TableTypes DEF ClearEntry
<1>10. l[1] = parent /\ l = <<parent, i>>
  OBVIOUS
<1> HIDE DEF K, l, k, t2
<1> DEFINE Like(a) ==
             /\ a \in Disks /\ a.fat = d.fat /\ a.signed
             /\ \A y \in DataClusters : Tab(a, y) = Tab(d, y)
             /\ \A y \in DataClusters \ Owned(d, e) : Dat(a, y) = Dat(d, y)
             /\ EntryOk(a, e)
<1>11. ASSUME NEW q \in 0 .. k + 1 PROVE Like(D(q))
  <2> DEFINE b == D(q)
             Y == Z(q)
  <2>0. b = ZeroClusters(d, Y)
    OBVIOUS
  <2>1. Y = {Walk(d.fat, e.cluster)[j] : j \in 0 .. q - 1}
    BY <1>5
  <2> HIDE DEF b, Y, e
  <2>2. /\ b \in Disks /\ b.fat = d.fat /\ b.signed = d.signed
        /\ \A y \in DataClusters :
             /\ y \notin Y => Tab(b, y) = Tab(d, y) /\ Dat(b, y) = Dat(d, y)
             /\ y \in Y => Tab(b, y) = EmptyTable /\ Dat(b, y) = NoData
    <3> HIDE DEF t, w, Z, D, G, s, Like
    <3>1. d \in Disks
      BY <1>1
    <3>2. QED
      BY <2>0, <3>1, ZeroWritten
  <2>3. q \in 0 .. CeilDiv(e.filesize)
    BY <1>8, <1>11
  <2>4. /\ \A y \in DataClusters : Tab(b, y) = Tab(d, y)
        /\ \A y \in DataClusters \ Owned(d, e) : Dat(b, y) = Dat(d, y)
        /\ EntryOk(b, e)
    BY ZenonT(30), <1>1, <1>5, <2>1, <2>2, <2>3, ErasedData
  <2>5. Like(b)
    BY <1>1, <2>2, <2>4
  <2>6. QED
    BY <2>5 DEF b, e
<1>12. Like(d)
  BY <1>1, <1>5
<1>13. ASSUME NEW a, Ready(a), Like(a), NEW b, Like(b)
       PROVE  Ready(b) /\ Untouched(a, b, K) /\ Directories(b) = Directories(a)
  <2>1. Grown(a, b)
    BY <1>13 DEF Grown
  <2>2. Listed(a) = Listed(d) /\ \A y \in Listed(d) : EntryAt(a, y) = EntryAt(d, y)
    BY <1>1, <1>13, SameTables
  <2>3. l \in Listed(a) /\ EntryAt(a, l) = e /\ Key(a, l) = K
    BY <1>4, <2>2 DEF Key
  <2>4. Owned(a, e) = Owned(d, e)
    BY <1>13 DEF Owned
  <2>5. EntryAt(b, l) = e
    BY <1>1, <1>4, <1>13, SameTables
  <2>6. FileOk(b, l)
    BY <1>13, <2>5 DEF FileOk
  <2>7. a \in Disks /\ b \in Disks /\ Sound(a) /\ b.fat = a.fat /\ b.signed
    BY <1>13 DEF Ready
  <2>8. \A y \in DataClusters \ Owned(a, EntryAt(a, l)) : Dat(b, y) = Dat(a, y)
    BY <1>13, <2>3, <2>4
  <2> HIDE DEF Like, e
  <2>9. Sound(b) /\ \A y \in Listed(a) : y # l => KeptEntry(a, b, y)
    BY <2>1, <2>3, <2>6, <2>7, <2>8, EraseStep
  <2>10. Untouched(a, b, K)
    <3>1. \A y \in Listed(a) : Key(a, y) # K => KeptEntry(a, b, y)
      BY <2>3, <2>9
    <3>2. QED
      BY <2>7, <3>1, KeptUntouched
  <2>11. (TreeBut(a, {}) => TreeBut(b, {})) /\ (Flat(a) => Flat(b))
    BY <2>1, <2>7, <2>9, GrownTree
  <2>12. Directories(b) = Directories(a)
    <3>1. \A y \in DataClusters : Tab(b, y) = Tab(a, y)
      BY <2>1 DEF Grown
    <3>2. QED
      BY <2>7, <3>1, SameTables
  <2>13. QED
    BY <1>13, <2>7, <2>9, <2>10, <2>11, <2>12 DEF Ready
<1>14. \A q \in 0 .. k + 1 : Ready(D(q)) /\ Directories(D(q)) = Directories(d)
  BY <1>11, <1>12, <1>13
<1> DEFINE E == D(k + 1)
<1>15. Like(E) /\ Ready(E) /\ Directories(E) = Directories(d) /\ k + 1 \in 0 .. k + 1
  <2>1. k + 1 \in 0 .. k + 1
    BY <1>8
  <2>2. QED
    BY <1>11, <1>14, <2>1
<1>16. G = WriteTable(E, parent, t2)
  OBVIOUS
<1> HIDE DEF E, G, t
<1>17. /\ G \in Disks /\ G.fat = E.fat /\ G.signed /\ Tab(G, parent) = t2
       /\ \A y \in DataClusters \ {parent} : Tab(G, y) = Tab(E, y) /\ Dat(G, y) = Dat(E, y)
  <2>1. E \in Disks /\ E.signed /\ t2 \in Tables
    BY <1>9, <1>15
  <2>2. QED
    BY <1>16, <2>1, TableWritten
<1>18. /\ E \in Disks /\ Sound(E) /\ TreeBut(E, {}) /\ parent \in Directories(E)
       /\ Tab(E, parent) = t /\ (0 \notin Sizes => Flat(E))
  BY <1>2, <1>15 DEF Ready, t
<1>19. SlotWritten(E, G, parent, i, EmptyEntry)
  BY <1>9, <1>17, <1>18 DEF SlotWritten
<1>20. IsFile(Tab(E, parent)[i])
  BY <1>5, <1>18
<1>21. /\ Sound(G)
       /\ \A y \in Listed(E) : y # <<parent, i>> => KeptEntry(E, G, y)
       /\ Directories(G) = Directories(E)
       /\ TreeBut(G, {} \ {<<parent, i>>})
       /\ Flat(E) => Flat(G)
  BY <1>2, <1>3, <1>17, <1>18, <1>19, <1>20, ClearStep
<1>22. Ready(G) /\ Untouched(E, G, K)
  <2>1. {} \ {<<parent, i>>} = {}
    OBVIOUS
  <2>2. EntryAt(E, l) = e
    BY <1>1, <1>4, <1>15, SameTables
  <2>3. Key(E, l) = K
    BY <1>4, <2>2 DEF Key
  <2>4. \A y \in Listed(E) : Key(E, y) # K => KeptEntry(E, G, y)
    BY <1>10, <1>21, <2>3
  <2>5. QED
    BY <1>17, <1>18, <1>21, <2>1, <2>4, KeptUntouched DEF Ready
<1>23. /\ Len(s) = k + 2
       /\ \A q \in 1 .. k + 2 : s[q] = IF q <= k + 1 THEN D(q) ELSE G
  <2> DEFINE f == [q \in 1 .. k + 1 |-> D(q)]
  <2>1. \A q \in 1 .. k + 1 : D(q) \in Disks
    <3>1. \A q \in 1 .. k + 1 : q \in 0 .. k + 1
      BY <1>8
    <3>2. QED
      BY <1>11, <3>1
  <2>2. s = f \o <<G>>
    BY DEF DeleteFileImages, G, E
  <2> HIDE DEF D, s
  <2>3. f \in Seq(Disks) /\ Len(f) = k + 1
    BY <1>8, <2>1
  <2>4. \A q \in 1 .. k + 1 : f[q] = D(q)
    OBVIOUS
  <2> HIDE DEF f
  <2>5. /\ Len(f \o <<G>>) = Len(f) + 1
        /\ \A q \in 1 .. Len(f) + 1 : (f \o <<G>>)[q] = IF q <= Len(f) THEN f[q] ELSE G
    <3>1. G \in Disks
      BY <1>17
    <3>2. QED
      BY <2>3, <3>1, AppendImages
  <2>6. (k + 1) + 1 = k + 2
    BY <1>8
  <2>7. /\ Len(s) = k + 2
        /\ \A q \in 1 .. k + 2 : s[q] = IF q <= k + 1 THEN f[q] ELSE G
    BY <2>2, <2>3, <2>5, <2>6, Zenon
  <2>8. QED
    BY <1>8, <2>4, <2>7
<1> HIDE DEF s, D, Like
<1>24. LinedUp(d, s, K)
  <2>1. ASSUME NEW q \in 1 .. k + 2
        PROVE  Ready(s[q]) /\ Untouched(Prev(d, s, q), s[q], K)
    <3>1. CASE q = 1
      <4>1. s[1] = D(1) /\ 1 \in 0 .. k + 1
        BY <1>8, <1>23
      <4>2. QED
        BY <1>11, <1>12, <1>13, <1>14, <3>1, <4>1 DEF Prev
    <3>2. CASE q # 1 /\ q <= k + 1
      <4>1. s[q] = D(q) /\ s[q - 1] = D(q - 1) /\ q \in 0 .. k + 1 /\ q - 1 \in 0 .. k + 1
        BY <1>8, <1>23, <3>2
      <4>2. QED
        BY <1>11, <1>13, <1>14, <3>2, <4>1 DEF Prev
    <3>3. CASE q = k + 2
      <4>1. s[q] = G /\ s[q - 1] = E /\ q # 1
        BY <1>8, <1>23, <3>3 DEF E
      <4>2. QED
        BY <1>22, <4>1 DEF Prev
    <3>4. QED
      BY <1>8, <3>1, <3>2, <3>3
  <2>2. s[k + 2] = G /\ k + 2 \in 1 .. k + 2
    BY <1>8, <1>23
  <2>3. Directories(G) = Directories(d)
    BY <1>15, <1>21
  <2>4. QED
    BY <1>22, <1>23, <2>1, <2>2, <2>3, ReadyImage DEF LinedUp, Outstanding
<1>25. /\ Only(d, G, Owned(d, e) \cup {parent})
       /\ \A y \in DataClusters \ {parent} : Tab(G, y) = Tab(d, y)
  <2>1. /\ E.fat = d.fat /\ \A y \in DataClusters : Tab(E, y) = Tab(d, y)
        /\ \A y \in DataClusters \ Owned(d, e) : Dat(E, y) = Dat(d, y)
    BY <1>15 DEF Like
  <2> HIDE DEF e
  <2>2. QED
    BY <1>17, <2>1 DEF Only
<1>26. Final(s) = G
  BY <1>8, <1>23 DEF Final
<1>27. Cleared(d, G, Owned(d, e), parent, i)
  <2>1. FileOk(d, l) /\ IsFile(EntryAt(d, l))
    BY <1>1, <1>4, <1>5 DEF Sound
  <2>2. /\ Owned(d, e) \subseteq DataClusters
        /\ \A y \in Owned(d, e) : Tab(d, y) = EmptyTable
    BY <1>1, <1>4, <2>1, FilesTaken
  <2>3. parent \notin Owned(d, e)
    <3>1. Tab(d, parent)[0].used
      BY <1>2, ListedFacts
    <3>2. ~ EmptyTable[0].used
      BY SlotTypes DEF EmptyTable, EmptyEntry
    <3>3. QED
      BY <2>2, <3>1, <3>2
  <2>4. \A j \in Slots \ {0, 1} : ~ EmptyTable[j].used
    BY DEF EmptyTable, EmptyEntry
  <2> HIDE DEF e
  <2>5. QED
    BY <1>3, <1>9, <1>17, <1>25, <2>2, <2>3, <2>4 DEF Cleared, t
<1>28. QED
  <2>1. LinedUp(d, s, <<parent, n, x>>) /\ Cleared(d, Final(s), Owned(d, e), parent, i)
    BY <1>24, <1>26, <1>27 DEF K
  <2>2. s = DeleteFileImages(d, Walk(d.fat, c), Least(EndsAfter(d.fat, c)), parent,
                             ClearEntry(Tab(d, parent), i))
    BY <1>7 DEF s, t, t2
  <2> HIDE DEF s
  <2>3. QED
    BY <1>7, <2>1, <2>2 DEF t

-----------------------------------------------------------------------------
(* The images of create_fat32().                                           *)

(* A disk without tables has nothing to be wrong about.                    *)
LEMMA BlankImage ==
  ASSUME NEW d \in Disks, \A c \in DataClusters : Tab(d, c) = EmptyTable
  PROVE  /\ Listed(d) = {} /\ Directories(d) = {}
         /\ Sound(d) /\ TreeBut(d, {}) /\ Flat(d)
<1>1. ~ EmptyEntry.used /\ \A j \in Slots : EmptyTable[j] = EmptyEntry
  BY DEF EmptyEntry, EmptyTable
<1>2. 0 \in Slots /\ 1 \in Slots
  BY SlotTypes
<1>3. Listed(d) = {}
  <2>1. ASSUME NEW l \in Listed(d) PROVE FALSE
    <3>1. l \in DataClusters \X (Slots \ {0, 1}) /\ Tab(d, l[1])[l[2]].used
      BY ListedFacts
    <3>2. l[1] \in DataClusters /\ l[2] \in Slots
      BY <3>1
    <3>3. QED
      BY <1>1, <3>1, <3>2
  <2>2. QED
    BY <2>1
<1>4. Directories(d) = {}
  BY <1>1, <1>2, ListedFacts
<1>5. TablesOk(d)
  BY <1>1, <1>2 DEF TablesOk
<1>6. QED
  BY <1>3, <1>4, <1>5 DEF Sound, Apart, TreeBut, Flat

(* The cluster of the root is the first free one of a new FAT.             *)
LEMMA FirstCluster ==
  /\ Least(EmptyClusters(FormatMap, 1)) = ROOT_CLUSTER_NUMBER
  /\ FormatMap \in FatMaps
  /\ FormatMap[1] # FAT32_FAT_EMPTY_ENTRY
<1> DEFINE S == EmptyClusters(FormatMap, 1)
<1>1. /\ 0 \in Clusters /\ 1 \in Clusters /\ 2 \in Clusters
      /\ 1 .. ClusterMapSize - 1 \subseteq Clusters
  BY ClusterFacts DEF Clusters
<1>2. FormatMap[1] = CLUSTER_1_VALUE /\ FormatMap[2] = FAT32_FAT_EMPTY_ENTRY
  BY <1>1 DEF FormatMap, ZeroMap
<1>3. FormatMap[1] # FAT32_FAT_EMPTY_ENTRY
  BY <1>2 DEF CLUSTER_1_VALUE, FAT32_FAT_EMPTY_ENTRY
<1>4. S \in SUBSET Nat /\ 2 \in S /\ 1 \notin S /\ \A c \in S : c >= 1
  <2>1. 2 \in 1 .. ClusterMapSize - 1
    BY ClusterFacts
  <2>2. QED
    BY <1>2, <1>3, <2>1 DEF EmptyClusters
<1> HIDE DEF S
<1>5. Least(S) \in S /\ Least(S) <= 2
  BY <1>4, LeastProperties
<1>6. Least(S) \in Nat /\ Least(S) >= 1 /\ Least(S) # 1
  BY <1>4, <1>5
<1>7. Least(S) = 2
  BY <1>5, <1>6
<1>8. QED
  BY <1>3, <1>7, EmptyTypes DEF S, ROOT_CLUSTER_NUMBER

(* The signature, the FAT and the root: until the last write the disk has  *)
(* no table at all.                                                        *)
LEMMA FormatLinedUp ==
  ASSUME disk = BlankDisk, NEW K
  PROVE  /\ LinedUp(disk, FormatImages, K)
         /\ ROOT_CLUSTER_NUMBER \in Directories(FormatImages[Len(FormatImages)])
         /\ \A b : b = FormatImages[Len(FormatImages)] =>
              /\ Listed(b) = {} /\ Directories(b) = {ROOT_CLUSTER_NUMBER}
              /\ Tab(b, ROOT_CLUSTER_NUMBER)[0].name = RootName
              /\ Tab(b, ROOT_CLUSTER_NUMBER)[1].name = ".."
<1> DEFINE r == ROOT_CLUSTER_NUMBER
           A == WriteSignature(disk)
           B == WriteFat(A, FormatMap)
           m == [FormatMap EXCEPT ![r] = FAT32_FAT_END_OF_FILE]
           F == WriteFat(B, m)
           self == DirEntry(RootName, r)
           table == [EmptyTable EXCEPT ![0] = self, ![1] = [self EXCEPT !.name = ".."]]
           H == WriteTable(F, r, table)
           s == FormatImages
<1>1. InitDirectoryTable(B, FormatMap, RootName, r) = <<F, F, H>>
  BY FirstCluster DEF InitDirectoryTable
<1>2. s = <<A, B>> \o <<F, F, H>>
  BY <1>1 DEF FormatImages
<1>3. r \in DataClusters /\ r \in Clusters /\ FormatMap \in FatMaps /\ 1 \in Clusters
  BY ClusterFacts, FirstCluster DEF Clusters
<1>4. /\ m \in FatMaps /\ m[r] # FAT32_FAT_EMPTY_ENTRY /\ m[1] # FAT32_FAT_EMPTY_ENTRY
      /\ m[2] # FAT32_FAT_EMPTY_ENTRY
  <2>1. FAT32_FAT_END_OF_FILE \in FatValues
    BY DEF FatValues
  <2>2. m[r] = FAT32_FAT_END_OF_FILE /\ m[1] = FormatMap[1] /\ m[2] = m[r] /\ m \in FatMaps
    BY <1>3, <2>1 DEF FatMaps, ROOT_CLUSTER_NUMBER
  <2>3. QED
    BY <2>2, FirstCluster, ClusterFacts
<1>5. /\ self \in Entries /\ self.used /\ self.filesize = 0 /\ self.cluster = r
      /\ self.name = RootName
  <2>1. RootName \in AllNames /\ Blank \in AllExts /\ 0 \in Nat
    BY DEF AllNames, AllExts
  <2>2. self \in Entries
    BY <1>3, <2>1, EntryTypes
  <2>3. QED
    BY <2>2 DEF DirEntry
<1>6. /\ table \in Tables
      /\ \A j \in {0, 1} : table[j].used /\ table[j].filesize = 0 /\ table[j].cluster = r
      /\ \A j \in Slots \ {0, 1} : table[j] = EmptyEntry
      /\ table[0].name = RootName /\ table[1].name = ".."
  <2> DEFINE up == [self EXCEPT !.name = ".."]
  <2>1. up \in Entries
    BY <1>5 DEF Entries, AllNames
  <2>2. up.used /\ up.cluster = r /\ up.filesize = 0 /\ up.name = ".."
    BY <1>5 DEF Entries
  <2>3. table = [EmptyTable EXCEPT ![0] = self, ![1] = up]
    OBVIOUS
  <2> HIDE DEF up, self, table
  <2>4. EmptyTable = [j \in Slots |-> EmptyEntry] /\ EmptyEntry \in Entries
    BY EmptyTypes DEF EmptyTable
  <2>5. table \in Tables /\ table[0] = self /\ table[1] = up
        /\ \A j \in Slots \ {0, 1} : table[j] = EmptyEntry
    BY <1>5, <2>1, <2>3, <2>4, SlotTypes DEF Tables
  <2>6. QED
    BY <1>5, <2>2, <2>5
<1>7. /\ disk \in Disks /\ \A c \in DataClusters : Tab(disk, c) = EmptyTable
  <2>1. \A c \in DataClusters : BlankDisk.cell[c] = ZeroCell
    BY DEF BlankDisk
  <2>2. ZeroCell.table = EmptyTable
    BY DEF ZeroCell
  <2>3. QED
    BY <2>1, <2>2, EmptyTypes DEF Tab
<1>8. /\ A \in Disks /\ A.signed /\ \A c \in DataClusters : Tab(A, c) = EmptyTable
  <2>1. A \in Disks /\ A.signed /\ A.cell = disk.cell
    BY <1>7 DEF WriteSignature, Disks
  <2>2. QED
    BY <1>7, <2>1 DEF Tab
<1> HIDE DEF A, m, table, r
<1>9. /\ B \in Disks /\ B.signed /\ \A c \in DataClusters : Tab(B, c) = EmptyTable
  <2>1. B = WriteFat(A, FormatMap)
    OBVIOUS
  <2> HIDE DEF B
  <2>2. QED
    BY <1>3, <1>8, <2>1, FatWritten
<1> HIDE DEF B
<1>10. /\ F \in Disks /\ F.fat = m /\ F.signed
       /\ \A c \in DataClusters : Tab(F, c) = EmptyTable
  <2>1. F = WriteFat(B, m)
    OBVIOUS
  <2> HIDE DEF F
  <2>2. QED
    BY <1>4, <1>9, <2>1, FatWritten
<1> HIDE DEF F
<1>11. /\ H \in Disks /\ H.fat = F.fat /\ H.signed /\ Tab(H, r) = table
       /\ \A c \in DataClusters \ {r} : Tab(H, c) = Tab(F, c) /\ Dat(H, c) = Dat(F, c)
  <2>1. H = WriteTable(F, r, table)
    OBVIOUS
  <2> HIDE DEF H
  <2>2. QED
    BY <1>3, <1>6, <1>10, <2>1, TableWritten
<1> HIDE DEF H, s
<1>12. /\ Len(s) = 5 /\ s[1] = A /\ s[2] = B /\ s[3] = F /\ s[4] = F /\ s[5] = H
  BY <1>2
<1>13. ASSUME NEW a \in Disks, a.signed, \A c \in DataClusters : Tab(a, c) = EmptyTable
       PROVE  Ready(a)
  BY <1>13, BlankImage DEF Ready
<1>14. ASSUME NEW a \in Disks, \A c \in DataClusters : Tab(a, c) = EmptyTable, NEW b
       PROVE  Untouched(a, b, K)
  <2>1. Listed(a) = {}
    BY <1>14, BlankImage
  <2>2. QED
    BY <2>1 DEF Untouched
<1>15. /\ Ready(A) /\ Ready(B) /\ Ready(F)
       /\ Untouched(disk, A, K) /\ Untouched(A, B, K) /\ Untouched(B, F, K)
       /\ Untouched(F, F, K) /\ Untouched(F, H, K)
  BY <1>7, <1>8, <1>9, <1>10, <1>13, <1>14
<1>16. Ready(H) /\ r \in Directories(H) /\ Directories(H) = {r} /\ Listed(H) = {}
  <2>1. Sound(F) /\ Listed(F) = {} /\ Directories(F) = {}
    BY <1>10, BlankImage
  <2>2. /\ F.fat[r] # FAT32_FAT_EMPTY_ENTRY /\ F.fat[1] # FAT32_FAT_EMPTY_ENTRY
        /\ F.fat[2] # FAT32_FAT_EMPTY_ENTRY
    BY <1>4, <1>10
  <2>3. /\ \A j \in {0, 1} : /\ Tab(H, r)[j].used /\ Tab(H, r)[j].filesize = 0
                             /\ Tab(H, r)[j].cluster \in DataClusters
        /\ \A j \in Slots \ {0, 1} : Tab(H, r)[j] = EmptyEntry
    BY <1>3, <1>6, <1>11
  <2>4. Tab(F, r) = EmptyTable
    BY <1>3, <1>10
  <2>5. Sound(H) /\ Listed(H) = Listed(F) /\ Directories(H) = Directories(F) \cup {r}
    BY <1>3, <1>10, <1>11, <2>1, <2>2, <2>3, <2>4, TableStep
  <2>6. TreeBut(H, {}) /\ Flat(H)
    BY <1>6, <1>11, <2>1, <2>5 DEF TreeBut, Flat, r
  <2>7. QED
    BY <1>11, <2>1, <2>5, <2>6 DEF Ready
<1>17. LinedUp(disk, s, K)
  <2>1. ASSUME NEW i \in 1 .. 5
        PROVE  Ready(s[i]) /\ Untouched(Prev(disk, s, i), s[i], K)
    <3>1. /\ Prev(disk, s, 1) = disk /\ Prev(disk, s, 2) = A /\ Prev(disk, s, 3) = B
          /\ Prev(disk, s, 4) = F /\ Prev(disk, s, 5) = F
      BY <1>12 DEF Prev
    <3>2. i = 1 \/ i = 2 \/ i = 3 \/ i = 4 \/ i = 5
      OBVIOUS
    <3>3. QED
      BY <1>12, <1>15, <1>16, <3>1, <3>2
  <2>2. QED
    BY <1>12, <1>16, <2>1, ReadyImage DEF LinedUp, Outstanding, r
<1>18. QED
  BY <1>6, <1>11, <1>12, <1>16, <1>17 DEF s, r

-----------------------------------------------------------------------------
(* The invariant of the driver.                                            *)

(* After a power loss a directory may be entered whose cluster is free, so *)
(* what follows holds until the first one, and for ever if only files are  *)
(* made.                                                                   *)
Calm == losses = 0 \/ 0 \notin Sizes

(* What the running call names.                                            *)
OpKey == <<op.parent, op.name, op.ext>>

(* A disk that is new or in the midst of an operation.                     *)
Holds(d, K) == d = BlankDisk \/ Image(d, K)

(* Without a loss of power, or after the first one: what is on the disk,   *)
(* what is still to be written, and where that leads.                      *)
CalmInv ==
  /\ Holds(disk, OpKey)
  /\ todo # <<>> => Outstanding(disk, todo, OpKey)
  /\ todo = <<>> /\ disk.signed => Ready(disk)
  /\ todo = <<>> /\ mounted => disk.signed
  /\ op.call # "runaway"
RootInv == Settled.signed => ROOT_CLUSTER_NUMBER \in Directories(Settled)
LostInv == op.call = "lost" => Holds(disk, OpKey)

(* The inductive invariant.                                                *)
TreeInv ==
  /\ ~ mounted => todo = <<>>
  /\ op.call = "lost" => ~ mounted /\ losses # 0
  /\ Calm => CalmInv
  /\ losses = 0 => RootInv
  /\ losses <= 1 => LostInv

(* A new disk has neither entries nor directories.                         *)
LEMMA NewDisk ==
  /\ BlankDisk \in Disks /\ ~ BlankDisk.signed
  /\ Listed(BlankDisk) = {} /\ Directories(BlankDisk) = {}
  /\ Sound(BlankDisk) /\ TreeBut(BlankDisk, {})
<1>1. \A c \in DataClusters : Tab(BlankDisk, c) = EmptyTable
  <2>1. \A c \in DataClusters : BlankDisk.cell[c] = ZeroCell
    BY DEF BlankDisk
  <2>2. ZeroCell.table = EmptyTable
    BY DEF ZeroCell
  <2>3. QED
    BY <2>1, <2>2 DEF Tab
<1>2. BlankDisk \in Disks /\ ~ BlankDisk.signed
  BY EmptyTypes DEF BlankDisk
<1>3. QED
  BY <1>1, <1>2, BlankImage

(* Without directories an image is whole, whatever the call names.         *)
LEMMA FlatReady ==
  ASSUME NEW d, NEW K, Image(d, K), 0 \notin Sizes
  PROVE  Ready(d)
<1>1. d \in Disks /\ Sound(d) /\ Flat(d) /\ TreeBut(d, NamedBy(d, K))
  BY DEF Image
<1>2. ASSUME NEW l \in Listed(d) PROVE EntryWhole(d, l)
  <2>1. IsFile(EntryAt(d, l)) /\ FileOk(d, l)
    BY <1>1 DEF Flat, Sound
  <2>2. l[1] \in Directories(d)
    BY <1>1, ListedInDirectory DEF Sound
  <2>3. QED
    BY <1>1, <2>1, <2>2, FileWhole
<1>3. TreeBut(d, {})
  BY <1>1, <1>2 DEF TreeBut
<1>4. QED
  BY <1>1, <1>3 DEF Ready, Image

(* When the first write has been made the others are outstanding.          *)
LEMMA NextOutstanding ==
  ASSUME NEW s \in Seq(Disks), s # <<>>, NEW d, NEW K, Outstanding(d, s, K)
  PROVE  /\ Image(Head(s), K) /\ Untouched(d, Head(s), K)
         /\ Tail(s) # <<>> => /\ Outstanding(Head(s), Tail(s), K)
                              /\ Tail(s)[Len(Tail(s))] = s[Len(s)]
         /\ Tail(s) = <<>> => Head(s) = s[Len(s)] /\ Ready(Head(s))
<1> DEFINE h == Head(s)
           r == Tail(s)
           n == Len(s)
<1>1. /\ n \in Nat /\ n >= 1 /\ h = s[1] /\ r \in Seq(Disks) /\ Len(r) = n - 1
      /\ \A i \in 1 .. n - 1 : r[i] = s[i + 1]
  BY HeadTailProperties, EmptySeq, LenProperties
<1>2. /\ \A i \in 1 .. n : Image(s[i], K) /\ Untouched(Prev(d, s, i), s[i], K)
      /\ Ready(s[n])
  BY DEF Outstanding
<1> HIDE DEF h, r, n
<1>3. Image(h, K) /\ Untouched(d, h, K)
  <2>1. 1 \in 1 .. n
    BY <1>1
  <2>2. QED
    BY <1>1, <1>2, <2>1 DEF Prev
<1>4. ASSUME r # <<>> PROVE Outstanding(h, r, K) /\ r[Len(r)] = s[n]
  <2>1. n - 1 >= 1
    BY <1>1, <1>4, EmptySeq
  <2>2. r[n - 1] = s[n]
    <3>1. n - 1 \in 1 .. n - 1 /\ (n - 1) + 1 = n
      BY <1>1, <2>1
    <3>2. QED
      BY <1>1, <3>1
  <2>3. ASSUME NEW i \in 1 .. n - 1
        PROVE  Image(r[i], K) /\ Untouched(Prev(h, r, i), r[i], K)
    <3>1. i + 1 \in 1 .. n /\ i + 1 # 1 /\ (i + 1) - 1 = i
      BY <1>1
    <3>2. r[i] = s[i + 1]
      BY <1>1
    <3>3. Prev(h, r, i) = s[i]
      <4>1. CASE i = 1
        BY <1>1, <4>1 DEF Prev
      <4>2. CASE i # 1
        <5>1. i - 1 \in 1 .. n - 1 /\ (i - 1) + 1 = i
          BY <1>1, <4>2
        <5>2. r[i - 1] = s[i]
          BY <1>1, <5>1
        <5>3. QED
          BY <4>2, <5>2 DEF Prev
      <4>3. QED
        BY <4>1, <4>2
    <3>4. Prev(d, s, i + 1) = s[i]
      BY <3>1 DEF Prev
    <3>5. QED
      BY <1>2, <3>1, <3>2, <3>3, <3>4
  <2>4. QED
    BY <1>1, <1>2, <2>1, <2>2, <2>3 DEF Outstanding
<1>5. ASSUME r = <<>> PROVE h = s[n] /\ Ready(h)
  <2>1. n = 1
    BY <1>1, <1>5, EmptySeq
  <2>2. QED
    BY <1>1, <1>2, <2>1
<1>6. QED
  BY <1>3, <1>4, <1>5 DEF h, r, n

(* Between two writes the disk does not change: a step that leaves it as   *)
(* it is, with nothing outstanding, keeps the invariant.                   *)
LEMMA QuietKeeps ==
  ASSUME TypeOK, TreeInv, todo = <<>>, UNCHANGED <<disk, todo, losses>>,
         Calm /\ mounted' => disk.signed, op'.call \notin {"lost", "runaway"}
  PROVE  TreeInv'
<1>1. ASSUME Calm PROVE CalmInv'
  <2>1. disk.signed => Ready(disk)
    BY <1>1 DEF TreeInv, CalmInv
  <2>2. disk = BlankDisk \/ disk.signed
    BY <1>1 DEF TreeInv, CalmInv, Holds, Image
  <2>3. Holds(disk, OpKey')
    BY <2>1, <2>2, ReadyImage DEF Holds
  <2>4. QED
    BY <1>1, <2>1, <2>3 DEF CalmInv
<1>2. Calm' = Calm
  BY DEF Calm
<1>3. RootInv => RootInv'
  BY DEF RootInv, Settled
<1>4. LostInv'
  BY DEF LostInv
<1>5. QED
  BY <1>1, <1>2, <1>3, <1>4 DEF TreeInv

(* So does one that lines up writes as above.                              *)
LEMMA CallKeeps ==
  ASSUME TypeOK, TypeOK', TreeInv, Idle, UNCHANGED <<disk, mounted, losses>>,
         Calm => LinedUp(disk, todo', OpKey'), Calm => op'.call # "runaway",
         op'.call # "lost"
  PROVE  TreeInv'
<1>1. mounted /\ todo = <<>>
  BY DEF Idle, Quiet
<1>2. todo' \in Seq(Disks)
  BY DEF TypeOK
<1>3. Calm' = Calm
  BY DEF Calm
<1>4. ASSUME Calm PROVE todo' # <<>> /\ Outstanding(disk, todo', OpKey')
  <2>1. Len(todo') >= 1
    BY <1>4 DEF LinedUp, Outstanding
  <2>2. QED
    BY <1>4, <2>1 DEF LinedUp
<1>5. ASSUME Calm PROVE CalmInv' /\ Ready(disk)
  <2>1. Ready(disk)
    BY <1>1, <1>5 DEF TreeInv, CalmInv
  <2>2. Holds(disk, OpKey')
    BY <2>1, ReadyImage DEF Holds
  <2>3. QED
    BY <1>4, <1>5, <2>1, <2>2 DEF CalmInv
<1>6. ASSUME losses = 0 PROVE RootInv'
  <2>1. Calm
    BY <1>6 DEF Calm
  <2>2. Settled = disk /\ Settled' = todo'[Len(todo')]
    BY <1>1, <1>2, <1>4, <2>1, SettledLast DEF Settled
  <2>3. disk.signed
    BY <1>5, <2>1 DEF Ready
  <2>4. ROOT_CLUSTER_NUMBER \in Directories(disk)
    BY <1>6, <2>2, <2>3 DEF TreeInv, RootInv
  <2>5. QED
    BY <2>1, <2>2, <2>4 DEF LinedUp, RootInv
<1>7. LostInv'
  BY DEF LostInv
<1>8. QED
  BY <1>1, <1>3, <1>5, <1>6, <1>7 DEF TreeInv

(* The calls that line up writes.                                          *)
LEMMA MakeKeeps ==
  ASSUME TypeOK, TypeOK', TreeInv, 0 \in Sizes, NEW parent \in DataClusters,
         NEW n \in Names, MakeDirectory(parent, n)
  PROVE  TreeInv'
<1>1. /\ Idle /\ UNCHANGED <<disk, mounted, losses>>
      /\ disk.cell[parent].table[0].used
      /\ EmptyClusters(disk.fat, ROOT_CLUSTER_NUMBER + 1) # {}
      /\ FreeSlots(disk.cell[parent].table) # {}
      /\ todo' = InitDirectoryTable(disk, disk.fat, n, parent)
      /\ op' = WriteReply(parent, n, Blank, 0, "zero", 0)
  BY DEF MakeDirectory, CanWrite
<1>2. OpKey' = <<parent, n, Blank>> /\ op'.call = "write"
  BY <1>1 DEF OpKey, WriteReply, Returned
<1>3. ASSUME Calm PROVE LinedUp(disk, todo', OpKey')
  <2>1. Ready(disk)
    BY <1>1, <1>3 DEF TreeInv, CalmInv, Idle, Quiet
  <2>2. parent \in Directories(disk) /\ n \in AllNames
    BY <1>1 DEF Directories, AllNames
  <2>3. LinedUp(disk, InitDirectoryTable(disk, disk.fat, n, parent), <<parent, n, Blank>>)
    BY <1>1, <2>1, <2>2, MakeLinedUp
  <2>4. QED
    BY <1>1, <1>2, <2>3
<1>4. QED
  BY <1>1, <1>2, <1>3, CallKeeps

(* write() of a file keeps it.                                             *)
LEMMA WriteKeeps ==
  ASSUME TypeOK, TypeOK', TreeInv, NEW parent \in DataClusters,
         NEW n \in Names, NEW x \in Exts, NEW size \in Sizes, NEW p \in Payloads,
         WriteFile(parent, n, x, size, p)
  PROVE  TreeInv'
<1> DEFINE A == Allocation(size)
           m == Link(disk.fat, A, FAT32_FAT_END_OF_FILE)
<1>1. /\ Idle /\ UNCHANGED <<disk, mounted, losses>> /\ size > 0
      /\ disk.cell[parent].table[0].used
      /\ Cardinality(A) >= CeilDiv(size)
      /\ todo' = WriteImages(disk, m, Least(A), p, CeilDiv(size), parent,
                   AddEntry(disk.cell[parent].table, FileEntry(n, x, size, Least(A))))
      /\ op' = WriteReply(parent, n, x, size, p, 0)
  BY DEF WriteFile, CanWrite
<1>2. op'.call = "write"
  BY <1>1 DEF WriteReply, Returned
<1>3. ASSUME Calm PROVE LinedUp(disk, todo', OpKey')
  <2>1. Ready(disk)
    BY <1>1, <1>3 DEF TreeInv, CalmInv, Idle, Quiet
  <2>2. parent \in Directories(disk) /\ n \in AllNames /\ x \in AllExts /\ size \in Nat
    BY <1>1, RequestAssumption DEF Directories, AllNames, AllExts
  <2>3. A = Lowest(EmptyClusters(disk.fat, ROOT_CLUSTER_NUMBER + 1), CeilDiv(size))
    BY DEF Allocation
  <2> DEFINE K == OpKey'
  <2> HIDE DEF A, K
  <2>4. LinedUp(disk, WriteImages(disk, m, Least(A), p, CeilDiv(size), parent,
                   AddEntry(disk.cell[parent].table, FileEntry(n, x, size, Least(A)))), K)
    BY <1>1, <2>1, <2>2, <2>3, WriteLinedUp
  <2>5. QED
    BY <1>1, <2>4 DEF K
<1>4. QED
  BY <1>1, <1>2, <1>3, CallKeeps

(* delete() of a directory keeps it.                                       *)
LEMMA DropKeeps ==
  ASSUME TypeOK, TypeOK', TreeInv, ~ SelfRequests, NEW parent \in DataClusters,
         NEW n \in Names, NEW x \in Exts, DeleteDirectory(parent, n, x)
  PROVE  TreeInv'
<1> DEFINE t == Tab(disk, parent)
           found == SlotsNamed(t, n, x)
           i == Least(found)
           c == t[i].cluster
<1>1. /\ Idle /\ UNCHANGED <<disk, mounted, losses>>
      /\ n # t[0].name /\ found # {} /\ c # ROOT_CLUSTER_NUMBER /\ t[i].filesize = 0
      /\ Occupied(CellAt(disk, c).table) = {}
      /\ todo' = DeleteDirImages(disk, c, parent, ClearEntry(t, i))
      /\ op' = DeleteReply(parent, n, x, 0)
  BY DEF DeleteDirectory, MayDelete, Tab
<1>2. OpKey' = <<parent, n, x>> /\ op'.call = "delete"
  BY <1>1 DEF OpKey, DeleteReply, Returned
<1>3. ASSUME Calm PROVE LinedUp(disk, todo', OpKey')
  <2>1. Ready(disk)
    BY <1>1, <1>3 DEF TreeInv, CalmInv, Idle, Quiet
  <2>2. n # Blank
    BY GeometryAssumption
  <2>3. LinedUp(disk, DeleteDirImages(disk, c, parent, ClearEntry(t, i)), <<parent, n, x>>)
    BY <1>1, <2>1, <2>2, DropLinedUp
  <2>4. QED
    BY <1>1, <1>2, <2>3
<1>4. QED
  BY <1>1, <1>2, <1>3, CallKeeps

(* delete() of a file keeps it.                                            *)
LEMMA EraseKeeps ==
  ASSUME TypeOK, TypeOK', TreeInv, ChainsAscend, NEW parent \in DataClusters,
         NEW n \in Names, NEW x \in Exts, DeleteFile(parent, n, x)
  PROVE  TreeInv'
<1> DEFINE t == Tab(disk, parent)
           found == SlotsNamed(t, n, x)
           i == Least(found)
           c == t[i].cluster
           ends == EndsAfter(disk.fat, c)
           s == DeleteFileImages(disk, Walk(disk.fat, c), Least(ends), parent,
                                 ClearEntry(t, i))
<1>1. /\ Idle /\ UNCHANGED <<disk, mounted, losses>>
      /\ found # {} /\ t[i].filesize # 0
      /\ \/ ends # {} /\ todo' = s /\ op' = DeleteReply(parent, n, x, 0)
         \/ /\ ends = {} /\ UNCHANGED todo
            /\ op' = [DeleteReply(parent, n, x, 0) EXCEPT !.call = "runaway"]
  BY DEF DeleteFile, Tab
<1>2. op'.call # "lost" /\ (ends # {} => op'.call = "delete" /\ OpKey' = <<parent, n, x>>)
  BY <1>1 DEF OpKey, DeleteReply, Returned
<1>3. ASSUME Calm PROVE ends # {} /\ LinedUp(disk, todo', OpKey')
  <2>1. Ready(disk)
    BY <1>1, <1>3 DEF TreeInv, CalmInv, Idle, Quiet
  <2>2. n # Blank /\ Ascending(disk.fat)
    BY GeometryAssumption DEF ChainsAscend
  <2>3. ends # {} /\ LinedUp(disk, s, <<parent, n, x>>)
    BY <1>1, <2>1, <2>2, EraseLinedUp
  <2>4. QED
    BY <1>1, <1>2, <2>3
<1> HIDE DEF ends
<1>4. Calm => op'.call # "runaway"
  BY <1>2, <1>3
<1>5. QED
  BY <1>1, <1>2, <1>3, <1>4, CallKeeps

(* Every action keeps the invariant, provided that delete() is not given   *)
(* the name of the directory itself.                                       *)
LEMMA TreeStep ==
  ASSUME TypeOK, TypeOK', ChainsAscend, TreeInv, ~ SelfRequests, Next
  PROVE  TreeInv'
<1>1. todo \in Seq(Disks) /\ losses \in Nat /\ op \in Ops
  BY RequestAssumption DEF TypeOK
<1>2. Idle => todo = <<>> /\ mounted
  BY DEF Idle, Quiet
<1>3. Quiet => todo = <<>> /\ mounted
  BY DEF Quiet
<1>4. Calm /\ todo = <<>> /\ mounted => disk.signed
  BY DEF TreeInv, CalmInv
<1>5. CASE Format
  <2>1. /\ ~ disk.signed /\ mounted' /\ todo' = FormatImages
        /\ UNCHANGED <<disk, losses>>
        /\ op'.call = "format"
    BY <1>5 DEF Format, NoCall
  <2>2. ASSUME Calm PROVE /\ disk = BlankDisk /\ LinedUp(disk, todo', OpKey')
                          /\ ROOT_CLUSTER_NUMBER \in Directories(todo'[Len(todo')])
                          /\ todo' # <<>>
    <3>1. disk = BlankDisk
      BY <2>1, <2>2 DEF TreeInv, CalmInv, Holds, Image
    <3> DEFINE K == OpKey'
    <3> HIDE DEF K
    <3>2. /\ LinedUp(disk, FormatImages, K)
          /\ ROOT_CLUSTER_NUMBER \in Directories(FormatImages[Len(FormatImages)])
      BY <3>1, FormatLinedUp
    <3>3. Len(todo') >= 1
      BY <2>1, <3>2 DEF LinedUp, Outstanding
    <3>4. QED
      BY <2>1, <3>1, <3>2, <3>3 DEF K
  <2>3. Calm' = Calm
    BY <2>1 DEF Calm
  <2>4. Calm => CalmInv'
    BY <2>1, <2>2, NewDisk DEF CalmInv, Holds, LinedUp
  <2>5. ASSUME losses = 0 PROVE RootInv'
    <3>1. todo' \in Seq(Disks) /\ Calm
      BY <2>5 DEF TypeOK, Calm
    <3>2. Settled' = todo'[Len(todo')]
      BY <2>2, <3>1, SettledLast
    <3>3. QED
      BY <2>2, <3>1, <3>2 DEF RootInv
  <2>6. LostInv'
    BY <2>1 DEF LostInv
  <2>7. QED
    BY <2>1, <2>3, <2>4, <2>5, <2>6 DEF TreeInv
<1>6. CASE Mount
  <2>1. /\ disk.signed /\ ~ mounted /\ UNCHANGED <<disk, todo, losses>> /\ op'.call = "none"
    BY <1>6 DEF Mount, NoCall
  <2>2. todo = <<>>
    BY <2>1 DEF TreeInv
  <2>3. QED
    BY <2>1, <2>2, QuietKeeps
<1>7. CASE WriteBlocks
  <2>1. /\ todo # <<>> /\ disk' = Head(todo) /\ todo' = Tail(todo)
        /\ UNCHANGED <<mounted, op, losses>>
    BY <1>7 DEF WriteBlocks
  <2>2. mounted
    BY <2>1 DEF TreeInv
  <2>3. OpKey' = OpKey /\ Calm' = Calm
    BY <2>1 DEF OpKey, Calm
  <2>4. ASSUME Calm
        PROVE  /\ Image(Head(todo), OpKey)
               /\ Tail(todo) # <<>> => /\ Outstanding(Head(todo), Tail(todo), OpKey)
                                       /\ Tail(todo)[Len(Tail(todo))] = todo[Len(todo)]
               /\ Tail(todo) = <<>> => Head(todo) = todo[Len(todo)] /\ Ready(Head(todo))
    <3>1. Outstanding(disk, todo, OpKey)
      BY <2>1, <2>4 DEF TreeInv, CalmInv
    <3>2. QED
      BY <1>1, <2>1, <3>1, NextOutstanding
  <2>5. ASSUME Calm PROVE CalmInv'
    <3>1. Holds(disk', OpKey') /\ (todo' # <<>> => Outstanding(disk', todo', OpKey'))
      BY <2>1, <2>3, <2>4, <2>5 DEF Holds
    <3>2. todo' = <<>> => Ready(disk') /\ disk'.signed
      BY <2>1, <2>4, <2>5 DEF Ready
    <3>3. op'.call # "runaway"
      BY <2>1, <2>5 DEF TreeInv, CalmInv
    <3>4. QED
      BY <3>1, <3>2, <3>3 DEF CalmInv
  <2>6. ASSUME Calm PROVE Settled' = Settled
    BY <2>1, <2>4, <2>6 DEF Settled
  <2>7. losses = 0 /\ RootInv => RootInv'
    BY <2>6 DEF RootInv, Calm
  <2>8. LostInv'
    BY <2>1, <2>2 DEF TreeInv, LostInv
  <2>9. QED
    BY <2>1, <2>2, <2>3, <2>5, <2>7, <2>8 DEF TreeInv
<1>8. CASE Return
  <2>1. Quiet /\ UNCHANGED <<disk, todo, losses>> /\ op'.call = "none"
    BY <1>8 DEF Return, NoCall
  <2>2. QED
    BY <1>3, <1>4, <2>1, QuietKeeps
<1>9. CASE PowerOff
  <2>1. Idle /\ ~ mounted' /\ UNCHANGED <<disk, todo, losses>> /\ op'.call = "none"
    BY <1>9 DEF PowerOff, NoCall
  <2>2. QED
    BY <1>2, <2>1, QuietKeeps
<1>10. CASE PowerLoss
  <2>1. /\ todo # <<>> /\ losses' = losses + 1 /\ ~ mounted' /\ todo' = <<>>
        /\ op' = [op EXCEPT !.call = "lost"] /\ disk' = disk
    BY <1>10 DEF PowerLoss
  <2>2. op'.call = "lost" /\ OpKey' = OpKey
    BY <1>1, <2>1 DEF OpKey, Ops
  <2>3. Calm' => Calm /\ 0 \notin Sizes
    BY <1>1, <2>1 DEF Calm
  <2>4. ASSUME Calm PROVE Holds(disk', OpKey')
    BY <2>1, <2>2, <2>4 DEF TreeInv, CalmInv
  <2>5. ASSUME Calm' PROVE CalmInv'
    <3>1. Holds(disk', OpKey')
      BY <2>3, <2>4, <2>5
    <3>2. disk'.signed => Ready(disk')
      BY <2>3, <2>5, <3>1, NewDisk, FlatReady DEF Holds
    <3>3. QED
      BY <2>1, <2>2, <3>1, <3>2 DEF CalmInv
  <2>6. losses' <= 1 => losses = 0
    BY <1>1, <2>1
  <2>7. losses' <= 1 => LostInv'
    BY <2>4, <2>6 DEF Calm, LostInv
  <2>8. losses' # 0
    BY <1>1, <2>1
  <2>9. QED
    BY <2>1, <2>5, <2>7, <2>8 DEF TreeInv
<1>11. ASSUME NEW parent \in DataClusters, NEW n \in Names, ReadDirectory(parent, n)
       PROVE  TreeInv'
  <2>1. Idle /\ UNCHANGED <<disk, mounted, todo, losses>> /\ op'.call = "read_directory"
    BY <1>11, SMTT(30) DEF ReadDirectory, Returned
  <2>2. QED
    BY <1>2, <1>4, <2>1, QuietKeeps
<1>12. ASSUME NEW parent \in DataClusters, NEW n \in Names, NEW x \in Exts,
              DeleteRefused(parent, n, x)
       PROVE  TreeInv'
  <2>1. Idle /\ UNCHANGED <<disk, mounted, todo, losses>> /\ op'.call = "delete"
    BY SMTT(60), <1>12 DEF DeleteRefused, DeleteReply, Returned
  <2>2. QED
    BY <1>2, <1>4, <2>1, QuietKeeps
<1>13. ASSUME NEW parent \in DataClusters, NEW n \in Names, NEW x \in Exts,
              NEW size \in Sizes, Read(parent, n, x, size)
       PROVE  TreeInv'
  <2>1. Idle /\ UNCHANGED <<disk, mounted, todo, losses>> /\ op'.call = "read"
    BY <1>13 DEF Read, Returned
  <2>2. QED
    BY <1>2, <1>4, <2>1, QuietKeeps
<1>14. ASSUME NEW parent \in DataClusters, NEW n \in Names, NEW x \in Exts,
              NEW size \in Sizes,
              WriteRefused(parent, n, x, size) \/ WriteRunsOut(parent, n, x, size)
       PROVE  TreeInv'
  <2>1. Idle /\ UNCHANGED <<disk, mounted, todo, losses>> /\ op'.call = "write"
    BY <1>14 DEF WriteRefused, WriteRunsOut, WriteReply, Returned
  <2>2. QED
    BY <1>2, <1>4, <2>1, QuietKeeps
<1>15. QED
  BY <1>5, <1>6, <1>7, <1>8, <1>9, <1>10, <1>11, <1>12, <1>13, <1>14,
     MakeKeeps, WriteKeeps, DropKeeps, EraseKeeps DEF Next

-----------------------------------------------------------------------------
(* The theorems.                                                           *)

(* The invariant holds whenever delete() is never given the name of the    *)
(* directory itself, in every geometry and after any number of losses.     *)
THEOREM TreeInvariant == ASSUME ~ SelfRequests PROVE Spec => []TreeInv
<1>1. Init => TreeInv
  <2> SUFFICES ASSUME Init PROVE TreeInv
    OBVIOUS
  <2>1. Settled = BlankDisk /\ op.call = "none" /\ disk = BlankDisk /\ todo = <<>> /\ ~ mounted
    BY DEF Init, Settled, NoCall
  <2>2. QED
    BY <2>1, NewDisk DEF TreeInv, CalmInv, RootInv, LostInv, Holds
<1>2. TypeOK /\ TypeOK' /\ ChainsAscend /\ TreeInv /\ [Next]_vars => TreeInv'
  <2>1. TypeOK /\ TypeOK' /\ ChainsAscend /\ TreeInv /\ Next => TreeInv'
    BY TreeStep
  <2>2. TreeInv /\ UNCHANGED vars => TreeInv'
    BY DEF TreeInv, CalmInv, RootInv, LostInv, Calm, OpKey, Settled, vars
  <2>3. QED
    BY <2>1, <2>2
<1>3. QED
  BY <1>1, <1>2, TypeCorrect, AscendCorrect, PTL DEF Spec

(* The disk is sound at every moment.                                      *)
LEMMA CalmSound ==
  ASSUME TreeInv, Calm
  PROVE  disk \in Disks /\ Sound(disk)
  BY NewDisk DEF TreeInv, CalmInv, Holds, Image

(* No cluster belongs to two entries, and none of the root, at any moment  *)
(* of any operation: for ever if only files are made, and with directories *)
(* until the power fails in the midst of an operation.                     *)
THEOREM SharingCorrect ==
  ASSUME ~ SelfRequests PROVE Spec => [](Calm => NothingShared)
<1>1. TreeInv => (Calm => NothingShared)
  BY CalmSound DEF Sound, Apart, NothingShared
<1>2. QED
  BY <1>1, TreeInvariant, PTL

(* The chain of every listed file has an end and just the clusters that    *)
(* its filesize needs, wherever the power fails: write() makes the entry   *)
(* after the FAT, and delete() clears it while the FAT is untouched.       *)
THEOREM ChainsCorrect ==
  ASSUME ~ SelfRequests PROVE Spec => [](Calm => ChainsWhole)
<1>1. ASSUME TreeInv, Calm PROVE ChainsWhole
  <2>1. disk \in Disks /\ Sound(disk)
    BY <1>1, CalmSound
  <2>2. ASSUME NEW l \in Listed(disk), IsFile(EntryAt(disk, l))
        PROVE  /\ EndsAfter(disk.fat, EntryAt(disk, l).cluster) # {}
               /\ Least(EndsAfter(disk.fat, EntryAt(disk, l).cluster)) + 1
                    = CeilDiv(EntryAt(disk, l).filesize)
    <3> DEFINE e == EntryAt(disk, l)
    <3>1. ChainIs(disk.fat, e.cluster, CeilDiv(e.filesize) - 1)
      BY <2>1, <2>2 DEF Sound, FileOk, EntryOk
    <3>2. e.filesize \in Nat
      BY <2>1, <2>2, TabTypes
    <3>3. CeilDiv(e.filesize) \in Nat
      BY <3>2, CeilDivNat
    <3> HIDE DEF e
    <3>4. /\ EndsAfter(disk.fat, e.cluster) # {}
          /\ Least(EndsAfter(disk.fat, e.cluster)) = CeilDiv(e.filesize) - 1
      BY <3>1, ChainFacts
    <3>5. (CeilDiv(e.filesize) - 1) + 1 = CeilDiv(e.filesize)
      BY <3>3
    <3>6. QED
      BY <3>4, <3>5 DEF e
  <2>3. QED
    BY <2>2 DEF ChainsWhole
<1>2. TreeInv => (Calm => ChainsWhole)
  BY <1>1
<1>3. QED
  BY <1>2, TreeInvariant, PTL

(* A listed file holds what one write() stored, but for the first clusters *)
(* of one that an interrupted delete() has zeroed: never data of another   *)
(* file, never that of an unfinished write.                                *)
THEOREM ContentsCorrect ==
  ASSUME ~ SelfRequests PROVE Spec => [](Calm => WholeOrErased)
<1>1. ASSUME TreeInv, Calm PROVE WholeOrErased
  <2>1. Sound(disk)
    BY <1>1, CalmSound
  <2>2. ASSUME NEW l \in Listed(disk), IsFile(EntryAt(disk, l))
        PROVE  \E p \in Payloads, k \in 0 .. CeilDiv(EntryAt(disk, l).filesize) :
                 StoredBut(disk, EntryAt(disk, l), p, k)
    BY <2>1, <2>2 DEF Sound, FileOk, EntryOk
  <2>3. QED
    BY <2>2, Zenon DEF WholeOrErased, StoredBut
<1>2. TreeInv => (Calm => WholeOrErased)
  BY <1>1
<1>3. QED
  BY <1>2, TreeInvariant, PTL

(* The loop of delete() over the chain of a file always meets its end.     *)
THEOREM WalksCorrect ==
  ASSUME ~ SelfRequests PROVE Spec => [](Calm => NoRunaway)
<1>1. TreeInv => (Calm => NoRunaway)
  BY DEF TreeInv, CalmInv, NoRunaway
<1>2. QED
  BY <1>1, TreeInvariant, PTL

(* Between operations the directories form a tree whose every entry is     *)
(* whole, as long as the power has not failed within an operation.         *)
THEOREM TreeCorrect ==
  ASSUME ~ SelfRequests PROVE Spec => [](losses = 0 => TreeWhole)
<1>1. ASSUME TreeInv, losses = 0, Quiet
      PROVE  TreeBut(disk, {}) /\ ROOT_CLUSTER_NUMBER \in Directories(disk)
  <2>1. Calm /\ mounted /\ todo = <<>> /\ Settled = disk
    BY <1>1 DEF Calm, Quiet, Settled
  <2>2. disk.signed /\ Ready(disk)
    BY <1>1, <2>1 DEF TreeInv, CalmInv
  <2>3. QED
    BY <1>1, <2>1, <2>2 DEF Ready, TreeInv, RootInv
<1>2. TreeInv => (losses = 0 => TreeWhole)
  BY <1>1 DEF TreeWhole, TreeBut, Entered
<1>3. QED
  BY <1>2, TreeInvariant, PTL

(* The first power loss in the midst of an operation breaks at most the    *)
(* entry that the operation names and cuts no directory off; if only files *)
(* are made this is so for every loss.                                     *)
THEOREM LossCorrect ==
  ASSUME ~ SelfRequests
  PROVE  Spec => [](losses <= 1 \/ 0 \notin Sizes => LossConfined)
<1>1. ASSUME TreeInv, losses <= 1 \/ 0 \notin Sizes, op.call = "lost"
      PROVE  TreeBut(disk, NamedBy(disk, OpKey))
  <2>1. Holds(disk, OpKey)
    BY <1>1 DEF TreeInv, LostInv, CalmInv, Calm
  <2>2. CASE disk = BlankDisk
    BY <2>2, NewDisk, TreeMore
  <2>3. CASE Image(disk, OpKey)
    BY <2>3 DEF Image
  <2>4. QED
    BY <2>1, <2>2, <2>3 DEF Holds
<1>2. ASSUME TreeBut(disk, NamedBy(disk, OpKey)) PROVE LossConfined
  <2>1. ASSUME NEW l \in Listed(disk),
               <<l[1], EntryAt(disk, l).name, EntryAt(disk, l).ext>>
                 # <<op.parent, op.name, op.ext>>
        PROVE  EntryWhole(disk, l)
    <3>1. l \notin NamedBy(disk, OpKey)
      BY <2>1 DEF NamedBy, Key, OpKey
    <3>2. QED
      BY <1>2, <3>1 DEF TreeBut
  <2>2. \A c \in Directories(disk) \ {ROOT_CLUSTER_NUMBER} : Entered(disk, c)
    BY <1>2 DEF TreeBut
  <2>3. QED
    BY <2>1, <2>2 DEF LossConfined, Entered
<1>3. TreeInv => (losses <= 1 \/ 0 \notin Sizes => LossConfined)
  <2>1. op.call # "lost" => LossConfined
    BY DEF LossConfined
  <2>2. QED
    BY <1>1, <1>2, <2>1
<1>4. QED
  BY <1>3, TreeInvariant, PTL

(* Every call works on the images of the disk: only write_blocks() changes *)
(* the disk itself.                                                        *)
LEMMA OnlyWritten == ASSUME Next, disk' # disk PROVE WriteBlocks
<1>1. ASSUME Format PROVE disk' = disk
  BY <1>1 DEF Format
<1>2. ASSUME Mount PROVE disk' = disk
  BY <1>2 DEF Mount
<1>3. ASSUME Return PROVE disk' = disk
  BY <1>3 DEF Return
<1>4. ASSUME PowerOff PROVE disk' = disk
  BY <1>4 DEF PowerOff
<1>5. ASSUME PowerLoss PROVE disk' = disk
  BY <1>5 DEF PowerLoss
<1>6. ASSUME NEW parent, NEW n, ReadDirectory(parent, n) PROVE disk' = disk
  BY <1>6 DEF ReadDirectory
<1>7. ASSUME NEW parent, NEW n, MakeDirectory(parent, n) PROVE disk' = disk
  BY <1>7 DEF MakeDirectory
<1>8. ASSUME NEW parent, NEW n, NEW x, DeleteRefused(parent, n, x) PROVE disk' = disk
  BY <1>8 DEF DeleteRefused
<1>9. ASSUME NEW parent, NEW n, NEW x, DeleteDirectory(parent, n, x) PROVE disk' = disk
  BY <1>9 DEF DeleteDirectory
<1>10. ASSUME NEW parent, NEW n, NEW x, DeleteFile(parent, n, x) PROVE disk' = disk
  BY <1>10 DEF DeleteFile
<1>11. ASSUME NEW parent, NEW n, NEW x, NEW size, Read(parent, n, x, size) PROVE disk' = disk
  BY <1>11 DEF Read
<1>12. ASSUME NEW parent, NEW n, NEW x, NEW size, WriteRefused(parent, n, x, size) PROVE disk' = disk
  BY <1>12 DEF WriteRefused
<1>13. ASSUME NEW parent, NEW n, NEW x, NEW size, WriteRunsOut(parent, n, x, size) PROVE disk' = disk
  BY <1>13 DEF WriteRunsOut
<1>14. ASSUME NEW parent, NEW n, NEW x, NEW size, NEW p, WriteFile(parent, n, x, size, p) PROVE disk' = disk
  BY <1>14 DEF WriteFile
<1>15. QED
  BY <1>1, <1>2, <1>3, <1>4, <1>5, <1>6, <1>7, <1>8,
     <1>9, <1>10, <1>11, <1>12, <1>13, <1>14, Zenon DEF Next

(* No write to the disk touches a file that the running call does not      *)
(* name: the file keeps its entry and its contents.                        *)
THEOREM WritesCorrect ==
  ASSUME ~ SelfRequests PROVE Spec /\ []Calm => WritesConfined
<1> DEFINE Confined ==
      disk' # disk => \A l \in Listed(disk) :
        LET e == EntryAt(disk, l) IN
        IsFile(e) /\ <<l[1], e.name, e.ext>> # <<op'.parent, op'.name, op'.ext>> =>
          /\ l \in Listed(disk')
          /\ EntryAt(disk', l) = e
          /\ Contents(disk', e) = Contents(disk, e)
<1>1. ASSUME TypeOK, TreeInv, Calm, Next PROVE Confined
  <2> SUFFICES ASSUME disk' # disk PROVE Confined
    OBVIOUS
  <2>1. WriteBlocks
    BY <1>1, OnlyWritten
  <2>2. /\ todo # <<>> /\ todo \in Seq(Disks) /\ disk' = Head(todo) /\ op' = op
    BY <1>1, <2>1 DEF WriteBlocks, TypeOK
  <2>3. Outstanding(disk, todo, OpKey)
    BY <1>1, <2>2 DEF TreeInv, CalmInv
  <2>4. Untouched(disk, disk', OpKey)
    BY <2>2, <2>3, NextOutstanding
  <2>5. QED
    BY <2>2, <2>4 DEF Untouched, Key, OpKey
<1>2. TypeOK /\ TreeInv /\ Calm /\ [Next]_vars => [Confined]_vars
  BY <1>1
<1>3. QED
  BY <1>2, TypeCorrect, TreeInvariant, PTL DEF Spec, WritesConfined

-----------------------------------------------------------------------------
(* The file store: what the last image of a call holds.                    *)

(* The names in the table of a directory are apart: no entry has the name  *)
(* of another one, of the directory itself or of the way up, which is "..". *)
NamesApart(d) ==
  /\ \A c \in Directories(d) : Tab(d, c)[1].name = ".."
  /\ \A c \in DataClusters, i \in Slots, j \in Slots \ {0, 1} :
       i # j /\ Tab(d, c)[i].used /\ Tab(d, c)[j].used =>
         <<Tab(d, c)[i].name, Tab(d, c)[i].ext>>
           # <<Tab(d, c)[j].name, Tab(d, c)[j].ext>>

(* A file none of whose clusters is written to keeps them.                 *)
LEMMA ClustersKept ==
  ASSUME NEW a, Ready(a), NEW b, NEW S, NEW parent \in Directories(a),
         Only(a, b, S \cup {parent}), NEW k \in Listed(a),
         IsFile(EntryAt(a, k)) => S \cap Owned(a, EntryAt(a, k)) = {}
  PROVE  SameClusters(a, b, EntryAt(a, k))
<1>1. a \in Disks /\ FileOk(a, k)
  BY DEF Ready, Sound
<1>2. SUFFICES ASSUME IsFile(EntryAt(a, k)), NEW c \in Owned(a, EntryAt(a, k))
               PROVE  /\ b.fat[c] = a.fat[c] /\ Tab(b, c) = Tab(a, c)
                      /\ Dat(b, c) = Dat(a, c)
  BY DEF SameClusters
<1>3. c \in DataClusters /\ Tab(a, c) = EmptyTable
  BY <1>1, <1>2, FilesTaken
<1>4. c # parent
  <2>1. Tab(a, parent)[0].used
    BY ListedFacts
  <2>2. ~ EmptyTable[0].used
    BY SlotTypes DEF EmptyTable, EmptyEntry
  <2>3. QED
    BY <1>3, <2>1, <2>2
<1>5. QED
  BY <1>2, <1>3, <1>4 DEF Only

(* A call that fills a slot enters just that entry.                        *)
LEMMA FilledImage ==
  ASSUME NEW a, Ready(a), NEW b \in Disks, NamesApart(a), NEW parent \in Directories(a),
         NEW e \in Entries, e.used, NEW S, Filled(a, b, S, parent, e),
         SlotsNamed(Tab(a, parent), e.name, e.ext) = {},
         \A c \in S : Tab(b, c)[0].used => Tab(b, c)[1].name = "..",
         FreeSlots(Tab(a, parent)) # {}, NEW l,
         l = <<parent, Least(FreeSlots(Tab(a, parent)))>>
  PROVE  /\ NamesApart(b)
         /\ Listed(b) = Listed(a) \cup {l} /\ l \notin Listed(a)
         /\ EntryAt(b, l) = e /\ Key(b, l) = <<parent, e.name, e.ext>>
         /\ \A k \in Listed(a) : KeptEntry(a, b, k)
         /\ \A c \in DataClusters \ S : Tab(b, c)[0] = Tab(a, c)[0]
<1> DEFINE t == Tab(a, parent)
           i == Least(FreeSlots(t))
<1>1. a \in Disks /\ TablesOk(a) /\ parent \in DataClusters
  BY ListedFacts DEF Ready, Sound
<1>2. i \in Slots /\ i >= 2 /\ ~ t[i].used /\ AddEntry(t, e) = [t EXCEPT ![i] = e]
  BY <1>1, AddSlot
<1>3. t \in Tables /\ l[1] = parent /\ l[2] = i /\ i \in Slots \ {0, 1}
  BY <1>1, <1>2, TabTypes
<1> HIDE DEF i
<1>4. /\ \A j \in Slots : Tab(b, parent)[j] = IF j = i THEN e ELSE t[j]
      /\ \A c \in DataClusters \ (S \cup {parent}) : Tab(b, c) = Tab(a, c)
      /\ parent \notin S /\ S \subseteq DataClusters
      /\ \A c \in S : /\ a.fat[c] = FAT32_FAT_EMPTY_ENTRY
                      /\ \A j \in Slots \ {0, 1} : ~ Tab(b, c)[j].used
  BY <1>2, <1>3 DEF Filled, Only, Tables
<1>5. \A c \in S : Tab(a, c) = EmptyTable /\ \A k \in Listed(a) : c \notin Owned(a, EntryAt(a, k))
  BY <1>4, FreeFacts
<1>6. \A j \in Slots : ~ EmptyTable[j].used
  BY DEF EmptyTable, EmptyEntry
<1> HIDE DEF t
<1>7. ASSUME NEW c \in DataClusters, NEW j \in Slots \ {0, 1}
      PROVE  Tab(b, c)[j].used <=> (Tab(a, c)[j].used \/ (c = parent /\ j = i))
  <2>1. CASE c = parent
    BY <1>2, <1>4, <1>7, <2>1 DEF t
  <2>2. CASE c \in S
    BY <1>4, <1>5, <1>6, <1>7, <2>2
  <2>3. CASE c # parent /\ c \notin S
    BY <1>4, <1>7, <2>3
  <2>4. QED
    BY <2>1, <2>2, <2>3
<1>8. Listed(b) = Listed(a) \cup {l} /\ l \notin Listed(a)
  <2>1. ASSUME NEW k PROVE k \in Listed(b) <=> (k \in Listed(a) \/ k = l)
    <3>1. CASE k \in DataClusters \X (Slots \ {0, 1})
      <4>1. k[1] \in DataClusters /\ k[2] \in Slots \ {0, 1} /\ k = <<k[1], k[2]>>
        BY <3>1
      <4>2. k = l <=> (k[1] = parent /\ k[2] = i)
        BY <1>3, <4>1 DEF i, t
      <4>3. Tab(b, k[1])[k[2]].used <=> (Tab(a, k[1])[k[2]].used \/ k = l)
        BY <1>7, <4>1, <4>2
      <4>4. QED
        BY <3>1, <4>3, ListedFacts
    <3>2. CASE k \notin DataClusters \X (Slots \ {0, 1})
      <4>1. k # l
        BY <1>1, <1>3, <3>2 DEF i, t
      <4>2. QED
        BY <3>2, <4>1, ListedFacts
    <3>3. QED
      BY <3>1, <3>2
  <2>2. l \notin Listed(a)
    BY <1>2, <1>3, ListedFacts DEF t
  <2>3. QED
    BY <2>1, <2>2
<1>9. EntryAt(b, l) = e /\ Key(b, l) = <<parent, e.name, e.ext>>
  <2>1. EntryAt(b, l) = e
    <3>1. EntryAt(b, l) = Tab(b, parent)[i]
      BY <1>3 DEF EntryAt, Tab
    <3>2. QED
      BY <1>2, <1>4, <3>1
  <2>2. QED
    BY <1>3, <2>1 DEF Key
<1>10. ASSUME NEW k \in Listed(a) PROVE KeptEntry(a, b, k)
  <2>1. k[1] \in DataClusters /\ k[2] \in Slots /\ k[1] \in Directories(a)
    BY <1>1, TabTypes, ListedInDirectory
  <2>2. k[1] \notin S
    BY <1>5, <1>6, <2>1, ListedFacts
  <2>3. Tab(b, k[1])[k[2]] = Tab(a, k[1])[k[2]]
    <3>1. CASE k[1] = parent
      <4>1. k[2] # i
        BY <1>2, <2>1, <3>1, ListedFacts DEF t
      <4>2. QED
        BY <1>4, <2>1, <3>1, <4>1 DEF t
    <3>2. CASE k[1] # parent
      BY <1>4, <2>1, <2>2, <3>2
    <3>3. QED
      BY <3>1, <3>2
  <2>4. SameClusters(a, b, EntryAt(a, k))
    <3>1. S \cap Owned(a, EntryAt(a, k)) = {}
      BY <1>5
    <3>2. Only(a, b, S \cup {parent})
      BY DEF Filled
    <3>3. QED
      BY <3>1, <3>2, ClustersKept
  <2>5. QED
    <3>1. EntryAt(b, k) = EntryAt(a, k)
      BY <2>3 DEF EntryAt, Tab
    <3>2. QED
      BY <1>8, <2>4, <3>1 DEF KeptEntry
<1>11. ASSUME NEW c \in DataClusters \ S PROVE Tab(b, c)[0] = Tab(a, c)[0] /\ Tab(b, c)[1] = Tab(a, c)[1]
  <2>1. CASE c = parent
    BY <1>2, <1>4, <2>1, SlotTypes DEF t
  <2>2. CASE c # parent
    BY <1>4, <1>11, <2>2
  <2>3. QED
    BY <2>1, <2>2
<1>12. NamesApart(b)
  <2>1. ASSUME NEW c \in Directories(b) PROVE Tab(b, c)[1].name = ".."
    <3>1. c \in DataClusters /\ Tab(b, c)[0].used
      BY ListedFacts
    <3>2. CASE c \in S
      BY <3>1, <3>2
    <3>3. CASE c \notin S
      <4>1. c \in Directories(a) /\ Tab(b, c)[1] = Tab(a, c)[1]
        BY <1>11, <3>1, <3>3, ListedFacts
      <4>2. QED
        BY <4>1 DEF NamesApart
    <3>4. QED
      BY <3>2, <3>3
  <2>2. ASSUME NEW c \in DataClusters, NEW j \in Slots, NEW k \in Slots \ {0, 1},
               j # k, Tab(b, c)[j].used, Tab(b, c)[k].used
        PROVE  <<Tab(b, c)[j].name, Tab(b, c)[j].ext>>
                 # <<Tab(b, c)[k].name, Tab(b, c)[k].ext>>
    <3>1. c \notin S
      BY <1>4, <2>2
    <3>2. CASE c # parent
      <4>1. Tab(b, c) = Tab(a, c)
        BY <1>4, <3>1, <3>2
      <4>2. QED
        BY <2>2, <4>1 DEF NamesApart
    <3>3. CASE c = parent /\ j # i /\ k # i
      <4>1. Tab(b, c)[j] = Tab(a, c)[j] /\ Tab(b, c)[k] = Tab(a, c)[k]
        BY <1>4, <3>3 DEF t
      <4>2. QED
        BY <2>2, <4>1 DEF NamesApart
    <3>4. \A q \in Slots : t[q].name # e.name \/ t[q].ext # e.ext
      BY DEF SlotsNamed, t
    <3>5. CASE c = parent /\ j = i
      <4>1. Tab(b, c)[j] = e /\ Tab(b, c)[k] = t[k]
        BY <1>4, <2>2, <3>5
      <4>2. QED
        BY <3>4, <4>1
    <3>6. CASE c = parent /\ k = i
      <4>1. Tab(b, c)[k] = e /\ Tab(b, c)[j] = t[j]
        BY <1>4, <2>2, <3>6
      <4>2. QED
        BY <3>4, <4>1
    <3>7. QED
      BY <3>2, <3>3, <3>5, <3>6
  <2>3. QED
    BY <2>1, <2>2 DEF NamesApart
<1>13. QED
  BY <1>8, <1>9, <1>10, <1>11, <1>12

(* A file for which there is no slot leaves every table as it was.         *)
LEMMA FullImage ==
  ASSUME NEW a, Ready(a), NEW b \in Disks, NamesApart(a), NEW parent \in Directories(a),
         NEW e \in Entries, NEW S, Filled(a, b, S, parent, e),
         \A c \in S : Tab(b, c) = EmptyTable, FreeSlots(Tab(a, parent)) = {}
  PROVE  /\ NamesApart(b)
         /\ Listed(b) = Listed(a) /\ Directories(b) = Directories(a)
         /\ \A k \in Listed(a) : KeptEntry(a, b, k)
         /\ \A c \in DataClusters : Tab(b, c)[0] = Tab(a, c)[0]
<1>1. a \in Disks /\ TablesOk(a) /\ parent \in DataClusters
  BY ListedFacts DEF Ready, Sound
<1>2. ASSUME NEW c \in S
      PROVE  Tab(a, c) = EmptyTable /\ \A k \in Listed(a) : c \notin Owned(a, EntryAt(a, k))
  BY FreeFacts DEF Filled
<1>3. ASSUME NEW c \in DataClusters PROVE Tab(b, c) = Tab(a, c)
  <2>1. CASE c = parent
    BY <1>1, <2>1, AddSlot DEF Filled
  <2>2. CASE c \in S
    BY <1>2, <2>2
  <2>3. CASE c # parent /\ c \notin S
    BY <2>3 DEF Filled, Only
  <2>4. QED
    BY <2>1, <2>2, <2>3
<1>4. /\ Listed(b) = Listed(a) /\ Directories(b) = Directories(a)
      /\ \A k \in Listed(a) : EntryAt(b, k) = EntryAt(a, k)
  BY <1>1, <1>3, SameTables
<1>5. ASSUME NEW k \in Listed(a) PROVE KeptEntry(a, b, k)
  <2>1. S \cap Owned(a, EntryAt(a, k)) = {}
    BY <1>2
  <2>2. Only(a, b, S \cup {parent})
    BY DEF Filled
  <2>3. SameClusters(a, b, EntryAt(a, k))
    BY <2>1, <2>2, ClustersKept
  <2>4. QED
    BY <1>4, <2>3 DEF KeptEntry
<1>6. NamesApart(b)
  <2>1. ASSUME NEW c \in Directories(b) PROVE Tab(b, c)[1].name = ".."
    <3>1. c \in DataClusters /\ c \in Directories(a)
      BY <1>4, ListedFacts
    <3>2. QED
      BY <1>3, <3>1 DEF NamesApart
  <2>2. ASSUME NEW c \in DataClusters, NEW i \in Slots, NEW j \in Slots \ {0, 1},
               i # j, Tab(b, c)[i].used, Tab(b, c)[j].used
        PROVE  <<Tab(b, c)[i].name, Tab(b, c)[i].ext>>
                 # <<Tab(b, c)[j].name, Tab(b, c)[j].ext>>
    <3>1. Tab(b, c) = Tab(a, c)
      BY <1>3
    <3>2. QED
      BY <2>2, <3>1 DEF NamesApart
  <2>3. QED
    BY <2>1, <2>2 DEF NamesApart
<1>7. QED
  BY <1>3, <1>4, <1>5, <1>6

(* A call that clears a slot removes just that entry.                      *)
LEMMA ClearedImage ==
  ASSUME NEW a, Ready(a), NEW b \in Disks, NamesApart(a), NEW parent \in DataClusters,
         NEW i \in Slots, NEW l \in Listed(a), l = <<parent, i>>,
         NEW S, Cleared(a, b, S, parent, i),
         \A k \in Listed(a) : k # l /\ IsFile(EntryAt(a, k)) =>
                                S \cap Owned(a, EntryAt(a, k)) = {}
  PROVE  /\ NamesApart(b)
         /\ Listed(b) = Listed(a) \ {l}
         /\ \A k \in Listed(b) : KeptEntry(a, b, k)
         /\ \A c \in DataClusters \ S : Tab(b, c)[0] = Tab(a, c)[0]
         /\ \A c \in S : ~ Tab(b, c)[0].used
<1>1. a \in Disks /\ TablesOk(a) /\ l[1] = parent /\ l[2] = i /\ Tab(a, parent) \in Tables
  BY TabTypes DEF Ready, Sound
<1>2. parent \in Directories(a)
  BY <1>1, ListedInDirectory
<1>3. \A j \in Slots : ~ EmptyTable[j].used /\ ~ EmptyEntry.used
  BY DEF EmptyTable, EmptyEntry
<1>4. /\ i \in Slots \ {0, 1}
      /\ \A j \in Slots : Tab(b, parent)[j] = IF j = i THEN EmptyEntry ELSE Tab(a, parent)[j]
      /\ \A c \in DataClusters \ (S \cup {parent}) : Tab(b, c) = Tab(a, c)
      /\ parent \notin S /\ S \subseteq DataClusters
      /\ \A c \in S : /\ Tab(b, c) = EmptyTable
                      /\ \A j \in Slots \ {0, 1} : ~ Tab(a, c)[j].used
  BY <1>1 DEF Cleared, Only, Tables
<1>5. ASSUME NEW c \in DataClusters, NEW j \in Slots, Tab(b, c)[j].used
      PROVE  Tab(b, c)[j] = Tab(a, c)[j] /\ ~ (c = parent /\ j = i)
  <2>1. CASE c = parent
    BY <1>3, <1>4, <1>5, <2>1
  <2>2. CASE c \in S
    BY <1>3, <1>4, <1>5, <2>2
  <2>3. CASE c # parent /\ c \notin S
    BY <1>4, <2>3
  <2>4. QED
    BY <2>1, <2>2, <2>3
<1>6. ASSUME NEW c \in DataClusters, NEW j \in Slots \ {0, 1}, Tab(a, c)[j].used,
             ~ (c = parent /\ j = i)
      PROVE  Tab(b, c)[j].used
  <2>1. c \notin S
    BY <1>4, <1>6
  <2>2. QED
    BY <1>4, <1>6, <2>1
<1>7. ASSUME NEW k PROVE k \in Listed(b) <=> (k \in Listed(a) /\ k # l)
  <2>1. CASE k \in DataClusters \X (Slots \ {0, 1})
    <3>1. k[1] \in DataClusters /\ k[2] \in Slots \ {0, 1} /\ k = <<k[1], k[2]>>
      BY <2>1
    <3>2. k = l <=> (k[1] = parent /\ k[2] = i)
      BY <1>1, <3>1
    <3>3. Tab(b, k[1])[k[2]].used <=> (Tab(a, k[1])[k[2]].used /\ k # l)
      BY <1>5, <1>6, <3>1, <3>2
    <3>4. QED
      BY <2>1, <3>3, ListedFacts
  <2>2. CASE k \notin DataClusters \X (Slots \ {0, 1})
    BY <2>2, ListedFacts
  <2>3. QED
    BY <2>1, <2>2
<1>8. Listed(b) = Listed(a) \ {l}
  BY <1>7
<1>9. ASSUME NEW k \in Listed(b) PROVE KeptEntry(a, b, k)
  <2>1. k \in Listed(a) /\ k # l
    BY <1>8
  <2>2. EntryAt(b, k) = EntryAt(a, k)
    <3>1. k[1] \in DataClusters /\ k[2] \in Slots /\ Tab(b, k[1])[k[2]].used
      BY TabTypes, ListedFacts
    <3>2. QED
      BY <1>5, <3>1 DEF EntryAt, Tab
  <2>3. Only(a, b, S \cup {parent})
    BY DEF Cleared
  <2>4. SameClusters(a, b, EntryAt(a, k))
    BY <1>2, <2>1, <2>3, ClustersKept
  <2>5. QED
    BY <2>1, <2>2, <2>4 DEF KeptEntry
<1>10. ASSUME NEW c \in DataClusters \ S
       PROVE  Tab(b, c)[0] = Tab(a, c)[0] /\ Tab(b, c)[1] = Tab(a, c)[1]
  <2>1. CASE c = parent
    BY <1>4, <2>1, SlotTypes
  <2>2. CASE c # parent
    BY <1>4, <1>10, <2>2
  <2>3. QED
    BY <2>1, <2>2
<1>11. \A c \in S : ~ Tab(b, c)[0].used
  BY <1>3, <1>4, SlotTypes
<1>12. NamesApart(b)
  <2>1. ASSUME NEW c \in Directories(b) PROVE Tab(b, c)[1].name = ".."
    <3>1. c \in DataClusters /\ Tab(b, c)[0].used
      BY ListedFacts
    <3>2. c \notin S
      BY <1>11, <3>1
    <3>3. c \in Directories(a) /\ Tab(b, c)[1] = Tab(a, c)[1]
      BY <1>10, <3>1, <3>2, ListedFacts
    <3>4. QED
      BY <3>3 DEF NamesApart
  <2>2. ASSUME NEW c \in DataClusters, NEW j \in Slots, NEW k \in Slots \ {0, 1},
               j # k, Tab(b, c)[j].used, Tab(b, c)[k].used
        PROVE  <<Tab(b, c)[j].name, Tab(b, c)[j].ext>>
                 # <<Tab(b, c)[k].name, Tab(b, c)[k].ext>>
    <3>1. Tab(b, c)[j] = Tab(a, c)[j] /\ Tab(b, c)[k] = Tab(a, c)[k]
      BY <1>5, <2>2
    <3>2. QED
      BY <2>2, <3>1 DEF NamesApart
  <2>3. QED
    BY <2>1, <2>2 DEF NamesApart
<1>13. QED
  BY <1>8, <1>9, <1>10, <1>11, <1>12

-----------------------------------------------------------------------------
(* The store that an image stands for.                                     *)

(* A directory and a name lead to one entry.                               *)
LEMMA KeysApart ==
  ASSUME NEW d \in Disks, NamesApart(d), NEW l \in Listed(d), NEW c, NEW i \in Slots,
         c = l[1], Tab(d, c)[i].used, Tab(d, c)[i].name = EntryAt(d, l).name,
         Tab(d, c)[i].ext = EntryAt(d, l).ext
  PROVE  i = l[2]
<1>1. /\ c \in DataClusters /\ l[2] \in Slots \ {0, 1}
      /\ Tab(d, c)[l[2]].used /\ EntryAt(d, l) = Tab(d, c)[l[2]]
  BY ListedFacts
<1>2. QED
  BY <1>1 DEF NamesApart

(* What the store has under the key of an entry.                           *)
LEMMA StoreFacts ==
  ASSUME NEW d \in Disks, NamesApart(d)
  PROVE  /\ \A k : k \in DOMAIN StoreOf(d) <=> \E l \in Listed(d) : Key(d, l) = k
         /\ \A l \in Listed(d) : StoreOf(d)[Key(d, l)] = ValueOf(d, EntryAt(d, l))
         /\ StoreOf(d) = [k \in DOMAIN StoreOf(d) |-> StoreOf(d)[k]]
<1>1. DOMAIN StoreOf(d) = {Key(d, l) : l \in Listed(d)}
  BY DEF StoreOf
<1>2. ASSUME NEW l \in Listed(d)
      PROVE  StoreOf(d)[Key(d, l)] = ValueOf(d, EntryAt(d, l))
  <2> DEFINE m == CHOOSE m \in Listed(d) : Key(d, m) = Key(d, l)
  <2>1. m \in Listed(d) /\ Key(d, m) = Key(d, l)
    OBVIOUS
  <2>2. StoreOf(d)[Key(d, l)] = ValueOf(d, EntryAt(d, m))
    BY DEF StoreOf
  <2> HIDE DEF m
  <2>3. /\ m[1] = l[1] /\ EntryAt(d, m).name = EntryAt(d, l).name
        /\ EntryAt(d, m).ext = EntryAt(d, l).ext
    BY <2>1 DEF Key
  <2>4. m[2] \in Slots /\ Tab(d, m[1])[m[2]].used /\ EntryAt(d, m) = Tab(d, m[1])[m[2]]
    BY <2>1, ListedFacts
  <2>5. m[2] = l[2]
    BY <2>3, <2>4, KeysApart
  <2>6. m = l
    BY <2>1, <2>3, <2>5, TabTypes
  <2>7. QED
    BY <2>2, <2>6
<1>3. StoreOf(d) = [k \in DOMAIN StoreOf(d) |-> StoreOf(d)[k]]
  BY <1>1 DEF StoreOf
<1>4. QED
  BY <1>1, <1>2, <1>3

(* An entry that is kept has its key and leads to what it did.             *)
LEMMA KeptValue ==
  ASSUME NEW a \in Disks, NEW b \in Disks, Sound(a), NEW l, KeptEntry(a, b, l)
  PROVE  /\ Key(b, l) = Key(a, l)
         /\ ValueOf(b, EntryAt(b, l)) = ValueOf(a, EntryAt(a, l))
<1>1. l \in Listed(a) /\ EntryAt(b, l) = EntryAt(a, l)
  BY DEF KeptEntry
<1>2. FileOk(a, l)
  BY <1>1 DEF Sound
<1>3. IsFile(EntryAt(a, l)) => Contents(b, EntryAt(a, l)) = Contents(a, EntryAt(a, l))
  BY <1>2, KeptFacts
<1>4. Key(b, l) = Key(a, l)
  BY <1>1 DEF Key
<1>5. QED
  BY <1>1, <1>3, <1>4 DEF ValueOf

(* The store stays as it is when every entry is kept,                      *)
LEMMA StoreSame ==
  ASSUME NEW a \in Disks, NEW b \in Disks, Sound(a), NamesApart(a), NamesApart(b),
         Listed(b) = Listed(a), \A l \in Listed(a) : KeptEntry(a, b, l)
  PROVE  StoreOf(b) = StoreOf(a)
<1>1. \A l \in Listed(a) : /\ Key(b, l) = Key(a, l)
                           /\ ValueOf(b, EntryAt(b, l)) = ValueOf(a, EntryAt(a, l))
  BY KeptValue
<1>2. \A k : k \in DOMAIN StoreOf(b) <=> k \in DOMAIN StoreOf(a)
  BY <1>1, StoreFacts
<1>3. DOMAIN StoreOf(b) = DOMAIN StoreOf(a)
  BY <1>2
<1>4. ASSUME NEW k \in DOMAIN StoreOf(a) PROVE StoreOf(b)[k] = StoreOf(a)[k]
  <2>1. PICK l \in Listed(a) : Key(a, l) = k
    BY StoreFacts
  <2>2. QED
    BY <1>1, <2>1, StoreFacts
<1>5. QED
  BY <1>3, <1>4, StoreFacts

(* gains a key when one is added,                                          *)
LEMMA StoreAdds ==
  ASSUME NEW a \in Disks, NEW b \in Disks, Sound(a), NamesApart(a), NamesApart(b),
         NEW l, l \notin Listed(a), Listed(b) = Listed(a) \cup {l},
         \A k \in Listed(a) : KeptEntry(a, b, k)
  PROVE  /\ Key(b, l) \notin DOMAIN StoreOf(a)
         /\ StoreOf(b) = Store!With(StoreOf(a), Key(b, l), ValueOf(b, EntryAt(b, l)))
<1>1. \A k \in Listed(a) : /\ Key(b, k) = Key(a, k)
                           /\ ValueOf(b, EntryAt(b, k)) = ValueOf(a, EntryAt(a, k))
  BY KeptValue
<1>2. ASSUME NEW k \in Listed(a) PROVE Key(a, k) # Key(b, l)
  <2>1. SUFFICES ASSUME Key(b, k) = Key(b, l) PROVE FALSE
    BY <1>1
  <2>2. /\ k \in Listed(b) /\ l \in Listed(b) /\ k # l
        /\ k[1] = l[1] /\ EntryAt(b, k).name = EntryAt(b, l).name
        /\ EntryAt(b, k).ext = EntryAt(b, l).ext
    BY <2>1 DEF Key
  <2>3. k[2] \in Slots /\ Tab(b, k[1])[k[2]].used /\ EntryAt(b, k) = Tab(b, k[1])[k[2]]
    BY <2>2, ListedFacts
  <2>4. k[2] = l[2]
    BY <2>2, <2>3, KeysApart
  <2>5. QED
    BY <2>2, <2>4, TabTypes
<1>3. Key(b, l) \notin DOMAIN StoreOf(a)
  BY <1>2, StoreFacts
<1>4. \A k : k \in DOMAIN StoreOf(b) <=> k \in DOMAIN StoreOf(a) \/ k = Key(b, l)
  BY <1>1, StoreFacts
<1>5. DOMAIN StoreOf(b) = DOMAIN StoreOf(a) \cup {Key(b, l)}
  BY <1>4
<1>6. ASSUME NEW k \in DOMAIN StoreOf(a) PROVE StoreOf(b)[k] = StoreOf(a)[k]
  <2>1. PICK j \in Listed(a) : Key(a, j) = k
    BY StoreFacts
  <2>2. j \in Listed(b) /\ Key(b, j) = k
    BY <1>1, <2>1
  <2>3. QED
    BY <1>1, <2>1, <2>2, StoreFacts
<1>7. StoreOf(b)[Key(b, l)] = ValueOf(b, EntryAt(b, l))
  BY StoreFacts
<1> DEFINE f == StoreOf(b)
           g == StoreOf(a)
           q == Key(b, l)
           v == ValueOf(b, EntryAt(b, l))
<1>8. f = [k \in DOMAIN f |-> f[k]]
  BY StoreFacts
<1> HIDE DEF f, g, q, v
<1>9. f = [j \in DOMAIN g \cup {q} |-> IF j = q THEN v ELSE g[j]]
  BY <1>5, <1>6, <1>7, <1>8 DEF f, g, q, v
<1>10. QED
  BY <1>3, <1>9 DEF Store!With, f, g, q, v

(* and loses one when one is removed.                                      *)
LEMMA StoreDrops ==
  ASSUME NEW a \in Disks, NEW b \in Disks, Sound(a), NamesApart(a), NamesApart(b),
         NEW l \in Listed(a), Listed(b) = Listed(a) \ {l},
         \A k \in Listed(b) : KeptEntry(a, b, k)
  PROVE  StoreOf(b) = Store!Without(StoreOf(a), {Key(a, l)})
<1>1. \A k \in Listed(b) : /\ Key(b, k) = Key(a, k)
                           /\ ValueOf(b, EntryAt(b, k)) = ValueOf(a, EntryAt(a, k))
  BY KeptValue
<1>2. ASSUME NEW k \in Listed(b) PROVE Key(a, k) # Key(a, l)
  <2>1. SUFFICES ASSUME Key(a, k) = Key(a, l) PROVE FALSE
    OBVIOUS
  <2>2. /\ k \in Listed(a) /\ k # l
        /\ k[1] = l[1] /\ EntryAt(a, k).name = EntryAt(a, l).name
        /\ EntryAt(a, k).ext = EntryAt(a, l).ext
    BY <2>1 DEF Key
  <2>3. k[2] \in Slots /\ Tab(a, k[1])[k[2]].used /\ EntryAt(a, k) = Tab(a, k[1])[k[2]]
    BY <2>2, ListedFacts
  <2>4. k[2] = l[2]
    BY <2>2, <2>3, KeysApart
  <2>5. QED
    BY <2>2, <2>4, TabTypes
<1>3. \A k : k \in DOMAIN StoreOf(b) <=> k \in DOMAIN StoreOf(a) /\ k # Key(a, l)
  BY <1>1, <1>2, StoreFacts
<1>4. DOMAIN StoreOf(b) = DOMAIN StoreOf(a) \ {Key(a, l)}
  BY <1>3
<1>5. ASSUME NEW k \in DOMAIN StoreOf(b) PROVE StoreOf(b)[k] = StoreOf(a)[k]
  <2>1. PICK j \in Listed(b) : Key(b, j) = k
    BY StoreFacts
  <2>2. QED
    BY <1>1, <2>1, StoreFacts
<1> DEFINE f == StoreOf(b)
           g == StoreOf(a)
           q == Key(a, l)
<1>6. f = [k \in DOMAIN f |-> f[k]]
  BY StoreFacts
<1> HIDE DEF f, g, q
<1>7. f = [k \in DOMAIN g \ {q} |-> g[k]]
  BY <1>4, <1>5, <1>6 DEF f, g, q
<1>8. QED
  BY <1>7 DEF Store!Without, f, g, q

(* A directory is full when its table has no free slot.                    *)
LEMMA FullFacts ==
  ASSUME NEW d \in Disks, TablesOk(d), NamesApart(d), NEW c \in Directories(d)
  PROVE  Cardinality({k \in DOMAIN StoreOf(d) : k[1] = c}) >= DirSlots - 2
           <=> FreeSlots(Tab(d, c)) = {}
<1> DEFINE B == {k \in DOMAIN StoreOf(d) : k[1] = c}
           U == {i \in Slots \ {0, 1} : Tab(d, c)[i].used}
           F == [i \in U |-> Key(d, <<c, i>>)]
<1>1. c \in DataClusters /\ Tab(d, c)[0].used /\ Tab(d, c)[1].used
  BY ListedFacts DEF TablesOk
<1>2. DirSlots \in Nat /\ DirSlots >= 2 /\ Slots = 0 .. DirSlots - 1
  BY GeometryAssumption DEF Slots
<1>3. /\ IsFiniteSet(2 .. DirSlots - 1)
      /\ Cardinality(2 .. DirSlots - 1) = DirSlots - 2
  BY <1>2, FS_Interval
<1>4. U \subseteq 2 .. DirSlots - 1
  BY <1>2
<1>5. ASSUME NEW i \in U
      PROVE  /\ <<c, i>> \in Listed(d) /\ F[i] = Key(d, <<c, i>>)
             /\ F[i][1] = c
             /\ F[i][2] = Tab(d, c)[i].name /\ F[i][3] = Tab(d, c)[i].ext
  <2>1. <<c, i>> \in Listed(d) /\ EntryAt(d, <<c, i>>) = Tab(d, c)[i]
    BY <1>1, ListedFacts
  <2>2. F[i] = Key(d, <<c, i>>)
    OBVIOUS
  <2>3. Key(d, <<c, i>>) = <<c, Tab(d, c)[i].name, Tab(d, c)[i].ext>>
    BY <2>1 DEF Key
  <2> HIDE DEF F, U
  <2>4. QED
    BY <2>1, <2>2, <2>3
<1> HIDE DEF F
<1>6. ASSUME NEW i \in U PROVE F[i] \in B
  <2>1. F[i] \in DOMAIN StoreOf(d)
    BY <1>5, StoreFacts
  <2>2. F[i][1] = c
    BY <1>5
  <2>3. QED
    BY <2>1, <2>2
<1>7. ASSUME NEW i \in U, NEW j \in U, F[i] = F[j] PROVE i = j
  <2>1. <<Tab(d, c)[i].name, Tab(d, c)[i].ext>> = <<Tab(d, c)[j].name, Tab(d, c)[j].ext>>
    BY <1>5, <1>7
  <2>2. QED
    BY <1>1, <2>1 DEF NamesApart
<1>8. ASSUME NEW k \in B PROVE \E i \in U : F[i] = k
  <2>1. PICK l \in Listed(d) : Key(d, l) = k
    BY StoreFacts
  <2>2. l[1] = c /\ l = <<l[1], l[2]>> /\ l[2] \in Slots \ {0, 1} /\ Tab(d, l[1])[l[2]].used
    BY <2>1, ListedFacts DEF Key
  <2>3. l[2] \in U /\ F[l[2]] = k
    BY <1>5, <2>1, <2>2
  <2>4. QED
    BY <2>3
<1> HIDE DEF B
<1>9. F \in [U -> B]
  BY <1>6 DEF F
<1>10. ExistsBijection(U, B)
  <2>1. F \in Bijection(U, B)
    BY <1>7, <1>8, <1>9, Fun_IsBij
  <2>2. QED
    BY <2>1, Fun_ExistsBij
<1>11. IsFiniteSet(U) /\ Cardinality(B) = Cardinality(U)
  <2>1. IsFiniteSet(U)
    BY <1>3, <1>4, FS_Subset
  <2> HIDE DEF U
  <2>2. QED
    BY <1>10, <2>1, FS_Bijection
<1>12. Cardinality(U) <= DirSlots - 2 /\ (Cardinality(U) = DirSlots - 2 => U = 2 .. DirSlots - 1)
  <2>1. U \in SUBSET (2 .. DirSlots - 1)
    BY <1>4
  <2> DEFINE V == 2 .. DirSlots - 1
  <2> HIDE DEF U, V
  <2>2. /\ Cardinality(U) <= Cardinality(V)
        /\ Cardinality(V) = Cardinality(U) => V = U
    BY <1>3, <2>1, FS_Subset DEF V
  <2>3. QED
    BY <1>3, <2>2 DEF V
<1>13. Cardinality(U) \in Nat
  BY <1>11, FS_CardinalityType
<1>14. U = 2 .. DirSlots - 1 <=> FreeSlots(Tab(d, c)) = {}
  <2>1. ASSUME U = 2 .. DirSlots - 1, NEW i \in Slots PROVE Tab(d, c)[i].used
    BY <1>1, <1>2, <2>1
  <2>2. ASSUME FreeSlots(Tab(d, c)) = {} PROVE U = 2 .. DirSlots - 1
    <3>1. \A i \in Slots : Tab(d, c)[i].used
      BY <2>2 DEF FreeSlots
    <3>2. QED
      BY <1>2, <3>1
  <2>3. QED
    BY <2>1, <2>2 DEF FreeSlots
<1> HIDE DEF U
<1>15. Cardinality(U) >= DirSlots - 2 <=> U = 2 .. DirSlots - 1
  BY <1>2, <1>3, <1>12, <1>13
<1>16. QED
  BY <1>11, <1>14, <1>15 DEF B

(* The directories of an image, one by one.                                *)
LEMMA InDirectories ==
  ASSUME NEW d
  PROVE  \A c : c \in Directories(d) <=> c \in DataClusters /\ Tab(d, c)[0].used
  BY DEF Directories, Tab

(* The directories and their names.                                        *)
LEMMA DirsFacts ==
  ASSUME NEW d
  PROVE  /\ DOMAIN DirsOf(d) = Directories(d)
         /\ \A c \in Directories(d) : DirsOf(d)[c] = Tab(d, c)[0].name
         /\ DirsOf(d) = [c \in Directories(d) |-> Tab(d, c)[0].name]
  BY DEF DirsOf, Tab

(* They stay as they are when no table has another first entry.            *)
LEMMA DirsSame ==
  ASSUME NEW a, NEW b, \A c \in DataClusters : Tab(b, c)[0] = Tab(a, c)[0]
  PROVE  DirsOf(b) = DirsOf(a)
<1>1. Directories(b) = Directories(a)
  BY ListedFacts
<1>2. \A c \in Directories(a) : Tab(b, c)[0].name = Tab(a, c)[0].name
  BY ListedFacts
<1>3. QED
  BY <1>1, <1>2, DirsFacts

(* What storing a file leaves: its entry with the contents, or nothing if  *)
(* the directory is full.                                                  *)
LEMMA FileStored ==
  ASSUME NEW a, Ready(a), NEW b, Ready(b), NamesApart(a), NEW parent \in Directories(a),
         NEW n \in AllNames, NEW x \in AllExts, NEW size \in Nat, size > 0,
         NEW p \in Payloads, NEW c \in Clusters, NEW S,
         Filled(a, b, S, parent, FileEntry(n, x, size, c)),
         SlotsNamed(Tab(a, parent), n, x) = {},
         \A y \in S : Tab(b, y) = EmptyTable,
         StoredBut(b, FileEntry(n, x, size, c), p, 0)
  PROVE  /\ NamesApart(b) /\ DirsOf(b) = DirsOf(a)
         /\ <<parent, n, x>> \notin DOMAIN StoreOf(a)
         /\ FreeSlots(Tab(a, parent)) # {} =>
              StoreOf(b) = Store!With(StoreOf(a), <<parent, n, x>>,
                                      Store!File(StoredAs(p, size)))
         /\ FreeSlots(Tab(a, parent)) = {} => StoreOf(b) = StoreOf(a)
<1> DEFINE g == FileEntry(n, x, size, c)
           l == <<parent, Least(FreeSlots(Tab(a, parent)))>>
           K == <<parent, n, x>>
<1>1. a \in Disks /\ b \in Disks /\ Sound(a)
  BY DEF Ready
<1>2. /\ g \in Entries /\ g.used /\ g.name = n /\ g.ext = x /\ g.filesize = size
  BY DEF FileEntry, Entries, ATTR_SUBDIRECTORY
<1>3. \A y \in S : ~ Tab(b, y)[0].used
  BY SlotTypes DEF EmptyTable, EmptyEntry
<1> HIDE DEF g, l
<1>4. ValueOf(b, g) = Store!File(StoredAs(p, size))
  <2>1. IsFile(g)
    BY <1>2 DEF IsFile
  <2>2. Contents(b, g) = StoredAs(p, size)
    <3>1. Contents(b, g) = [j \in 1 .. CeilDiv(size) |->
                              IF j <= 0 THEN NoData ELSE [what |-> p, part |-> j]]
      BY <1>2 DEF StoredBut, g
    <3>2. \A j \in 1 .. CeilDiv(size) : ~ j <= 0
      BY CeilDivNat
    <3>3. QED
      BY <3>1, <3>2 DEF StoredAs
  <2>3. QED
    BY <2>1, <2>2 DEF ValueOf, Store!File
<1>5. K \notin DOMAIN StoreOf(a)
  <2>1. ASSUME NEW k \in Listed(a), Key(a, k) = K PROVE FALSE
    <3>1. /\ k[1] = parent /\ k[2] \in Slots
          /\ Tab(a, parent)[k[2]].name = n /\ Tab(a, parent)[k[2]].ext = x
      BY <2>1, ListedFacts DEF Key
    <3>2. QED
      BY <3>1 DEF SlotsNamed
  <2>2. QED
    BY <1>1, <2>1, StoreFacts
<1>6. CASE FreeSlots(Tab(a, parent)) # {}
  <2>1. Filled(a, b, S, parent, g) /\ SlotsNamed(Tab(a, parent), g.name, g.ext) = {}
    BY <1>2 DEF g
  <2>2. /\ NamesApart(b)
        /\ Listed(b) = Listed(a) \cup {l} /\ l \notin Listed(a)
        /\ EntryAt(b, l) = g /\ Key(b, l) = <<parent, g.name, g.ext>>
        /\ \A k \in Listed(a) : KeptEntry(a, b, k)
        /\ \A y \in DataClusters \ S : Tab(b, y)[0] = Tab(a, y)[0]
    BY <1>1, <1>2, <1>3, <1>6, <2>1, FilledImage DEF l
  <2>3. StoreOf(b) = Store!With(StoreOf(a), Key(b, l), ValueOf(b, EntryAt(b, l)))
    BY <1>1, <2>2, StoreAdds
  <2>4. \A y \in DataClusters : Tab(b, y)[0] = Tab(a, y)[0]
    BY <2>1, <2>2, FreeFacts DEF Filled
  <2>5. QED
    BY <1>2, <1>4, <1>5, <1>6, <2>2, <2>3, <2>4, DirsSame
<1>7. CASE FreeSlots(Tab(a, parent)) = {}
  <2>1. Filled(a, b, S, parent, g)
    BY DEF g
  <2>2. /\ NamesApart(b) /\ Listed(b) = Listed(a)
        /\ \A k \in Listed(a) : KeptEntry(a, b, k)
        /\ \A y \in DataClusters : Tab(b, y)[0] = Tab(a, y)[0]
    BY <1>1, <1>2, <1>7, <2>1, FullImage
  <2>3. StoreOf(b) = StoreOf(a)
    BY <1>1, <2>2, StoreSame
  <2>4. QED
    BY <1>5, <1>7, <2>2, <2>3, DirsSame
<1>8. QED
  BY <1>6, <1>7

(* What making a directory leaves: its entry and a new handle.             *)
LEMMA DirectoryStored ==
  ASSUME NEW a, Ready(a), NEW b, Ready(b), NamesApart(a), NEW parent \in Directories(a),
         NEW n \in AllNames, NEW c \in DataClusters,
         Filled(a, b, {c}, parent, DirEntry(n, c)),
         SlotsNamed(Tab(a, parent), n, Blank) = {}, FreeSlots(Tab(a, parent)) # {},
         Tab(b, c)[0] = DirEntry(n, c), Tab(b, c)[1].name = ".."
  PROVE  /\ NamesApart(b) /\ c \notin DOMAIN DirsOf(a)
         /\ <<parent, n, Blank>> \notin DOMAIN StoreOf(a)
         /\ DirsOf(b) = Store!With(DirsOf(a), c, n)
         /\ StoreOf(b) = Store!With(StoreOf(a), <<parent, n, Blank>>, Store!Dir(c))
<1> DEFINE g == DirEntry(n, c)
           l == <<parent, Least(FreeSlots(Tab(a, parent)))>>
           K == <<parent, n, Blank>>
<1>1. a \in Disks /\ b \in Disks /\ Sound(a)
  BY DEF Ready
<1>2. /\ g \in Entries /\ g.used /\ g.name = n /\ g.ext = Blank /\ g.filesize = 0
      /\ g.cluster = c
  BY ClusterFacts DEF DirEntry, Entries, AllExts, ATTR_SUBDIRECTORY
<1> HIDE DEF l
<1>3. ValueOf(b, g) = Store!Dir(c)
  BY <1>2 DEF ValueOf, IsFile, Store!Dir
<1> HIDE DEF g
<1>4. Filled(a, b, {c}, parent, g) /\ SlotsNamed(Tab(a, parent), g.name, g.ext) = {}
  BY <1>2 DEF g
<1>5. /\ NamesApart(b)
      /\ Listed(b) = Listed(a) \cup {l} /\ l \notin Listed(a)
      /\ EntryAt(b, l) = g /\ Key(b, l) = <<parent, g.name, g.ext>>
      /\ \A k \in Listed(a) : KeptEntry(a, b, k)
      /\ \A y \in DataClusters \ {c} : Tab(b, y)[0] = Tab(a, y)[0]
  BY <1>1, <1>2, <1>4, FilledImage DEF l
<1>6. /\ Key(b, l) \notin DOMAIN StoreOf(a)
      /\ StoreOf(b) = Store!With(StoreOf(a), Key(b, l), ValueOf(b, EntryAt(b, l)))
  BY <1>1, <1>5, StoreAdds
<1>7. a.fat[c] = FAT32_FAT_EMPTY_ENTRY
  BY <1>4 DEF Filled
<1>8. ~ Tab(a, c)[0].used
  BY <1>7, FreeFacts, SlotTypes DEF EmptyTable, EmptyEntry
<1>9. Directories(b) = Directories(a) \cup {c} /\ c \notin Directories(a)
  <2>1. Tab(b, c)[0].used
    BY <1>2 DEF g
  <2>2. ASSUME NEW y PROVE y \in Directories(b) <=> y \in Directories(a) \/ y = c
    <3>1. CASE y = c
      BY <2>1, <3>1, InDirectories
    <3>2. CASE y \in DataClusters \ {c}
      <4>1. Tab(b, y)[0] = Tab(a, y)[0]
        BY <1>5, <3>2
      <4>2. QED
        BY <3>2, <4>1, InDirectories
    <3>3. CASE y \notin DataClusters
      BY <3>3, InDirectories
    <3>4. QED
      BY <3>1, <3>2, <3>3
  <2>3. QED
    BY <1>8, <2>2, ListedFacts
<1>10. DirsOf(b) = Store!With(DirsOf(a), c, n)
  <2>1. ASSUME NEW y \in Directories(b)
        PROVE  Tab(b, y)[0].name = IF y = c THEN n ELSE DirsOf(a)[y]
    <3>1. CASE y = c
      BY <1>2, <3>1 DEF g
    <3>2. CASE y # c
      <4>1. y \in Directories(a) /\ y \in DataClusters
        BY <1>9, <3>2, ListedFacts
      <4>2. QED
        BY <1>5, <3>2, <4>1, DirsFacts
    <3>3. QED
      BY <3>1, <3>2
  <2>2. DirsOf(b) = [y \in Directories(b) |-> Tab(b, y)[0].name]
    BY DirsFacts
  <2>3. DOMAIN DirsOf(a) \cup {c} = Directories(b)
    BY <1>9, DirsFacts
  <2>4. QED
    BY <2>1, <2>2, <2>3 DEF Store!With
<1>11. QED
  BY <1>2, <1>3, <1>5, <1>6, <1>9, <1>10, DirsFacts

(* What deleting a file or an empty directory leaves.                      *)
LEMMA EntryDropped ==
  ASSUME NEW a, Ready(a), NEW b, Ready(b), NamesApart(a), NEW l \in Listed(a), NEW S,
         Cleared(a, b, S, l[1], l[2]),
         S = Owned(a, EntryAt(a, l))
  PROVE  /\ NamesApart(b)
         /\ Key(a, l) \in DOMAIN StoreOf(a)
         /\ StoreOf(a)[Key(a, l)] = ValueOf(a, EntryAt(a, l))
         /\ StoreOf(b) = Store!Without(StoreOf(a), {Key(a, l)})
         /\ IsFile(EntryAt(a, l)) => DirsOf(b) = DirsOf(a)
         /\ ~ IsFile(EntryAt(a, l)) =>
              DirsOf(b) = Store!Without(DirsOf(a), {EntryAt(a, l).cluster})
<1> DEFINE e == EntryAt(a, l)
<1>1. a \in Disks /\ b \in Disks /\ Sound(a)
  BY DEF Ready
<1>2. /\ l[1] \in DataClusters /\ l[2] \in Slots /\ l = <<l[1], l[2]>>
      /\ e \in Entries
  BY <1>1, TabTypes
<1>3. \A k \in Listed(a) : k # l /\ IsFile(EntryAt(a, k)) => S \cap Owned(a, EntryAt(a, k)) = {}
  BY <1>1 DEF Sound, Apart
<1>4. /\ NamesApart(b)
      /\ Listed(b) = Listed(a) \ {l}
      /\ \A k \in Listed(b) : KeptEntry(a, b, k)
      /\ \A c \in DataClusters \ S : Tab(b, c)[0] = Tab(a, c)[0]
      /\ \A c \in S : ~ Tab(b, c)[0].used
  BY <1>1, <1>2, <1>3, ClearedImage
<1>5. StoreOf(b) = Store!Without(StoreOf(a), {Key(a, l)})
  BY <1>1, <1>4, StoreDrops
<1>6. Key(a, l) \in DOMAIN StoreOf(a) /\ StoreOf(a)[Key(a, l)] = ValueOf(a, e)
  BY <1>1, StoreFacts
<1>7. S \subseteq DataClusters /\ \A c \in S : Tab(b, c) = EmptyTable
  BY DEF Cleared
<1>8. ASSUME IsFile(e) PROVE DirsOf(b) = DirsOf(a)
  <2>1. FileOk(a, l)
    BY <1>1 DEF Sound
  <2>2. \A c \in S : Tab(a, c) = EmptyTable
    BY <1>1, <1>8, <2>1, FilesTaken
  <2>3. \A c \in DataClusters : Tab(b, c)[0] = Tab(a, c)[0]
    BY <1>4, <1>7, <2>2
  <2>4. QED
    BY <2>3, DirsSame
<1>9. ASSUME ~ IsFile(e) PROVE DirsOf(b) = Store!Without(DirsOf(a), {e.cluster})
  <2>1. S = {e.cluster}
    BY <1>1, <1>2, <1>9, OwnedFacts
  <2>2. ASSUME NEW c PROVE c \in Directories(b) <=> c \in Directories(a) /\ c # e.cluster
    <3>1. CASE c = e.cluster
      BY <1>4, <2>1, <3>1, InDirectories
    <3>2. CASE c \in DataClusters /\ c # e.cluster
      <4>1. Tab(b, c)[0] = Tab(a, c)[0]
        BY <1>4, <2>1, <3>2
      <4>2. QED
        BY <3>2, <4>1, InDirectories
    <3>3. CASE c \notin DataClusters
      BY <3>3, InDirectories
    <3>4. QED
      BY <3>1, <3>2, <3>3
  <2>3. Directories(b) = DOMAIN DirsOf(a) \ {e.cluster}
    BY <2>2, DirsFacts
  <2>4. ASSUME NEW c \in Directories(b) PROVE Tab(b, c)[0].name = DirsOf(a)[c]
    <3>1. c \in DataClusters /\ c \in Directories(a) /\ c # e.cluster
      BY <2>2, InDirectories
    <3>2. Tab(b, c)[0] = Tab(a, c)[0]
      BY <1>4, <2>1, <3>1
    <3>3. QED
      BY <3>1, <3>2, DirsFacts
  <2>5. DirsOf(b) = [c \in Directories(b) |-> Tab(b, c)[0].name]
    BY DirsFacts
  <2>6. QED
    BY <2>3, <2>4, <2>5 DEF Store!Without
<1>10. QED
  BY <1>4, <1>5, <1>6, <1>8, <1>9

-----------------------------------------------------------------------------
(* The steps of the driver as steps of the file store.                     *)

(* What a caller sees of a step.                                           *)
LEMMA ReplyFacts ==
  ASSUME op' \in Ops
  PROVE  /\ MappedReply'.call = op'.call /\ MappedReply'.ret = op'.ret
         /\ MappedReply'.size = op'.size /\ MappedReply'.what = op'.what
         /\ MappedReply'.parent = op'.parent /\ MappedReply'.name = op'.name
         /\ MappedReply'.out = [j \in 1 .. Len(op'.out) |-> op'.out[j].data]
         /\ Store!Key(MappedReply') = <<op'.parent, op'.name, op'.ext>>
  BY DEF MappedReply, Ops, Store!Key

(* The disk that a call finds.                                             *)
LEMMA IdleFacts ==
  ASSUME TypeOK, TreeInv, losses = 0, Idle
  PROVE  /\ Settled = disk /\ Ready(disk) /\ disk \in Disks
         /\ TablesOk(disk) /\ Sound(disk)
<1>1. mounted /\ todo = <<>>
  BY DEF Idle, Quiet
<1>2. Ready(disk)
  BY <1>1 DEF TreeInv, CalmInv, Calm
<1>3. Settled = disk
  BY <1>1 DEF Settled
<1>4. QED
  BY <1>2, <1>3 DEF Ready, Sound

(* The disk that it will leave.                                            *)
LEMMA CallFacts ==
  ASSUME TypeOK', NEW d, NEW s, NEW K, todo' = s, LinedUp(d, s, K)
  PROVE  Settled' = Final(s) /\ Ready(Final(s))
<1>1. todo' \in Seq(Disks) /\ Len(todo') >= 1
  BY DEF TypeOK, LinedUp, Outstanding
<1>2. todo' # <<>>
  BY <1>1
<1>3. QED
  BY <1>1, <1>2, SettledLast DEF LinedUp, Outstanding, Final

(* The same disk stands for the same store.                                *)
LEMMA SameStore ==
  ASSUME Settled' = Settled
  PROVE  MappedDirs' = MappedDirs /\ MappedStore' = MappedStore
  BY DEF MappedDirs, MappedStore

(* A step that only ends a call or turns the machine off and on.           *)
LEMMA RestStep ==
  ASSUME op' \in Ops, op'.call = "none", Settled' = Settled
  PROVE  Store!Rest
  BY ReplyFacts, SameStore DEF Store!Rest

(* A directory that is full for the caller has no slot left.               *)
LEMMA FullMeans ==
  ASSUME Settled = disk, disk \in Disks, TablesOk(disk), NamesApart(disk),
         NEW c \in Directories(disk)
  PROVE  Store!Full(c) <=> FreeSlots(Tab(disk, c)) = {}
<1>1. Cardinality({j \in DOMAIN StoreOf(disk) : j[1] = c}) >= DirSlots - 2
        <=> FreeSlots(Tab(disk, c)) = {}
  BY FullFacts
<1>2. Store!Full(c) <=> Cardinality({j \in DOMAIN MappedStore : j[1] = c}) >= DirSlots - 2
  BY DEF Store!Full, Store!Below, Store!Cardinality, Cardinality
<1>3. MappedStore = StoreOf(disk)
  BY DEF MappedStore
<1>4. QED
  BY <1>1, <1>2, <1>3

(* create_fat32() makes the empty root.                                    *)
LEMMA FormatStep ==
  ASSUME TypeOK, TypeOK', TreeInv, losses = 0, Format
  PROVE  NamesApart(Settled') /\ Store!Create
<1>1. ~ disk.signed /\ ~ mounted /\ todo' = FormatImages /\ op'.call = "format"
  BY DEF Format, NoCall
<1>2. disk = BlankDisk /\ Settled = BlankDisk
  <2>1. disk = BlankDisk
    BY <1>1 DEF TreeInv, CalmInv, Calm, Holds, Image
  <2>2. todo = <<>>
    BY <1>1 DEF TreeInv
  <2>3. QED
    BY <2>1, <2>2 DEF Settled
<1> DEFINE b == FormatImages[Len(FormatImages)]
<1>3. /\ LinedUp(disk, FormatImages, 0)
      /\ Listed(b) = {} /\ Directories(b) = {ROOT_CLUSTER_NUMBER}
      /\ Tab(b, ROOT_CLUSTER_NUMBER)[0].name = RootName
      /\ Tab(b, ROOT_CLUSTER_NUMBER)[1].name = ".."
  BY <1>2, FormatLinedUp
<1>4. Settled' = b /\ Ready(b)
  BY <1>1, <1>3, CallFacts DEF Final
<1> HIDE DEF b
<1>5. NamesApart(b)
  <2>1. ASSUME NEW c \in DataClusters, NEW j \in Slots \ {0, 1} PROVE ~ Tab(b, c)[j].used
    <3>1. <<c, j>> \notin Listed(b)
      BY <1>3
    <3>2. QED
      BY <3>1, ListedFacts
  <2>2. QED
    BY <1>3, <2>1 DEF NamesApart
<1>6. MappedDirs = <<>> /\ DOMAIN MappedDirs = {}
  BY <1>2, NewDisk DEF MappedDirs, DirsOf
<1>7. MappedDirs' = Store!With(MappedDirs, ROOT_CLUSTER_NUMBER, RootName)
  <2>1. MappedDirs' = DirsOf(b)
    BY <1>4 DEF MappedDirs
  <2>2. DirsOf(b) = [c \in {ROOT_CLUSTER_NUMBER} |-> RootName]
    BY <1>3, DirsFacts
  <2>3. QED
    BY <1>6, <2>1, <2>2 DEF Store!With
<1>8. MappedStore' = MappedStore
  <2>1. StoreOf(b) = <<>> /\ StoreOf(BlankDisk) = <<>>
    BY <1>3, NewDisk DEF StoreOf
  <2>2. QED
    BY <1>2, <1>4, <2>1 DEF MappedStore
<1>9. op' \in Ops /\ RootName \in AllNames
  BY DEF TypeOK, AllNames
<1>10. QED
  BY <1>1, <1>4, <1>5, <1>6, <1>7, <1>8, <1>9, ReplyFacts DEF Store!Create

(* write() for a file.                                                     *)
LEMMA WriteStep ==
  ASSUME TypeOK, TypeOK', TreeInv, losses = 0, NamesApart(Settled),
         NEW parent \in DataClusters, NEW n \in Names, NEW x \in Exts,
         NEW size \in Sizes, NEW p \in Payloads, WriteFile(parent, n, x, size, p)
  PROVE  NamesApart(Settled') /\ (Store!AddFile \/ Store!ForgetFile)
<1> DEFINE A == Allocation(size)
           m == Link(disk.fat, A, FAT32_FAT_END_OF_FILE)
           g == FileEntry(n, x, size, Least(A))
           s == WriteImages(disk, m, Least(A), p, CeilDiv(size), parent,
                            AddEntry(disk.cell[parent].table, g))
           b == Final(s)
           k == <<parent, n, x>>
<1>1. /\ Idle /\ size > 0
      /\ disk.cell[parent].table[0].used
      /\ SlotsNamed(Tab(disk, parent), n, x) = {}
      /\ Cardinality(A) >= CeilDiv(size)
      /\ todo' = s
      /\ op' = WriteReply(parent, n, x, size, p, 0)
  BY DEF WriteFile, CanWrite, Tab
<1>2. Settled = disk /\ Ready(disk) /\ disk \in Disks /\ TablesOk(disk)
  BY <1>1, IdleFacts
<1>3. parent \in Directories(disk) /\ n \in AllNames /\ x \in AllExts /\ size \in Nat
  BY <1>1, RequestAssumption DEF Directories, AllNames, AllExts
<1>4. A = Lowest(EmptyClusters(disk.fat, ROOT_CLUSTER_NUMBER + 1), CeilDiv(size))
  BY DEF Allocation
<1> HIDE DEF A
<1>5. /\ LinedUp(disk, s, k)
      /\ Filled(disk, b, A, parent, g)
      /\ \A y \in A : Tab(b, y) = EmptyTable
      /\ StoredBut(b, g, p, 0)
  BY <1>1, <1>2, <1>3, <1>4, WriteLinedUp
<1>6. Least(A) \in Clusters
  BY <1>1, <1>2, <1>3, <1>4, GivenClusters, ClusterFacts
<1> HIDE DEF s
<1>7. Settled' = b /\ Ready(b)
  BY <1>1, <1>5, CallFacts
<1> HIDE DEF b
<1>8. /\ NamesApart(b) /\ DirsOf(b) = DirsOf(disk)
      /\ k \notin DOMAIN StoreOf(disk)
      /\ FreeSlots(Tab(disk, parent)) # {} =>
           StoreOf(b) = Store!With(StoreOf(disk), k, Store!File(StoredAs(p, size)))
      /\ FreeSlots(Tab(disk, parent)) = {} => StoreOf(b) = StoreOf(disk)
  BY <1>1, <1>2, <1>3, <1>5, <1>6, <1>7, FileStored
<1>9. /\ MappedDirs = DirsOf(disk) /\ MappedStore = StoreOf(disk)
      /\ MappedDirs' = DirsOf(b) /\ MappedStore' = StoreOf(b)
  BY <1>2, <1>7 DEF MappedDirs, MappedStore
<1>10. Store!Full(parent) <=> FreeSlots(Tab(disk, parent)) = {}
  BY <1>2, <1>3, FullMeans
<1>11. /\ MappedReply'.call = "write" /\ MappedReply'.ret = 0 /\ MappedReply'.size = size
       /\ MappedReply'.parent = parent /\ MappedReply'.what = p
       /\ Store!Key(MappedReply') = k
  <2>1. op' \in Ops
    BY DEF TypeOK
  <2>2. /\ op'.call = "write" /\ op'.ret = 0 /\ op'.size = size /\ op'.parent = parent
        /\ op'.what = p /\ op'.name = n /\ op'.ext = x
    BY <1>1 DEF WriteReply, Returned
  <2>3. QED
    BY <2>1, <2>2, ReplyFacts
<1>12. parent \in DOMAIN MappedDirs
  BY <1>3, <1>9, DirsFacts
<1> HIDE DEF k
<1>13. CASE FreeSlots(Tab(disk, parent)) # {}
  BY <1>1, <1>7, <1>8, <1>9, <1>10, <1>11, <1>12, <1>13 DEF Store!AddFile
<1>14. CASE FreeSlots(Tab(disk, parent)) = {}
  BY <1>1, <1>7, <1>8, <1>9, <1>10, <1>11, <1>12, <1>14 DEF Store!ForgetFile
<1>15. QED
  BY <1>13, <1>14

(* A directory whose table has no entry has none for the caller.           *)
LEMMA NothingBelow ==
  ASSUME Settled = disk, disk \in Disks, NamesApart(disk), NEW c \in DataClusters
  PROVE  Store!Below(c) = {} <=> Occupied(CellAt(disk, c).table) = {}
<1>1. MappedStore = StoreOf(disk) /\ CellAt(disk, c).table = Tab(disk, c)
  BY DEF MappedStore, CellAt, Tab
<1>2. Occupied(Tab(disk, c)) = {i \in Slots \ {0, 1} : Tab(disk, c)[i].used}
  BY GeometryAssumption DEF Occupied, Slots
<1>3. ASSUME NEW q \in Store!Below(c) PROVE Occupied(Tab(disk, c)) # {}
  <2>1. q \in DOMAIN StoreOf(disk) /\ q[1] = c
    BY <1>1 DEF Store!Below
  <2>2. PICK l \in Listed(disk) : Key(disk, l) = q
    BY <2>1, StoreFacts
  <2>3. l[1] = c /\ l[2] \in Slots \ {0, 1} /\ Tab(disk, l[1])[l[2]].used
    BY <2>1, <2>2, ListedFacts DEF Key
  <2>4. QED
    BY <1>2, <2>3
<1>4. ASSUME NEW i \in Occupied(Tab(disk, c)) PROVE Store!Below(c) # {}
  <2> DEFINE l == <<c, i>>
             q == Key(disk, l)
  <2>1. l \in Listed(disk)
    BY <1>2, ListedFacts
  <2>2. q \in DOMAIN StoreOf(disk)
    BY <2>1, StoreFacts
  <2>3. q[1] = c
    BY DEF Key
  <2> HIDE DEF q
  <2>4. QED
    BY <1>1, <2>2, <2>3 DEF Store!Below
<1>5. QED
  BY <1>1, <1>3, <1>4

(* write() for a directory.                                                *)
LEMMA MakeStep ==
  ASSUME TypeOK, TypeOK', TreeInv, losses = 0, NamesApart(Settled), 0 \in Sizes,
         NEW parent \in DataClusters, NEW n \in Names, MakeDirectory(parent, n)
  PROVE  NamesApart(Settled') /\ Store!AddDirectory
<1> DEFINE c == Least(EmptyClusters(disk.fat, 1))
           s == InitDirectoryTable(disk, disk.fat, n, parent)
           b == Final(s)
           k == <<parent, n, Blank>>
<1>1. /\ Idle
      /\ disk.cell[parent].table[0].used
      /\ EmptyClusters(disk.fat, ROOT_CLUSTER_NUMBER + 1) # {}
      /\ SlotsNamed(Tab(disk, parent), n, Blank) = {}
      /\ FreeSlots(Tab(disk, parent)) # {}
      /\ todo' = s
      /\ op' = WriteReply(parent, n, Blank, 0, "zero", 0)
  BY DEF MakeDirectory, CanWrite, Tab
<1>2. Settled = disk /\ Ready(disk) /\ disk \in Disks /\ TablesOk(disk)
  BY <1>1, IdleFacts
<1>3. parent \in Directories(disk) /\ n \in AllNames
  BY <1>1 DEF Directories, AllNames
<1>4. /\ LinedUp(disk, s, k)
      /\ Filled(disk, b, {c}, parent, DirEntry(n, c))
      /\ Tab(b, c)[0] = DirEntry(n, c) /\ Tab(b, c)[1].name = ".."
  BY <1>1, <1>2, <1>3, MakeLinedUp DEF Tab
<1>5. c \in DataClusters
  BY <1>1, <1>2, <1>3, NewCluster
<1> HIDE DEF s, c
<1>6. Settled' = b /\ Ready(b)
  BY <1>1, <1>4, CallFacts
<1> HIDE DEF b
<1>7. /\ NamesApart(b) /\ c \notin DOMAIN DirsOf(disk)
      /\ k \notin DOMAIN StoreOf(disk)
      /\ DirsOf(b) = Store!With(DirsOf(disk), c, n)
      /\ StoreOf(b) = Store!With(StoreOf(disk), k, Store!Dir(c))
  BY <1>1, <1>2, <1>3, <1>4, <1>5, <1>6, DirectoryStored
<1>8. /\ MappedDirs = DirsOf(disk) /\ MappedStore = StoreOf(disk)
      /\ MappedDirs' = DirsOf(b) /\ MappedStore' = StoreOf(b)
  BY <1>2, <1>6 DEF MappedDirs, MappedStore
<1>9. ~ Store!Full(parent)
  BY <1>1, <1>2, <1>3, FullMeans
<1>10. /\ MappedReply'.call = "write" /\ MappedReply'.ret = 0 /\ MappedReply'.size = 0
       /\ MappedReply'.parent = parent /\ MappedReply'.name = n
       /\ Store!Key(MappedReply') = k
  <2>1. op' \in Ops
    BY DEF TypeOK
  <2>2. /\ op'.call = "write" /\ op'.ret = 0 /\ op'.size = 0 /\ op'.parent = parent
        /\ op'.name = n /\ op'.ext = Blank
    BY <1>1 DEF WriteReply, Returned
  <2>3. QED
    BY <2>1, <2>2, ReplyFacts
<1>11. parent \in DOMAIN MappedDirs
  BY <1>3, <1>8, DirsFacts
<1> HIDE DEF k
<1>12. QED
  BY <1>5, <1>6, <1>7, <1>8, <1>9, <1>10, <1>11 DEF Store!AddDirectory

(* What a call of delete() that returns 0 has named.                       *)
LEMMA DeleteSeen ==
  ASSUME TypeOK', NEW parent, NEW n, NEW x, NEW ret,
         op' = DeleteReply(parent, n, x, ret)
  PROVE  /\ MappedReply'.call = "delete" /\ MappedReply'.ret = ret
         /\ MappedReply'.parent = parent /\ MappedReply'.name = n
         /\ Store!Key(MappedReply') = <<parent, n, x>>
<1>1. op' \in Ops
  BY DEF TypeOK
<1>2. /\ op'.call = "delete" /\ op'.ret = ret /\ op'.parent = parent
      /\ op'.name = n /\ op'.ext = x
  BY DEF DeleteReply, Returned
<1>3. QED
  BY <1>1, <1>2, ReplyFacts

(* delete() of a file.                                                     *)
LEMMA EraseStoreStep ==
  ASSUME TypeOK, TypeOK', TreeInv, ChainsAscend, losses = 0, NamesApart(Settled),
         NEW parent \in DataClusters, NEW n \in Names, NEW x \in Exts,
         DeleteFile(parent, n, x)
  PROVE  NamesApart(Settled') /\ Store!RemoveFile
<1> DEFINE t == Tab(disk, parent)
           found == SlotsNamed(t, n, x)
           i == Least(found)
           l == <<parent, i>>
           c == t[i].cluster
           ends == EndsAfter(disk.fat, c)
           s == DeleteFileImages(disk, Walk(disk.fat, c), Least(ends), parent,
                                 ClearEntry(t, i))
           b == Final(s)
           k == <<parent, n, x>>
<1>1. /\ Idle
      /\ found # {} /\ t[i].filesize # 0
      /\ \/ ends # {} /\ todo' = s /\ op' = DeleteReply(parent, n, x, 0)
         \/ ends = {}
  BY DEF DeleteFile, Tab
<1>2. Settled = disk /\ Ready(disk) /\ disk \in Disks /\ TablesOk(disk)
  BY <1>1, IdleFacts
<1>3. n # Blank /\ Ascending(disk.fat)
  BY GeometryAssumption DEF ChainsAscend
<1>4. /\ ends # {} /\ LinedUp(disk, s, k)
      /\ Cleared(disk, b, Owned(disk, t[i]), parent, i)
  BY <1>1, <1>2, <1>3, EraseLinedUp
<1>5. i >= 2
  BY <1>4 DEF Cleared
<1>6. l \in Listed(disk) /\ EntryAt(disk, l) = t[i] /\ Key(disk, l) = k
  BY <1>1, <1>2, <1>3, <1>5, FoundSlot
<1> HIDE DEF s, ends
<1>7. Settled' = b /\ Ready(b) /\ op' = DeleteReply(parent, n, x, 0)
  BY <1>1, <1>4, CallFacts
<1> HIDE DEF b, t, i
<1>8. /\ NamesApart(b)
      /\ k \in DOMAIN StoreOf(disk)
      /\ StoreOf(disk)[k] = ValueOf(disk, t[i])
      /\ StoreOf(b) = Store!Without(StoreOf(disk), {k})
      /\ IsFile(t[i]) => DirsOf(b) = DirsOf(disk)
  <2>1. l[1] = parent /\ l[2] = i
    OBVIOUS
  <2> HIDE DEF l, k
  <2>2. Cleared(disk, b, Owned(disk, EntryAt(disk, l)), l[1], l[2])
    BY <1>4, <1>6, <2>1
  <2>3. QED
    BY <1>2, <1>6, <1>7, <2>2, EntryDropped
<1>9. /\ MappedDirs = DirsOf(disk) /\ MappedStore = StoreOf(disk)
      /\ MappedDirs' = DirsOf(b) /\ MappedStore' = StoreOf(b)
  BY <1>2, <1>7 DEF MappedDirs, MappedStore
<1>10. IsFile(t[i]) /\ ValueOf(disk, t[i]).file
  BY <1>1 DEF IsFile, ValueOf
<1>11. /\ MappedReply'.call = "delete" /\ MappedReply'.ret = 0
       /\ Store!Key(MappedReply') = k
  BY <1>7, DeleteSeen
<1> HIDE DEF k
<1>12. QED
  BY <1>7, <1>8, <1>9, <1>10, <1>11 DEF Store!RemoveFile

(* delete() of a directory.                                                *)
LEMMA DropStoreStep ==
  ASSUME TypeOK, TypeOK', TreeInv, ~ SelfRequests, losses = 0, NamesApart(Settled),
         NEW parent \in DataClusters, NEW n \in Names, NEW x \in Exts,
         DeleteDirectory(parent, n, x)
  PROVE  NamesApart(Settled') /\ Store!RemoveDirectory
<1> DEFINE t == Tab(disk, parent)
           found == SlotsNamed(t, n, x)
           i == Least(found)
           l == <<parent, i>>
           c == t[i].cluster
           s == DeleteDirImages(disk, c, parent, ClearEntry(t, i))
           b == Final(s)
           k == <<parent, n, x>>
<1>1. /\ Idle
      /\ n # t[0].name /\ found # {} /\ c # ROOT_CLUSTER_NUMBER /\ t[i].filesize = 0
      /\ Occupied(CellAt(disk, c).table) = {}
      /\ todo' = s
      /\ op' = DeleteReply(parent, n, x, 0)
  BY DEF DeleteDirectory, MayDelete, Tab
<1>2. Settled = disk /\ Ready(disk) /\ disk \in Disks /\ TablesOk(disk)
  BY <1>1, IdleFacts
<1>3. n # Blank
  BY GeometryAssumption
<1>4. LinedUp(disk, s, k) /\ Cleared(disk, b, {c}, parent, i)
  BY <1>1, <1>2, <1>3, DropLinedUp
<1>5. i >= 2
  BY <1>4 DEF Cleared
<1>6. /\ i \in Slots /\ l \in Listed(disk) /\ EntryAt(disk, l) = t[i] /\ Key(disk, l) = k
      /\ t[i].used
  BY <1>1, <1>2, <1>3, <1>5, FoundSlot
<1>7. t[i] \in Entries /\ c \in DataClusters
  BY <1>2, <1>6, TabTypes DEF TablesOk
<1> HIDE DEF s
<1>8. Settled' = b /\ Ready(b)
  BY <1>1, <1>4, CallFacts
<1> HIDE DEF b, t, i
<1>9. ~ IsFile(t[i]) /\ Owned(disk, t[i]) = {c}
  BY <1>1, <1>2, <1>7, OwnedFacts DEF IsFile
<1>10. /\ NamesApart(b)
       /\ k \in DOMAIN StoreOf(disk)
       /\ StoreOf(disk)[k] = ValueOf(disk, t[i])
       /\ StoreOf(b) = Store!Without(StoreOf(disk), {k})
       /\ DirsOf(b) = Store!Without(DirsOf(disk), {c})
  <2>1. l[1] = parent /\ l[2] = i
    OBVIOUS
  <2> HIDE DEF l, k
  <2>2. Cleared(disk, b, Owned(disk, EntryAt(disk, l)), l[1], l[2])
    BY <1>4, <1>6, <1>9, <2>1
  <2>3. QED
    BY <1>2, <1>6, <1>8, <1>9, <2>2, EntryDropped
<1>11. /\ MappedDirs = DirsOf(disk) /\ MappedStore = StoreOf(disk)
       /\ MappedDirs' = DirsOf(b) /\ MappedStore' = StoreOf(b)
  BY <1>2, <1>8 DEF MappedDirs, MappedStore
<1>12. ~ ValueOf(disk, t[i]).file /\ ValueOf(disk, t[i]).dir = c
  BY <1>9 DEF ValueOf
<1>13. Store!Below(c) = {}
  BY <1>1, <1>2, <1>7, NothingBelow DEF t, i
<1>14. /\ MappedReply'.call = "delete" /\ MappedReply'.ret = 0
       /\ Store!Key(MappedReply') = k
  BY <1>1, DeleteSeen
<1> HIDE DEF k, c
<1>15. QED
  BY <1>8, <1>10, <1>11, <1>12, <1>13, <1>14 DEF Store!RemoveDirectory

(* What a search by name finds, for the caller: an entry, or the directory *)
(* itself or the way up, and then no entry has that name.                  *)
LEMMA KeyFound ==
  ASSUME NEW d \in Disks, TablesOk(d), NamesApart(d), NEW parent \in DataClusters,
         NEW n, NEW x, n # Blank, NEW F, F = SlotsNamed(Tab(d, parent), n, x),
         NEW i, i = Least(F), NEW k, k = <<parent, n, x>>
  PROVE  /\ F = {} => k \notin DOMAIN StoreOf(d)
         /\ F # {} => parent \in Directories(d)
         /\ F # {} /\ i >= 2 => /\ k \in DOMAIN StoreOf(d)
                                /\ StoreOf(d)[k] = ValueOf(d, Tab(d, parent)[i])
                                /\ <<parent, i>> \in Listed(d)
                                /\ EntryAt(d, <<parent, i>>) = Tab(d, parent)[i]
         /\ F # {} /\ ~ i >= 2 => /\ k \notin DOMAIN StoreOf(d)
                                  /\ n \in {"..", DirsOf(d)[parent]}
<1>1. ASSUME NEW l \in Listed(d), Key(d, l) = k
      PROVE  /\ l[1] = parent /\ l[2] \in F /\ l[2] >= 2
             /\ n = EntryAt(d, l).name /\ x = EntryAt(d, l).ext
  <2>1. /\ l[1] = parent /\ n = EntryAt(d, l).name /\ x = EntryAt(d, l).ext
    BY <1>1 DEF Key
  <2>2. l[2] \in Slots /\ l[2] >= 2 /\ EntryAt(d, l) = Tab(d, l[1])[l[2]]
    BY TabTypes, ListedFacts
  <2>3. QED
    BY <2>1, <2>2 DEF SlotsNamed
<1>2. CASE F = {}
  BY <1>1, <1>2, StoreFacts
<1>3. CASE F # {}
  <2>1. /\ i \in Slots /\ Tab(d, parent)[i].used
        /\ Tab(d, parent)[i].name = n /\ Tab(d, parent)[i].ext = x
        /\ parent \in Directories(d)
        /\ i >= 2 => /\ <<parent, i>> \in Listed(d)
                     /\ EntryAt(d, <<parent, i>>) = Tab(d, parent)[i]
                     /\ Key(d, <<parent, i>>) = <<parent, n, x>>
    BY <1>3, FoundSlot
  <2>2. ASSUME i >= 2
        PROVE k \in DOMAIN StoreOf(d) /\ StoreOf(d)[k] = ValueOf(d, Tab(d, parent)[i])
    <3>1. PICK l \in Listed(d) : Key(d, l) = k /\ EntryAt(d, l) = Tab(d, parent)[i]
      BY <2>1, <2>2
    <3>2. QED
      BY <3>1, StoreFacts
  <2>3. ASSUME ~ i >= 2 PROVE k \notin DOMAIN StoreOf(d) /\ n \in {"..", DirsOf(d)[parent]}
    <3>1. ASSUME NEW l \in Listed(d), Key(d, l) = k PROVE FALSE
      <4>1. /\ l[1] = parent /\ l[2] >= 2
            /\ n = EntryAt(d, l).name /\ x = EntryAt(d, l).ext
        BY <1>1, <3>1
      <4>2. i = l[2]
        BY <2>1, <4>1, KeysApart
      <4>3. QED
        BY <2>3, <4>1, <4>2
    <3>2. i \in {0, 1}
      BY <2>1, <2>3 DEF Slots
    <3>3. n = Tab(d, parent)[0].name \/ n = Tab(d, parent)[1].name
      BY <2>1, <3>2
    <3>4. n \in {"..", DirsOf(d)[parent]}
      BY <2>1, <3>3, DirsFacts DEF NamesApart
    <3>5. QED
      BY <3>1, <3>4, StoreFacts
  <2>4. QED
    BY <1>3, <2>1, <2>2, <2>3
<1>4. QED
  BY <1>2, <1>3

(* What the caller of a write() that fails has seen.                       *)
LEMMA RefusedSeen ==
  ASSUME TypeOK', NEW parent, NEW n, NEW x, NEW size, NEW ret,
         op' = WriteReply(parent, n, x, size, "zero", ret)
  PROVE  /\ MappedReply'.call = "write" /\ MappedReply'.ret = ret
         /\ MappedReply'.parent = parent /\ MappedReply'.name = n
         /\ Store!Key(MappedReply') = <<parent, n, x>>
<1>1. op' \in Ops
  BY DEF TypeOK
<1>2. /\ op'.call = "write" /\ op'.ret = ret /\ op'.parent = parent
      /\ op'.name = n /\ op'.ext = x
  BY DEF WriteReply, Returned
<1>3. QED
  BY <1>1, <1>2, ReplyFacts

(* A call that returns an error has changed nothing, and the error is true. *)
LEMMA WriteRefuses ==
  ASSUME TypeOK, TypeOK', TreeInv, losses = 0, NamesApart(Settled),
         NEW parent \in DataClusters, NEW n \in Names, NEW x \in Exts,
         NEW size \in Sizes,
         WriteRefused(parent, n, x, size) \/ WriteRunsOut(parent, n, x, size)
  PROVE  Settled' = Settled /\ Store!Refuse
<1> DEFINE t == Tab(disk, parent)
           F == SlotsNamed(t, n, x)
           i == Least(F)
           k == <<parent, n, x>>
<1>1. /\ Idle /\ UNCHANGED <<disk, todo>>
      /\ \/ op' = WriteReply(parent, n, x, size, "zero", -1)
         \/ F # {} /\ op' = WriteReply(parent, n, x, size, "zero", 1)
  BY DEF WriteRefused, WriteRunsOut, Tab
<1>2. Settled = disk /\ Ready(disk) /\ disk \in Disks /\ TablesOk(disk)
  BY <1>1, IdleFacts
<1>3. Settled' = Settled
  BY <1>1 DEF Settled
<1>4. MappedDirs' = MappedDirs /\ MappedStore' = MappedStore
  BY <1>3, SameStore
<1>5. MappedDirs = DirsOf(disk) /\ MappedStore = StoreOf(disk)
  BY <1>2 DEF MappedDirs, MappedStore
<1>6. n # Blank
  BY GeometryAssumption
<1>7. F # {} => \/ k \in DOMAIN MappedStore
                \/ parent \in DOMAIN MappedDirs /\ n \in {"..", MappedDirs[parent]}
  <2>1. /\ F = {} => k \notin DOMAIN StoreOf(disk)
        /\ F # {} => parent \in Directories(disk)
        /\ F # {} /\ i >= 2 => /\ k \in DOMAIN StoreOf(disk)
                               /\ StoreOf(disk)[k] = ValueOf(disk, t[i])
                               /\ <<parent, i>> \in Listed(disk)
                               /\ EntryAt(disk, <<parent, i>>) = t[i]
        /\ F # {} /\ ~ i >= 2 => /\ k \notin DOMAIN StoreOf(disk)
                                 /\ n \in {"..", DirsOf(disk)[parent]}
    BY <1>2, <1>6, KeyFound
  <2> HIDE DEF F, i, k
  <2>2. QED
    BY <1>5, <2>1, DirsFacts
<1> HIDE DEF F
<1>8. CASE op' = WriteReply(parent, n, x, size, "zero", -1)
  <2>1. MappedReply'.call = "write" /\ MappedReply'.ret = -1
    BY <1>8, RefusedSeen
  <2>2. QED
    BY <1>3, <1>4, <2>1 DEF Store!Refuse
<1>9. CASE F # {} /\ op' = WriteReply(parent, n, x, size, "zero", 1)
  <2>1. /\ MappedReply'.call = "write" /\ MappedReply'.ret = 1
        /\ MappedReply'.parent = parent /\ MappedReply'.name = n
        /\ Store!Key(MappedReply') = k
    BY <1>9, RefusedSeen
  <2> HIDE DEF k
  <2>2. QED
    BY <1>3, <1>4, <1>7, <1>9, <2>1 DEF Store!Refuse
<1>10. QED
  BY <1>1, <1>8, <1>9

(* The same for delete().                                                  *)
LEMMA DeleteRefuses ==
  ASSUME TypeOK, TypeOK', TreeInv, losses = 0, NamesApart(Settled),
         NEW parent \in DataClusters, NEW n \in Names, NEW x \in Exts,
         DeleteRefused(parent, n, x)
  PROVE  Settled' = Settled /\ Store!Refuse
<1> DEFINE t == Tab(disk, parent)
           F == SlotsNamed(t, n, x)
           i == Least(F)
           e == t[i]
           k == <<parent, n, x>>
<1>1. /\ Idle /\ UNCHANGED <<disk, todo>>
      /\ \/ F = {} /\ op' = DeleteReply(parent, n, x, 1)
         \/ /\ F # {} /\ e.cluster = ROOT_CLUSTER_NUMBER
            /\ op' = DeleteReply(parent, n, x, -1)
         \/ /\ F # {} /\ e.filesize = 0
            /\ Occupied(CellAt(disk, e.cluster).table) # {}
            /\ op' = DeleteReply(parent, n, x, 2)
  BY DEF DeleteRefused, Tab
<1>2. Settled = disk /\ Ready(disk) /\ disk \in Disks /\ TablesOk(disk) /\ Sound(disk)
  BY <1>1, IdleFacts
<1>3. Settled' = Settled
  BY <1>1 DEF Settled
<1>4. MappedDirs' = MappedDirs /\ MappedStore' = MappedStore
  BY <1>3, SameStore
<1>5. MappedDirs = DirsOf(disk) /\ MappedStore = StoreOf(disk)
  BY <1>2 DEF MappedDirs, MappedStore
<1>6. n # Blank
  BY GeometryAssumption
<1>7. /\ F = {} => k \notin DOMAIN StoreOf(disk)
      /\ F # {} => parent \in Directories(disk)
      /\ F # {} /\ i >= 2 => /\ k \in DOMAIN StoreOf(disk)
                             /\ StoreOf(disk)[k] = ValueOf(disk, e)
                             /\ <<parent, i>> \in Listed(disk)
                             /\ EntryAt(disk, <<parent, i>>) = e
      /\ F # {} /\ ~ i >= 2 => /\ k \notin DOMAIN StoreOf(disk)
                               /\ n \in {"..", DirsOf(disk)[parent]}
  BY <1>2, <1>6, KeyFound
<1> HIDE DEF F, i, e
<1>8. CASE F = {} /\ op' = DeleteReply(parent, n, x, 1)
  <2>1. /\ MappedReply'.call = "delete" /\ MappedReply'.ret = 1
        /\ Store!Key(MappedReply') = k
    BY <1>8, DeleteSeen
  <2> HIDE DEF k
  <2>2. QED
    BY <1>3, <1>4, <1>5, <1>7, <1>8, <2>1 DEF Store!Refuse
<1>9. CASE /\ F # {} /\ e.cluster = ROOT_CLUSTER_NUMBER
           /\ op' = DeleteReply(parent, n, x, -1)
  <2>1. /\ MappedReply'.call = "delete" /\ MappedReply'.ret = -1
        /\ Store!Key(MappedReply') = k
    BY <1>9, DeleteSeen
  <2>2. ASSUME i >= 2 PROVE FALSE
    <3>1. PICK l \in Listed(disk) : EntryAt(disk, l) = e
      BY <1>7, <1>9, <2>2
    <3>2. e.cluster \in Owned(disk, e)
      <4>1. FileOk(disk, l) /\ e \in Entries
        BY <1>2, <3>1, TabTypes DEF Sound
      <4>2. QED
        BY <1>2, <3>1, <4>1, FilesTaken, OwnedFacts
    <3>3. ROOT_CLUSTER_NUMBER \notin Owned(disk, e)
      BY <1>2, <3>1 DEF Sound, Apart
    <3>4. QED
      BY <1>9, <3>2, <3>3
  <2> HIDE DEF k
  <2>3. QED
    BY <1>3, <1>4, <1>5, <1>7, <1>9, <2>1, <2>2 DEF Store!Refuse
<1>10. CASE /\ F # {} /\ e.filesize = 0
            /\ Occupied(CellAt(disk, e.cluster).table) # {}
            /\ op' = DeleteReply(parent, n, x, 2)
  <2>1. /\ MappedReply'.call = "delete" /\ MappedReply'.ret = 2
        /\ MappedReply'.parent = parent /\ MappedReply'.name = n
        /\ Store!Key(MappedReply') = k
    BY <1>10, DeleteSeen
  <2>2. CASE i >= 2
    <3>1. PICK l \in Listed(disk) : EntryAt(disk, l) = e
      BY <1>7, <1>10, <2>2
    <3>2. e.cluster \in DataClusters
      BY <1>2, <3>1, ListedInDirectory
    <3>3. Store!Below(e.cluster) # {}
      BY <1>2, <1>10, <3>2, NothingBelow
    <3>4. ~ ValueOf(disk, e).file /\ ValueOf(disk, e).dir = e.cluster
      BY <1>10 DEF ValueOf, IsFile
    <3> HIDE DEF k
    <3>5. QED
      BY <1>3, <1>4, <1>5, <1>7, <1>10, <2>1, <2>2, <3>3, <3>4 DEF Store!Refuse
  <2>3. CASE ~ i >= 2
    <3>1. parent \in DOMAIN MappedDirs /\ n \in {"..", MappedDirs[parent]}
      BY <1>5, <1>7, <1>10, <2>3, DirsFacts
    <3>2. QED
      BY <1>3, <1>4, <2>1, <3>1 DEF Store!Refuse
  <2>4. QED
    BY <2>2, <2>3
<1>11. QED
  BY <1>1, <1>8, <1>9, <1>10

(* read() delivers as many clusters as a file of this size has.            *)
LEMMA EnoughRead ==
  ASSUME NEW size \in Nat
  PROVE  CeilDiv(size) <= (size \div ClusterSize) + 1
<1> DEFINE q == size \div ClusterSize
           r == CeilDiv(size)
<1>1. ClusterSize \in Nat \ {0} /\ q \in Nat /\ r \in Nat
  BY GeometryAssumption, CeilDivNat
<1>2. size < ClusterSize * (q + 1)
  BY <1>1
<1>3. ClusterSize * r <= size + ClusterSize - 1
  BY <1>1 DEF CeilDiv
<1> HIDE DEF q, r
<1>4. ClusterSize * r < ClusterSize * (q + 2)
  BY <1>1, <1>2, <1>3
<1>5. r < q + 2
  BY <1>1, <1>4
<1>6. QED
  BY <1>1, <1>5 DEF q, r

(* The clusters that it delivers begin with those of the file: it follows  *)
(* the FAT in memory, which has the links of the disk.                     *)
LEMMA ReadBack ==
  ASSUME TypeOK, Quiet, MemoryAgrees, NEW e \in Entries, IsFile(e), EntryOk(disk, e),
         NEW out, out = ReadClusters(e), NEW N, N = CeilDiv(e.filesize)
  PROVE  /\ N \in Nat /\ Len(out) \in Nat /\ N <= Len(out)
         /\ \A j \in 1 .. N : out[j].data = Contents(disk, e)[j]
         /\ Contents(disk, e) = [j \in 1 .. N |-> Contents(disk, e)[j]]
<1> DEFINE c == e.cluster
<1>1. /\ disk \in Disks /\ map \in FatMaps /\ disk.fat \in FatMaps /\ c \in Clusters
      /\ e.filesize \in Nat /\ N \in Nat
  BY CeilDivNat DEF TypeOK, Disks, Entries
<1>2. ChainIs(disk.fat, c, N - 1)
  BY DEF EntryOk
<1>3. \A b \in OnChain(disk.fat, c, N - 1) : map[b] = disk.fat[b]
  <2>1. /\ OnChain(disk.fat, c, N - 1) \subseteq DataClusters
        /\ \A b \in OnChain(disk.fat, c, N - 1) : disk.fat[b] # FAT32_FAT_EMPTY_ENTRY
    BY <1>2, ChainFacts
  <2>2. QED
    BY <2>1, ClusterFacts DEF MemoryAgrees
<1>4. \A j \in 0 .. N - 1 : Walk(map, c)[j] = Walk(disk.fat, c)[j]
  BY <1>1, <1>2, <1>3, SameChain
<1>5. (e.filesize \div ClusterSize) + 1 \in Nat /\ N <= (e.filesize \div ClusterSize) + 1
  BY <1>1, EnoughRead, GeometryAssumption
<1>6. /\ out \in Seq(Cells) /\ DOMAIN out = 1 .. (e.filesize \div ClusterSize) + 1
      /\ \A j \in 1 .. (e.filesize \div ClusterSize) + 1 :
           out[j] = CellAt(disk, Walk(map, c)[j - 1])
  BY <1>1, ReadClustersTypes DEF ReadClusters
<1>7. Len(out) = (e.filesize \div ClusterSize) + 1
  BY <1>5, <1>6
<1>8. ASSUME NEW j \in 1 .. N PROVE out[j].data = Contents(disk, e)[j]
  <2>1. out[j] = CellAt(disk, Walk(map, c)[j - 1])
    BY <1>1, <1>5, <1>6
  <2>2. Walk(map, c)[j - 1] = Walk(disk.fat, c)[j - 1]
    BY <1>1, <1>4
  <2>3. Contents(disk, e)[j] = CellAt(disk, Walk(disk.fat, c)[j - 1]).data
    BY DEF Contents
  <2>4. QED
    BY <2>1, <2>2, <2>3
<1>9. Contents(disk, e) = [j \in 1 .. N |-> Contents(disk, e)[j]]
  BY DEF Contents
<1>10. QED
  BY <1>1, <1>5, <1>7, <1>8, <1>9

(* A file is read back as it was stored.                                   *)
LEMMA ReadStep ==
  ASSUME TypeOK, TypeOK', TreeInv, MemoryAgrees, losses = 0, NamesApart(Settled),
         NEW parent \in DataClusters, NEW n \in Names, NEW x \in Exts,
         NEW size \in Sizes, Read(parent, n, x, size)
  PROVE  Settled' = Settled /\ Store!ReadFile
<1> DEFINE t == Tab(disk, parent)
           F == SlotsNamed(t, n, x)
           i == Least(F)
           e == t[i]
           k == <<parent, n, x>>
<1>1. /\ Idle /\ UNCHANGED <<disk, todo>>
      /\ \/ F = {} /\ op' = Returned("read", parent, n, x, size, "zero", 2, <<>>)
         \/ /\ F # {} /\ (e.attr = 1 \/ size = 0)
            /\ op' = Returned("read", parent, n, x, size, "zero", 1, <<>>)
         \/ /\ F # {} /\ op' = Returned("read", parent, n, x, size, "zero", 0, ReadClusters(e))
  BY DEF Read, Tab
<1>2. Settled = disk /\ Ready(disk) /\ disk \in Disks /\ TablesOk(disk) /\ Sound(disk) /\ Quiet
  BY <1>1, IdleFacts DEF Idle
<1>3. Settled' = Settled
  BY <1>1 DEF Settled
<1>4. MappedDirs' = MappedDirs /\ MappedStore' = MappedStore
  BY <1>3, SameStore
<1>5. MappedStore = StoreOf(disk)
  BY <1>2 DEF MappedStore
<1>6. n # Blank
  BY GeometryAssumption
<1>7. /\ F = {} => k \notin DOMAIN StoreOf(disk)
      /\ F # {} => parent \in Directories(disk)
      /\ F # {} /\ i >= 2 => /\ k \in DOMAIN StoreOf(disk)
                             /\ StoreOf(disk)[k] = ValueOf(disk, e)
                             /\ <<parent, i>> \in Listed(disk)
                             /\ EntryAt(disk, <<parent, i>>) = e
      /\ F # {} /\ ~ i >= 2 => /\ k \notin DOMAIN StoreOf(disk)
                               /\ n \in {"..", DirsOf(disk)[parent]}
  BY <1>2, <1>6, KeyFound
<1>8. F # {} => e \in Entries
  BY <1>2, FoundTypes, TabTypes
<1>9. op' \in Ops
  BY DEF TypeOK
<1> HIDE DEF F, i, e
<1>10. CASE F = {} /\ op' = Returned("read", parent, n, x, size, "zero", 2, <<>>)
  <2>1. /\ op'.call = "read" /\ op'.ret = 2 /\ op'.parent = parent
        /\ op'.name = n /\ op'.ext = x
    BY <1>10 DEF Returned
  <2>2. /\ MappedReply'.call = "read" /\ MappedReply'.ret = 2
        /\ Store!Key(MappedReply') = k
    BY <1>9, <2>1, ReplyFacts
  <2> HIDE DEF k
  <2>3. QED
    BY <1>3, <1>4, <1>5, <1>7, <1>10, <2>2 DEF Store!ReadFile
<1>11. CASE /\ F # {} /\ (e.attr = 1 \/ size = 0)
            /\ op' = Returned("read", parent, n, x, size, "zero", 1, <<>>)
  <2>1. size = 0
    BY <1>8, <1>11 DEF Entries, ATTR_SUBDIRECTORY
  <2>2. op'.call = "read" /\ op'.ret = 1 /\ op'.size = 0
    BY <1>11, <2>1 DEF Returned
  <2>3. MappedReply'.call = "read" /\ MappedReply'.ret = 1 /\ MappedReply'.size = 0
    BY <1>9, <2>2, ReplyFacts
  <2>4. QED
    BY <1>3, <1>4, <2>3 DEF Store!ReadFile
<1>12. CASE F # {} /\ op' = Returned("read", parent, n, x, size, "zero", 0, ReadClusters(e))
  <2> DEFINE out == ReadClusters(e)
  <2>1. /\ op'.call = "read" /\ op'.ret = 0 /\ op'.parent = parent
        /\ op'.name = n /\ op'.ext = x /\ op'.out = out
    BY <1>12 DEF Returned
  <2> HIDE DEF out
  <2>2. /\ MappedReply'.call = "read" /\ MappedReply'.ret = 0
        /\ MappedReply'.out = [j \in 1 .. Len(out) |-> out[j].data]
        /\ Store!Key(MappedReply') = k
    BY <1>9, <2>1, ReplyFacts
  <2> DEFINE seen == [j \in 1 .. Len(out) |-> out[j].data]
             C == StoreOf(disk)[k].contents
  <2>3. ASSUME k \in DOMAIN StoreOf(disk), StoreOf(disk)[k].file
        PROVE  Len(seen) >= Len(C) /\ SubSeq(seen, 1, Len(C)) = C
    <3>1. PICK l \in Listed(disk) : EntryAt(disk, l) = e
      BY <1>7, <1>12, <2>3
    <3>2. IsFile(e) /\ C = Contents(disk, e)
      BY <1>7, <1>12, <2>3 DEF ValueOf
    <3>3. EntryOk(disk, e)
      BY <1>2, <3>1 DEF Sound, FileOk
    <3> DEFINE N == CeilDiv(e.filesize)
    <3>4. /\ N \in Nat /\ Len(out) \in Nat /\ N <= Len(out)
          /\ \A j \in 1 .. N : out[j].data = Contents(disk, e)[j]
          /\ Contents(disk, e) = [j \in 1 .. N |-> Contents(disk, e)[j]]
      BY <1>2, <1>8, <1>12, <3>2, <3>3, ReadBack DEF out
    <3> HIDE DEF C, N
    <3>5. C = [j \in 1 .. N |-> seen[j]]
      BY <3>2, <3>4
    <3>6. Len(seen) = Len(out) /\ Len(C) = N
      BY <3>4, <3>5
    <3>7. SubSeq(seen, 1, N) = [j \in 1 .. N |-> seen[j]]
      BY <3>4, <3>6
    <3>8. QED
      BY <3>4, <3>5, <3>6, <3>7
  <2> HIDE DEF k, seen, C
  <2>4. QED
    BY <1>3, <1>4, <1>5, <2>2, <2>3 DEF Store!ReadFile, seen, C
<1>13. QED
  BY <1>1, <1>10, <1>11, <1>12

(* A directory that exists is found.                                       *)
LEMMA ReadDirectoryStep ==
  ASSUME TypeOK, TypeOK', TreeInv, losses = 0, NamesApart(Settled),
         NEW parent \in DataClusters, NEW n \in Names, ReadDirectory(parent, n)
  PROVE  Settled' = Settled /\ Store!ReadFolder
<1> DEFINE t == Tab(disk, parent)
           F == IF n = "." THEN {0} ELSE {i \in Slots \ {0} : t[i].name = n}
           k == <<parent, n, Blank>>
<1>1. /\ Idle /\ UNCHANGED <<disk, todo>>
      /\ op'.call = "read_directory" /\ op'.parent = parent /\ op'.name = n
      /\ op'.ext = Blank
      /\ op'.ret = 2 => F = {}
  <2>1. /\ Idle /\ UNCHANGED <<disk, todo>>
        /\ \/ /\ F = {}
              /\ op' = Returned("read_directory", parent, n, Blank, 0, "zero", 2, <<>>)
           \/ op' = Returned("read_directory", parent, n, Blank, 0, "zero", 0,
                             <<CellAt(disk, t[Least(F)].cluster)>>)
    BY DEF ReadDirectory, Tab
  <2> HIDE DEF F
  <2>2. QED
    BY <2>1 DEF Returned
<1>2. Settled = disk /\ disk \in Disks
  BY <1>1, IdleFacts
<1>3. Settled' = Settled
  BY <1>1 DEF Settled
<1>4. MappedDirs' = MappedDirs /\ MappedStore' = MappedStore
  BY <1>3, SameStore
<1>5. MappedStore = StoreOf(disk)
  BY <1>2 DEF MappedStore
<1>6. ASSUME F = {} PROVE k \notin DOMAIN StoreOf(disk)
  <2>1. ASSUME NEW l \in Listed(disk), Key(disk, l) = k PROVE FALSE
    <3>1. l[1] = parent /\ EntryAt(disk, l).name = n
      BY <2>1 DEF Key
    <3>2. l[2] \in Slots \ {0} /\ EntryAt(disk, l) = Tab(disk, l[1])[l[2]]
      BY ListedFacts
    <3>3. l[2] \in {i \in Slots \ {0} : t[i].name = n} /\ 0 \in {0}
      BY <3>1, <3>2
    <3>4. QED
      BY <1>6, <3>3
  <2>2. QED
    BY <1>2, <2>1, StoreFacts
<1>7. op' \in Ops
  BY DEF TypeOK
<1>8. /\ MappedReply'.call = "read_directory" /\ MappedReply'.ret = op'.ret
      /\ Store!Key(MappedReply') = k
  BY <1>1, <1>7, ReplyFacts
<1> HIDE DEF k, F
<1>9. QED
  BY <1>1, <1>3, <1>4, <1>5, <1>6, <1>8 DEF Store!ReadFolder

-----------------------------------------------------------------------------
(* The refinement.                                                         *)

(* Every step of the driver is one of the file store, or changes nothing   *)
(* that its callers see, and the names in each directory stay apart.       *)
LEMMA StoreStep ==
  ASSUME TypeOK, TypeOK', ChainsAscend, MemoryAgrees, TreeInv, ~ SelfRequests,
         losses = 0, losses' = 0, NamesApart(Settled), Next
  PROVE  NamesApart(Settled') /\ (Store!Next \/ UNCHANGED Store!avars)
<1>1. op' \in Ops /\ todo \in Seq(Disks)
  BY DEF TypeOK
<1>2. ASSUME Store!Rest \/ Store!ReadFile \/ Store!ReadFolder \/ Store!Refuse, Settled' = Settled
      PROVE  NamesApart(Settled') /\ Store!Next
  BY <1>2 DEF Store!Next
<1>3. CASE Format
  BY <1>3, FormatStep DEF Store!Next
<1>4. CASE Mount \/ Return \/ PowerOff
  <2>1. UNCHANGED <<disk, todo>> /\ op'.call = "none"
    BY <1>4 DEF Mount, Return, PowerOff, NoCall
  <2>2. Settled' = Settled
    BY <2>1 DEF Settled
  <2>3. QED
    BY <1>1, <1>2, <2>1, <2>2, RestStep
<1>5. CASE WriteBlocks
  <2>1. todo # <<>> /\ disk' = Head(todo) /\ todo' = Tail(todo) /\ op' = op
    BY <1>5 DEF WriteBlocks
  <2>2. Outstanding(disk, todo, OpKey)
    BY <2>1 DEF TreeInv, CalmInv, Calm
  <2>3. /\ Tail(todo) # <<>> => Tail(todo)[Len(Tail(todo))] = todo[Len(todo)]
        /\ Tail(todo) = <<>> => Head(todo) = todo[Len(todo)]
    BY <1>1, <2>1, <2>2, NextOutstanding
  <2>4. Settled' = Settled
    BY <2>1, <2>3 DEF Settled
  <2>5. MappedReply' = MappedReply
    BY <2>1 DEF MappedReply
  <2>6. QED
    BY <2>4, <2>5, SameStore DEF Store!avars
<1>6. CASE PowerLoss
  <2>1. losses' = 0 + 1
    BY <1>6 DEF PowerLoss
  <2>2. QED
    BY <2>1
<1>7. ASSUME NEW parent \in DataClusters, NEW n \in Names, ReadDirectory(parent, n)
      PROVE  NamesApart(Settled') /\ Store!Next
  BY <1>2, <1>7, ReadDirectoryStep
<1>8. ASSUME NEW parent \in DataClusters, NEW n \in Names, 0 \in Sizes, MakeDirectory(parent, n)
      PROVE  NamesApart(Settled') /\ Store!Next
  BY <1>8, MakeStep DEF Store!Next
<1>9. ASSUME NEW parent \in DataClusters, NEW n \in Names, NEW x \in Exts,
             DeleteRefused(parent, n, x)
      PROVE  NamesApart(Settled') /\ Store!Next
  BY <1>2, <1>9, DeleteRefuses
<1>10. ASSUME NEW parent \in DataClusters, NEW n \in Names, NEW x \in Exts,
              DeleteDirectory(parent, n, x)
       PROVE  NamesApart(Settled') /\ Store!Next
  BY <1>10, DropStoreStep DEF Store!Next
<1>11. ASSUME NEW parent \in DataClusters, NEW n \in Names, NEW x \in Exts,
              DeleteFile(parent, n, x)
       PROVE  NamesApart(Settled') /\ Store!Next
  BY <1>11, EraseStoreStep DEF Store!Next
<1>12. ASSUME NEW parent \in DataClusters, NEW n \in Names, NEW x \in Exts,
              NEW size \in Sizes, Read(parent, n, x, size)
       PROVE  NamesApart(Settled') /\ Store!Next
  BY <1>2, <1>12, ReadStep
<1>13. ASSUME NEW parent \in DataClusters, NEW n \in Names, NEW x \in Exts,
              NEW size \in Sizes,
              WriteRefused(parent, n, x, size) \/ WriteRunsOut(parent, n, x, size)
       PROVE  NamesApart(Settled') /\ Store!Next
  BY <1>2, <1>13, WriteRefuses
<1>14. ASSUME NEW parent \in DataClusters, NEW n \in Names, NEW x \in Exts,
              NEW size \in Sizes, NEW p \in Payloads, WriteFile(parent, n, x, size, p)
       PROVE  NamesApart(Settled') /\ Store!Next
  BY <1>14, WriteStep DEF Store!Next
<1>15. QED
  BY <1>3, <1>4, <1>5, <1>6, <1>7, <1>8, <1>9, <1>10, <1>11, <1>12, <1>13, <1>14 DEF Next

(* The driver implements the file store, as long as the power does not     *)
(* fail within an operation and delete() is not given the name of the      *)
(* directory itself: for every disk geometry, a call that returns 0 has    *)
(* done what it was asked and nothing else, but for a file in a full       *)
(* directory, a call that fails has changed nothing and had a reason, and  *)
(* a file is read back as it was written.                                  *)
THEOREM StoreImplemented ==
  ASSUME ~ SelfRequests PROVE Spec /\ [](losses = 0) => ImplementsStore
<1> DEFINE StoreInv == NamesApart(Settled)
<1>1. Init => StoreInv /\ Store!Init
  <2> SUFFICES ASSUME Init PROVE StoreInv /\ Store!Init
    OBVIOUS
  <2>1. Settled = BlankDisk /\ op = NoCall
    BY DEF Init, Settled
  <2>2. NamesApart(BlankDisk)
    <3>1. ASSUME NEW c \in DataClusters, NEW j \in Slots \ {0, 1} PROVE ~ Tab(BlankDisk, c)[j].used
      <4>1. <<c, j>> \notin Listed(BlankDisk)
        BY NewDisk
      <4>2. QED
        BY <4>1, ListedFacts
    <3>2. QED
      BY <3>1, NewDisk DEF NamesApart
  <2>3. MappedDirs = <<>> /\ MappedStore = <<>>
    BY <2>1, NewDisk DEF MappedDirs, MappedStore, DirsOf, StoreOf
  <2>4. MappedReply.call = "none"
    BY <2>1 DEF MappedReply, NoCall
  <2>5. QED
    BY <2>1, <2>2, <2>3, <2>4 DEF Store!Init
<1> DEFINE Known == TypeOK /\ ChainsAscend /\ MemoryAgrees /\ TreeInv /\ losses = 0
<1>2. Known /\ Known' /\ StoreInv /\ [Next]_vars => StoreInv' /\ [Store!Next]_Store!avars
  <2>1. ASSUME Known, Known', StoreInv, Next PROVE StoreInv' /\ [Store!Next]_Store!avars
    BY <2>1, StoreStep
  <2>2. ASSUME StoreInv, UNCHANGED vars PROVE StoreInv' /\ UNCHANGED Store!avars
    BY <2>2 DEF vars, Settled, Store!avars, MappedDirs, MappedStore, MappedReply
  <2>3. QED
    BY <2>1, <2>2
<1> HIDE DEF StoreInv
<1>3. QED
  BY <1>1, <1>2, TypeCorrect, AscendCorrect, MemoryCorrect, TreeInvariant, PTL
     DEF Spec, ImplementsStore, Store!Spec

-----------------------------------------------------------------------------
(* Ways up the tree.                                                       *)

(* The way up from a directory: p[0] is the directory, p[k + 1] the one    *)
(* that the second entry of p[k] leads to, p[n] the root.  The first entry *)
(* of each leads to itself.                                                *)
WayUp(d, c, p, n) ==
  /\ n \in Nat /\ p \in [0 .. n -> DataClusters]
  /\ p[0] = c /\ p[n] = ROOT_CLUSTER_NUMBER
  /\ \A k \in 0 .. n - 1 :
       /\ p[k] \in Directories(d) \ {ROOT_CLUSTER_NUMBER}
       /\ Tab(d, p[k])[0].cluster = p[k] /\ Tab(d, p[k])[1].cluster = p[k + 1]

(* No directory is met twice, so that the way is shorter than the disk.    *)
LEMMA WayBounded ==
  ASSUME NEW d, NEW c, NEW p, NEW n, WayUp(d, c, p, n)
  PROVE  /\ \A i, j \in 0 .. n : p[i] = p[j] => i = j
         /\ n < ClusterMapSize - 2
<1>1. /\ n \in Nat /\ p \in [0 .. n -> DataClusters] /\ p[n] = ROOT_CLUSTER_NUMBER
      /\ \A k \in 0 .. n - 1 : p[k] # ROOT_CLUSTER_NUMBER
                               /\ Tab(d, p[k])[1].cluster = p[k + 1]
  BY DEF WayUp
<1>2. ASSUME NEW i \in 0 .. n, NEW j \in 0 .. n, i < j, p[i] = p[j] PROVE FALSE
  <2> DEFINE S == {k \in 0 .. n - j : p[i + k] = p[j + k]}
  <2>1. 0 \in S
    BY <1>1, <1>2
  <2>2. ASSUME NEW k \in 0 .. (n - j) - 1, k \in S PROVE k + 1 \in S
    <3>1. /\ i + k \in 0 .. n - 1 /\ j + k \in 0 .. n - 1
          /\ i + (k + 1) = (i + k) + 1 /\ j + (k + 1) = (j + k) + 1
          /\ k + 1 \in 0 .. n - j
      BY <1>1, <1>2
    <3>2. p[i + k] = p[j + k]
      BY <2>2
    <3>3. p[(i + k) + 1] = p[(j + k) + 1]
      BY <1>1, <3>1, <3>2
    <3>4. QED
      BY <3>1, <3>3
  <2>3. n - j \in Nat
    BY <1>1
  <2> HIDE DEF S
  <2>4. \A k \in 0 .. n - j : k \in S
    BY <2>1, <2>2, <2>3, UpTo
  <2>5. p[i + (n - j)] = p[j + (n - j)]
    BY <2>3, <2>4 DEF S
  <2>6. j + (n - j) = n /\ i + (n - j) \in 0 .. n - 1
    BY <1>1, <1>2
  <2>7. QED
    BY <1>1, <2>5, <2>6
<1>3. ASSUME NEW i \in 0 .. n, NEW j \in 0 .. n, p[i] = p[j] PROVE i = j
  <2>1. i < j \/ j < i \/ i = j
    BY <1>1
  <2>2. QED
    BY <1>2, <1>3, <2>1
<1>4. /\ IsFiniteSet(0 .. n) /\ Cardinality(0 .. n) = n + 1
  BY <1>1, FS_Interval
<1>5. IsFiniteSet(DataClusters) /\ Cardinality(DataClusters) = ClusterMapSize - 2
  BY ClusterFacts, FS_Interval DEF DataClusters, ROOT_CLUSTER_NUMBER
<1>6. p \in Injection(0 .. n, DataClusters)
  BY <1>1, <1>3 DEF Injection, IsInjective
<1>7. n + 1 <= ClusterMapSize - 2
  BY <1>4, <1>5, <1>6, FS_Injection
<1>8. QED
  BY <1>1, <1>3, <1>7, ClusterFacts

(* The way up from a directory below c goes by c.                          *)
LEMMA WayBelow ==
  ASSUME NEW d, NEW c, NEW p, NEW n, WayUp(d, c, p, n),
         NEW b \in Directories(d), b # ROOT_CLUSTER_NUMBER, Tab(d, b)[0].cluster = b,
         Tab(d, b)[1].cluster = c
  PROVE  \E q : WayUp(d, b, q, n + 1) /\ \A k \in 0 .. n : q[k + 1] = p[k]
<1> DEFINE q == [k \in 0 .. n + 1 |-> IF k = 0 THEN b ELSE p[k - 1]]
<1>1. /\ n \in Nat /\ p \in [0 .. n -> DataClusters] /\ p[0] = c
      /\ p[n] = ROOT_CLUSTER_NUMBER
      /\ \A k \in 0 .. n - 1 : p[k] \in Directories(d) \ {ROOT_CLUSTER_NUMBER}
                               /\ Tab(d, p[k])[0].cluster = p[k]
                               /\ Tab(d, p[k])[1].cluster = p[k + 1]
  BY DEF WayUp
<1>2. b \in DataClusters
  BY ListedFacts
<1>3. q \in [0 .. n + 1 -> DataClusters] /\ q[0] = b /\ \A k \in 0 .. n : q[k + 1] = p[k]
  BY <1>1, <1>2
<1> HIDE DEF q
<1>4. ASSUME NEW k \in 0 .. (n + 1) - 1
      PROVE  /\ q[k] \in Directories(d) \ {ROOT_CLUSTER_NUMBER}
             /\ Tab(d, q[k])[0].cluster = q[k] /\ Tab(d, q[k])[1].cluster = q[k + 1]
  <2>1. CASE k = 0
    BY <1>1, <1>3, <2>1
  <2>2. CASE k # 0
    <3>1. k - 1 \in 0 .. n - 1 /\ (k - 1) + 1 = k /\ k \in 0 .. n /\ k - 1 \in 0 .. n
      BY <1>1, <2>2
    <3>2. q[k] = p[k - 1] /\ q[k + 1] = p[k]
      BY <1>3, <3>1
    <3>3. QED
      BY <1>1, <3>1, <3>2
  <2>3. QED
    BY <2>1, <2>2
<1>5. q[n + 1] = ROOT_CLUSTER_NUMBER /\ n + 1 \in Nat
  BY <1>1, <1>3
<1>6. QED
  BY <1>3, <1>4, <1>5 DEF WayUp

(* From each directory on the way it goes on like this.                    *)
LEMMA WayAbove ==
  ASSUME NEW d, NEW c, NEW p, NEW n, WayUp(d, c, p, n), NEW j \in 0 .. n
  PROVE  WayUp(d, p[j], [k \in 0 .. n - j |-> p[j + k]], n - j)
<1> DEFINE q == [k \in 0 .. n - j |-> p[j + k]]
<1>1. /\ n \in Nat /\ p \in [0 .. n -> DataClusters] /\ p[n] = ROOT_CLUSTER_NUMBER
      /\ \A k \in 0 .. n - 1 : p[k] \in Directories(d) \ {ROOT_CLUSTER_NUMBER}
                               /\ Tab(d, p[k])[0].cluster = p[k]
                               /\ Tab(d, p[k])[1].cluster = p[k + 1]
  BY DEF WayUp
<1>2. n - j \in Nat /\ j + (n - j) = n /\ j + 0 = j
  BY <1>1
<1>3. q \in [0 .. n - j -> DataClusters] /\ \A k \in 0 .. n - j : q[k] = p[j + k]
  BY <1>1
<1> HIDE DEF q
<1>4. q[0] = p[j] /\ q[n - j] = ROOT_CLUSTER_NUMBER
  BY <1>1, <1>2, <1>3
<1>5. ASSUME NEW k \in 0 .. (n - j) - 1
      PROVE  /\ q[k] \in Directories(d) \ {ROOT_CLUSTER_NUMBER}
             /\ Tab(d, q[k])[0].cluster = q[k] /\ Tab(d, q[k])[1].cluster = q[k + 1]
  <2>1. /\ j + k \in 0 .. n - 1 /\ k \in 0 .. n - j /\ k + 1 \in 0 .. n - j
        /\ j + (k + 1) = (j + k) + 1
    BY <1>1
  <2>2. QED
    BY <1>1, <1>3, <2>1
<1>6. QED
  BY <1>2, <1>3, <1>4, <1>5 DEF WayUp, q

(* The directories D of an image have the same first two entries in        *)
(* another one, and if they held no data they hold none.                   *)
Heads(a, b, D) ==
  \A c \in D : /\ Tab(b, c)[0] = Tab(a, c)[0] /\ Tab(b, c)[1] = Tab(a, c)[1]
              /\ Dat(b, c) \in {Dat(a, c), NoData}

(* A way that leads through such directories only is one of both images.   *)
LEMMA WayKept ==
  ASSUME NEW a, NEW b, NEW c, NEW p, NEW n, WayUp(a, c, p, n), NEW D, Heads(a, b, D),
         \A k \in 0 .. n - 1 : p[k] \in D
  PROVE  WayUp(b, c, p, n)
<1>1. ASSUME NEW k \in 0 .. n - 1
      PROVE  /\ p[k] \in Directories(b) /\ Tab(b, p[k])[0].cluster = Tab(a, p[k])[0].cluster
             /\ Tab(b, p[k])[1].cluster = Tab(a, p[k])[1].cluster
  <2>1. p[k] \in D /\ p[k] \in Directories(a)
    BY DEF WayUp
  <2>2. p[k] \in DataClusters /\ Tab(a, p[k])[0].used
    BY <2>1, ListedFacts
  <2>3. Tab(b, p[k])[0] = Tab(a, p[k])[0] /\ Tab(b, p[k])[1] = Tab(a, p[k])[1]
    BY <2>1 DEF Heads
  <2>4. QED
    BY <2>2, <2>3, ListedFacts
<1>2. /\ n \in Nat /\ p \in [0 .. n -> DataClusters] /\ p[0] = c /\ p[n] = ROOT_CLUSTER_NUMBER
      /\ \A k \in 0 .. n - 1 : /\ p[k] # ROOT_CLUSTER_NUMBER
                               /\ Tab(a, p[k])[0].cluster = p[k]
                               /\ Tab(a, p[k])[1].cluster = p[k + 1]
  BY DEF WayUp
<1>3. QED
  BY <1>1, <1>2 DEF WayUp

(* No way leads through a directory without entries, but from there.       *)
LEMMA WayPasses ==
  ASSUME NEW d, Ready(d), NEW c, NEW p, NEW n, WayUp(d, c, p, n), NEW b, b # c,
         b # ROOT_CLUSTER_NUMBER, \A j \in Slots \ {0, 1} : ~ Tab(d, b)[j].used
  PROVE  \A k \in 0 .. n : p[k] # b
<1>1. SUFFICES ASSUME NEW k \in 0 .. n, p[k] = b PROVE FALSE
  OBVIOUS
<1>2. k - 1 \in 0 .. n - 1 /\ (k - 1) + 1 = k
  BY <1>1 DEF WayUp
<1>3. p[k - 1] \in Directories(d) \ {ROOT_CLUSTER_NUMBER} /\ Tab(d, p[k - 1])[1].cluster = b
  BY <1>1, <1>2 DEF WayUp
<1>4. PICK l \in Listed(d) : ~ IsFile(EntryAt(d, l)) /\ EntryAt(d, l).cluster = p[k - 1]
  BY <1>3 DEF Ready, TreeBut, Entered
<1>5. EntryWhole(d, l)
  BY DEF Ready, TreeBut
<1>6. l[1] = b
  BY <1>3, <1>4, <1>5 DEF EntryWhole, Tab
<1>7. QED
  BY <1>6, ListedFacts

-----------------------------------------------------------------------------
(* What the images of a call leave of the directories.                     *)

(* A cluster that a table is written to holds no data.                     *)
LEMMA TableErases ==
  ASSUME NEW d \in Disks, NEW p \in DataClusters, NEW t
  PROVE  Dat(WriteTable(d, p, t), p) = NoData
<1>1. /\ d.cell \in [DataClusters -> Cells]
      /\ WriteTable(d, p, t).cell = [d.cell EXCEPT ![p] = TableCell(t)]
  BY DEF WriteTable, Disks
<1>2. QED
  BY <1>1 DEF Dat, TableCell

(* Writing the table of a directory with its first two entries kept.       *)
LEMMA TableHeads ==
  ASSUME NEW d, NEW D \in SUBSET DataClusters, NEW a \in Disks, Heads(d, a, D),
         NEW p \in DataClusters, NEW t \in Tables,
         p \in D => t[0] = Tab(d, p)[0] /\ t[1] = Tab(d, p)[1],
         NEW b, b = WriteTable(a, p, t)
  PROVE  Heads(d, b, D)
<1>1. /\ Tab(b, p) = t /\ Dat(b, p) = NoData
      /\ \A c \in DataClusters \ {p} : Tab(b, c) = Tab(a, c) /\ Dat(b, c) = Dat(a, c)
  BY TableWritten, TableErases
<1>2. ASSUME NEW c \in D
      PROVE  /\ Tab(b, c)[0] = Tab(d, c)[0] /\ Tab(b, c)[1] = Tab(d, c)[1]
             /\ Dat(b, c) \in {Dat(d, c), NoData}
  <2>1. CASE c = p
    BY <1>1, <2>1
  <2>2. CASE c # p
    BY <1>1, <2>2 DEF Heads
  <2>3. QED
    BY <2>1, <2>2
<1>3. QED
  BY <1>2 DEF Heads

(* An image with the same tables has the same first two entries.           *)
LEMMA SameHeads ==
  ASSUME NEW d, NEW D, NEW b,
         \A c \in D : Tab(b, c) = Tab(d, c) /\ Dat(b, c) \in {Dat(d, c), NoData}
  PROVE  Heads(d, b, D)
  BY DEF Heads

(* A directory is neither free nor part of a file.                         *)
LEMMA DirectoryTaken ==
  ASSUME NEW d, Ready(d), NEW c \in Directories(d)
  PROVE  /\ c \in DataClusters /\ d.fat[c] # FAT32_FAT_EMPTY_ENTRY
         /\ Tab(d, c) # EmptyTable
<1>1. c \in DataClusters /\ Tab(d, c)[0].used
  BY ListedFacts
<1>2. Tab(d, c) # EmptyTable
  BY <1>1, SlotTypes DEF EmptyTable, EmptyEntry
<1>3. QED
  BY <1>1, <1>2, FreeFacts

(* An entry that is added to a directory leaves its first two alone.       *)
LEMMA AddedBelow ==
  ASSUME NEW d, Ready(d), NEW parent \in Directories(d), NEW e \in Entries
  PROVE  LET t == Tab(d, parent) IN
         AddEntry(t, e) \in Tables /\ AddEntry(t, e)[0] = t[0] /\ AddEntry(t, e)[1] = t[1]
<1> DEFINE t == Tab(d, parent)
           t2 == AddEntry(t, e)
<1>1. d \in Disks /\ TablesOk(d)
  BY DEF Ready, Sound
<1>2. t \in Tables
  BY <1>1, ListedFacts, TabTypes
<1>3. t2 \in Tables
  BY <1>2, TableTypes
<1>4. CASE FreeSlots(t) = {}
  BY <1>3, <1>4 DEF AddEntry
<1>5. CASE FreeSlots(t) # {}
  <2> DEFINE i == Least(FreeSlots(t))
  <2>1. i \in Slots /\ i >= 2 /\ t2 = [t EXCEPT ![i] = e]
    BY <1>1, <1>5, AddSlot
  <2> HIDE DEF i, t2, t
  <2>2. t2[0] = t[0] /\ t2[1] = t[1]
    BY <1>2, <2>1, SlotTypes DEF Tables
  <2>3. QED
    BY <1>3, <2>2 DEF t2, t
<1>6. QED
  BY <1>4, <1>5

(* What is written while a file is stored.                                 *)
LEMMA WriteHeads ==
  ASSUME NEW d, Ready(d), NEW parent \in Directories(d), NEW n \in AllNames,
         NEW x \in AllExts, NEW size \in Nat, size > 0, NEW p \in Payloads,
         NEW A,
         A = Lowest(EmptyClusters(d.fat, ROOT_CLUSTER_NUMBER + 1), CeilDiv(size)),
         Cardinality(A) >= CeilDiv(size)
  PROVE  LET g == FileEntry(n, x, size, Least(A))
             s == WriteImages(d, Link(d.fat, A, FAT32_FAT_END_OF_FILE), Least(A), p,
                    CeilDiv(size), parent, AddEntry(d.cell[parent].table, g))
         IN  \A i \in 1 .. Len(s) : Heads(d, s[i], Directories(d))
<1> DEFINE m == Link(d.fat, A, FAT32_FAT_END_OF_FILE)
           c == Least(A)
           N == CeilDiv(size)
           e == FileEntry(n, x, size, c)
           W(i) == WithData(d, m, c, p, i)
           F == WriteFat(W(N), m)
           t == Tab(d, parent)
           t2 == AddEntry(t, e)
           G == WriteTable(F, parent, t2)
           s == WriteImages(d, m, c, p, N, parent, t2)
           D == Directories(d)
<1>1. /\ A \in SUBSET DataClusters /\ c \in A
      /\ \A b \in A : d.fat[b] = FAT32_FAT_EMPTY_ENTRY
      /\ m \in FatMaps /\ N - 1 \in Nat /\ OnChain(m, c, N - 1) = A
  BY GivenClusters
<1>2. d \in Disks /\ N \in Nat
  BY CeilDivNat DEF Ready
<1>3. e \in Entries
  <2>1. c \in Clusters
    BY <1>1, ClusterFacts
  <2>2. QED
    BY <2>1, EntryTypes
<1>4. parent \in DataClusters /\ t \in Tables
  BY <1>2, ListedFacts, TabTypes
<1>5. \A b \in D : b \in DataClusters /\ b \notin A
  BY <1>1, DirectoryTaken
<1>6. t2 \in Tables /\ t2[0] = t[0] /\ t2[1] = t[1]
  BY <1>3, AddedBelow
<1> HIDE DEF m, c, N, e, t2
<1>7. ASSUME NEW i \in 0 .. N
      PROVE  W(i) \in Disks /\ \A b \in D : Tab(W(i), b) = Tab(d, b) /\ Dat(W(i), b) = Dat(d, b)
  <2>1. W(i) \in Disks
    BY <1>2, WithDataTypes
  <2>2. ASSUME NEW b \in D PROVE ~ \E j \in 0 .. i - 1 : Walk(m, c)[j] = b
    <3>1. SUFFICES ASSUME NEW j \in 0 .. i - 1, Walk(m, c)[j] = b PROVE FALSE
      OBVIOUS
    <3>2. j \in 0 .. N - 1
      BY <1>2
    <3>3. b \in A
      BY <1>1, <3>1, <3>2 DEF OnChain
    <3>4. QED
      BY <1>5, <3>3
  <2>3. QED
    BY <1>2, <1>5, <2>1, <2>2, DataViews
<1>8. N \in 0 .. N
  BY <1>2
<1>9. F \in Disks /\ \A b \in D : Tab(F, b) = Tab(d, b) /\ Dat(F, b) = Dat(d, b)
  <2> DEFINE V == W(N)
  <2>1. V \in Disks /\ \A b \in D : Tab(V, b) = Tab(d, b) /\ Dat(V, b) = Dat(d, b)
    BY <1>7, <1>8
  <2>2. F = WriteFat(V, m)
    OBVIOUS
  <2> HIDE DEF V, F, W
  <2>3. /\ F \in Disks
        /\ \A b \in DataClusters : Tab(F, b) = Tab(V, b) /\ Dat(F, b) = Dat(V, b)
    BY <1>1, <2>1, <2>2, FatWritten
  <2>4. QED
    BY <1>5, <2>1, <2>3
<1>10. Heads(d, F, D) /\ \A i \in 1 .. N : Heads(d, W(i), D)
  BY <1>2, <1>7, <1>9, SameHeads
<1>11. Heads(d, G, D)
  <2>1. G = WriteTable(F, parent, t2)
    OBVIOUS
  <2>2. D \in SUBSET DataClusters
    BY <1>5
  <2> HIDE DEF F, G, D
  <2>3. QED
    BY <1>4, <1>6, <1>9, <1>10, <2>1, <2>2, TableHeads
<1>12. /\ Len(s) = N + 2
       /\ \A i \in 1 .. N : s[i] = W(i)
       /\ s[N + 1] = F /\ s[N + 2] = G
  <2> DEFINE q == [i \in 1 .. N |-> W(i)]
             r == <<F, G>>
  <2>1. s = q \o r
    BY DEF WriteImages
  <2> HIDE DEF W, F, G
  <2>2. Len(q) = N /\ Len(r) = 2
    BY <1>2
  <2>3. QED
    BY <1>2, <2>1, <2>2
<1>13. ASSUME NEW i \in 1 .. Len(s) PROVE Heads(d, s[i], D)
  <2>1. i \in 1 .. N \/ i = N + 1 \/ i = N + 2
    BY <1>2, <1>12
  <2> HIDE DEF W, F, G, s
  <2>2. QED
    BY <1>10, <1>11, <1>12, <2>1
<1>14. QED
  BY <1>13 DEF s, m, c, N, e, t, t2, Tab

(* What is written while a directory is made.                              *)
LEMMA MakeHeads ==
  ASSUME NEW d, Ready(d), NEW parent \in Directories(d), NEW n \in AllNames,
         EmptyClusters(d.fat, ROOT_CLUSTER_NUMBER + 1) # {}
  PROVE  LET s == InitDirectoryTable(d, d.fat, n, parent)
             c == Least(EmptyClusters(d.fat, 1))
         IN  /\ \A i \in 1 .. Len(s) : Heads(d, s[i], Directories(d))
             /\ c \notin Directories(d) /\ Dat(Final(s), c) = NoData
             /\ Tab(Final(s), c)[1].ext = Tab(d, parent)[0].ext
<1> DEFINE index == Least(EmptyClusters(d.fat, 1))
           self == DirEntry(n, index)
           m == [d.fat EXCEPT ![index] = FAT32_FAT_END_OF_FILE]
           F == WriteFat(d, m)
           above == AddEntry(Tab(d, parent), self)
           G == WriteTable(F, parent, above)
           table == [EmptyTable EXCEPT ![0] = self, ![1] = [above[0] EXCEPT !.name = ".."]]
           H == WriteTable(G, index, table)
           D == Directories(d)
           s == InitDirectoryTable(d, d.fat, n, parent)
<1>1. /\ index \in DataClusters /\ index # ROOT_CLUSTER_NUMBER /\ index \in Clusters
      /\ d.fat[index] = FAT32_FAT_EMPTY_ENTRY
  BY NewCluster, ClusterFacts
<1>2. s = <<F, G, H>>
  BY <1>1 DEF InitDirectoryTable, Tab
<1>3. d \in Disks /\ d.fat \in FatMaps /\ parent \in DataClusters
  BY TabTypes, ListedFacts DEF Ready
<1>4. index \notin D /\ D \in SUBSET DataClusters
  BY <1>1, DirectoryTaken
<1> HIDE DEF index
<1>5. self \in Entries
  <2>1. Blank \in AllExts /\ 0 \in Nat
    BY DEF AllExts
  <2>2. QED
    BY <1>1, <2>1, EntryTypes
<1>6. above \in Tables /\ above[0] = Tab(d, parent)[0] /\ above[1] = Tab(d, parent)[1]
  BY <1>5, AddedBelow
<1>7. table \in Tables /\ table[1].ext = Tab(d, parent)[0].ext
  <2>1. above[0] \in Entries /\ ".." \in AllNames
    BY <1>6, SlotTypes DEF Tables, AllNames
  <2>2. [above[0] EXCEPT !.name = ".."] \in Entries
    BY <2>1 DEF Entries
  <2>3. table \in Tables
    BY <1>5, <2>2, EmptyTypes DEF Tables
  <2>4. table[1] = [above[0] EXCEPT !.name = ".."]
    BY <1>5, EmptyTypes, SlotTypes DEF Tables
  <2>5. QED
    BY <1>6, <2>1, <2>3, <2>4 DEF Entries
<1>8. m \in FatMaps
  <2>1. FAT32_FAT_END_OF_FILE \in FatValues
    BY DEF FatValues
  <2>2. QED
    BY <1>3, <2>1 DEF FatMaps
<1> HIDE DEF self, m, above, table
<1>9. F \in Disks /\ Heads(d, F, D)
  <2>1. F = WriteFat(d, m)
    OBVIOUS
  <2> HIDE DEF F
  <2>2. /\ F \in Disks
        /\ \A c \in DataClusters : Tab(F, c) = Tab(d, c) /\ Dat(F, c) = Dat(d, c)
    BY <1>3, <1>8, <2>1, FatWritten
  <2>3. QED
    BY <1>4, <2>2, SameHeads
<1>10. G \in Disks /\ Heads(d, G, D)
  <2>1. G = WriteTable(F, parent, above)
    OBVIOUS
  <2> HIDE DEF F, G, D
  <2>2. QED
    BY <1>3, <1>4, <1>6, <1>9, <2>1, TableHeads, TableWritten
<1>11. H \in Disks /\ Heads(d, H, D) /\ Dat(H, index) = NoData /\ Tab(H, index) = table
  <2>1. H = WriteTable(G, index, table)
    OBVIOUS
  <2> HIDE DEF G, H, D
  <2>2. QED
    BY <1>1, <1>4, <1>7, <1>10, <2>1, TableHeads, TableWritten, TableErases
<1> HIDE DEF F, G, H, s
<1>12. Final(s) = H
  BY <1>2 DEF Final
<1>13. ASSUME NEW i \in 1 .. Len(s) PROVE Heads(d, s[i], D)
  <2>1. i = 1 \/ i = 2 \/ i = 3
    BY <1>2
  <2>2. QED
    BY <1>2, <1>9, <1>10, <1>11, <2>1
<1>14. QED
  BY <1>4, <1>7, <1>11, <1>12, <1>13 DEF s, index

(* Clearing an entry below a directory leaves its first two alone.         *)
LEMMA ClearedBelow ==
  ASSUME NEW d \in Disks, NEW parent \in DataClusters, NEW i \in Slots, i >= 2
  PROVE  LET t == Tab(d, parent) IN
         /\ ClearEntry(t, i) \in Tables
         /\ ClearEntry(t, i)[0] = t[0] /\ ClearEntry(t, i)[1] = t[1]
<1> DEFINE t == Tab(d, parent)
<1>1. t \in Tables
  BY TabTypes
<1> HIDE DEF t
<1>2. ClearEntry(t, i) \in Tables
  BY <1>1, EmptyTypes, TableTypes
<1>3. QED
  BY <1>1, <1>2, SlotTypes DEF ClearEntry, Tables, t

(* What is written while a directory is deleted: only its own table goes.  *)
LEMMA DropHeads ==
  ASSUME NEW d, Ready(d), NEW parent \in DataClusters, NEW i \in Slots, i >= 2,
         NEW c \in DataClusters
  PROVE  LET s == DeleteDirImages(d, c, parent, ClearEntry(Tab(d, parent), i))
         IN  \A j \in 1 .. Len(s) : Heads(d, s[j], Directories(d) \ {c})
<1> DEFINE m == [d.fat EXCEPT ![c] = FAT32_FAT_EMPTY_ENTRY]
           F == ZeroClusters(d, {c})
           G == WriteFat(F, m)
           t2 == ClearEntry(Tab(d, parent), i)
           H == WriteTable(G, parent, t2)
           D == Directories(d) \ {c}
           s == DeleteDirImages(d, c, parent, t2)
<1>1. s = <<F, G, H>>
  BY DEF DeleteDirImages
<1>2. d \in Disks /\ d.fat \in FatMaps /\ D \in SUBSET (DataClusters \ {c})
  BY TabTypes, ListedFacts DEF Ready
<1>3. t2 \in Tables /\ t2[0] = Tab(d, parent)[0] /\ t2[1] = Tab(d, parent)[1]
  BY <1>2, ClearedBelow
<1>4. m \in FatMaps
  <2>1. FAT32_FAT_EMPTY_ENTRY \in FatValues
    BY ClusterFacts DEF FatValues, Clusters, FAT32_FAT_EMPTY_ENTRY
  <2>2. QED
    BY <1>2, <2>1 DEF FatMaps
<1> HIDE DEF m, t2
<1>5. F \in Disks /\ Heads(d, F, D)
  <2>1. F = ZeroClusters(d, {c})
    OBVIOUS
  <2> HIDE DEF F
  <2>2. /\ F \in Disks
        /\ \A b \in DataClusters \ {c} : Tab(F, b) = Tab(d, b) /\ Dat(F, b) = Dat(d, b)
    BY <1>2, <2>1, ZeroWritten
  <2>3. QED
    BY <1>2, <2>2, SameHeads
<1>6. G \in Disks /\ Heads(d, G, D)
  <2>1. G = WriteFat(F, m)
    OBVIOUS
  <2> HIDE DEF F, G
  <2>2. /\ G \in Disks
        /\ \A b \in DataClusters : Tab(G, b) = Tab(F, b) /\ Dat(G, b) = Dat(F, b)
    BY <1>4, <1>5, <2>1, FatWritten
  <2>3. QED
    BY <1>2, <1>5, <2>2 DEF Heads
<1>7. Heads(d, H, D)
  <2>1. H = WriteTable(G, parent, t2) /\ D \in SUBSET DataClusters
    BY <1>2
  <2> HIDE DEF G, H, D
  <2>2. QED
    BY <1>3, <1>6, <2>1, TableHeads
<1> HIDE DEF F, G, H, s
<1>8. ASSUME NEW j \in 1 .. Len(s) PROVE Heads(d, s[j], D)
  <2>1. j = 1 \/ j = 2 \/ j = 3
    BY <1>1
  <2>2. QED
    BY <1>1, <1>5, <1>6, <1>7, <2>1
<1>9. QED
  BY <1>8 DEF s, t2

(* What is written while a file is deleted.                                *)
LEMMA EraseHeads ==
  ASSUME NEW d, Ready(d), NEW parent \in DataClusters, NEW i \in Slots, i >= 2,
         NEW w, NEW last \in Nat,
         \A j \in 0 .. last : w[j] \notin Directories(d)
  PROVE  LET s == DeleteFileImages(d, w, last, parent, ClearEntry(Tab(d, parent), i))
         IN  \A j \in 1 .. Len(s) : Heads(d, s[j], Directories(d))
<1> DEFINE Z(q) == {w[j] : j \in 0 .. q - 1}
           F(q) == ZeroClusters(d, Z(q))
           t2 == ClearEntry(Tab(d, parent), i)
           G == WriteTable(F(last + 1), parent, t2)
           D == Directories(d)
           s == DeleteFileImages(d, w, last, parent, t2)
<1>1. d \in Disks /\ D \in SUBSET DataClusters
  BY ListedFacts DEF Ready
<1>2. t2 \in Tables /\ t2[0] = Tab(d, parent)[0] /\ t2[1] = Tab(d, parent)[1]
  BY <1>1, ClearedBelow
<1> HIDE DEF t2
<1>3. ASSUME NEW q \in 0 .. last + 1 PROVE F(q) \in Disks /\ Heads(d, F(q), D)
  <2> DEFINE b == F(q)
             Y == Z(q)
  <2>1. b = ZeroClusters(d, Y)
    OBVIOUS
  <2>2. \A c \in D : c \notin Y
    <3>1. \A j \in 0 .. q - 1 : j \in 0 .. last
      OBVIOUS
    <3>2. QED
      BY <3>1
  <2> HIDE DEF b, Y, F, G, s
  <2>3. /\ b \in Disks
        /\ \A c \in DataClusters : c \notin Y => Tab(b, c) = Tab(d, c) /\ Dat(b, c) = Dat(d, c)
    BY <1>1, <2>1, ZeroWritten
  <2>4. b \in Disks /\ Heads(d, b, D)
    BY <1>1, <2>2, <2>3, SameHeads
  <2>5. QED
    BY <2>4 DEF b
<1>4. Heads(d, G, D)
  <2> DEFINE V == F(last + 1)
  <2>1. G = WriteTable(V, parent, t2) /\ V \in Disks /\ Heads(d, V, D)
    BY <1>3
  <2> HIDE DEF G, V, F, D
  <2>2. QED
    BY <1>1, <1>2, <2>1, TableHeads
<1>5. /\ Len(s) = last + 2
      /\ \A j \in 1 .. last + 1 : s[j] = F(j)
      /\ s[last + 2] = G
  <2> DEFINE q == [j \in 1 .. last + 1 |-> F(j)]
             r == <<G>>
  <2>1. s = q \o r
    BY DEF DeleteFileImages
  <2> HIDE DEF F, G
  <2>2. Len(q) = last + 1 /\ Len(r) = 1
    OBVIOUS
  <2>3. QED
    BY <2>1, <2>2
<1>6. ASSUME NEW j \in 1 .. Len(s) PROVE Heads(d, s[j], D)
  <2>1. j \in 1 .. last + 1 \/ j = last + 2
    BY <1>5
  <2> HIDE DEF F, G, s
  <2>2. QED
    BY <1>3, <1>4, <1>5, <2>1
<1>7. QED
  BY <1>6 DEF s, t2

-----------------------------------------------------------------------------
(* The tree that the shell sees.                                           *)

(* The directory b is on the way up from the directory c.                  *)
Under(d, c, b) ==
  /\ c \in Directories(d)
  /\ \E p, n : WayUp(d, c, p, n) /\ \E j \in 0 .. n : p[j] = b

(* The root is its own way up.                                             *)
LEMMA RootUnder ==
  ASSUME NEW d, ROOT_CLUSTER_NUMBER \in Directories(d)
  PROVE  Under(d, ROOT_CLUSTER_NUMBER, ROOT_CLUSTER_NUMBER)
<1> DEFINE r == ROOT_CLUSTER_NUMBER
           p == [k \in 0 .. 0 |-> r]
<1>1. r \in DataClusters
  BY ClusterFacts
<1>2. p[0] = r /\ p \in [0 .. 0 -> DataClusters]
  BY <1>1
<1>3. \A k \in 0 .. 0 - 1 : FALSE
  OBVIOUS
<1> HIDE DEF p
<1>4. WayUp(d, r, p, 0)
  BY <1>2, <1>3 DEF WayUp
<1>5. QED
  BY <1>2, <1>4 DEF Under

(* A directory below another one is under all that is above that.          *)
LEMMA ChildUnder ==
  ASSUME NEW d, NEW c, NEW a, Under(d, c, a),
         NEW b \in Directories(d), b # ROOT_CLUSTER_NUMBER, Tab(d, b)[0].cluster = b,
         Tab(d, b)[1].cluster = c
  PROVE  Under(d, b, a) /\ Under(d, b, b)
<1>1. PICK p, n : WayUp(d, c, p, n) /\ \E j \in 0 .. n : p[j] = a
  BY DEF Under
<1>2. PICK j \in 0 .. n : p[j] = a
  BY <1>1
<1>3. PICK q : WayUp(d, b, q, n + 1) /\ \A k \in 0 .. n : q[k + 1] = p[k]
  BY <1>1, WayBelow
<1>4. n \in Nat /\ j + 1 \in 0 .. n + 1 /\ 0 \in 0 .. n + 1
  BY <1>1 DEF WayUp
<1>5. q[j + 1] = a /\ q[0] = b
  BY <1>2, <1>3 DEF WayUp
<1>6. QED
  BY <1>3, <1>4, <1>5 DEF Under

(* Nothing is under directories without entries but themselves.            *)
LEMMA UnderAvoids ==
  ASSUME NEW a, Ready(a), NEW S, NEW c, NEW x, Under(a, c, x), c \notin S,
         \A y \in S : /\ y # ROOT_CLUSTER_NUMBER
                      /\ \A j \in Slots \ {0, 1} : ~ Tab(a, y)[j].used
  PROVE  x \notin S
<1>1. PICK p, n : WayUp(a, c, p, n) /\ \E j \in 0 .. n : p[j] = x
  BY DEF Under
<1>2. ASSUME NEW y \in S PROVE \A k \in 0 .. n : p[k] # y
  BY <1>1, <1>2, WayPasses
<1>3. QED
  BY <1>1, <1>2

(* Clusters that lose their tables cut no way off, if they had no entries. *)
LEMMA UnderKept ==
  ASSUME NEW a, Ready(a), NEW b, NEW S, NEW c, NEW x, Under(a, c, x), c \notin S,
         \A y \in S : /\ y # ROOT_CLUSTER_NUMBER
                      /\ \A j \in Slots \ {0, 1} : ~ Tab(a, y)[j].used,
         Heads(a, b, Directories(a) \ S)
  PROVE  Under(b, c, x)
<1>1. PICK p, n : WayUp(a, c, p, n) /\ \E j \in 0 .. n : p[j] = x
  BY DEF Under
<1>2. \A k \in 0 .. n : p[k] \notin S
  <2>1. ASSUME NEW y \in S PROVE \A k \in 0 .. n : p[k] # y
    BY <1>1, <2>1, WayPasses
  <2>2. QED
    BY <2>1
<1>3. \A k \in 0 .. n - 1 : p[k] \in Directories(a) \ S
  BY <1>1, <1>2 DEF WayUp
<1>4. WayUp(b, c, p, n)
  BY <1>1, <1>3, WayKept
<1>5. c \in Directories(b)
  <2>1. c \in Directories(a) \ S
    BY DEF Under
  <2>2. Tab(b, c)[0] = Tab(a, c)[0]
    BY <2>1 DEF Heads
  <2>3. QED
    BY <2>1, <2>2, InDirectories
<1>6. QED
  BY <1>1, <1>2, <1>4, <1>5 DEF Under

(* From the root, names lead to the directory: none on its way up is       *)
(* called "." , which cd takes for the directory that it is in.            *)
Reached(d, c) ==
  \E p, n : WayUp(d, c, p, n) /\ \A k \in 0 .. n - 1 : Tab(d, p[k])[0].name # "."

(* The root is where it begins.                                            *)
LEMMA RootReached ==
  ASSUME NEW d, Under(d, ROOT_CLUSTER_NUMBER, ROOT_CLUSTER_NUMBER)
  PROVE  Reached(d, ROOT_CLUSTER_NUMBER)
<1>1. PICK p, n : WayUp(d, ROOT_CLUSTER_NUMBER, p, n)
  BY DEF Under
<1>2. n \in Nat /\ p[0] = ROOT_CLUSTER_NUMBER
      /\ \A k \in 0 .. n - 1 : p[k] # ROOT_CLUSTER_NUMBER
  BY <1>1 DEF WayUp
<1>3. \A k \in 0 .. n - 1 : FALSE
  <2>1. ASSUME NEW k \in 0 .. n - 1 PROVE 0 \in 0 .. n - 1
    BY <1>2
  <2>2. QED
    BY <1>2, <2>1
<1>4. QED
  BY <1>1, <1>3 DEF Reached

(* Names lead on to a directory that is not called "." .                   *)
LEMMA ChildReached ==
  ASSUME NEW d, NEW c, Reached(d, c), NEW b \in Directories(d), b # ROOT_CLUSTER_NUMBER,
         Tab(d, b)[0].cluster = b, Tab(d, b)[1].cluster = c, Tab(d, b)[0].name # "."
  PROVE  Reached(d, b)
<1>1. PICK p, n : WayUp(d, c, p, n) /\ \A k \in 0 .. n - 1 : Tab(d, p[k])[0].name # "."
  BY DEF Reached
<1>2. PICK q : WayUp(d, b, q, n + 1) /\ \A k \in 0 .. n : q[k + 1] = p[k]
  BY <1>1, WayBelow
<1>3. n \in Nat /\ q[0] = b
  BY <1>1, <1>2 DEF WayUp
<1>4. ASSUME NEW k \in 0 .. (n + 1) - 1 PROVE Tab(d, q[k])[0].name # "."
  <2>1. CASE k = 0
    BY <1>3, <2>1
  <2>2. CASE k # 0
    <3>1. k - 1 \in 0 .. n - 1 /\ k - 1 \in 0 .. n /\ (k - 1) + 1 = k
      BY <1>3, <2>2
    <3>2. q[k] = p[k - 1]
      BY <1>2, <3>1
    <3>3. QED
      BY <1>1, <3>1, <3>2
  <2>3. QED
    BY <2>1, <2>2
<1>5. QED
  BY <1>2, <1>4 DEF Reached

(* It is reached as before if directories without entries go.              *)
LEMMA ReachedKept ==
  ASSUME NEW a, Ready(a), NEW b, NEW S, NEW c, Reached(a, c), c \notin S,
         \A y \in S : /\ y # ROOT_CLUSTER_NUMBER
                      /\ \A j \in Slots \ {0, 1} : ~ Tab(a, y)[j].used,
         Heads(a, b, Directories(a) \ S)
  PROVE  Reached(b, c)
<1>1. PICK p, n : WayUp(a, c, p, n) /\ \A k \in 0 .. n - 1 : Tab(a, p[k])[0].name # "."
  BY DEF Reached
<1>2. ASSUME NEW y \in S PROVE \A k \in 0 .. n : p[k] # y
  BY <1>1, <1>2, WayPasses
<1>3. \A k \in 0 .. n - 1 : p[k] \in Directories(a) \ S
  BY <1>1, <1>2 DEF WayUp
<1>4. WayUp(b, c, p, n)
  BY <1>1, <1>3, WayKept
<1>5. \A k \in 0 .. n - 1 : Tab(b, p[k])[0].name # "."
  BY <1>1, <1>3 DEF Heads
<1>6. QED
  BY <1>4, <1>5 DEF Reached

(* An entry as the shell makes them: only directories have size 0.         *)
PlainEntry(e) ==
  e.name \in Names /\ e.ext = Blank /\ (e.attr = ATTR_SUBDIRECTORY <=> ~ IsFile(e))

(* A tree of which the prompt and find make sense: names lead to one       *)
(* entry, the entries are plain, and every directory has a way up.         *)
Proper(d) ==
  /\ NamesApart(d)
  /\ \A c \in Directories(d) :
       /\ Dat(d, c) = NoData /\ Under(d, c, c)
       /\ Tab(d, c)[0].ext = Blank /\ Tab(d, c)[1].ext = Blank
  /\ \A l \in Listed(d) : PlainEntry(EntryAt(d, l))

(* Such a tree stays one if some directories without entries go.           *)
LEMMA ProperHeads ==
  ASSUME NEW a, Ready(a), Proper(a), NEW b, NEW S,
         \A y \in S : /\ y # ROOT_CLUSTER_NUMBER
                      /\ \A j \in Slots \ {0, 1} : ~ Tab(a, y)[j].used,
         Heads(a, b, Directories(a) \ S), NEW c \in Directories(a) \ S
  PROVE  /\ Dat(b, c) = NoData /\ Under(b, c, c)
         /\ Tab(b, c)[0].ext = Blank /\ Tab(b, c)[1].ext = Blank
<1>1. /\ Dat(a, c) = NoData /\ Under(a, c, c)
      /\ Tab(a, c)[0].ext = Blank /\ Tab(a, c)[1].ext = Blank
  BY DEF Proper
<1>2. Dat(b, c) = NoData /\ Tab(b, c)[0].ext = Blank /\ Tab(b, c)[1].ext = Blank
  BY <1>1 DEF Heads
<1>3. QED
  BY <1>1, <1>2, UnderKept

(* A new file leaves a proper tree.                                        *)
LEMMA ProperFile ==
  ASSUME NEW a, Ready(a), Proper(a), NEW b, Ready(b), NEW parent \in Directories(a),
         NEW n \in Names, NEW size \in Nat, size > 0, NEW c \in Clusters, NEW S,
         Filled(a, b, S, parent, FileEntry(n, Blank, size, c)),
         SlotsNamed(Tab(a, parent), n, Blank) = {},
         \A y \in S : Tab(b, y) = EmptyTable, Heads(a, b, Directories(a))
  PROVE  Proper(b)
<1> DEFINE g == FileEntry(n, Blank, size, c)
           l == <<parent, Least(FreeSlots(Tab(a, parent)))>>
<1>1. a \in Disks /\ b \in Disks /\ NamesApart(a)
  BY DEF Ready, Proper
<1>2. /\ g \in Entries /\ g.used /\ g.name = n /\ g.ext = Blank /\ g.filesize = size
      /\ PlainEntry(g)
  BY DEF FileEntry, Entries, ATTR_SUBDIRECTORY, AllNames, AllExts, PlainEntry, IsFile
<1>3. \A y \in S : ~ Tab(b, y)[0].used
  BY SlotTypes DEF EmptyTable, EmptyEntry
<1>4. Filled(a, b, S, parent, g) /\ SlotsNamed(Tab(a, parent), g.name, g.ext) = {}
  BY <1>2
<1> HIDE DEF g, l
<1>5. /\ NamesApart(b) /\ \A y \in DataClusters \ S : Tab(b, y)[0] = Tab(a, y)[0]
      /\ \A k \in Listed(b) : EntryAt(b, k) = g \/ (k \in Listed(a) /\ KeptEntry(a, b, k))
  <2>1. CASE FreeSlots(Tab(a, parent)) # {}
    <3>1. /\ NamesApart(b)
          /\ Listed(b) = Listed(a) \cup {l} /\ EntryAt(b, l) = g
          /\ \A k \in Listed(a) : KeptEntry(a, b, k)
          /\ \A y \in DataClusters \ S : Tab(b, y)[0] = Tab(a, y)[0]
      BY <1>1, <1>2, <1>3, <1>4, <2>1, FilledImage DEF l
    <3>2. QED
      BY <3>1
  <2>2. CASE FreeSlots(Tab(a, parent)) = {}
    BY <1>1, <1>2, <1>4, <2>2, FullImage
  <2>3. QED
    BY <2>1, <2>2
<1>6. \A k \in Listed(b) : PlainEntry(EntryAt(b, k))
  BY <1>2, <1>5 DEF Proper, KeptEntry
<1>7. ASSUME NEW y \in Directories(b) PROVE y \in Directories(a) \ {}
  <2>1. y \in DataClusters /\ Tab(b, y)[0].used
    BY ListedFacts
  <2>2. y \notin S
    BY <1>3, <2>1
  <2>3. QED
    BY <1>5, <2>1, <2>2, ListedFacts
<1>8. Heads(a, b, Directories(a) \ {})
  BY DEF Heads
<1>9. \A y \in Directories(b) :
        /\ Dat(b, y) = NoData /\ Under(b, y, y)
        /\ Tab(b, y)[0].ext = Blank /\ Tab(b, y)[1].ext = Blank
  BY <1>7, <1>8, ProperHeads
<1>10. QED
  BY <1>5, <1>6, <1>9 DEF Proper

(* So does a new directory.                                                *)
LEMMA ProperDirectory ==
  ASSUME NEW a, Ready(a), Proper(a), NEW b, Ready(b), NEW parent \in Directories(a),
         NEW n \in Names, NEW c \in DataClusters, c \notin Directories(a),
         c # ROOT_CLUSTER_NUMBER,
         Filled(a, b, {c}, parent, DirEntry(n, c)),
         SlotsNamed(Tab(a, parent), n, Blank) = {}, FreeSlots(Tab(a, parent)) # {},
         Tab(b, c)[0] = DirEntry(n, c), Tab(b, c)[1].name = "..",
         Tab(b, c)[1].ext = Blank, Dat(b, c) = NoData, Heads(a, b, Directories(a))
  PROVE  Proper(b)
<1> DEFINE g == DirEntry(n, c)
           l == <<parent, Least(FreeSlots(Tab(a, parent)))>>
<1>1. a \in Disks /\ b \in Disks /\ NamesApart(a)
  BY DEF Ready, Proper
<1>2. /\ g \in Entries /\ g.used /\ g.name = n /\ g.ext = Blank /\ g.cluster = c
      /\ PlainEntry(g) /\ ~ IsFile(g)
  BY ClusterFacts
     DEF DirEntry, Entries, ATTR_SUBDIRECTORY, AllNames, AllExts, PlainEntry, IsFile
<1>3. Filled(a, b, {c}, parent, g) /\ SlotsNamed(Tab(a, parent), g.name, g.ext) = {}
      /\ Tab(b, c)[0] = g /\ l[1] = parent
  BY <1>2
<1> HIDE DEF g, l
<1>4. /\ NamesApart(b)
      /\ Listed(b) = Listed(a) \cup {l} /\ EntryAt(b, l) = g
      /\ \A k \in Listed(a) : KeptEntry(a, b, k)
      /\ \A y \in DataClusters \ {c} : Tab(b, y)[0] = Tab(a, y)[0]
  BY <1>1, <1>2, <1>3, FilledImage DEF l
<1>5. \A k \in Listed(b) : PlainEntry(EntryAt(b, k))
  BY <1>2, <1>4 DEF Proper, KeptEntry
<1>6. Heads(a, b, Directories(a) \ {})
  BY DEF Heads
<1>7. \A y \in Directories(a) :
        /\ Dat(b, y) = NoData /\ Under(b, y, y)
        /\ Tab(b, y)[0].ext = Blank /\ Tab(b, y)[1].ext = Blank
  BY <1>6, ProperHeads
<1>8. c \in Directories(b)
  BY <1>2, <1>3, ListedFacts
<1>9. Tab(b, c)[1].cluster = parent
  <2>1. EntryWhole(b, l)
    BY <1>4 DEF Ready, TreeBut
  <2>2. QED
    BY <1>2, <1>3, <1>4, <2>1 DEF EntryWhole, Tab
<1>10. Under(b, c, c)
  BY <1>2, <1>3, <1>7, <1>8, <1>9, ChildUnder
<1>11. ASSUME NEW y \in Directories(b)
       PROVE  /\ Dat(b, y) = NoData /\ Under(b, y, y)
              /\ Tab(b, y)[0].ext = Blank /\ Tab(b, y)[1].ext = Blank
  <2>1. CASE y = c
    BY <1>2, <1>3, <1>10, <2>1
  <2>2. CASE y # c
    <3>1. y \in Directories(a)
      BY <1>4, <2>2, InDirectories
    <3>2. QED
      BY <1>7, <3>1
  <2>3. QED
    BY <2>1, <2>2
<1>12. QED
  BY <1>4, <1>5, <1>11 DEF Proper

(* So does the removal of an entry together with what it owns.             *)
LEMMA ProperCleared ==
  ASSUME NEW a, Ready(a), Proper(a), NEW b, Ready(b), NEW l \in Listed(a), NEW S,
         Cleared(a, b, S, l[1], l[2]), S = Owned(a, EntryAt(a, l)),
         Heads(a, b, Directories(a) \ S)
  PROVE  Proper(b)
<1>1. a \in Disks /\ b \in Disks /\ NamesApart(a) /\ Sound(a)
  BY DEF Ready, Proper
<1>2. l[1] \in DataClusters /\ l[2] \in Slots /\ l = <<l[1], l[2]>>
  BY <1>1, TabTypes
<1>3. \A k \in Listed(a) : k # l /\ IsFile(EntryAt(a, k)) => S \cap Owned(a, EntryAt(a, k)) = {}
  BY <1>1 DEF Sound, Apart
<1>4. /\ NamesApart(b)
      /\ Listed(b) = Listed(a) \ {l}
      /\ \A k \in Listed(b) : KeptEntry(a, b, k)
      /\ \A c \in DataClusters \ S : Tab(b, c)[0] = Tab(a, c)[0]
      /\ \A c \in S : ~ Tab(b, c)[0].used
  BY <1>1, <1>2, <1>3, ClearedImage
<1>5. \A k \in Listed(b) : PlainEntry(EntryAt(b, k))
  BY <1>4 DEF Proper, KeptEntry
<1>6. \A y \in S : /\ y # ROOT_CLUSTER_NUMBER
                   /\ \A j \in Slots \ {0, 1} : ~ Tab(a, y)[j].used
  BY <1>1 DEF Sound, Apart, Cleared
<1>7. ASSUME NEW y \in Directories(b) PROVE y \in Directories(a) \ S
  <2>1. y \in DataClusters /\ Tab(b, y)[0].used
    BY ListedFacts
  <2>2. y \notin S
    BY <1>4, <2>1
  <2>3. Tab(a, y)[0].used
    BY <1>4, <2>1, <2>2
  <2>4. QED
    BY <2>1, <2>2, <2>3, ListedFacts
<1>8. ASSUME NEW y \in Directories(b)
      PROVE  /\ Dat(b, y) = NoData /\ Under(b, y, y)
             /\ Tab(b, y)[0].ext = Blank /\ Tab(b, y)[1].ext = Blank
  <2>1. y \in Directories(a) \ S
    BY <1>7
  <2>2. QED
    BY <1>6, <2>1, ProperHeads
<1>9. QED
  BY <1>4, <1>5, <1>8 DEF Proper

(* A new file system has one.                                              *)
LEMMA ProperFormat ==
  ASSUME disk = BlankDisk
  PROVE  Proper(Final(FormatImages))
<1> DEFINE r == ROOT_CLUSTER_NUMBER
           A == WriteSignature(disk)
           B == WriteFat(A, FormatMap)
           m == [FormatMap EXCEPT ![r] = FAT32_FAT_END_OF_FILE]
           F == WriteFat(B, m)
           self == DirEntry(RootName, r)
           table == [EmptyTable EXCEPT ![0] = self, ![1] = [self EXCEPT !.name = ".."]]
           b == Final(FormatImages)
<1>1. InitDirectoryTable(B, FormatMap, RootName, r) = <<F, F, WriteTable(F, r, table)>>
  BY FirstCluster DEF InitDirectoryTable
<1>2. b = WriteTable(F, r, table)
  <2>1. FormatImages = <<A, B>> \o <<F, F, WriteTable(F, r, table)>>
    BY <1>1 DEF FormatImages
  <2> HIDE DEF A, B, F, table
  <2>2. FormatImages[5] = WriteTable(F, r, table) /\ Len(FormatImages) = 5
    BY <2>1
  <2>3. QED
    BY <2>2 DEF Final
<1>3. A \in Disks /\ FormatMap \in FatMaps /\ r \in DataClusters
  <2>1. BlankDisk \in Disks
    BY NewDisk
  <2>2. QED
    BY <2>1, FirstCluster, ClusterFacts DEF WriteSignature, Disks
<1>4. B \in Disks
  <2> HIDE DEF A
  <2>1. QED
    BY <1>3, DiskTypes, EmptyTypes
<1>5. m \in FatMaps
  <2>1. FAT32_FAT_END_OF_FILE \in FatValues
    BY DEF FatValues
  <2>2. QED
    BY <1>3, <2>1 DEF FatMaps
<1>6. F \in Disks
  <2> HIDE DEF B, m
  <2>1. QED
    BY <1>3, <1>4, <1>5, DiskTypes, EmptyTypes
<1>7. Dat(b, r) = NoData
  <2> HIDE DEF F, table, b
  <2>1. QED
    BY <1>2, <1>3, <1>6, TableErases
<1>8. Tab(b, r)[0].ext = Blank /\ Tab(b, r)[1].ext = Blank
  <2>1. F.cell \in [DataClusters -> Cells] /\ b.cell = [F.cell EXCEPT ![r] = TableCell(table)]
    <3> HIDE DEF F, table, b
    <3>1. QED
      BY <1>2, <1>6 DEF WriteTable, Disks
  <2>2. Tab(b, r) = table
    <3> HIDE DEF F, table, b, r
    <3>1. QED
      BY <1>3, <2>1 DEF Tab, TableCell
  <2>3. table[0] = self /\ table[1] = [self EXCEPT !.name = ".."]
    BY SlotTypes DEF EmptyTable
  <2>4. self.ext = Blank /\ [self EXCEPT !.name = ".."].ext = Blank
    BY DEF DirEntry
  <2>5. QED
    BY <2>2, <2>3, <2>4
<1>9. /\ Listed(b) = {} /\ Directories(b) = {r}
      /\ Tab(b, r)[1].name = ".." /\ Ready(b)
  BY FormatLinedUp DEF Final, LinedUp, Outstanding
<1> HIDE DEF b
<1>10. Under(b, r, r)
  BY <1>9, RootUnder
<1>11. NamesApart(b)
  <2>1. ASSUME NEW c \in DataClusters, NEW j \in Slots \ {0, 1} PROVE ~ Tab(b, c)[j].used
    <3>1. <<c, j>> \notin Listed(b)
      BY <1>9
    <3>2. QED
      BY <3>1, ListedFacts
  <2>2. QED
    BY <1>9, <2>1 DEF NamesApart
<1>12. QED
  BY <1>7, <1>8, <1>9, <1>10, <1>11 DEF Proper, b

-----------------------------------------------------------------------------
(* What a call makes of it.                                                *)

(* What a call lines up leaves such a tree in the end, and on the way      *)
(* there only directories without entries lose their tables, the one that  *)
(* the call is given not among them.                                       *)
Steady(d, s, parent) ==
  /\ Ready(Final(s)) /\ Proper(Final(s))
  /\ \E S : /\ parent \notin S
            /\ \A y \in S : /\ y # ROOT_CLUSTER_NUMBER
                            /\ \A j \in Slots \ {0, 1} : ~ Tab(d, y)[j].used
            /\ \A i \in 1 .. Len(s) : Heads(d, s[i], Directories(d) \ S)

(* The images that write() lines up for a file leave such a tree.          *)
LEMMA WriteSteady ==
  ASSUME NEW d, Ready(d), Proper(d), NEW parent \in Directories(d), NEW n \in Names,
         NEW size \in Nat, size > 0, NEW p \in Payloads, NEW A,
         A = Lowest(EmptyClusters(d.fat, ROOT_CLUSTER_NUMBER + 1), CeilDiv(size)),
         Cardinality(A) >= CeilDiv(size), SlotsNamed(Tab(d, parent), n, Blank) = {},
         NEW at
  PROVE  Steady(d, WriteImages(d, Link(d.fat, A, FAT32_FAT_END_OF_FILE), Least(A), p,
                     CeilDiv(size), parent, AddEntry(d.cell[parent].table,
                       FileEntry(n, Blank, size, Least(A)))), at)
<1> DEFINE g == FileEntry(n, Blank, size, Least(A))
           s == WriteImages(d, Link(d.fat, A, FAT32_FAT_END_OF_FILE), Least(A), p,
                  CeilDiv(size), parent, AddEntry(d.cell[parent].table, g))
           b == Final(s)
<1>1. n \in AllNames /\ Blank \in AllExts
  BY DEF AllNames, AllExts
<1>2. /\ LinedUp(d, s, <<>>) /\ Filled(d, b, A, parent, g)
      /\ \A y \in A : Tab(b, y) = EmptyTable
  BY <1>1, WriteLinedUp, SMTT(30)
<1>3. \A i \in 1 .. Len(s) : Heads(d, s[i], Directories(d))
  BY <1>1, WriteHeads
<1>4. Least(A) \in Clusters
  <2>1. Least(A) \in A /\ A \in SUBSET DataClusters
    BY GivenClusters
  <2>2. QED
    BY <2>1, ClusterFacts
<1> HIDE DEF s
<1>5. Ready(b) /\ Heads(d, b, Directories(d))
  <2>1. Ready(b) /\ Len(s) >= 1
    BY <1>2 DEF LinedUp, Outstanding, Final
  <2>2. QED
    BY <1>3, <2>1 DEF Final
<1> HIDE DEF b
<1>6. Proper(b)
  BY <1>2, <1>4, <1>5, ProperFile
<1>7. \A i \in 1 .. Len(s) : Heads(d, s[i], Directories(d) \ {})
  BY <1>3 DEF Heads
<1>8. Steady(d, s, at)
  BY <1>5, <1>6, <1>7 DEF Steady, b
<1>9. QED
  BY <1>8 DEF s

(* So do those for a directory.                                            *)
LEMMA MakeSteady ==
  ASSUME NEW d, Ready(d), Proper(d), NEW parent \in Directories(d), NEW n \in Names,
         0 \in Sizes, FreeSlots(d.cell[parent].table) # {},
         EmptyClusters(d.fat, ROOT_CLUSTER_NUMBER + 1) # {},
         SlotsNamed(Tab(d, parent), n, Blank) = {}
  PROVE  Steady(d, InitDirectoryTable(d, d.fat, n, parent), parent)
<1> DEFINE c == Least(EmptyClusters(d.fat, 1))
           s == InitDirectoryTable(d, d.fat, n, parent)
           b == Final(s)
<1>1. n \in AllNames /\ FreeSlots(Tab(d, parent)) # {}
  BY DEF AllNames, Tab
<1>2. /\ LinedUp(d, s, <<parent, n, Blank>>)
      /\ Filled(d, b, {c}, parent, DirEntry(n, c))
      /\ Tab(b, c)[0] = DirEntry(n, c) /\ Tab(b, c)[1].name = ".."
  BY <1>1, MakeLinedUp
<1>3. /\ \A i \in 1 .. Len(s) : Heads(d, s[i], Directories(d))
      /\ c \notin Directories(d) /\ Dat(b, c) = NoData /\ Tab(b, c)[1].ext = Blank
  <2>1. Tab(d, parent)[0].ext = Blank
    BY DEF Proper
  <2>2. QED
    BY <1>1, <2>1, MakeHeads
<1>4. c \in DataClusters /\ c # ROOT_CLUSTER_NUMBER
  BY NewCluster
<1> HIDE DEF s, c
<1>5. Ready(b) /\ Heads(d, b, Directories(d))
  <2>1. Ready(b) /\ Len(s) >= 1
    BY <1>2 DEF LinedUp, Outstanding, Final
  <2>2. QED
    BY <1>3, <2>1 DEF Final
<1> HIDE DEF b
<1>6. Proper(b)
  BY <1>1, <1>2, <1>3, <1>4, <1>5, ProperDirectory
<1>7. \A i \in 1 .. Len(s) : Heads(d, s[i], Directories(d) \ {})
  BY <1>3 DEF Heads
<1>8. Steady(d, s, parent)
  BY <1>5, <1>6, <1>7 DEF Steady, b
<1>9. QED
  BY <1>8 DEF s

(* So do those of delete() for a directory, which loses its table and is   *)
(* not the one that the call is given.                                     *)
LEMMA DropSteady ==
  ASSUME NEW d, Ready(d), Proper(d), NEW parent \in DataClusters, NEW n, NEW x,
         n # Blank, SlotsNamed(Tab(d, parent), n, x) # {}, NEW i,
         i = Least(SlotsNamed(Tab(d, parent), n, x)),
         n # Tab(d, parent)[0].name,
         NEW c, c = Tab(d, parent)[i].cluster, c # ROOT_CLUSTER_NUMBER,
         Tab(d, parent)[i].filesize = 0,
         Occupied(CellAt(d, c).table) = {}
  PROVE  Steady(d, DeleteDirImages(d, c, parent, ClearEntry(Tab(d, parent), i)), parent)
<1> DEFINE s == DeleteDirImages(d, c, parent, ClearEntry(Tab(d, parent), i))
           b == Final(s)
           l == <<parent, i>>
<1>1. d \in Disks /\ TablesOk(d)
  BY DEF Ready, Sound
<1>2. LinedUp(d, s, <<parent, n, x>>) /\ Cleared(d, b, {c}, parent, i)
  BY DropLinedUp
<1>3. i >= 2
  BY <1>2 DEF Cleared
<1>4. /\ i \in Slots /\ l \in Listed(d) /\ EntryAt(d, l) = Tab(d, parent)[i]
  BY <1>1, <1>3, FoundSlot
<1>5. c \in DataClusters /\ parent # c /\ \A j \in Slots \ {0, 1} : ~ Tab(d, c)[j].used
  BY <1>2 DEF Cleared
<1>6. \A j \in 1 .. Len(s) : Heads(d, s[j], Directories(d) \ {c})
  BY <1>3, <1>4, <1>5, DropHeads
<1>7. Len(s) = 3
  BY DEF DeleteDirImages
<1> HIDE DEF s
<1>8. Ready(b) /\ Heads(d, b, Directories(d) \ {c})
  <2>1. Ready(b)
    BY <1>2 DEF LinedUp, Outstanding, Final
  <2>2. QED
    BY <1>7, <1>6, <2>1 DEF Final
<1>9. Owned(d, EntryAt(d, l)) = {c}
  <2>1. EntryAt(d, l) \in Entries /\ ~ IsFile(EntryAt(d, l))
    BY <1>1, <1>4, TabTypes DEF IsFile
  <2>2. QED
    BY <1>1, <1>4, <2>1, OwnedFacts
<1>10. l[1] = parent /\ l[2] = i
  OBVIOUS
<1> HIDE DEF b, l
<1>11. Proper(b)
  BY <1>2, <1>4, <1>8, <1>9, <1>10, ProperCleared
<1>12. Steady(d, s, parent)
  <2> DEFINE S == {c}
  <2>1. /\ parent \notin S
        /\ \A y \in S : /\ y # ROOT_CLUSTER_NUMBER
                        /\ \A j \in Slots \ {0, 1} : ~ Tab(d, y)[j].used
        /\ \A j \in 1 .. Len(s) : Heads(d, s[j], Directories(d) \ S)
    BY <1>5, <1>6
  <2> HIDE DEF S
  <2>2. QED
    BY <1>8, <1>11, <2>1 DEF Steady, b
<1>13. QED
  BY <1>12 DEF s

(* So do those of delete() for a file, of which no directory takes part.   *)
LEMMA EraseSteady ==
  ASSUME NEW d, Ready(d), Proper(d), Ascending(d.fat), NEW parent \in DataClusters,
         NEW n, NEW x, n # Blank, SlotsNamed(Tab(d, parent), n, x) # {}, NEW i,
         i = Least(SlotsNamed(Tab(d, parent), n, x)),
         NEW c, c = Tab(d, parent)[i].cluster, Tab(d, parent)[i].filesize # 0
  PROVE  /\ EndsAfter(d.fat, c) # {}
         /\ Steady(d, DeleteFileImages(d, Walk(d.fat, c), Least(EndsAfter(d.fat, c)),
                        parent, ClearEntry(Tab(d, parent), i)), parent)
<1> DEFINE w == Walk(d.fat, c)
           last == Least(EndsAfter(d.fat, c))
           s == DeleteFileImages(d, w, last, parent, ClearEntry(Tab(d, parent), i))
           e == Tab(d, parent)[i]
           b == Final(s)
           l == <<parent, i>>
<1>1. d \in Disks /\ TablesOk(d) /\ Sound(d)
  BY DEF Ready, Sound
<1>2. /\ EndsAfter(d.fat, c) # {} /\ LinedUp(d, s, <<parent, n, x>>)
      /\ Cleared(d, b, Owned(d, e), parent, i)
  BY EraseLinedUp
<1>3. i >= 2
  BY <1>2 DEF Cleared
<1>4. i \in Slots /\ l \in Listed(d) /\ EntryAt(d, l) = e
  BY <1>1, <1>3, FoundSlot
<1>5. IsFile(e) /\ FileOk(d, l)
  BY <1>1, <1>4 DEF IsFile, Sound
<1>6. \A y \in Owned(d, e) : Tab(d, y) = EmptyTable
  BY <1>1, <1>4, <1>5, FilesTaken
<1>7. last \in Nat /\ \A j \in 0 .. last : w[j] \in Owned(d, e)
  <2>1. EndsAfter(d.fat, c) \in SUBSET Nat
    BY DEF EndsAfter
  <2>2. last \in Nat
    BY <1>2, <2>1, LeastProperties
  <2>3. Owned(d, e) = {w[j] : j \in 0 .. last}
    BY <1>2, <1>5 DEF Owned, Chain
  <2>4. QED
    BY <2>2, <2>3
<1>8. \A j \in 0 .. last : w[j] \notin Directories(d)
  BY <1>6, <1>7, DirectoryTaken
<1>9. \A j \in 1 .. Len(s) : Heads(d, s[j], Directories(d))
  <2> HIDE DEF w, last
  <2>1. QED
    BY <1>3, <1>4, <1>7, <1>8, EraseHeads
<1> HIDE DEF s
<1>10. Ready(b) /\ Heads(d, b, Directories(d) \ Owned(d, e))
  <2>1. Ready(b) /\ Len(s) >= 1
    BY <1>2 DEF LinedUp, Outstanding, Final
  <2>2. Heads(d, b, Directories(d))
    BY <1>9, <2>1 DEF Final
  <2>3. QED
    BY <2>1, <2>2 DEF Heads
<1>11. l[1] = parent /\ l[2] = i
  OBVIOUS
<1> HIDE DEF b, l
<1>12. Proper(b)
  BY <1>2, <1>4, <1>10, <1>11, ProperCleared
<1>13. \A j \in 1 .. Len(s) : Heads(d, s[j], Directories(d) \ {})
  BY <1>9 DEF Heads
<1>14. Steady(d, s, parent)
  BY <1>10, <1>12, <1>13 DEF Steady, b
<1>15. QED
  BY <1>2, <1>14 DEF s

-----------------------------------------------------------------------------
(* A stack of directories, such as the shell keeps.                        *)

(* A stack of directories, each on the way up from the next one, and names *)
(* lead to each of them.                                                   *)
StackOn(d, s) == \A k \in 2 .. Len(s) : Under(d, s[k], s[k - 1]) /\ Reached(d, s[k])

(* It outlasts the call that its last directory is given.                  *)
LEMMA StackSteady ==
  ASSUME NEW d, Ready(d), NEW s, Len(s) \in Nat \ {0}, StackOn(d, s),
         NEW v, Steady(d, v, s[Len(s)])
  PROVE  \A i \in 1 .. Len(v) : StackOn(v[i], s)
<1> DEFINE N == Len(s)
<1>1. PICK S : /\ s[N] \notin S
               /\ \A y \in S : /\ y # ROOT_CLUSTER_NUMBER
                               /\ \A j \in Slots \ {0, 1} : ~ Tab(d, y)[j].used
               /\ \A i \in 1 .. Len(v) : Heads(d, v[i], Directories(d) \ S)
  BY DEF Steady
<1> DEFINE T == {m \in 0 .. N - 1 : s[N - m] \notin S}
<1>2. N \in Nat /\ N >= 1 /\ N - 1 \in Nat
  OBVIOUS
<1> HIDE DEF N
<1>3. 0 \in T
  BY <1>1, <1>2
<1>4. ASSUME NEW m \in 0 .. (N - 1) - 1, m \in T PROVE m + 1 \in T
  <2>1. /\ N - m \in 2 .. N /\ (N - m) - 1 = N - (m + 1) /\ m + 1 \in 0 .. N - 1
        /\ s[N - m] \notin S
    BY <1>2, <1>4
  <2>2. Under(d, s[N - m], s[N - (m + 1)])
    BY <2>1 DEF StackOn, N
  <2>3. s[N - (m + 1)] \notin S
    BY <1>1, <2>1, <2>2, UnderAvoids
  <2>4. QED
    BY <2>1, <2>3
<1> HIDE DEF T
<1>5. \A m \in 0 .. N - 1 : m \in T
  BY <1>2, <1>3, <1>4, UpTo
<1>6. ASSUME NEW k \in 1 .. N PROVE s[k] \notin S
  <2>1. N - k \in 0 .. N - 1 /\ N - (N - k) = k
    BY <1>2
  <2>2. QED
    BY <1>5, <2>1 DEF T
<1>7. ASSUME NEW i \in 1 .. Len(v), NEW k \in 2 .. N
      PROVE  Under(v[i], s[k], s[k - 1]) /\ Reached(v[i], s[k])
  <2>1. s[k] \notin S
    BY <1>2, <1>6
  <2>2. Under(d, s[k], s[k - 1]) /\ Reached(d, s[k])
    BY DEF StackOn, N
  <2>3. Heads(d, v[i], Directories(d) \ S)
    BY <1>1
  <2>4. Under(v[i], s[k], s[k - 1])
    BY <1>1, <2>1, <2>2, <2>3, UnderKept
  <2>5. Reached(v[i], s[k])
    BY <1>1, <2>1, <2>2, <2>3, ReachedKept
  <2>6. QED
    BY <2>4, <2>5
<1>8. QED
  BY <1>7 DEF StackOn, N

(* What is known of a driver that serves the shell.                        *)
ProperInv ==
  /\ TypeOK /\ ChainsAscend /\ TreeInv /\ losses = 0
  /\ Settled.signed => Proper(Settled)

(* A stack of directories that nothing the driver has still to write       *)
(* upsets.                                                                 *)
Stacked(s) == StackOn(disk, s) /\ \A i \in 1 .. Len(todo) : StackOn(todo[i], s)

(* A driver that waits for a call.                                         *)
LEMMA ProperIdle ==
  ASSUME ProperInv, Quiet
  PROVE  /\ Ready(disk) /\ Proper(disk) /\ ROOT_CLUSTER_NUMBER \in Directories(disk)
         /\ todo = <<>> /\ mounted /\ disk.signed
<1>1. mounted /\ todo = <<>> /\ Settled = disk
  BY DEF Quiet, Settled
<1>2. Ready(disk) /\ disk.signed
  BY <1>1 DEF ProperInv, TreeInv, CalmInv, Calm
<1>3. QED
  BY <1>1, <1>2 DEF ProperInv, TreeInv, RootInv

(* A step of the driver that writes nothing.                               *)
LEMMA StillProper ==
  ASSUME ProperInv, ~ SelfRequests, Next, UNCHANGED <<disk, todo, losses>>, NEW s, Stacked(s)
  PROVE  ProperInv' /\ Stacked(s)'
<1>1. TypeOK'
  BY TypeStep DEF ProperInv
<1>2. ChainsAscend' /\ TreeInv'
  BY <1>1, AscendStep, TreeStep DEF ProperInv
<1>3. Settled' = Settled
  BY DEF Settled
<1>4. QED
  BY <1>1, <1>2, <1>3 DEF ProperInv, Stacked

(* A call that lines up writes.                                            *)
LEMMA CallProper ==
  ASSUME ProperInv, ~ SelfRequests, Next, Idle, UNCHANGED <<disk, losses>>,
         NEW s, Len(s) \in Nat \ {0}, Stacked(s),
         NEW v, todo' = v, Steady(disk, v, s[Len(s)]), v # <<>>
  PROVE  ProperInv' /\ Stacked(s)'
<1>1. TypeOK'
  BY TypeStep DEF ProperInv
<1>2. ChainsAscend' /\ TreeInv'
  BY <1>1, AscendStep, TreeStep DEF ProperInv
<1>3. Ready(disk)
  BY ProperIdle DEF Idle
<1>4. Settled' = Final(v)
  BY <1>1, SettledLast DEF Final, TypeOK
<1>5. Proper(Settled')
  BY <1>4 DEF Steady
<1>6. Stacked(s)'
  BY <1>3, StackSteady DEF Stacked
<1>7. QED
  BY <1>1, <1>2, <1>5, <1>6 DEF ProperInv

(* The next write.                                                         *)
LEMMA WriteProper ==
  ASSUME ProperInv, ~ SelfRequests, WriteBlocks, NEW s, Stacked(s)
  PROVE  ProperInv' /\ Stacked(s)'
<1>1. Next /\ todo # <<>> /\ disk' = Head(todo) /\ todo' = Tail(todo) /\ losses' = losses
  BY DEF Next, WriteBlocks
<1>2. TypeOK'
  BY <1>1, TypeStep DEF ProperInv
<1>3. ChainsAscend' /\ TreeInv'
  BY <1>1, <1>2, AscendStep, TreeStep DEF ProperInv
<1>4. todo \in Seq(Disks)
  BY DEF ProperInv, TypeOK
<1>5. Settled' = Settled
  <2>1. Outstanding(disk, todo, OpKey)
    BY <1>1 DEF ProperInv, TreeInv, CalmInv, Calm
  <2>2. /\ Tail(todo) # <<>> => Tail(todo)[Len(Tail(todo))] = todo[Len(todo)]
        /\ Tail(todo) = <<>> => Head(todo) = todo[Len(todo)]
    BY <1>1, <1>4, <2>1, NextOutstanding
  <2>3. QED
    BY <1>1, <2>2 DEF Settled
<1>6. Stacked(s)'
  <2>1. /\ Len(todo) \in Nat /\ Len(todo) >= 1 /\ Head(todo) = todo[1]
        /\ Len(Tail(todo)) = Len(todo) - 1
        /\ \A i \in 1 .. Len(todo) - 1 : Tail(todo)[i] = todo[i + 1]
    BY <1>1, <1>4, HeadTailProperties, EmptySeq, LenProperties
  <2>2. StackOn(Head(todo), s)
    BY <2>1 DEF Stacked
  <2>3. ASSUME NEW i \in 1 .. Len(Tail(todo)) PROVE StackOn(Tail(todo)[i], s)
    <3>1. i \in 1 .. Len(todo) - 1 /\ i + 1 \in 1 .. Len(todo)
      BY <2>1
    <3>2. QED
      BY <2>1, <3>1 DEF Stacked
  <2>4. QED
    BY <1>1, <2>2, <2>3 DEF Stacked
<1>7. QED
  BY <1>1, <1>2, <1>3, <1>5, <1>6 DEF ProperInv

(* A stack of one directory needs nothing of the disk.                     *)
LEMMA OneStacked ==
  ASSUME NEW s, Len(s) = 1
  PROVE  (\A d : StackOn(d, s)) /\ Stacked(s) /\ Stacked(s)'
  BY DEF StackOn, Stacked

(* Formatting a disk leaves a proper driver.                               *)
LEMMA FormatProper ==
  ASSUME ProperInv, ~ SelfRequests, Format
  PROVE  ProperInv'
<1>1. /\ Next /\ ~ disk.signed /\ ~ mounted /\ todo' = FormatImages
      /\ UNCHANGED <<disk, losses>>
  BY DEF Next, Format
<1>2. TypeOK'
  BY <1>1, TypeStep DEF ProperInv
<1>3. ChainsAscend' /\ TreeInv'
  BY <1>1, <1>2, AscendStep, TreeStep DEF ProperInv
<1>4. disk = BlankDisk
  BY <1>1 DEF ProperInv, TreeInv, CalmInv, Calm, Holds, Image
<1>5. LinedUp(disk, FormatImages, 0)
  BY <1>4, FormatLinedUp
<1>6. Settled' = Final(FormatImages)
  BY <1>1, <1>2, <1>5, CallFacts
<1>7. Proper(Settled')
  BY <1>4, <1>6, ProperFormat
<1>8. QED
  BY <1>1, <1>2, <1>3, <1>7 DEF ProperInv

(* So do mounting and switching off.                                       *)
LEMMA PowerProper ==
  ASSUME ProperInv, ~ SelfRequests, Mount \/ PowerOff
  PROVE  ProperInv'
<1>1. Next /\ UNCHANGED <<disk, todo, losses>>
  BY DEF Next, Mount, PowerOff
<1>2. PICK s : s = <<0>>
  OBVIOUS
<1>3. Stacked(s)
  BY <1>2, OneStacked
<1>4. QED
  BY <1>1, <1>3, StillProper

(* So does the return of a call; the stack stays as well.                  *)
LEMMA ReturnProper ==
  ASSUME ProperInv, ~ SelfRequests, Return, NEW s, Stacked(s)
  PROVE  ProperInv' /\ Stacked(s)'
<1>1. Next /\ UNCHANGED <<disk, todo, losses>>
  BY DEF Next, Return
<1>2. QED
  BY <1>1, StillProper

-----------------------------------------------------------------------------
(* The calls, one by one.                                                  *)

(* A call that only answers.                                               *)
LEMMA AnswerProper ==
  ASSUME ProperInv, Idle, UNCHANGED <<disk, mounted, todo, losses>>,
         map' = map \/ map' = disk.fat, op' \in Ops,
         op'.call \notin {"lost", "runaway"}, NEW s, Stacked(s)
  PROVE  ProperInv' /\ Stacked(s)'
<1>1. TypeOK' /\ ChainsAscend'
  BY DEF ProperInv, TypeOK, ChainsAscend, Disks
<1>2. TreeInv'
  <2>1. disk.signed /\ todo = <<>>
    BY ProperIdle DEF Idle
  <2>2. QED
    BY <2>1, QuietKeeps DEF ProperInv
<1>3. Settled' = Settled
  BY DEF Settled
<1>4. QED
  BY <1>1, <1>2, <1>3 DEF ProperInv, Stacked

(* ls: read_directory() of the directory itself.                           *)
LEMMA ListProper ==
  ASSUME ProperInv, NEW c \in DataClusters, ReadDirectory(c, "."), NEW s, Stacked(s)
  PROVE  ProperInv' /\ Stacked(s)'
<1>1. Idle /\ UNCHANGED <<disk, map, mounted, todo, losses>>
  BY DEF ReadDirectory
<1>2. PICK cell \in Cells :
        op' = Returned("read_directory", c, ".", Blank, 0, "zero", 0, <<cell>>)
  <2>1. op' = Returned("read_directory", c, ".", Blank, 0, "zero", 0,
                <<CellAt(disk, disk.cell[c].table[Least({0})].cluster)>>)
    BY DEF ReadDirectory
  <2>2. ASSUME NEW b PROVE CellAt(disk, b) \in Cells
    BY DiskTypes, EmptyTypes DEF ProperInv, TypeOK
  <2>3. QED
    BY <2>1, <2>2
<1>3. op' \in Ops
  <2>1. /\ "read_directory" \in Calls /\ c \in Clusters /\ "." \in AllNames
        /\ Blank \in AllExts /\ 0 \in Nat /\ <<cell>> \in Seq(Cells)
    BY ClusterFacts DEF Calls, AllNames, AllExts
  <2>2. QED
    BY <1>2, <2>1, ReturnedTypes
<1>4. op'.call = "read_directory"
  BY <1>2 DEF Returned
<1>5. QED
  BY <1>1, <1>3, <1>4, AnswerProper

(* read() of a file, with a name or without one.                           *)
LEMMA ReadProper ==
  ASSUME ProperInv, NEW c \in DataClusters, NEW n \in AllNames, NEW x \in AllExts,
         NEW size \in Nat, Read(c, n, x, size), NEW s, Stacked(s)
  PROVE  ProperInv' /\ Stacked(s)'
<1> DEFINE found == SlotsNamed(disk.cell[c].table, n, x)
           e     == disk.cell[c].table[Least(found)]
<1>1. Idle /\ UNCHANGED <<disk, map, mounted, todo, losses>>
  BY DEF Read
<1>2. disk \in Disks
  BY DEF ProperInv, TypeOK
<1>3. PICK out \in Seq(Cells), ret \in {0, 1, 2} :
        op' = Returned("read", c, n, x, size, "zero", ret, out)
  <2>1. found # {} => ReadClusters(e) \in Seq(Cells)
    <3>1. disk.cell[c].table \in Tables
      BY <1>2, TabTypes DEF Tab
    <3>2. QED
      BY <1>2, <3>1, FoundTypes, ReadClustersTypes
  <2>2. <<>> \in Seq(Cells)
    OBVIOUS
  <2> HIDE DEF e
  <2>3. QED
    BY <2>1, <2>2 DEF Read, e
<1>4. op' \in Ops
  <2>1. "read" \in Calls /\ c \in Clusters
    BY ClusterFacts DEF Calls
  <2>2. QED
    BY <1>3, <2>1, ReturnedTypes
<1>5. op'.call = "read"
  BY <1>3 DEF Returned
<1>6. QED
  BY <1>1, <1>4, <1>5, AnswerProper

(* write() into the boot sector is refused.                                *)
LEMMA BootProper ==
  ASSUME ProperInv, Idle, UNCHANGED <<disk, mounted, todo, losses>>, map' = disk.fat,
         NEW n \in AllNames, NEW x \in AllExts, NEW size \in Nat,
         op' = WriteReply(0, n, x, size, "zero", -1), NEW s, Stacked(s)
  PROVE  ProperInv' /\ Stacked(s)'
<1>1. /\ "write" \in Calls /\ 0 \in Clusters /\ <<>> \in Seq(Cells)
      /\ op' = Returned("write", 0, n, x, size, "zero", -1, <<>>)
  <2>1. "write" \in Calls /\ <<>> \in Seq(Cells)
    BY DEF Calls
  <2>2. 0 \in Clusters
    BY GeometryAssumption DEF Clusters
  <2>3. QED
    BY <2>1, <2>2 DEF WriteReply
<1>2. op' \in Ops
  BY <1>1, ReturnedTypes
<1>3. op'.call = "write"
  BY <1>1 DEF Returned
<1>4. QED
  BY <1>2, <1>3, AnswerProper

(* mkdir without a name is refused.                                        *)
LEMMA RefusedProper ==
  ASSUME ProperInv, NEW c \in DataClusters, WriteRefused(c, Blank, Blank, 0), NEW s, Stacked(s)
  PROVE  ProperInv' /\ Stacked(s)'
<1>1. Idle /\ UNCHANGED <<disk, mounted, todo, losses>> /\ map' = disk.fat
  BY DEF WriteRefused
<1>2. PICK ret \in {-1, 1} :
        op' = Returned("write", c, Blank, Blank, 0, "zero", ret, <<>>)
  BY DEF WriteRefused, WriteReply
<1>3. op' \in Ops
  <2>1. /\ "write" \in Calls /\ c \in Clusters /\ Blank \in AllNames
        /\ Blank \in AllExts /\ 0 \in Nat /\ <<>> \in Seq(Cells)
    BY ClusterFacts DEF Calls, AllNames, AllExts
  <2>2. QED
    BY <1>2, <2>1, ReturnedTypes
<1>4. op'.call = "write"
  BY <1>2 DEF Returned
<1>5. QED
  BY <1>1, <1>3, <1>4, AnswerProper

(* No directory is made without a name: an empty slot has that name, so    *)
(* that write() takes it for there already.                                *)
LEMMA NamelessRefused ==
  ASSUME ProperInv, NEW c \in DataClusters
  PROVE  ~ MakeDirectory(c, Blank)
<1>1. SUFFICES ASSUME MakeDirectory(c, Blank) PROVE FALSE
  OBVIOUS
<1>2. /\ Idle /\ FreeSlots(Tab(disk, c)) # {}
      /\ SlotsNamed(Tab(disk, c), Blank, Blank) = {}
  BY <1>1 DEF MakeDirectory, CanWrite, Tab
<1>3. TablesOk(disk)
  BY <1>2, ProperIdle DEF Ready, Sound, Idle
<1>4. PICK i \in Slots : ~ Tab(disk, c)[i].used
  BY <1>2 DEF FreeSlots
<1>5. Tab(disk, c)[i].name = Blank /\ Tab(disk, c)[i].ext = Blank
  BY <1>3, <1>4 DEF TablesOk, EmptyEntry
<1>6. QED
  BY <1>2, <1>5 DEF SlotsNamed

(* The calls that read or fail.                                            *)
LEMMA FailProper ==
  ASSUME ProperInv, ~ SelfRequests, NEW c \in DataClusters, NEW n \in Names,
         NEW x \in Exts, NEW size \in Sizes, NEW s, Stacked(s),
         \/ Read(c, n, x, size) \/ DeleteRefused(c, n, x)
         \/ WriteRefused(c, n, x, size) \/ WriteRunsOut(c, n, x, size)
  PROVE  ProperInv' /\ Stacked(s)'
<1>1. Next
  BY DEF Next
<1>2. UNCHANGED <<disk, todo, losses>>
  BY DEF Read, DeleteRefused, WriteRefused, WriteRunsOut
<1>3. QED
  BY <1>1, <1>2, StillProper

(* The calls that line up writes.                                          *)
LEMMA NotNothing ==
  ASSUME NEW d, NEW s, NEW K, LinedUp(d, s, K)
  PROVE  s # <<>>
<1>1. Len(s) >= 1 /\ Len(<<>>) = 0
  BY DEF LinedUp, Outstanding
<1>2. QED
  BY <1>1

(* A new directory in the last one of the stack.                           *)
LEMMA MakeProper ==
  ASSUME ProperInv, ~ SelfRequests, 0 \in Sizes, NEW s, Len(s) \in Nat \ {0}, Stacked(s),
         s[Len(s)] \in DataClusters, NEW n \in Names, MakeDirectory(s[Len(s)], n)
  PROVE  ProperInv' /\ Stacked(s)'
<1> DEFINE c == s[Len(s)]
           v == InitDirectoryTable(disk, disk.fat, n, c)
<1>1. Next
  BY DEF Next
<1>2. /\ Idle /\ UNCHANGED <<disk, losses>> /\ todo' = v
      /\ disk.cell[c].table[0].used
      /\ EmptyClusters(disk.fat, ROOT_CLUSTER_NUMBER + 1) # {}
      /\ SlotsNamed(Tab(disk, c), n, Blank) = {}
      /\ FreeSlots(disk.cell[c].table) # {}
  BY DEF MakeDirectory, CanWrite, Tab
<1>3. Ready(disk) /\ Proper(disk)
  BY <1>2, ProperIdle DEF Idle
<1>4. c \in Directories(disk) /\ n \in AllNames
  BY <1>2 DEF Directories, AllNames
<1>5. Steady(disk, v, c)
  BY <1>2, <1>3, <1>4, MakeSteady
<1>6. v # <<>>
  <2>1. LinedUp(disk, v, <<c, n, Blank>>)
    BY <1>2, <1>3, <1>4, MakeLinedUp
  <2> HIDE DEF v
  <2>2. QED
    BY <2>1, NotNothing
<1> HIDE DEF v
<1>7. QED
  BY <1>1, <1>2, <1>5, <1>6, CallProper

(* A new file in any directory.                                            *)
LEMMA FileProper ==
  ASSUME ProperInv, ~ SelfRequests, NEW s, Len(s) \in Nat \ {0}, Stacked(s),
         NEW to \in DataClusters, NEW n \in Names, Blank \in Exts, NEW size \in Sizes,
         NEW p \in Payloads, WriteFile(to, n, Blank, size, p)
  PROVE  ProperInv' /\ Stacked(s)'
<1> DEFINE A == Allocation(size)
           v == WriteImages(disk, Link(disk.fat, A, FAT32_FAT_END_OF_FILE), Least(A), p,
                  CeilDiv(size), to, AddEntry(disk.cell[to].table,
                    FileEntry(n, Blank, size, Least(A))))
<1>1. Next
  BY DEF Next
<1>2. /\ Idle /\ UNCHANGED <<disk, losses>> /\ todo' = v /\ size > 0
      /\ disk.cell[to].table[0].used
      /\ Cardinality(A) >= CeilDiv(size)
      /\ SlotsNamed(Tab(disk, to), n, Blank) = {}
  BY DEF WriteFile, CanWrite, Tab
<1>3. Ready(disk) /\ Proper(disk)
  BY <1>2, ProperIdle DEF Idle
<1>4. /\ to \in Directories(disk) /\ n \in AllNames /\ Blank \in AllExts /\ size \in Nat
      /\ A = Lowest(EmptyClusters(disk.fat, ROOT_CLUSTER_NUMBER + 1), CeilDiv(size))
  BY <1>2, RequestAssumption DEF Directories, AllNames, AllExts, Allocation
<1> HIDE DEF A
<1>5. Steady(disk, v, s[Len(s)])
  BY <1>2, <1>3, <1>4, WriteSteady
<1>6. v # <<>>
  <2>1. LinedUp(disk, v, 0)
    BY <1>2, <1>3, <1>4, WriteLinedUp
  <2> HIDE DEF v
  <2>2. QED
    BY <2>1, NotNothing
<1> HIDE DEF v
<1>7. QED
  BY <1>1, <1>2, <1>5, <1>6, CallProper

(* A directory is removed from the last one of the stack: it is none of    *)
(* the stack, as those have the next one below them.                       *)
LEMMA DropProper ==
  ASSUME ProperInv, ~ SelfRequests, NEW s, Len(s) \in Nat \ {0}, Stacked(s),
         s[Len(s)] \in DataClusters, NEW n \in Names, NEW x \in Exts,
         DeleteDirectory(s[Len(s)], n, x)
  PROVE  ProperInv' /\ Stacked(s)'
<1> DEFINE parent == s[Len(s)]
           t == Tab(disk, parent)
           found == SlotsNamed(t, n, x)
           i == Least(found)
           c == t[i].cluster
           v == DeleteDirImages(disk, c, parent, ClearEntry(t, i))
<1>1. Next
  BY DEF Next
<1>2. /\ Idle /\ UNCHANGED <<disk, losses>> /\ todo' = v
      /\ n # t[0].name /\ found # {} /\ c # ROOT_CLUSTER_NUMBER /\ t[i].filesize = 0
      /\ Occupied(CellAt(disk, c).table) = {}
  BY DEF DeleteDirectory, MayDelete, Tab
<1>3. Ready(disk) /\ Proper(disk) /\ n # Blank
  BY <1>2, ProperIdle, GeometryAssumption DEF Idle
<1> HIDE DEF parent
<1>4. parent \in DataClusters
  BY DEF parent
<1>5. Steady(disk, v, parent)
  BY <1>2, <1>3, <1>4, DropSteady
<1>6. v # <<>>
  <2>1. LinedUp(disk, v, <<parent, n, x>>)
    BY <1>2, <1>3, <1>4, DropLinedUp
  <2> HIDE DEF v
  <2>2. QED
    BY <2>1, NotNothing
<1> HIDE DEF v
<1>7. QED
  BY <1>1, <1>2, <1>5, <1>6, CallProper DEF parent

(* A file is removed from the last one of the stack.                       *)
LEMMA EraseProper ==
  ASSUME ProperInv, ~ SelfRequests, NEW s, Len(s) \in Nat \ {0}, Stacked(s),
         s[Len(s)] \in DataClusters, NEW n \in Names, NEW x \in Exts,
         DeleteFile(s[Len(s)], n, x)
  PROVE  ProperInv' /\ Stacked(s)'
<1> DEFINE parent == s[Len(s)]
           t == Tab(disk, parent)
           found == SlotsNamed(t, n, x)
           i == Least(found)
           c == t[i].cluster
           ends == EndsAfter(disk.fat, c)
           v == DeleteFileImages(disk, Walk(disk.fat, c), Least(ends), parent,
                                 ClearEntry(t, i))
<1>1. Next
  BY DEF Next
<1>2. /\ Idle /\ UNCHANGED <<disk, losses>> /\ (ends = {} \/ todo' = v)
      /\ found # {} /\ t[i].filesize # 0
  BY DEF DeleteFile, Tab
<1>3. Ready(disk) /\ Proper(disk) /\ n # Blank /\ Ascending(disk.fat)
  BY <1>2, ProperIdle, GeometryAssumption DEF Idle, ProperInv, ChainsAscend
<1> HIDE DEF parent
<1>4. parent \in DataClusters
  BY DEF parent
<1>5. ends # {} /\ Steady(disk, v, parent)
  BY <1>2, <1>3, <1>4, EraseSteady
<1>6. v # <<>>
  <2>1. LinedUp(disk, v, <<parent, n, x>>)
    BY <1>2, <1>3, <1>4, EraseLinedUp
  <2> HIDE DEF v
  <2>2. QED
    BY <2>1, NotNothing
<1> HIDE DEF v, ends
<1>7. QED
  BY <1>1, <1>2, <1>5, <1>6, CallProper DEF parent

-----------------------------------------------------------------------------
(* The shape of such a tree.                                               *)

(* A used slot below the first two is an entry of the tree.                *)
LEMMA SlotListed ==
  ASSUME NEW d, NEW c \in DataClusters, NEW i \in Slots \ {0, 1}, Tab(d, c)[i].used
  PROVE  <<c, i>> \in Listed(d) /\ EntryAt(d, <<c, i>>) = Tab(d, c)[i]
<1>1. <<c, i>> \in DataClusters \X (Slots \ {0, 1}) /\ <<c, i>>[1] = c /\ <<c, i>>[2] = i
  OBVIOUS
<1>2. QED
  BY <1>1 DEF Listed, EntryAt, Tab

(* Nothing on such a disk has a name that a command gives and a type.      *)
LEMMA PlainFound ==
  ASSUME NEW d, Ready(d), Proper(d), NEW c \in DataClusters, NEW n \in Names,
         NEW x, SlotsNamed(Tab(d, c), n, x) # {}
  PROVE  x = Blank
<1>1. PICK i \in Slots : Tab(d, c)[i].name = n /\ Tab(d, c)[i].ext = x
  BY DEF SlotsNamed
<1>2. n # Blank /\ d \in Disks /\ TablesOk(d)
  BY GeometryAssumption DEF Ready, Sound
<1>3. Tab(d, c)[i].used
  BY <1>1, <1>2 DEF TablesOk, EmptyEntry
<1>4. c \in Directories(d)
  <2>1. Tab(d, c)[0].used
    BY <1>1, <1>2 DEF TablesOk, EmptyTable, EmptyEntry
  <2>2. QED
    BY <2>1, InDirectories
<1>5. CASE i = 0
  BY <1>1, <1>4, <1>5 DEF Proper
<1>6. CASE i = 1
  BY <1>1, <1>4, <1>6 DEF Proper
<1>7. CASE i \in Slots \ {0, 1}
  <2>1. <<c, i>> \in Listed(d) /\ EntryAt(d, <<c, i>>) = Tab(d, c)[i]
    BY <1>3, <1>7, SlotListed
  <2>2. QED
    BY <1>1, <2>1 DEF Proper, PlainEntry
<1>8. QED
  BY <1>5, <1>6, <1>7

(* What a slot that has a name of the caller's, or the attribute of a      *)
(* directory, says about the tree.                                         *)
NamedSlot(d, c, e) ==
  /\ e.used /\ e.name \in Names /\ c \in Directories(d)
  /\ e.attr = ATTR_SUBDIRECTORY =>
       /\ e.cluster \in Directories(d) \ {ROOT_CLUSTER_NUMBER}
       /\ Tab(d, e.cluster)[0] = e /\ Tab(d, e.cluster)[1].cluster = c
  /\ e.attr # ATTR_SUBDIRECTORY =>
       e.cluster \in DataClusters /\ Tab(d, e.cluster) = EmptyTable

(* Every used slot below the first two has that shape.                     *)
LEMMA SlotShape ==
  ASSUME NEW d, Ready(d), Proper(d), NEW c \in DataClusters, NEW i \in Slots \ {0, 1},
         Tab(d, c)[i].used
  PROVE  NamedSlot(d, c, Tab(d, c)[i])
<1> DEFINE l == <<c, i>>
           e == Tab(d, c)[i]
<1>1. l \in Listed(d) /\ EntryAt(d, l) = e /\ l[1] = c
  BY SlotListed
<1>2. d \in Disks /\ TablesOk(d) /\ Apart(d) /\ FileOk(d, l)
  BY <1>1 DEF Ready, Sound
<1>3. e \in Entries /\ PlainEntry(e) /\ e.cluster \in DataClusters
  BY <1>1, <1>2, TabTypes DEF Proper, TablesOk
<1>4. EntryWhole(d, l)
  BY <1>1 DEF Ready, TreeBut
<1> HIDE DEF l, e
<1>5. c \in Directories(d)
  BY <1>1, <1>4 DEF EntryWhole
<1>6. ASSUME e.attr = ATTR_SUBDIRECTORY
      PROVE  /\ e.cluster \in Directories(d) \ {ROOT_CLUSTER_NUMBER}
             /\ Tab(d, e.cluster)[0] = e /\ Tab(d, e.cluster)[1].cluster = c
  <2>1. ~ IsFile(e)
    BY <1>3, <1>6 DEF PlainEntry
  <2>2. Tab(d, e.cluster)[0] = e /\ Tab(d, e.cluster)[1].cluster = c
    BY <1>1, <1>4, <2>1 DEF EntryWhole, Tab
  <2>3. e.cluster \in Directories(d)
    BY <1>3, <2>2, InDirectories DEF e
  <2>4. Owned(d, e) = {e.cluster}
    BY <1>2, <1>3, <2>1, OwnedFacts
  <2>5. e.cluster # ROOT_CLUSTER_NUMBER
    BY <1>1, <1>2, <2>4 DEF Apart
  <2>6. QED
    BY <2>2, <2>3, <2>5
<1>7. ASSUME e.attr # ATTR_SUBDIRECTORY
      PROVE  Tab(d, e.cluster) = EmptyTable
  <2>1. IsFile(e)
    BY <1>3, <1>7 DEF PlainEntry
  <2>2. QED
    BY <1>1, <1>2, <2>1, FilesTaken
<1>8. NamedSlot(d, c, e)
  BY <1>3, <1>5, <1>6, <1>7 DEF NamedSlot, PlainEntry, e
<1>9. QED
  BY <1>8 DEF e

(* The tree as the walks of the shell meet it.                             *)
LEMMA TreeShape ==
  ASSUME NEW d, Ready(d), Proper(d), ROOT_CLUSTER_NUMBER \in Directories(d)
  PROVE  /\ \A c \in Directories(d) :
              /\ c \in DataClusters /\ Dat(d, c) = NoData
              /\ Tab(d, c)[0].cluster = c /\ Tab(d, c)[1].name = ".."
              /\ Tab(d, c)[1].cluster \in Directories(d) /\ Under(d, c, c)
         /\ \A c \in Directories(d) \ {ROOT_CLUSTER_NUMBER} :
              /\ Tab(d, c)[0].name \in Names /\ Tab(d, c)[0].attr = ATTR_SUBDIRECTORY
              /\ \E i \in Slots \ {0, 1} :
                   Tab(d, Tab(d, c)[1].cluster)[i] = Tab(d, c)[0]
         /\ Tab(d, ROOT_CLUSTER_NUMBER)[1].cluster = ROOT_CLUSTER_NUMBER
         /\ \A c \in DataClusters, i \in Slots \ {0, 1} :
              \/ Tab(d, c)[i] = EmptyEntry
              \/ NamedSlot(d, c, Tab(d, c)[i])
         /\ \A c \in DataClusters, i, j \in Slots \ {0, 1} :
              Tab(d, c)[i].name = Tab(d, c)[j].name /\ Tab(d, c)[i].name \in Names => i = j
         /\ \A c \in DataClusters, i \in Slots :
              Tab(d, c)[i].name # Blank => Tab(d, c)[i].cluster \in DataClusters
         /\ \A c \in DataClusters, i \in Slots \ {0, 1} : Tab(d, c)[i].name # ".."
<1>1. d \in Disks /\ TablesOk(d) /\ TreeBut(d, {}) /\ Blank \notin Names
  BY GeometryAssumption DEF Ready, Sound
<1>2. ASSUME NEW c \in DataClusters, NEW i \in Slots \ {0, 1}
      PROVE  \/ Tab(d, c)[i] = EmptyEntry
             \/ Tab(d, c)[i].used /\ NamedSlot(d, c, Tab(d, c)[i])
  BY <1>1, SlotShape DEF TablesOk
<1>3. Tab(d, ROOT_CLUSTER_NUMBER)[1].cluster = ROOT_CLUSTER_NUMBER
  BY <1>1 DEF TreeBut
<1>4. ASSUME NEW c \in Directories(d) \ {ROOT_CLUSTER_NUMBER}
      PROVE  /\ Tab(d, c)[0].name \in Names /\ Tab(d, c)[0].attr = ATTR_SUBDIRECTORY
             /\ Tab(d, c)[1].cluster \in Directories(d)
             /\ \E i \in Slots \ {0, 1} : Tab(d, Tab(d, c)[1].cluster)[i] = Tab(d, c)[0]
  <2>1. PICK l \in Listed(d) : ~ IsFile(EntryAt(d, l)) /\ EntryAt(d, l).cluster = c
    BY <1>1 DEF TreeBut, Entered
  <2>2. /\ l[1] \in DataClusters /\ l[2] \in Slots \ {0, 1}
        /\ Tab(d, l[1])[l[2]].used /\ EntryAt(d, l) = Tab(d, l[1])[l[2]]
    BY ListedFacts
  <2>3. EntryAt(d, l).attr = ATTR_SUBDIRECTORY
    BY <2>1 DEF Proper, PlainEntry
  <2>4. NamedSlot(d, l[1], EntryAt(d, l))
    BY <2>2, SlotShape
  <2>5. QED
    BY <2>1, <2>2, <2>3, <2>4 DEF NamedSlot
<1>5. ASSUME NEW c \in Directories(d)
      PROVE  /\ c \in DataClusters /\ Dat(d, c) = NoData
             /\ Tab(d, c)[0].cluster = c /\ Tab(d, c)[1].name = ".."
             /\ Tab(d, c)[1].cluster \in Directories(d) /\ Under(d, c, c)
  BY <1>1, <1>3, <1>4, OwnEntry, InDirectories DEF Proper, NamesApart
<1>6. ASSUME NEW c \in DataClusters, NEW i \in Slots \ {0, 1}, NEW j \in Slots \ {0, 1},
             Tab(d, c)[i].name = Tab(d, c)[j].name, Tab(d, c)[i].name \in Names
      PROVE  i = j
  <2>1. Tab(d, c)[i].used /\ Tab(d, c)[j].used
    BY <1>1, <1>2, <1>6 DEF EmptyEntry
  <2>2. /\ <<c, i>> \in Listed(d) /\ EntryAt(d, <<c, i>>) = Tab(d, c)[i]
        /\ <<c, j>> \in Listed(d) /\ EntryAt(d, <<c, j>>) = Tab(d, c)[j]
    BY <2>1, SlotListed
  <2>3. Tab(d, c)[i].ext = Blank /\ Tab(d, c)[j].ext = Blank
    BY <2>2 DEF Proper, PlainEntry
  <2>4. QED
    BY <1>6, <2>1, <2>3 DEF Proper, NamesApart
<1>7. ASSUME NEW c \in DataClusters, NEW i \in Slots, Tab(d, c)[i].name # Blank
      PROVE  Tab(d, c)[i].cluster \in DataClusters
  BY <1>1, <1>7 DEF TablesOk, EmptyEntry
<1>8. ASSUME NEW c \in DataClusters, NEW i \in Slots \ {0, 1}, Tab(d, c)[i].name = ".."
      PROVE  FALSE
  <2>1. Tab(d, c)[i].used /\ c \in Directories(d)
    BY <1>2, <1>8, GeometryAssumption DEF EmptyEntry, NamedSlot, Blank
  <2>2. <<c, i>> \in Listed(d) /\ EntryAt(d, <<c, i>>) = Tab(d, c)[i]
    BY <2>1, SlotListed
  <2>3. Tab(d, c)[i].ext = Blank /\ Tab(d, c)[1].ext = Blank
    BY <2>1, <2>2 DEF Proper, PlainEntry
  <2>4. Tab(d, c)[1].used /\ 1 \in Slots
    BY <1>1, <2>1, ListedFacts, SlotTypes DEF TablesOk
  <2>5. QED
    BY <1>5, <1>8, <2>1, <2>3, <2>4 DEF Proper, NamesApart
<1>9. QED
  BY <1>2, <1>3, <1>4, <1>5, <1>6, <1>7, <1>8

(* The driver before its disk is formatted.                                *)
LEMMA InitProper == Init => ProperInv
<1> SUFFICES ASSUME Init PROVE ProperInv
  OBVIOUS
<1>1. /\ Settled = BlankDisk /\ op = NoCall /\ disk = BlankDisk /\ todo = <<>> /\ ~ mounted
      /\ map = ZeroMap /\ losses = 0 /\ NoCall.call = "none" /\ mounted \in BOOLEAN
  BY DEF Init, Settled, NoCall
<1>2. TreeInv
  BY <1>1, NewDisk DEF TreeInv, CalmInv, RootInv, LostInv, Holds
<1>3. TypeOK
  <2>1. <<>> \in Seq(Disks) /\ NoCall \in Ops /\ 0 \in 0 .. MaxPowerLosses
    BY NoCallTypes, RequestAssumption DEF Calls
  <2>2. QED
    BY <1>1, <2>1, EmptyTypes DEF TypeOK
<1>4. ChainsAscend
  BY <1>1, EmptyMapsAscend DEF ChainsAscend, BlankDisk
<1>5. QED
  BY <1>1, <1>2, <1>3, <1>4 DEF ProperInv, BlankDisk

(* On the disk the first two entries of the root lead to the root, at      *)
(* every moment.                                                           *)
LEMMA RootUp ==
  ASSUME ProperInv, ROOT_CLUSTER_NUMBER \in Directories(disk)
  PROVE  \A j \in {0, 1} : Tab(disk, ROOT_CLUSTER_NUMBER)[j].cluster = ROOT_CLUSTER_NUMBER
<1>1. Holds(disk, OpKey)
  BY DEF ProperInv, TreeInv, CalmInv, Calm
<1>2. disk # BlankDisk
  BY NewDisk
<1>3. QED
  BY <1>1, <1>2 DEF Holds, Image, TreeBut

(* The inserter replaces the image by a sound one.                         *)
LEMMA ReplacedProper ==
  ASSUME ProperInv, ~ mounted, UNCHANGED <<map, mounted, todo, op, losses>>,
         Ready(disk'), Proper(disk'), ROOT_CLUSTER_NUMBER \in Directories(disk'),
         Ascending(disk'.fat)
  PROVE  ProperInv'
<1>1. todo = <<>> /\ Calm /\ losses = 0
  BY DEF ProperInv, TreeInv, Calm
<1>2. Settled' = disk'
  BY <1>1 DEF Settled
<1>3. disk' \in Disks /\ disk'.signed
  BY DEF Ready
<1>4. TypeOK' /\ ChainsAscend'
  BY <1>1, <1>3 DEF ProperInv, TypeOK, ChainsAscend
<1>5. CalmInv'
  <2>1. Holds(disk', OpKey')
    BY ReadyImage DEF Holds
  <2>2. QED
    BY <1>1, <1>3, <2>1 DEF CalmInv, ProperInv, TreeInv
<1>6. RootInv' /\ LostInv'
  BY <1>1, <1>2 DEF RootInv, LostInv, ProperInv, TreeInv
<1>7. TreeInv'
  BY <1>5, <1>6 DEF ProperInv, TreeInv
<1>8. QED
  BY <1>1, <1>2, <1>4, <1>7 DEF ProperInv

(* It replaces it by the last one that a call lines up ...                 *)
LEMMA InsertedProper ==
  ASSUME ProperInv, ~ mounted, disk.signed, UNCHANGED <<map, mounted, todo, op, losses>>,
         NEW s, NEW K, LinedUp(disk, s, K), NEW c, Steady(disk, s, c), disk' = Final(s),
         Ascending(Final(s).fat)
  PROVE  ProperInv'
<1>1. todo = <<>> /\ Settled = disk
  BY DEF ProperInv, TreeInv, Settled
<1>2. ROOT_CLUSTER_NUMBER \in Directories(disk)
  BY <1>1 DEF ProperInv, TreeInv, RootInv
<1>3. ROOT_CLUSTER_NUMBER \in Directories(disk')
  BY <1>2 DEF LinedUp, Final
<1>4. Ready(disk') /\ Proper(disk')
  BY DEF Steady
<1>5. QED
  BY <1>3, <1>4, ReplacedProper

(* ... or by a new file system.                                            *)
LEMMA FormattedProper ==
  ASSUME ProperInv, ~ mounted, ~ disk.signed, UNCHANGED <<map, mounted, todo, op, losses>>,
         disk' = FormatImages[5]
  PROVE  ProperInv'
<1>1. disk = BlankDisk /\ disk \in Disks
  BY NewDisk DEF ProperInv, TreeInv, CalmInv, Calm, Holds, Image
<1>2. LinedUp(disk, FormatImages, 0) /\ Proper(Final(FormatImages))
      /\ ROOT_CLUSTER_NUMBER \in Directories(FormatImages[Len(FormatImages)])
  BY <1>1, FormatLinedUp, ProperFormat
<1>3. Len(FormatImages) = 5 /\ Ascending(FormatImages[5].fat)
  <2> DEFINE A == EmptyClusters(FormatMap, 1)
             m == [FormatMap EXCEPT ![Least(A)] = FAT32_FAT_END_OF_FILE]
  <2>1. Len(FormatImages) = 5 /\ FormatImages[5].fat = m
    BY <1>1, FormatFat
  <2>2. Ascending(m)
    BY EmptyTypes, EmptyMapsAscend, AscendingMaps
  <2>3. QED
    BY <2>1, <2>2
<1>4. Ready(disk') /\ Proper(disk') /\ ROOT_CLUSTER_NUMBER \in Directories(disk')
  BY <1>2, <1>3 DEF LinedUp, Outstanding, Final
<1>5. QED
  BY <1>3, <1>4, ReplacedProper

(* The inserter makes a directory or writes a file.                        *)
LEMMA InsertProper ==
  ASSUME ProperInv, ~ mounted, disk.signed, UNCHANGED <<map, mounted, todo, op, losses>>,
         NEW parent \in DataClusters, NEW n \in Names, CanWrite(parent, n, Blank),
         0 \in Sizes, NEW size \in Nat, NEW p \in Payloads,
         \/ /\ FreeSlots(disk.cell[parent].table) # {}
            /\ disk' = InitDirectoryTable(disk, disk.fat, n, parent)[3]
         \/ /\ size > 0 /\ Cardinality(Allocation(size)) >= CeilDiv(size)
            /\ disk' = WriteImages(disk,
                         Link(disk.fat, Allocation(size), FAT32_FAT_END_OF_FILE),
                         Least(Allocation(size)), p, CeilDiv(size), parent,
                         AddEntry(disk.cell[parent].table,
                           FileEntry(n, Blank, size, Least(Allocation(size)))))
                       [CeilDiv(size) + 2]
  PROVE  ProperInv'
<1>1. todo = <<>> /\ Calm /\ Settled = disk
  BY DEF ProperInv, TreeInv, Calm, Settled
<1>2. Ready(disk) /\ Proper(disk) /\ Ascending(disk.fat)
  BY <1>1 DEF ProperInv, TreeInv, CalmInv, ChainsAscend
<1>3. /\ parent \in Directories(disk) /\ n \in AllNames /\ Blank \in AllExts
      /\ EmptyClusters(disk.fat, ROOT_CLUSTER_NUMBER + 1) # {}
      /\ SlotsNamed(Tab(disk, parent), n, Blank) = {}
      /\ disk \in Disks /\ disk.fat \in FatMaps /\ disk.cell[parent].table \in Tables
  BY <1>2, TabTypes DEF CanWrite, Directories, AllNames, AllExts, Tab, Ready
<1>4. CASE /\ FreeSlots(disk.cell[parent].table) # {}
           /\ disk' = InitDirectoryTable(disk, disk.fat, n, parent)[3]
  <2> DEFINE s == InitDirectoryTable(disk, disk.fat, n, parent)
             m == [disk.fat EXCEPT ![Least(EmptyClusters(disk.fat, 1))]
                     = FAT32_FAT_END_OF_FILE]
  <2>1. Steady(disk, s, parent)
    BY <1>2, <1>3, <1>4, MakeSteady
  <2>2. LinedUp(disk, s, <<parent, n, Blank>>)
    BY <1>2, <1>3, <1>4, MakeLinedUp
  <2>3. Len(s) = 3 /\ s[3].fat = m
    BY <1>3, InitDirectoryTableFat
  <2>4. Ascending(m)
    BY <1>2, <1>3, AscendingMaps
  <2> HIDE DEF s, m
  <2>5. disk' = Final(s) /\ Ascending(Final(s).fat)
    BY <1>4, <2>3, <2>4 DEF Final, s
  <2>6. QED
    BY <2>1, <2>2, <2>5, InsertedProper
<1>5. CASE /\ size > 0 /\ Cardinality(Allocation(size)) >= CeilDiv(size)
           /\ disk' = WriteImages(disk,
                         Link(disk.fat, Allocation(size), FAT32_FAT_END_OF_FILE),
                         Least(Allocation(size)), p, CeilDiv(size), parent,
                         AddEntry(disk.cell[parent].table,
                           FileEntry(n, Blank, size, Least(Allocation(size)))))
                       [CeilDiv(size) + 2]
  <2> DEFINE A == Allocation(size)
             k == CeilDiv(size)
             m == Link(disk.fat, A, FAT32_FAT_END_OF_FILE)
             t == AddEntry(disk.cell[parent].table, FileEntry(n, Blank, size, Least(A)))
             s == WriteImages(disk, m, Least(A), p, k, parent, t)
  <2>1. A = Lowest(EmptyClusters(disk.fat, ROOT_CLUSTER_NUMBER + 1), CeilDiv(size))
    BY DEF Allocation
  <2>2. A \in SUBSET DataClusters
    BY AllocationTypes
  <2>3. Least(A) \in A
    BY <1>2, <1>5, <2>1, GivenClusters
  <2> HIDE DEF A
  <2>4. Steady(disk, s, parent)
    BY <1>2, <1>3, <1>5, <2>1, WriteSteady DEF A
  <2>5. LinedUp(disk, s, 0)
    BY <1>2, <1>3, <1>5, <2>1, WriteLinedUp DEF A
  <2>6. m \in FatMaps /\ Ascending(m)
    BY <1>2, <1>3, <2>2, MapTypes, AscendingMaps
  <2>7. t \in Tables
    <3>1. FileEntry(n, Blank, size, Least(A)) \in Entries
      BY <1>3, <2>2, <2>3, ClusterFacts DEF FileEntry, Entries
    <3>2. QED
      BY <1>3, <3>1, TableTypes
  <2>8. k \in Nat
    BY CeilDivNat
  <2> HIDE DEF m, t
  <2>9. Len(s) = k + 2 /\ s[k + 2].fat = m
    <3>1. k + 2 \in 1 .. k + 2 /\ ~ (k + 2 <= k)
      BY <2>8
    <3>2. QED
      BY <1>3, <2>6, <2>7, <2>8, <3>1, WriteImagesFat
  <2>10. disk' = s[k + 2]
    BY <1>5 DEF m, t, A
  <2> HIDE DEF s
  <2>11. disk' = Final(s) /\ Ascending(Final(s).fat)
    BY <2>6, <2>9, <2>10 DEF Final
  <2>12. QED
    BY <2>4, <2>5, <2>11, InsertedProper
<1>6. QED
  BY <1>4, <1>5

=============================================================================
