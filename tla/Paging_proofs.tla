--------------------------- MODULE Paging_proofs ----------------------------
(***************************************************************************)
(* Proofs about the page manager, for every number of frames and of page   *)
(* directories, every set of user pages and every content of the stack.    *)
(***************************************************************************)
EXTENDS Paging, FiniteSetTheorems, WellFoundedInduction, TLAPS

-----------------------------------------------------------------------------
(* What the functions of src/src/paging.c return.                          *)

(* The search loops find a member of the set that they search.             *)
LEMMA FirstIn ==
  ASSUME NEW S \in SUBSET Nat, S # {}
  PROVE  First(S) \in S
<1> DEFINE Less == {p \in Nat \X Nat : p[1] < p[2]}
<1>1. IsWellFoundedOn(Less, Nat)
  BY NatLessThanWellFounded DEF OpToRel
<1> HIDE DEF Less
<1>2. PICK x \in S : \A y \in S : ~ (<<y, x>> \in Less)
  BY <1>1, WFMin
<1>3. ASSUME NEW y \in S PROVE x <= y
  <2>1. x \in Nat /\ y \in Nat
    OBVIOUS
  <2>2. y < x => <<y, x>> \in Less
    BY <2>1 DEF Less
  <2>3. QED
    BY <1>2, <2>1, <2>2
<1>4. QED
  BY <1>3 DEF First

(* Frames and directories are numbers, and the kernel's directory is none  *)
(* of those that are given out; its page is none of the user's.            *)
LEMMA Numbers ==
  /\ Frames \in SUBSET Nat
  /\ Frames \in SUBSET FrameNumbers
  /\ 0 \in Frames
  /\ Dirs \in SUBSET Nat
  /\ KernelDir \notin Dirs
  /\ KernelDir \in AllDirs
  /\ Dirs \in SUBSET AllDirs
  /\ KernelPage \notin UserPages
  /\ KernelPage \in Pages
  /\ UserPages \in SUBSET Pages
BY PagingAssumption DEF Frames, FrameNumbers, Dirs, KernelDir, AllDirs,
                        KernelPage, Pages

(* The entries that the functions make are entries.                        *)
LEMMA EntryTypes ==
  /\ NoEntry \in Entries
  /\ ~ NoEntry.present
  /\ SupervisorEntry \in Entries
  /\ NoEntry.frame \in Frames
  /\ \A i \in Frames : UserEntry(i) \in Entries /\ UserEntry(i).frame = i
BY Numbers DEF NoEntry, SupervisorEntry, UserEntry, Entries

(* The fields of a page manager.                                           *)
LEMMA MemFields ==
  ASSUME NEW m \in Mems
  PROVE  /\ m.frame_map \in [Frames -> BOOLEAN]
         /\ m.free_count \in Int
         /\ m.used \in [Dirs -> BOOLEAN]
         /\ m.table \in Tables
         /\ m.table \in [AllDirs -> [Pages -> Entries]]
         /\ \A d \in AllDirs, v \in UserPages : m.table[d][v].frame \in Frames
BY DEF Mems, Tables

(* A page manager from its fields.                                         *)
LEMMA MemFrom ==
  ASSUME NEW f \in [Frames -> BOOLEAN], NEW n \in Int,
         NEW u \in [Dirs -> BOOLEAN],
         NEW t \in Tables
  PROVE  [frame_map |-> f, free_count |-> n, used |-> u, table |-> t] \in Mems
BY DEF Mems

(* An entry with a frame of the machine may be put anywhere, ...           *)
LEMMA EntrySet ==
  ASSUME NEW t \in Tables, NEW d \in AllDirs, NEW v \in Pages,
         NEW e \in Entries, e.frame \in Frames
  PROVE  [t EXCEPT ![d][v] = e] \in Tables
<1> DEFINE r == [t EXCEPT ![d][v] = e]
<1>1. t \in [AllDirs -> [Pages -> Entries]] /\ r \in [AllDirs -> [Pages -> Entries]]
  BY DEF Tables
<1>2. \A b \in AllDirs, w \in UserPages :
        r[b][w] = IF b = d /\ w = v THEN e ELSE t[b][w]
  BY <1>1, Numbers
<1>3. \A b \in AllDirs, w \in UserPages : r[b][w].frame \in Frames
  BY <1>2 DEF Tables
<1> HIDE DEF r
<1>4. QED
  BY <1>1, <1>3 DEF Tables, r

(* ... and a directory whose user pages have such frames, too.             *)
LEMMA DirectorySet ==
  ASSUME NEW t \in Tables, NEW d \in AllDirs, NEW f \in [Pages -> Entries],
         \A v \in UserPages : f[v].frame \in Frames
  PROVE  [t EXCEPT ![d] = f] \in Tables
<1> DEFINE r == [t EXCEPT ![d] = f]
<1>1. t \in [AllDirs -> [Pages -> Entries]] /\ r \in [AllDirs -> [Pages -> Entries]]
  BY DEF Tables
<1>2. \A b \in AllDirs : r[b] = IF b = d THEN f ELSE t[b]
  BY <1>1
<1>3. \A b \in AllDirs, w \in UserPages : r[b][w].frame \in Frames
  BY <1>2 DEF Tables
<1> HIDE DEF r
<1>4. QED
  BY <1>1, <1>3 DEF Tables, r

(* paging_allocate_user_page_frame() takes the first free frame, counts it *)
(* and maps it.                                                            *)
LEMMA AllocateFields ==
  ASSUME NEW m \in Mems, NEW d \in AllDirs, NEW v \in Pages,
         FreeFrames(m) # {}
  PROVE  LET i == First(FreeFrames(m))
             r == Allocate(m, d, v)
         IN  /\ i \in Frames
             /\ i \in FreeFrames(m)
             /\ ~ m.frame_map[i]
             /\ r = [frame_map  |-> [m.frame_map EXCEPT ![i] = TRUE],
                     free_count |-> m.free_count - 1,
                     used       |-> m.used,
                     table      |-> [m.table EXCEPT ![d][v] = UserEntry(i)]]
<1> DEFINE i == First(FreeFrames(m))
<1>1. FreeFrames(m) \in SUBSET Nat
  BY Numbers DEF FreeFrames
<1>2. i \in FreeFrames(m)
  BY <1>1, FirstIn
<1>3. i \in Frames /\ ~ m.frame_map[i]
  BY <1>2 DEF FreeFrames
<1>4. Allocate(m, d, v) = [m EXCEPT !.frame_map[i] = TRUE,
                                    !.free_count = @ - 1,
                                    !.table[d][v] = UserEntry(i)]
  BY DEF Allocate
<1>5. m = [frame_map |-> m.frame_map, free_count |-> m.free_count,
           used |-> m.used, table |-> m.table]
  BY DEF Mems
<1> HIDE DEF i
<1>6. QED
  BY <1>2, <1>3, <1>4, <1>5 DEF i

(* paging_free_user_page_frame() gives the frame of a mapped page back.    *)
LEMMA FreeFields ==
  ASSUME NEW m \in Mems, NEW d \in AllDirs, NEW v \in Pages,
         m.table[d][v].present
  PROVE  Free(m, d, v) =
           [frame_map  |-> [m.frame_map EXCEPT ![m.table[d][v].frame] = FALSE],
            free_count |-> m.free_count + 1,
            used       |-> m.used,
            table      |-> [m.table EXCEPT ![d][v] = NoEntry]]
<1>1. m = [frame_map |-> m.frame_map, free_count |-> m.free_count,
           used |-> m.used, table |-> m.table]
  BY DEF Mems
<1>2. QED
  BY <1>1 DEF Free

(* A new directory was unused and maps only the kernel.                    *)
LEMMA CreateFields ==
  ASSUME NEW m \in Mems, UnusedDirs(m) # {}, NEW g \in StackGarbage
  PROVE  LET d == First(UnusedDirs(m))
             k == [present |-> TRUE, user |-> g.user, frame |-> g.frame]
         IN  /\ d \in Dirs
             /\ ~ m.used[d]
             /\ k \in Entries
             /\ CreateDirectory(m, g) =
                  [frame_map  |-> m.frame_map,
                   free_count |-> m.free_count,
                   used       |-> [m.used EXCEPT ![d] = TRUE],
                   table      |-> [m.table EXCEPT ![d] = [v \in Pages |->
                                     IF v = KernelPage THEN k ELSE NoEntry]]]
<1> DEFINE d == First(UnusedDirs(m))
<1>1. UnusedDirs(m) \in SUBSET Nat
  BY Numbers DEF UnusedDirs
<1>2. d \in UnusedDirs(m)
  BY <1>1, FirstIn
<1>3. d \in Dirs /\ ~ m.used[d]
  BY <1>2 DEF UnusedDirs
<1>4. [present |-> TRUE, user |-> g.user, frame |-> g.frame] \in Entries
  BY PagingAssumption DEF Entries
<1>5. m = [frame_map |-> m.frame_map, free_count |-> m.free_count,
           used |-> m.used, table |-> m.table]
  BY DEF Mems
<1> DEFINE k == [present |-> TRUE, user |-> g.user, frame |-> g.frame]
           filled == [v \in Pages |-> IF v = KernelPage THEN k ELSE NoEntry]
<1>6. CreateDirectory(m, g) = [m EXCEPT !.used[d] = TRUE, !.table[d] = filled]
  BY DEF CreateDirectory
<1> HIDE DEF filled, d
<1>7. CreateDirectory(m, g) =
        [frame_map  |-> m.frame_map,
         free_count |-> m.free_count,
         used       |-> [m.used EXCEPT ![d] = TRUE],
         table      |-> [m.table EXCEPT ![d] = filled]]
  BY <1>5, <1>6
<1>8. QED
  BY <1>3, <1>4, <1>7, Zenon DEF filled, d

(* Releasing a directory empties it and leaves the frames alone.           *)
LEMMA ReleaseFields ==
  ASSUME NEW m \in Mems, NEW d \in Dirs
  PROVE  FreeDirectory(m, d) =
           [frame_map  |-> m.frame_map,
            free_count |-> m.free_count,
            used       |-> [m.used EXCEPT ![d] = FALSE],
            table      |-> [m.table EXCEPT ![d] = [v \in Pages |-> NoEntry]]]
<1>1. m = [frame_map |-> m.frame_map, free_count |-> m.free_count,
           used |-> m.used, table |-> m.table]
  BY DEF Mems
<1> DEFINE empty == [v \in Pages |-> NoEntry]
<1>2. FreeDirectory(m, d) = [m EXCEPT !.used[d] = FALSE, !.table[d] = empty]
  BY DEF FreeDirectory
<1> HIDE DEF empty
<1>3. FreeDirectory(m, d) =
        [frame_map  |-> m.frame_map,
         free_count |-> m.free_count,
         used       |-> [m.used EXCEPT ![d] = FALSE],
         table      |-> [m.table EXCEPT ![d] = empty]]
  BY <1>1, <1>2
<1>4. QED
  BY <1>3, Zenon DEF empty

-----------------------------------------------------------------------------
(* The inductive invariant.  That frame 0 stays taken keeps the kernel's   *)
(* frame away from user pages; that frames are exclusive makes freeing one *)
(* raise the count by one; that CR3 holds a directory in use keeps new and *)
(* released directories apart from the one that translations come from.    *)
FrameInv == FramesExclusive /\ mem.frame_map[0]
InUse    == cr3 \in Dirs => mem.used[cr3]
Inv      == TypeOK /\ FrameInv /\ FramesCounted /\ InUse /\ TlbFresh

(* The page manager starts in a state of the invariant.                    *)
LEMMA InitInv == Init => Inv
<1> SUFFICES ASSUME Init PROVE Inv
  OBVIOUS
<1> USE DEF Init
<1>1. mem \in Mems
  <2>1. [i \in Frames |-> i = 0] \in [Frames -> BOOLEAN]
    BY Zenon
  <2>2. FrameCount - 1 \in Int
    BY PagingAssumption
  <2>3. [d \in Dirs |-> FALSE] \in [Dirs -> BOOLEAN]
    OBVIOUS
  <2>4. [d \in AllDirs |-> [v \in Pages |->
            IF d = KernelDir /\ v = KernelPage THEN SupervisorEntry ELSE NoEntry]]
          \in Tables
    <3> DEFINE t == [d \in AllDirs |-> [v \in Pages |->
            IF d = KernelDir /\ v = KernelPage THEN SupervisorEntry ELSE NoEntry]]
    <3>1. t \in [AllDirs -> [Pages -> Entries]]
      BY EntryTypes
    <3>2. \A d \in AllDirs, v \in UserPages : t[d][v] = NoEntry
      BY Numbers
    <3> HIDE DEF t
    <3>3. t \in Tables
      BY <3>1, <3>2, EntryTypes DEF Tables
    <3>4. QED
      BY <3>3 DEF t
  <2>5. QED
    BY <2>1, <2>2, <2>3, <2>4, MemFrom DEF InitialMem
<1>2. TypeOK
  BY <1>1, EntryTypes, Numbers DEF TypeOK
<1>3. FrameInv
  <2>1. mem.frame_map[0]
    BY Numbers DEF InitialMem
  <2>2. \A d \in Dirs, v \in UserPages : mem.table[d][v] = NoEntry
    BY Numbers DEF InitialMem
  <2>3. QED
    BY <2>1, <2>2, EntryTypes DEF FrameInv, FramesExclusive
<1>4. FramesCounted
  <2>0. mem.frame_map = [i \in Frames |-> i = 0]
    BY DEF InitialMem
  <2>1. FreeFrames(mem) = 1 .. FrameCount - 1
    <3>1. \A i \in Frames : mem.frame_map[i] <=> i = 0
      BY <2>0, Zenon
    <3>2. FreeFrames(mem) = {i \in Frames : i # 0}
      BY <3>1, Zenon DEF FreeFrames
    <3>3. QED
      BY <3>2, PagingAssumption DEF Frames
  <2>2. Cardinality(1 .. FrameCount - 1) = FrameCount - 1
    BY FS_Interval, PagingAssumption
  <2>3. QED
    BY <2>1, <2>2 DEF FramesCounted, InitialMem
<1>5. InUse
  BY Numbers DEF InUse
<1>6. TlbFresh
  BY DEF TlbFresh
<1>7. QED
  BY <1>2, <1>3, <1>4, <1>5, <1>6 DEF Inv

(* Allocating a frame: it was free, so it was mapped nowhere.              *)
LEMMA AllocateInv ==
  ASSUME Inv, NEW d \in Dirs, NEW v \in UserPages, AllocateFrame(d, v)
  PROVE  Inv'
<1> USE DEF AllocateFrame
<1>0. mem \in Mems /\ cr3 \in AllDirs /\ tlb \in [Pages -> Entries]
      /\ d \in AllDirs /\ v \in Pages
  BY Numbers DEF Inv, TypeOK
<1>1. CASE FreeFrames(mem) = {}
  <2>1. UNCHANGED memory
    BY <1>1 DEF Allocate, memory
  <2>2. QED
    BY <2>1 DEF Inv, TypeOK, FrameInv, FramesExclusive, FramesCounted, InUse,
                TlbFresh, memory, FreeFrames
<1>2. CASE FreeFrames(mem) # {}
  <2> DEFINE i == First(FreeFrames(mem))
  <2>1. /\ i \in Frames
        /\ i \in FreeFrames(mem)
        /\ ~ mem.frame_map[i]
        /\ mem' = [frame_map  |-> [mem.frame_map EXCEPT ![i] = TRUE],
                   free_count |-> mem.free_count - 1,
                   used       |-> mem.used,
                   table      |-> [mem.table EXCEPT ![d][v] = UserEntry(i)]]
    BY <1>0, <1>2, AllocateFields
  <2> HIDE DEF i
  <2>2. /\ mem.frame_map \in [Frames -> BOOLEAN]
        /\ mem.free_count \in Int
        /\ mem.used \in [Dirs -> BOOLEAN]
        /\ mem.table \in Tables
        /\ mem.table \in [AllDirs -> [Pages -> Entries]]
        /\ \A e \in AllDirs, w \in UserPages : mem.table[e][w].frame \in Frames
    BY <1>0, MemFields
  <2>3. tlb' = [tlb EXCEPT ![v] = NoEntry] /\ cr3' = cr3
    BY <1>2 DEF Flush
  <2>4. TypeOK'
    <3>1. [mem.frame_map EXCEPT ![i] = TRUE] \in [Frames -> BOOLEAN]
      BY <2>2
    <3>2. [mem.table EXCEPT ![d][v] = UserEntry(i)] \in Tables
      BY <1>0, <2>1, <2>2, EntryTypes, EntrySet
    <3>3. mem' \in Mems
      <4>1. mem.free_count - 1 \in Int
        BY <2>2
      <4>2. QED
        BY <2>1, <2>2, <3>1, <3>2, <4>1 DEF Mems
    <3>4. tlb' \in [Pages -> Entries]
      BY <1>0, <2>3, EntryTypes
    <3>5. QED
      BY <1>0, <2>3, <3>3, <3>4 DEF TypeOK
  <2>5. FrameInv'
    <3>1. \A e \in Dirs, w \in UserPages :
             mem'.table[e][w] = IF e = d /\ w = v THEN UserEntry(i)
                                                 ELSE mem.table[e][w]
      BY <1>0, <2>1, <2>2, Numbers
    <3>2. /\ mem'.frame_map[i]
          /\ \A j \in Frames : j # i => mem'.frame_map[j] = mem.frame_map[j]
      BY <2>1, <2>2
    <3>3. \A e \in Dirs, w \in UserPages :
             mem.table[e][w].present =>
               mem.table[e][w].frame \in Frames /\ mem.table[e][w].frame # i
      BY <2>1, <2>2, Numbers DEF Inv, FrameInv, FramesExclusive
    <3>4. i # 0
      BY <2>1 DEF Inv, FrameInv
    <3>5. UserEntry(i).frame = i
      BY DEF UserEntry
    <3>6. mem'.frame_map[0]
      BY <3>2, Numbers DEF Inv, FrameInv
    <3>7. FramesExclusive'
      <4> SUFFICES ASSUME NEW d1 \in Dirs, NEW d2 \in Dirs,
                          NEW v1 \in UserPages, NEW v2 \in UserPages,
                          mem'.table[d1][v1].present
                   PROVE  /\ mem'.frame_map[mem'.table[d1][v1].frame]
                          /\ mem'.table[d1][v1].frame # 0
                          /\ mem'.table[d2][v2].present
                             /\ mem'.table[d1][v1].frame = mem'.table[d2][v2].frame
                             => d1 = d2 /\ v1 = v2
        BY DEF FramesExclusive
      <4>1. CASE d1 = d /\ v1 = v
        BY <4>1, <3>1, <3>2, <3>3, <3>4, <3>5
      <4>2. CASE ~ (d1 = d /\ v1 = v)
        <5>1. mem'.table[d1][v1] = mem.table[d1][v1]
          BY <4>2, <3>1
        <5>2. /\ mem.frame_map[mem.table[d1][v1].frame]
              /\ mem.table[d1][v1].frame # 0
              /\ mem.table[d2][v2].present
                 /\ mem.table[d1][v1].frame = mem.table[d2][v2].frame
                 => d1 = d2 /\ v1 = v2
          BY <5>1 DEF Inv, FrameInv, FramesExclusive
        <5>3. QED
          BY <5>1, <5>2, <3>1, <3>2, <3>3, <3>5
      <4>3. QED
        BY <4>1, <4>2
    <3>8. QED
      BY <3>6, <3>7 DEF FrameInv
  <2>6. FramesCounted'
    <3>1. FreeFrames(mem)' = FreeFrames(mem) \ {i}
      BY <2>1, <2>2 DEF FreeFrames
    <3>2. IsFiniteSet(FreeFrames(mem))
      <4>1. IsFiniteSet(Frames)
        BY FS_Interval, PagingAssumption DEF Frames
      <4>2. QED
        BY <4>1, FS_Subset DEF FreeFrames
    <3>3. Cardinality(FreeFrames(mem) \ {i}) = Cardinality(FreeFrames(mem)) - 1
      BY <2>1, <3>2, FS_RemoveElement
    <3>4. mem'.free_count = mem.free_count - 1
      BY <2>1
    <3>5. mem.free_count = Cardinality(FreeFrames(mem))
      BY DEF Inv, FramesCounted
    <3>6. QED
      BY <3>1, <3>3, <3>4, <3>5, Zenon DEF FramesCounted
  <2>7. InUse'
    BY <2>1, <2>3 DEF Inv, InUse
  <2>8. TlbFresh'
    <3> SUFFICES ASSUME NEW w \in Pages, tlb'[w] # NoEntry
                 PROVE  tlb'[w] = mem'.table[cr3'][w]
      BY DEF TlbFresh
    <3>1. w # v /\ tlb'[w] = tlb[w]
      BY <1>0, <2>3
    <3>2. mem'.table[cr3][w] = mem.table[cr3][w]
      BY <1>0, <2>1, <2>2, <3>1
    <3>3. QED
      BY <2>3, <3>1, <3>2 DEF Inv, TlbFresh
  <2>9. QED
    BY <2>4, <2>5, <2>6, <2>7, <2>8 DEF Inv
<1>3. QED
  BY <1>1, <1>2

(* Freeing a page: no other page has its frame.                            *)
LEMMA FreeInv ==
  ASSUME Inv, NEW d \in Dirs, NEW v \in UserPages, FreeFrame(d, v)
  PROVE  Inv'
<1> USE DEF FreeFrame
<1>0. mem \in Mems /\ cr3 \in AllDirs /\ tlb \in [Pages -> Entries]
      /\ d \in AllDirs /\ v \in Pages
  BY Numbers DEF Inv, TypeOK
<1>1. CASE ~ mem.table[d][v].present
  <2>1. UNCHANGED memory
    BY <1>1 DEF Free, memory
  <2>2. QED
    BY <2>1 DEF Inv, TypeOK, FrameInv, FramesExclusive, FramesCounted, InUse,
                TlbFresh, memory, FreeFrames
<1>2. CASE mem.table[d][v].present
  <2> DEFINE i == mem.table[d][v].frame
  <2>1. mem' = [frame_map  |-> [mem.frame_map EXCEPT ![i] = FALSE],
                free_count |-> mem.free_count + 1,
                used       |-> mem.used,
                table      |-> [mem.table EXCEPT ![d][v] = NoEntry]]
    BY <1>0, <1>2, FreeFields
  <2>2. /\ mem.frame_map \in [Frames -> BOOLEAN]
        /\ mem.free_count \in Int
        /\ mem.used \in [Dirs -> BOOLEAN]
        /\ mem.table \in Tables
        /\ mem.table \in [AllDirs -> [Pages -> Entries]]
        /\ \A e \in AllDirs, w \in UserPages : mem.table[e][w].frame \in Frames
    BY <1>0, MemFields
  <2>3. tlb' = [tlb EXCEPT ![v] = NoEntry] /\ cr3' = cr3
    BY <1>2 DEF Flush
  <2>4. /\ i \in Frames
        /\ mem.frame_map[i]
        /\ i # 0
        /\ \A e \in Dirs, w \in UserPages :
             mem.table[e][w].present /\ mem.table[e][w].frame = i
               => e = d /\ w = v
    <3>1. i \in Frames
      BY <1>0, <2>2
    <3>2. QED
      BY <1>2, <3>1 DEF Inv, FrameInv, FramesExclusive
  <2> HIDE DEF i
  <2>5. TypeOK'
    <3>1. [mem.frame_map EXCEPT ![i] = FALSE] \in [Frames -> BOOLEAN]
      BY <2>2
    <3>2. [mem.table EXCEPT ![d][v] = NoEntry] \in Tables
      BY <1>0, <2>2, EntryTypes, EntrySet
    <3>3. mem.free_count + 1 \in Int
      BY <2>2
    <3>4. mem' \in Mems
      BY <2>1, <2>2, <3>1, <3>2, <3>3 DEF Mems
    <3>5. tlb' \in [Pages -> Entries]
      BY <1>0, <2>3, EntryTypes
    <3>6. QED
      BY <1>0, <2>3, <3>4, <3>5 DEF TypeOK
  <2>6. FrameInv'
    <3>1. \A e \in Dirs, w \in UserPages :
             mem'.table[e][w] = IF e = d /\ w = v THEN NoEntry
                                                  ELSE mem.table[e][w]
      BY <1>0, <2>1, <2>2, Numbers
    <3>2. \A j \in Frames : j # i => mem'.frame_map[j] = mem.frame_map[j]
      BY <2>1, <2>2
    <3>3. mem'.frame_map[0]
      BY <2>4, <3>2, Numbers DEF Inv, FrameInv
    <3>4. \A e \in Dirs, w \in UserPages : mem.table[e][w].frame \in Frames
      BY <2>2, Numbers
    <3>5. FramesExclusive'
      <4> SUFFICES ASSUME NEW d1 \in Dirs, NEW d2 \in Dirs,
                          NEW v1 \in UserPages, NEW v2 \in UserPages,
                          mem'.table[d1][v1].present
                   PROVE  /\ mem'.frame_map[mem'.table[d1][v1].frame]
                          /\ mem'.table[d1][v1].frame # 0
                          /\ mem'.table[d2][v2].present
                             /\ mem'.table[d1][v1].frame = mem'.table[d2][v2].frame
                             => d1 = d2 /\ v1 = v2
        BY DEF FramesExclusive
      <4>1. mem'.table[d1][v1] = mem.table[d1][v1] /\ ~ (d1 = d /\ v1 = v)
        BY <3>1, EntryTypes
      <4>2. /\ mem.frame_map[mem.table[d1][v1].frame]
            /\ mem.table[d1][v1].frame # 0
            /\ mem.table[d2][v2].present
               /\ mem.table[d1][v1].frame = mem.table[d2][v2].frame
               => d1 = d2 /\ v1 = v2
        BY <4>1 DEF Inv, FrameInv, FramesExclusive
      <4>3. mem.table[d1][v1].frame # i
        BY <2>4, <4>1
      <4>4. QED
        BY <3>1, <3>2, <3>4, <4>1, <4>2, <4>3, EntryTypes
    <3>6. QED
      BY <3>3, <3>5 DEF FrameInv
  <2>7. FramesCounted'
    <3>1. FreeFrames(mem)' = FreeFrames(mem) \cup {i}
      BY <2>1, <2>2, <2>4 DEF FreeFrames
    <3>2. IsFiniteSet(FreeFrames(mem))
      <4>1. IsFiniteSet(Frames)
        BY FS_Interval, PagingAssumption DEF Frames
      <4>2. QED
        BY <4>1, FS_Subset DEF FreeFrames
    <3>3. i \notin FreeFrames(mem)
      BY <2>4 DEF FreeFrames
    <3>4. Cardinality(FreeFrames(mem) \cup {i})
            = Cardinality(FreeFrames(mem)) + 1
      BY <3>2, <3>3, FS_AddElement
    <3>5. mem'.free_count = mem.free_count + 1
      BY <2>1
    <3>6. mem.free_count = Cardinality(FreeFrames(mem))
      BY DEF Inv, FramesCounted
    <3>7. QED
      BY <3>1, <3>4, <3>5, <3>6, Zenon DEF FramesCounted
  <2>8. InUse'
    BY <2>1, <2>3 DEF Inv, InUse
  <2>9. TlbFresh'
    <3> SUFFICES ASSUME NEW w \in Pages, tlb'[w] # NoEntry
                 PROVE  tlb'[w] = mem'.table[cr3'][w]
      BY DEF TlbFresh
    <3>1. w # v /\ tlb'[w] = tlb[w]
      BY <1>0, <2>3
    <3>2. mem'.table[cr3][w] = mem.table[cr3][w]
      BY <1>0, <2>1, <2>2, <3>1
    <3>3. QED
      BY <2>3, <3>1, <3>2 DEF Inv, TlbFresh
  <2>10. QED
    BY <2>5, <2>6, <2>7, <2>8, <2>9 DEF Inv
<1>3. QED
  BY <1>1, <1>2

(* A directory that is made or released has no user page, and it is not    *)
(* the one in CR3: nothing else changes.                                   *)
LEMMA DirectoryInv ==
  ASSUME Inv, NEW d \in Dirs, NEW t \in [Pages -> Entries], NEW b \in BOOLEAN,
         d # cr3,
         \A v \in UserPages : t[v] = NoEntry,
         mem' = [frame_map  |-> mem.frame_map,
                 free_count |-> mem.free_count,
                 used       |-> [mem.used EXCEPT ![d] = b],
                 table      |-> [mem.table EXCEPT ![d] = t]],
         UNCHANGED <<cr3, tlb>>
  PROVE  Inv'
<1>1. mem \in Mems /\ cr3 \in AllDirs /\ tlb \in [Pages -> Entries]
      /\ d \in AllDirs
  BY Numbers DEF Inv, TypeOK
<1>2. /\ mem.frame_map \in [Frames -> BOOLEAN]
      /\ mem.free_count \in Int
      /\ mem.used \in [Dirs -> BOOLEAN]
      /\ mem.table \in Tables
      /\ mem.table \in [AllDirs -> [Pages -> Entries]]
  BY <1>1, MemFields
<1>3. TypeOK'
  <2>1. [mem.used EXCEPT ![d] = b] \in [Dirs -> BOOLEAN]
    BY <1>2
  <2>2. [mem.table EXCEPT ![d] = t] \in Tables
    BY <1>1, <1>2, EntryTypes, DirectorySet
  <2>3. mem' \in Mems
    BY <1>2, <2>1, <2>2 DEF Mems
  <2>4. QED
    BY <1>1, <2>3 DEF TypeOK
<1>4. mem'.frame_map = mem.frame_map
  OBVIOUS
<1>5. FrameInv'
  <2>1. \A e \in Dirs, w \in UserPages :
           mem'.table[e][w] = IF e = d THEN NoEntry ELSE mem.table[e][w]
    BY <1>1, <1>2, Numbers
  <2>2. QED
    BY <1>4, <2>1, EntryTypes DEF Inv, FrameInv, FramesExclusive
<1>6. FramesCounted'
  <2>1. FreeFrames(mem)' = FreeFrames(mem)
    BY <1>4 DEF FreeFrames
  <2>2. mem'.free_count = mem.free_count
    OBVIOUS
  <2>3. QED
    BY <2>1, <2>2 DEF Inv, FramesCounted
<1>7. InUse'
  BY <1>2 DEF Inv, InUse
<1>8. TlbFresh'
  <2>1. mem'.table[cr3] = mem.table[cr3]
    BY <1>1, <1>2
  <2>2. QED
    BY <2>1 DEF Inv, TlbFresh
<1>9. QED
  BY <1>3, <1>5, <1>6, <1>7, <1>8 DEF Inv

(* Loading CR3 with a directory in use, or the kernel's.                   *)
LEMMA UseInv ==
  ASSUME Inv, NEW d \in AllDirs, d \in Dirs => mem.used[d], UseDirectory(d)
  PROVE  Inv'
<1> USE DEF UseDirectory
<1>1. TypeOK'
  BY EntryTypes DEF Inv, TypeOK
<1>2. FrameInv' /\ FramesCounted'
  BY DEF Inv, FrameInv, FramesExclusive, FramesCounted, FreeFrames
<1>3. InUse'
  BY DEF InUse
<1>4. TlbFresh'
  BY DEF TlbFresh
<1>5. QED
  BY <1>1, <1>2, <1>3, <1>4 DEF Inv

(* The processor caches a translation of the directory in use.             *)
LEMMA TranslateInv ==
  ASSUME Inv, NEW v \in Pages, Translate(v)
  PROVE  Inv'
<1> USE DEF Translate
<1>1. mem.table[cr3][v] \in Entries
  <2>1. mem \in Mems /\ cr3 \in AllDirs
    BY DEF Inv, TypeOK
  <2>2. QED
    BY <2>1, MemFields
<1>2. TypeOK'
  BY <1>1 DEF Inv, TypeOK
<1>3. FrameInv' /\ FramesCounted' /\ InUse'
  BY DEF Inv, FrameInv, FramesExclusive, FramesCounted, FreeFrames, InUse
<1>4. TlbFresh'
  BY DEF Inv, TypeOK, TlbFresh
<1>5. QED
  BY <1>2, <1>3, <1>4 DEF Inv

(* Every step keeps the invariant.                                         *)
LEMMA NextInv == Inv /\ [Next]_memory => Inv'
<1> SUFFICES ASSUME Inv, [Next]_memory PROVE Inv'
  OBVIOUS
<1>0. mem \in Mems
  BY DEF Inv, TypeOK
<1>1. ASSUME NEW g \in StackGarbage, NewDirectory(g) PROVE Inv'
  <2> DEFINE d == First(UnusedDirs(mem))
             k == [present |-> TRUE, user |-> g.user, frame |-> g.frame]
             t == [v \in Pages |-> IF v = KernelPage THEN k ELSE NoEntry]
  <2>1. /\ d \in Dirs
        /\ ~ mem.used[d]
        /\ k \in Entries
        /\ mem' = [frame_map  |-> mem.frame_map,
                   free_count |-> mem.free_count,
                   used       |-> [mem.used EXCEPT ![d] = TRUE],
                   table      |-> [mem.table EXCEPT ![d] = t]]
    BY <1>0, <1>1, CreateFields DEF NewDirectory
  <2>2. t \in [Pages -> Entries] /\ \A v \in UserPages : t[v] = NoEntry
    BY <2>1, EntryTypes, Numbers
  <2>3. d # cr3
    BY <2>1 DEF Inv, InUse
  <2>4. UNCHANGED <<cr3, tlb>>
    BY <1>1 DEF NewDirectory
  <2> HIDE DEF d, t
  <2>5. QED
    BY <2>1, <2>2, <2>3, <2>4, DirectoryInv
<1>2. ASSUME NEW d \in Dirs, mem.used[d], ReleaseDirectory(d) PROVE Inv'
  <2> DEFINE t == [v \in Pages |-> NoEntry]
  <2>1. mem' = [frame_map  |-> mem.frame_map,
                free_count |-> mem.free_count,
                used       |-> [mem.used EXCEPT ![d] = FALSE],
                table      |-> [mem.table EXCEPT ![d] = t]]
    BY <1>0, <1>2, ReleaseFields DEF ReleaseDirectory
  <2>2. t \in [Pages -> Entries] /\ \A v \in UserPages : t[v] = NoEntry
    BY EntryTypes, Numbers
  <2>3. d # cr3 /\ UNCHANGED <<cr3, tlb>>
    BY <1>2 DEF ReleaseDirectory
  <2> HIDE DEF t
  <2>4. QED
    BY <2>1, <2>2, <2>3, DirectoryInv
<1>3. ASSUME NEW d \in Dirs, mem.used[d], UseDirectory(d) PROVE Inv'
  BY <1>3, UseInv, Numbers
<1>4. ASSUME UseDirectory(KernelDir) PROVE Inv'
  BY <1>4, UseInv, Numbers
<1>5. CASE UNCHANGED memory
  BY <1>5 DEF Inv, TypeOK, FrameInv, FramesExclusive, FramesCounted, InUse,
              TlbFresh, memory, FreeFrames
<1>6. QED
  BY <1>1, <1>2, <1>3, <1>4, <1>5, AllocateInv, FreeInv, TranslateInv DEF Next

-----------------------------------------------------------------------------
(* The theorems.                                                           *)

(* The page manager of src/src/paging.c keeps its invariant.               *)
THEOREM PagingInvariant == Spec => []Inv
BY InitInv, NextInv, PTL DEF Spec

(* Every variable of the page manager always holds a value of its kind:    *)
(* whatever 10 bits the stack had where paging_create_new_page_directory() *)
(* makes the kernel's entry, no user page gets a frame outside the machine.*)
THEOREM PagingTypes == Spec => []TypeOK
<1>1. Inv => TypeOK
  BY DEF Inv
<1>2. QED
  BY <1>1, PagingInvariant, PTL

(* free_page_frame_count is the number of free frames, whatever was        *)
(* allocated and freed: paging_allocate_check() can be trusted.            *)
THEOREM CountCorrect == Spec => []FramesCounted
<1>1. Inv => FramesCounted
  BY DEF Inv
<1>2. QED
  BY <1>1, PagingInvariant, PTL

(* paging_allocate_user_page_frame() never maps a frame at a user page     *)
(* that is mapped at another one, or the kernel's.                         *)
THEOREM ExclusiveCorrect == Spec => []FramesExclusive
<1>1. Inv => FramesExclusive
  BY DEF Inv, FrameInv
<1>2. QED
  BY <1>1, PagingInvariant, PTL

(* The flush of one page in update_page_directory_entry() and the reload   *)
(* of CR3 are enough: the processor never uses an old translation.         *)
THEOREM TlbCorrect == Spec => []TlbFresh
<1>1. Inv => TlbFresh
  BY DEF Inv
<1>2. QED
  BY <1>1, PagingInvariant, PTL
=============================================================================
