--------------------------- MODULE Process_proofs ---------------------------
(***************************************************************************)
(* Proofs about processes and the scheduler, for every number of slots,    *)
(* frames and page directories, every program and every order of timer     *)
(* interrupts and system calls.  What the functions of src/src/paging.c do *)
(* is taken from the proofs about the page manager, module Paging_proofs.  *)
(***************************************************************************)
EXTENDS Process, FiniteSetTheorems, TLAPS

Pgm == INSTANCE Paging_proofs WITH UserPages <- EntryPages \cap 0 .. 767

-----------------------------------------------------------------------------
(* The page manager.                                                       *)

(* The proofs about the page manager speak about the one that processes    *)
(* use.                                                                    *)
LEMMA SameManager ==
  /\ Pgm!Frames = Mem!Frames
  /\ Pgm!Dirs = Mem!Dirs
  /\ Pgm!Pages = Mem!Pages
  /\ Pgm!AllDirs = Mem!AllDirs
  /\ Pgm!KernelDir = Mem!KernelDir
  /\ Pgm!KernelPage = KernelPage
  /\ Pgm!NoEntry = Mem!NoEntry
  /\ Pgm!Entries = Mem!Entries
  /\ Pgm!Tables = Mem!Tables
  /\ Pgm!Mems = Mem!Mems
  /\ \A i : Pgm!UserEntry(i) = Mem!UserEntry(i)
  /\ \A S : Pgm!First(S) = Mem!First(S)
  /\ \A m : Pgm!FreeFrames(m) = Mem!FreeFrames(m)
  /\ \A m : Pgm!UnusedDirs(m) = Mem!UnusedDirs(m)
<1>1. /\ Pgm!Frames = Mem!Frames
      /\ Pgm!Dirs = Mem!Dirs
      /\ Pgm!Pages = Mem!Pages
      /\ Pgm!AllDirs = Mem!AllDirs
      /\ Pgm!KernelDir = Mem!KernelDir
      /\ Pgm!KernelPage = KernelPage
      /\ Pgm!NoEntry = Mem!NoEntry
  BY DEF Pgm!Frames, Mem!Frames, Pgm!Dirs, Mem!Dirs, Pgm!Pages, Mem!Pages,
         Pgm!AllDirs, Mem!AllDirs, Pgm!KernelDir, Mem!KernelDir,
         Pgm!KernelPage, Mem!KernelPage, KernelPage, Pgm!NoEntry, Mem!NoEntry
<1>2. Pgm!Entries = Mem!Entries
  BY DEF Pgm!Entries, Mem!Entries, Pgm!FrameNumbers, Mem!FrameNumbers
<1>3. Pgm!Tables = Mem!Tables /\ Pgm!Mems = Mem!Mems
  <2>1. Pgm!Tables = Mem!Tables
    BY <1>1, <1>2 DEF Pgm!Tables, Mem!Tables
  <2>2. QED
    BY <1>1, <2>1 DEF Pgm!Mems, Mem!Mems
<1>4. \A i : Pgm!UserEntry(i) = Mem!UserEntry(i)
  BY DEF Pgm!UserEntry, Mem!UserEntry
<1>5. \A S : Pgm!First(S) = Mem!First(S)
  BY DEF Pgm!First, Mem!First
<1>6. \A m : Pgm!FreeFrames(m) = Mem!FreeFrames(m)
  BY <1>1 DEF Pgm!FreeFrames, Mem!FreeFrames
<1>7. \A m : Pgm!UnusedDirs(m) = Mem!UnusedDirs(m)
  BY <1>1 DEF Pgm!UnusedDirs, Mem!UnusedDirs
<1>8. QED
  BY <1>1, <1>2, <1>3, <1>4, <1>5, <1>6, <1>7

(* A directory may be put among the others if its user pages have frames   *)
(* of the machine.                                                         *)
LEMMA EntriesSet ==
  ASSUME NEW t \in Mem!Tables, NEW d \in Mem!AllDirs,
         NEW f \in [Mem!Pages -> Mem!Entries],
         \A v \in EntryPages \cap 0 .. 767 : f[v].frame \in Mem!Frames
  PROVE  [t EXCEPT ![d] = f] \in Mem!Tables
<1>1. Pgm!PagingAssumption
  BY ProcessAssumption DEF Pgm!PagingAssumption, Pgm!KernelPage, Pgm!FrameNumbers
<1>2. /\ t \in Pgm!Tables /\ d \in Pgm!AllDirs /\ f \in [Pgm!Pages -> Pgm!Entries]
      /\ \A v \in EntryPages \cap 0 .. 767 : f[v].frame \in Pgm!Frames
  BY SameManager
<1>3. [t EXCEPT ![d] = f] \in Pgm!Tables
  BY <1>1, <1>2, Pgm!DirectorySet DEF Pgm!PagingAssumption
<1>4. QED
  BY <1>3, SameManager

(* The numbers of elements that the page manager counts are those of the   *)
(* library.                                                                *)
LEMMA SameCardinality ==
  ASSUME NEW S
  PROVE  /\ Mem!Cardinality(S) = Cardinality(S)
         /\ Pgm!Cardinality(S) = Cardinality(S)
BY Zenon DEF Mem!Cardinality, Pgm!Cardinality, Cardinality

(* The search loops find the least member of the set that they search.     *)
LEMMA FirstFound ==
  ASSUME NEW S \in SUBSET Nat, S # {}
  PROVE  Mem!First(S) \in S
<1>1. Pgm!First(S) \in S
  BY Pgm!FirstIn, ProcessAssumption DEF Pgm!KernelPage, Pgm!FrameNumbers
<1>2. QED
  BY <1>1, SameManager

(* A set with 0 in it is found to begin with 0.                            *)
LEMMA FirstZero ==
  ASSUME NEW S \in SUBSET Nat, 0 \in S
  PROVE  Mem!First(S) = 0
<1>1. \A j \in S : 0 <= j
  OBVIOUS
<1>2. Mem!First(S) \in S /\ \A j \in S : Mem!First(S) <= j
  BY <1>1 DEF Mem!First
<1> DEFINE x == Mem!First(S)
<1> HIDE DEF x
<1>3. x \in Nat /\ x <= 0
  BY <1>2 DEF x
<1>4. x = 0
  BY <1>3
<1>5. QED
  BY <1>4 DEF x

(* The fields of the page manager.                                         *)
LEMMA ManagerFields ==
  ASSUME NEW m \in Mem!Mems
  PROVE  /\ m.frame_map \in [Mem!Frames -> BOOLEAN]
         /\ m.free_count \in Int
         /\ m.used \in [Mem!Dirs -> BOOLEAN]
         /\ m.table \in Mem!Tables
         /\ m.table \in [Mem!AllDirs -> [Mem!Pages -> Mem!Entries]]
         /\ \A d \in Mem!AllDirs, v \in EntryPages \cap 0 .. 767 :
              m.table[d][v].frame \in Mem!Frames
BY DEF Mem!Mems, Mem!Tables

(* Pages and directories.                                                  *)
LEMMA PageFacts ==
  /\ Mem!Dirs \subseteq Mem!AllDirs
  /\ Mem!Dirs \in SUBSET Nat
  /\ Mem!Frames \in SUBSET Nat
  /\ Mem!Frames \in SUBSET Mem!FrameNumbers
  /\ 0 \in Mem!Frames
  /\ KernelPage \in Mem!Pages
  /\ KernelPage = Mem!KernelPage
  /\ \A v \in EntryPages : v < KernelPage =>
       v \in EntryPages \cap 0 .. 767 /\ v \in Mem!Pages /\ v # KernelPage
BY ProcessAssumption DEF Mem!Dirs, Mem!AllDirs, Mem!Frames, Mem!FrameNumbers, Mem!Pages,
                         KernelPage, Mem!KernelPage

(* What a new process finds: a directory that no one used, in which the    *)
(* kernel and one frame that was free are mapped, and nothing else; no     *)
(* other directory is touched.                                             *)
LEMMA LoadedFields ==
  ASSUME mem \in Mem!Mems, Mem!UnusedDirs(mem) # {}, Mem!FreeFrames(mem) # {},
         NEW g \in StackGarbage, NEW page \in EntryPages, page < KernelPage
  PROVE  LET d == Mem!First(Mem!UnusedDirs(mem))
             i == Mem!First(Mem!FreeFrames(mem))
             r == Loaded(page, g)
         IN  /\ d \in Mem!Dirs
             /\ ~ mem.used[d]
             /\ i \in Mem!Frames
             /\ ~ mem.frame_map[i]
             /\ r \in Mem!Mems
             /\ r.frame_map = [mem.frame_map EXCEPT ![i] = TRUE]
             /\ r.free_count = mem.free_count - 1
             /\ r.used = [mem.used EXCEPT ![d] = TRUE]
             /\ \A e \in Mem!AllDirs : e # d => r.table[e] = mem.table[e]
             /\ r.table[d][page] = Mem!UserEntry(i)
             /\ r.table[d][KernelPage].present
             /\ \A v \in Mem!Pages : v # page /\ v # KernelPage =>
                  r.table[d][v] = Mem!NoEntry
<1> DEFINE d == Mem!First(Mem!UnusedDirs(mem))
           i == Mem!First(Mem!FreeFrames(mem))
           k == [present |-> TRUE, user |-> g.user, frame |-> g.frame]
           filled == [v \in Mem!Pages |-> IF v = KernelPage THEN k ELSE Mem!NoEntry]
           c == Mem!CreateDirectory(mem, g)
           r == Loaded(page, g)
<1>1. /\ d \in Mem!Dirs
      /\ ~ mem.used[d]
  <2>1. Mem!UnusedDirs(mem) \in SUBSET Nat
    BY PageFacts DEF Mem!UnusedDirs
  <2>2. d \in Mem!UnusedDirs(mem)
    BY <2>1, FirstFound
  <2>3. QED
    BY <2>2 DEF Mem!UnusedDirs
<1>2. k \in Mem!Entries /\ Mem!NoEntry \in Mem!Entries
  BY ProcessAssumption DEF Mem!Entries, Mem!NoEntry, Mem!FrameNumbers
<1>3. filled \in [Mem!Pages -> Mem!Entries]
  BY <1>2
<1>4. c = [mem EXCEPT !.used[d] = TRUE, !.table[d] = filled]
  BY DEF Mem!CreateDirectory, KernelPage
<1>5. /\ mem.frame_map \in [Mem!Frames -> BOOLEAN]
      /\ mem.free_count \in Int
      /\ mem.used \in [Mem!Dirs -> BOOLEAN]
      /\ mem.table \in Mem!Tables
      /\ mem.table \in [Mem!AllDirs -> [Mem!Pages -> Mem!Entries]]
      /\ mem = [frame_map |-> mem.frame_map, free_count |-> mem.free_count,
                used |-> mem.used, table |-> mem.table]
  BY DEF Mem!Mems, Mem!Tables
<1>6. /\ filled[KernelPage] = k
      /\ \A v \in Mem!Pages : v # KernelPage => filled[v] = Mem!NoEntry
  BY PageFacts
<1> HIDE DEF filled, d
<1>7. c = [frame_map  |-> mem.frame_map,
           free_count |-> mem.free_count,
           used       |-> [mem.used EXCEPT ![d] = TRUE],
           table      |-> [mem.table EXCEPT ![d] = filled]]
  BY <1>4, <1>5
<1>8. /\ i \in Mem!Frames
      /\ ~ mem.frame_map[i]
  <2>1. Mem!FreeFrames(mem) \in SUBSET Nat
    BY PageFacts DEF Mem!FreeFrames
  <2>2. i \in Mem!FreeFrames(mem)
    BY <2>1, FirstFound
  <2>3. QED
    BY <2>2 DEF Mem!FreeFrames
<1>9. Mem!FreeFrames(c) = Mem!FreeFrames(mem)
  BY <1>7 DEF Mem!FreeFrames
<1>10. r = [c EXCEPT !.frame_map[i] = TRUE,
                     !.free_count = @ - 1,
                     !.table[d][page] = Mem!UserEntry(i)]
  BY <1>9 DEF Loaded, Mem!Allocate, d
<1> HIDE DEF i
<1>11. r = [frame_map  |-> [mem.frame_map EXCEPT ![i] = TRUE],
            free_count |-> mem.free_count - 1,
            used       |-> [mem.used EXCEPT ![d] = TRUE],
            table      |-> [mem.table EXCEPT ![d] =
                              [filled EXCEPT ![page] = Mem!UserEntry(i)]]]
  <2> DEFINE t == [mem.table EXCEPT ![d] = filled]
             u == [mem.used EXCEPT ![d] = TRUE]
             e == Mem!UserEntry(i)
  <2> HIDE DEF c, r, e
  <2>1. [t EXCEPT ![d][page] = e]
          = [mem.table EXCEPT ![d] = [filled EXCEPT ![page] = e]]
    BY <1>1, <1>5, PageFacts
  <2> HIDE DEF t, u
  <2>2. c = [frame_map |-> mem.frame_map, free_count |-> mem.free_count,
             used |-> u, table |-> t]
    BY <1>7 DEF t, u
  <2>3. r = [frame_map  |-> [mem.frame_map EXCEPT ![i] = TRUE],
             free_count |-> mem.free_count - 1,
             used       |-> u,
             table      |-> [t EXCEPT ![d][page] = e]]
    BY <1>10, <2>2 DEF e
  <2>4. QED
    BY <2>1, <2>3 DEF u, e
<1>12. Mem!UserEntry(i) \in Mem!Entries /\ Mem!UserEntry(i).frame = i
  BY <1>8, PageFacts DEF Mem!UserEntry, Mem!Entries
<1>13. r \in Mem!Mems
  <2> DEFINE f == [filled EXCEPT ![page] = Mem!UserEntry(i)]
             t == [mem.table EXCEPT ![d] = f]
  <2>1. f \in [Mem!Pages -> Mem!Entries]
    BY <1>3, <1>12
  <2>2. ASSUME NEW v \in EntryPages \cap 0 .. 767 PROVE f[v].frame \in Mem!Frames
    <3>1. v \in Mem!Pages /\ v # KernelPage
      BY DEF Mem!Pages, KernelPage, Mem!KernelPage
    <3>2. f[v] = IF v = page THEN Mem!UserEntry(i) ELSE filled[v]
      BY <1>3, <3>1
    <3>3. filled[v] = Mem!NoEntry /\ Mem!NoEntry.frame = 0
      BY <1>6, <3>1 DEF Mem!NoEntry
    <3>4. QED
      BY <1>8, <1>12, <3>2, <3>3, PageFacts
  <2> HIDE DEF f
  <2>3. t \in Mem!Tables
    <3> DEFINE T == mem.table
    <3>1. d \in Mem!AllDirs /\ T \in Mem!Tables
      BY <1>1, <1>5, PageFacts
    <3> HIDE DEF T
    <3>2. [T EXCEPT ![d] = f] \in Mem!Tables
      BY <2>1, <2>2, <3>1, EntriesSet
    <3>3. QED
      BY <3>2 DEF T, t
  <2> HIDE DEF t
  <2> DEFINE m == [mem.frame_map EXCEPT ![i] = TRUE]
             n == mem.free_count - 1
             u == [mem.used EXCEPT ![d] = TRUE]
  <2>4. m \in [Mem!Frames -> BOOLEAN] /\ n \in Int /\ u \in [Mem!Dirs -> BOOLEAN]
    <3>1. m \in [Mem!Frames -> BOOLEAN]
      BY <1>5
    <3>2. n \in Int
      BY <1>5
    <3>3. u \in [Mem!Dirs -> BOOLEAN]
      BY <1>5
    <3>4. QED
      BY <3>1, <3>2, <3>3
  <2> HIDE DEF r
  <2>5. r = [frame_map |-> m, free_count |-> n, used |-> u, table |-> t]
    BY <1>11 DEF t, f
  <2> HIDE DEF m, n, u
  <2>6. QED
    BY <2>3, <2>4, <2>5 DEF Mem!Mems
<1>14. r.table[d] = [filled EXCEPT ![page] = Mem!UserEntry(i)]
  BY <1>1, <1>5, <1>11, PageFacts
<1>15. /\ r.table[d][page] = Mem!UserEntry(i)
       /\ r.table[d][KernelPage].present
       /\ \A v \in Mem!Pages : v # page /\ v # KernelPage =>
            r.table[d][v] = Mem!NoEntry
  BY <1>3, <1>6, <1>14, PageFacts
<1>16. /\ r.frame_map = [mem.frame_map EXCEPT ![i] = TRUE]
       /\ r.free_count = mem.free_count - 1
       /\ r.used = [mem.used EXCEPT ![d] = TRUE]
       /\ \A e \in Mem!AllDirs : e # d => r.table[e] = mem.table[e]
  BY <1>5, <1>11
<1>17. QED
  BY <1>1, <1>8, <1>13, <1>15, <1>16 DEF d, i

(* A process needs one frame at least, the one of its stack.               *)
LEMMA NeedsFrame ==
  ASSUME NEW size \in Sizes
  PROVE  FramesNeeded(size) \in Nat /\ FramesNeeded(size) >= 1
<1>1. size \in Nat /\ PageFrameSize \in Nat /\ PageFrameSize > 0
  BY ProcessAssumption
<1>2. QED
  BY <1>1 DEF FramesNeeded, CeilDiv

(* The search of the scheduler ends at a slot.                             *)
LEMMA SlotFound ==
  ASSUME NEW n \in Nat
  PROVE  n % SlotCount \in Slots
BY ProcessAssumption DEF Slots

-----------------------------------------------------------------------------
(* The inductive invariant.  A directory is in use only with the kernel    *)
(* and some user page mapped; the blocks that the scheduler may choose     *)
(* have different directories in use, and the program runs in one that is  *)
(* in use; the count of free frames is right, so that the check before a   *)
(* process is created guarantees the frame.                                *)
DirsMapped ==
  \A d \in Mem!Dirs : mem.used[d] =>
    /\ mem.table[d][KernelPage].present
    /\ \E v \in EntryPages \ {KernelPage} : mem.table[d][v].present

(* Every process has a directory of its own.                               *)
DirsOwned ==
  \A s \in Slots : occupied[s] =>
    /\ list[s].dir \in Mem!Dirs
    /\ mem.used[list[s].dir]
    /\ \A t \in Slots : occupied[t] /\ list[t].dir = list[s].dir => t = s

(* User code runs in a directory in use.                                   *)
RunsInDir == mode = "user" => cr3 \in Mem!Dirs /\ mem.used[cr3]

(* No frame is mapped twice, and frame 0 is taken.                         *)
FramesApart == Mem!FramesExclusive /\ mem.frame_map[0]

(* While only one process was ever created, only slot 0 is used: the       *)
(* process has pid 0 there, and the search for the next process, which     *)
(* starts at the raised number, comes round to it.                         *)
Alone ==
  /\ mode = "setup" <=> creates = 0
  /\ creates <= 1 =>
       /\ \A s \in Slots : occupied[s] => s = 0
       /\ list[0].pid = 0
       /\ mode \in {"setup", "user"} => current_running_pid = 0
       /\ mode = "user" /\ destroys = 0 => occupied[0]
       /\ mode = "user" /\ occupied[0] =>
            list[0].dir = cr3 /\ list[0].state = "RUNNING"

(* The inductive invariant.                                                *)
Inv ==
  /\ TypeOK /\ Mem!FramesCounted /\ FramesApart /\ DirsMapped
  /\ DirsOwned /\ RunsInDir /\ Alone

(* The kernel starts in a state of the invariant.                          *)
LEMMA InitInv == Init => Inv
<1> SUFFICES ASSUME Init PROVE Inv
  OBVIOUS
<1>1. Mem!TypeOK /\ Mem!FramesCounted /\ FramesApart
  <2>1. Pgm!InitialMem = Mem!InitialMem
    BY SameManager DEF Pgm!InitialMem, Mem!InitialMem, KernelPage,
                       Pgm!SupervisorEntry, Mem!SupervisorEntry
  <2>2. Pgm!Init
    BY <2>1, SameManager DEF Init, Mem!Init, Pgm!Init
  <2>3. Pgm!Inv
    BY <2>2, Pgm!InitInv, ProcessAssumption DEF Pgm!KernelPage, Pgm!FrameNumbers
  <2>4. Pgm!TypeOK => Mem!TypeOK
    BY SameManager DEF Pgm!TypeOK, Mem!TypeOK
  <2>5. Pgm!FramesCounted => Mem!FramesCounted
    BY SameManager, SameCardinality DEF Pgm!FramesCounted, Mem!FramesCounted
  <2>6. Pgm!FrameInv => FramesApart
    BY SameManager DEF Pgm!FrameInv, FramesApart, Pgm!FramesExclusive,
                       Mem!FramesExclusive
  <2>7. QED
    BY <2>3, <2>4, <2>5, <2>6 DEF Pgm!Inv
<1>2. \A d \in Mem!Dirs : ~ mem.used[d]
  BY DEF Init, Mem!Init, Mem!InitialMem
<1>3. TypeOK
  <2>1. NoPcb \in Pcbs
    BY ProcessAssumption DEF NoPcb, Pcbs, States
  <2>2. QED
    BY <1>1, <2>1, ProcessAssumption DEF TypeOK, Init, Modes
<1>4. DirsMapped /\ DirsOwned /\ RunsInDir
  BY <1>2 DEF DirsMapped, DirsOwned, RunsInDir, Init
<1>5. Alone
  BY ProcessAssumption DEF Alone, Init, NoPcb, Slots
<1>6. QED
  BY <1>1, <1>3, <1>4, <1>5 DEF Inv

(* What the page manager guarantees is kept as long as it is not called.   *)
LEMMA ManagerKept ==
  ASSUME Inv, mem' = mem
  PROVE  /\ Mem!FramesCounted'
         /\ FramesApart'
         /\ DirsMapped'
BY SMTT(30) DEF Inv, Mem!FramesCounted, FramesApart, Mem!FramesExclusive, DirsMapped,
       Mem!FreeFrames

(* What the check before a process is created guarantees: a free frame and *)
(* a slot.                                                                 *)
LEMMA MayCreateFacts ==
  ASSUME Inv, NEW page \in EntryPages, NEW size \in Sizes, MayCreate(page, size)
  PROVE  /\ page < KernelPage
         /\ Mem!FreeFrames(mem) # {}
         /\ Mem!First(InactiveSlots) \in Slots
         /\ list[0].pid = 0 => Mem!First(InactiveSlots) = 0
<1>1. Mem!FreeFrames(mem) # {}
  <2>1. mem.free_count >= 1
    <3>1. mem.free_count \in Int
      BY ManagerFields DEF Inv, TypeOK, Mem!TypeOK
    <3>2. mem.free_count >= FramesNeeded(size)
      BY DEF MayCreate, EnoughMemory, Mem!AllocateCheck
    <3>3. QED
      BY <3>1, <3>2, NeedsFrame
  <2>2. mem.free_count = Cardinality(Mem!FreeFrames(mem))
    BY SameCardinality DEF Inv, Mem!FramesCounted
  <2>3. Cardinality({}) = 0
    BY FS_EmptySet
  <2>4. QED
    BY <2>1, <2>2, <2>3
<1>2. InactiveSlots \in SUBSET Nat /\ InactiveSlots \subseteq Slots
  BY DEF InactiveSlots, Slots
<1>3. Mem!First(InactiveSlots) \in InactiveSlots
  BY <1>2, FirstFound DEF MayCreate
<1>4. list[0].pid = 0 => 0 \in InactiveSlots
  BY ProcessAssumption DEF InactiveSlots, Slots
<1>5. list[0].pid = 0 => Mem!First(InactiveSlots) = 0
  BY <1>2, <1>4, FirstZero
<1>6. QED
  BY <1>1, <1>2, <1>3, <1>5 DEF MayCreate
(* Making a directory and giving it a frame keeps what the page manager    *)
(* guarantees, and no directory in use is touched.                         *)
LEMMA LoadedKept ==
  ASSUME Inv, NEW page \in EntryPages, NEW size \in Sizes,
         NEW g \in StackGarbage, MayCreate(page, size),
         Mem!UnusedDirs(mem) # {}, mem' = Loaded(page, g)
  PROVE  LET d == Mem!First(Mem!UnusedDirs(mem))
         IN  /\ d \in Mem!Dirs
             /\ ~ mem.used[d]
             /\ mem' \in Mem!Mems
             /\ mem'.used = [mem.used EXCEPT ![d] = TRUE]
             /\ Mem!FramesCounted'
             /\ FramesApart'
             /\ DirsMapped'
<1> DEFINE d == Mem!First(Mem!UnusedDirs(mem))
           i == Mem!First(Mem!FreeFrames(mem))
<1>1. mem \in Mem!Mems /\ page < KernelPage /\ Mem!FreeFrames(mem) # {}
  BY MayCreateFacts DEF Inv, TypeOK, Mem!TypeOK
<1> DEFINE r == Loaded(page, g)
<1>2. /\ d \in Mem!Dirs
      /\ ~ mem.used[d]
      /\ i \in Mem!Frames
      /\ ~ mem.frame_map[i]
      /\ r \in Mem!Mems
      /\ r.frame_map = [mem.frame_map EXCEPT ![i] = TRUE]
      /\ r.free_count = mem.free_count - 1
      /\ r.used = [mem.used EXCEPT ![d] = TRUE]
      /\ \A e \in Mem!AllDirs : e # d => r.table[e] = mem.table[e]
      /\ r.table[d][page] = Mem!UserEntry(i)
      /\ r.table[d][KernelPage].present
      /\ \A v \in Mem!Pages : v # page /\ v # KernelPage =>
           r.table[d][v] = Mem!NoEntry
  BY <1>1, LoadedFields, Zenon
<1>3. /\ d \in Mem!Dirs
      /\ ~ mem.used[d]
      /\ i \in Mem!Frames
      /\ ~ mem.frame_map[i]
      /\ mem' \in Mem!Mems
      /\ mem'.frame_map = [mem.frame_map EXCEPT ![i] = TRUE]
      /\ mem'.free_count = mem.free_count - 1
      /\ mem'.used = [mem.used EXCEPT ![d] = TRUE]
      /\ \A e \in Mem!AllDirs : e # d => mem'.table[e] = mem.table[e]
      /\ mem'.table[d][page] = Mem!UserEntry(i)
      /\ mem'.table[d][KernelPage].present
      /\ \A v \in Mem!Pages : v # page /\ v # KernelPage =>
           mem'.table[d][v] = Mem!NoEntry
  BY <1>2, Zenon
<1> HIDE DEF d, i
<1>4. /\ mem.frame_map \in [Mem!Frames -> BOOLEAN]
      /\ mem.free_count \in Int
      /\ mem.used \in [Mem!Dirs -> BOOLEAN]
      /\ mem.table \in [Mem!AllDirs -> [Mem!Pages -> Mem!Entries]]
  BY <1>1, ManagerFields
<1>5. Mem!FramesCounted'
  <2>1. Mem!FreeFrames(mem') = Mem!FreeFrames(mem) \ {i}
    BY <1>3, <1>4 DEF Mem!FreeFrames
  <2>2. IsFiniteSet(Mem!FreeFrames(mem))
    <3>1. IsFiniteSet(Mem!Frames)
      BY FS_Interval, ProcessAssumption DEF Mem!Frames
    <3>2. QED
      BY <3>1, FS_Subset DEF Mem!FreeFrames
  <2>3. i \in Mem!FreeFrames(mem)
    BY <1>3 DEF Mem!FreeFrames
  <2>4. Cardinality(Mem!FreeFrames(mem) \ {i}) = Cardinality(Mem!FreeFrames(mem)) - 1
    BY <2>2, <2>3, FS_RemoveElement
  <2>5. mem.free_count = Cardinality(Mem!FreeFrames(mem))
    BY SameCardinality DEF Inv, Mem!FramesCounted
  <2>6. mem'.free_count = Cardinality(Mem!FreeFrames(mem'))
    BY <1>3, <2>1, <2>4, <2>5, Zenon
  <2>7. QED
    BY <2>6, SameCardinality DEF Mem!FramesCounted
<1>6. FramesApart'
  <2> DEFINE User == EntryPages \cap 0 .. 767
  <2>0. /\ page \in User
        /\ User \subseteq Mem!Pages
        /\ KernelPage \notin User
        /\ ~ Mem!NoEntry.present
        /\ Mem!UserEntry(i).frame = i
    BY <1>1, PageFacts DEF Mem!Pages, KernelPage, Mem!KernelPage, Mem!NoEntry,
                           Mem!UserEntry
  <2>1. \A e \in Mem!Dirs, v \in User : mem'.table[e][v].present =>
          \/ e = d /\ v = page /\ mem'.table[e][v].frame = i
          \/ e # d /\ mem'.table[e][v] = mem.table[e][v]
    BY <1>3, <2>0, PageFacts
  <2>2. \A e \in Mem!Dirs, v \in User : mem.table[e][v].present =>
          /\ mem.frame_map[mem.table[e][v].frame]
          /\ mem.table[e][v].frame # 0
          /\ mem.table[e][v].frame \in Mem!Frames
          /\ mem.table[e][v].frame # i
    <3>1. \A e \in Mem!Dirs, v \in User : mem.table[e][v].frame \in Mem!Frames
      <4>1. \A e \in Mem!AllDirs, v \in EntryPages \cap 0 .. 767 :
              mem.table[e][v].frame \in Mem!Frames
        BY <1>1, ManagerFields
      <4>2. Mem!Dirs \subseteq Mem!AllDirs
        BY PageFacts
      <4>3. QED
        BY <4>1, <4>2
    <3>2. \A e \in Mem!Dirs, v \in User : mem.table[e][v].present =>
            /\ mem.frame_map[mem.table[e][v].frame]
            /\ mem.table[e][v].frame # 0
      BY DEF Inv, FramesApart, Mem!FramesExclusive
    <3>3. QED
      BY <3>1, <3>2, <1>3
  <2>3. i # 0 /\ 0 \in Mem!Frames
    BY <1>3, ProcessAssumption DEF Inv, FramesApart, Mem!Frames
  <2>4. \A j \in Mem!Frames : mem'.frame_map[j] <=> (j = i \/ mem.frame_map[j])
    BY <1>3, <1>4
  <2>5. mem'.frame_map[0]
    BY <2>3, <2>4 DEF Inv, FramesApart
  <2>6. ASSUME NEW d1 \in Mem!Dirs, NEW d2 \in Mem!Dirs,
               NEW v1 \in User, NEW v2 \in User, mem'.table[d1][v1].present
        PROVE  /\ mem'.frame_map[mem'.table[d1][v1].frame]
               /\ mem'.table[d1][v1].frame # 0
               /\ mem'.table[d2][v2].present
                  /\ mem'.table[d1][v1].frame = mem'.table[d2][v2].frame
                  => d1 = d2 /\ v1 = v2
    <3>1. mem.table[d1][v1].present /\ mem.table[d2][v2].present
          /\ mem.table[d1][v1].frame = mem.table[d2][v2].frame
          => d1 = d2 /\ v1 = v2
      BY DEF Inv, FramesApart, Mem!FramesExclusive
    <3>2. CASE d1 = d /\ v1 = page /\ mem'.table[d1][v1].frame = i
      <4>1. i \in Mem!Frames
        BY <1>3
      <4>2. mem'.frame_map[mem'.table[d1][v1].frame]
            /\ mem'.table[d1][v1].frame # 0
        BY <3>2, <4>1, <2>3, <2>4
      <4>3. CASE d2 # d /\ mem'.table[d2][v2] = mem.table[d2][v2]
        BY <3>2, <4>2, <4>3, <2>2
      <4>4. CASE d2 = d /\ v2 = page
        BY <3>2, <4>2, <4>4
      <4>5. CASE ~ mem'.table[d2][v2].present
        BY <4>2, <4>5
      <4>6. QED
        BY <4>3, <4>4, <4>5, <2>1
    <3>3. CASE d1 # d /\ mem'.table[d1][v1] = mem.table[d1][v1]
      <4>1. mem.table[d1][v1].present
        BY <3>3, <2>6
      <4>2. /\ mem.frame_map[mem.table[d1][v1].frame]
            /\ mem.table[d1][v1].frame # 0
            /\ mem.table[d1][v1].frame \in Mem!Frames
            /\ mem.table[d1][v1].frame # i
        BY <4>1, <2>2
      <4>3. mem'.table[d2][v2].present
            /\ mem'.table[d1][v1].frame = mem'.table[d2][v2].frame
            => d2 # d /\ mem'.table[d2][v2] = mem.table[d2][v2]
        BY <3>3, <4>2, <2>1
      <4>4. QED
        BY <3>1, <3>3, <4>1, <4>2, <4>3, <2>4
    <3>4. QED
      BY <3>2, <3>3, <2>1, <2>6
  <2>7. Mem!FramesExclusive'
    BY <2>6 DEF Mem!FramesExclusive
  <2>8. QED
    BY <2>5, <2>7 DEF FramesApart
<1>7. DirsMapped'
  <2> SUFFICES ASSUME NEW e \in Mem!Dirs, mem'.used[e]
               PROVE  /\ mem'.table[e][KernelPage].present
                      /\ \E v \in EntryPages \ {KernelPage} :
                           mem'.table[e][v].present
    BY DEF DirsMapped
  <2>1. CASE e = d
    <3>1. page \in EntryPages \ {KernelPage}
      BY <1>1, PageFacts
    <3>2. mem'.table[e][page].present
      BY <2>1, <1>3 DEF Mem!UserEntry
    <3>3. QED
      BY <2>1, <1>3, <3>1, <3>2
  <2>2. CASE e # d
    <3>1. mem.used[e] /\ mem'.table[e] = mem.table[e]
      BY <2>2, <1>3, <1>4, PageFacts
    <3>2. QED
      BY <3>1 DEF Inv, DirsMapped
  <2>3. QED
    BY <2>1, <2>2
<1>8. QED
  BY <1>3, <1>5, <1>6, <1>7 DEF d
-----------------------------------------------------------------------------
(* The steps.                                                              *)

(* The fields of a block, and of one in which some are set.               *)
LEMMA BlockFields ==
  /\ NoPcb \in Pcbs
  /\ NoPcb.pid = 0
  /\ \A b \in Pcbs : b.pid \in Nat
BY ProcessAssumption DEF NoPcb, Pcbs, States

(* A block that is claimed.                                                *)
LEMMA BlockClaimed ==
  ASSUME NEW b \in Pcbs, NEW n \in Nat
  PROVE  LET c == [b EXCEPT !.pid = n, !.state = "READY"]
         IN  /\ c \in Pcbs
             /\ c.pid = n
             /\ c.dir = b.dir
BY DEF Pcbs, States

(* A block whose context and directory are set.                            *)
LEMMA BlockCreated ==
  ASSUME NEW b \in Pcbs, NEW d \in Mem!Dirs
  PROVE  LET c == [b EXCEPT !.regs = EntryRegs, !.dir = d]
         IN  /\ c \in Pcbs
             /\ c.pid = b.pid
             /\ c.dir = d
<1>1. d \in Mem!AllDirs /\ EntryRegs \in Regs
  BY PageFacts, ProcessAssumption
<1>2. QED
  BY <1>1 DEF Pcbs

(* A block into which a context is saved.                                  *)
LEMMA BlockSaved ==
  ASSUME NEW b \in Pcbs, NEW r \in Regs
  PROVE  LET c == [b EXCEPT !.state = "READY", !.regs = r]
         IN  /\ c \in Pcbs
             /\ c.pid = b.pid
             /\ c.dir = b.dir
             /\ c.regs = r
BY DEF Pcbs, States

(* A block that is made the running one.                                   *)
LEMMA BlockRunning ==
  ASSUME NEW b \in Pcbs
  PROVE  LET c == [b EXCEPT !.state = "RUNNING"]
         IN  /\ c \in Pcbs
             /\ c.pid = b.pid
             /\ c.dir = b.dir
             /\ c.state = "RUNNING"
BY DEF Pcbs, States

(* A block that was claimed keeps its registers and its directory.         *)
LEMMA ClaimedList ==
  ASSUME TypeOK, NEW s \in Slots
  PROVE  /\ Claimed(s) \in [Slots -> Pcbs]
         /\ Claimed(s)[s].pid = current_running_pid
         /\ \A t \in Slots : Claimed(s)[t].dir = list[t].dir
         /\ \A t \in Slots : t # s => Claimed(s)[t] = list[t]
<1> DEFINE c == [list[s] EXCEPT !.pid = current_running_pid, !.state = "READY"]
<1>1. list \in [Slots -> Pcbs] /\ current_running_pid \in Nat
  BY DEF TypeOK
<1>2. Claimed(s) = [list EXCEPT ![s] = c]
  BY <1>1 DEF Claimed
<1>3. c \in Pcbs /\ c.pid = current_running_pid /\ c.dir = list[s].dir
  <2>1. list[s] \in Pcbs
    BY <1>1
  <2>2. QED
    BY <1>1, <2>1, BlockClaimed
<1> HIDE DEF c
<1>4. QED
  BY <1>1, <1>2, <1>3

(* The block of a process that was created.                                *)
LEMMA CreatedList ==
  ASSUME TypeOK, NEW s \in Slots, NEW d \in Mem!Dirs
  PROVE  LET l == [Claimed(s) EXCEPT ![s].regs = EntryRegs, ![s].dir = d]
         IN  /\ l \in [Slots -> Pcbs]
             /\ l[s].pid = current_running_pid
             /\ l[s].dir = d
             /\ \A t \in Slots : t # s => l[t] = list[t]
<1> DEFINE k == Claimed(s)
           l == [k EXCEPT ![s].regs = EntryRegs, ![s].dir = d]
           c == [k[s] EXCEPT !.regs = EntryRegs, !.dir = d]
<1>1. /\ k \in [Slots -> Pcbs]
      /\ k[s].pid = current_running_pid
      /\ \A t \in Slots : t # s => k[t] = list[t]
  BY ClaimedList
<1> HIDE DEF k
<1>2. l = [k EXCEPT ![s] = c]
  BY <1>1
<1>3. c \in Pcbs /\ c.pid = current_running_pid /\ c.dir = d
  <2>1. k[s] \in Pcbs
    BY <1>1
  <2>2. QED
    BY <1>1, <2>1, BlockCreated
<1> HIDE DEF c
<1>4. /\ l \in [Slots -> Pcbs]
      /\ l[s] = c
      /\ \A t \in Slots : t # s => l[t] = list[t]
  BY <1>1, <1>2, <1>3
<1> HIDE DEF l
<1>5. QED
  BY <1>3, <1>4 DEF k, l

(* Saving the registers of the program changes neither a pid nor a         *)
(* directory, and a program that is alone is saved in its own block.       *)
LEMMA SavedList ==
  ASSUME TypeOK
  PROVE  /\ SaveContext \in [Slots -> Pcbs]
         /\ \A t \in Slots : /\ SaveContext[t].dir = list[t].dir
                             /\ SaveContext[t].pid = list[t].pid
         /\ 0 \in RunningSlots => SaveContext[0].regs = regs
<1>1. list \in [Slots -> Pcbs] /\ regs \in Regs
  BY DEF TypeOK
<1>2. RunningSlots \in SUBSET Nat /\ RunningSlots \subseteq Slots
  BY DEF RunningSlots, Slots
<1>3. CASE RunningSlots = {}
  BY <1>1, <1>3 DEF SaveContext
<1>4. CASE RunningSlots # {}
  <2> DEFINE s == Mem!First(RunningSlots)
             c == [list[s] EXCEPT !.state = "READY", !.regs = regs]
  <2>1. s \in Slots
    BY <1>2, <1>4, FirstFound
  <2>2. 0 \in RunningSlots => s = 0
    BY <1>2, FirstZero
  <2>3. SaveContext = [list EXCEPT ![s].state = "READY", ![s].regs = regs]
    BY <1>4 DEF SaveContext
  <2> HIDE DEF s
  <2>4. SaveContext = [list EXCEPT ![s] = c]
    BY <1>1, <2>1, <2>3
  <2>5. /\ c \in Pcbs /\ c.pid = list[s].pid /\ c.dir = list[s].dir
        /\ c.regs = regs
    <3>1. list[s] \in Pcbs
      BY <1>1, <2>1
    <3>2. QED
      BY <1>1, <3>1, BlockSaved
  <2> HIDE DEF c
  <2>6. QED
    BY <1>1, <2>1, <2>2, <2>4, <2>5
<1>5. QED
  BY <1>3, <1>4
(* The search of the scheduler ends at a slot that is occupied.            *)
LEMMA ChosenSlot ==
  ASSUME TypeOK, Distances # {}
  PROVE  NextSlot \in Slots /\ occupied[NextSlot]
<1>1. Distances \in SUBSET Nat
  BY DEF Distances
<1>2. Mem!First(Distances) \in Distances
  BY <1>1, FirstFound
<1>3. current_running_pid + Mem!First(Distances) \in Nat
  <2>1. Mem!First(Distances) \in Nat
    BY <1>1, <1>2
  <2>2. current_running_pid \in Nat
    BY DEF TypeOK
  <2>3. QED
    BY <2>1, <2>2
<1>4. NextSlot \in Slots
  BY <1>3, SlotFound DEF NextSlot
<1>5. occupied[NextSlot]
  BY <1>2 DEF Distances, NextSlot
<1>6. QED
  BY <1>4, <1>5

(* Switching to the next process, with a process list that has the same    *)
(* pids and directories.                                                   *)
LEMMA SwitchInv ==
  ASSUME Inv, mode \in {"start", "user"},
         NEW l \in [Slots -> Pcbs],
         \A t \in Slots : l[t].dir = list[t].dir /\ l[t].pid = list[t].pid,
         SwitchToNext(l),
         UNCHANGED <<mem, occupied, active_process_count, boundVars>>
  PROVE  Inv'
<1>0. /\ TypeOK
      /\ occupied \in [Slots -> BOOLEAN]
      /\ 0 \in Slots
  BY ProcessAssumption DEF Inv, TypeOK, Slots
<1>1. Mem!FramesCounted' /\ FramesApart' /\ DirsMapped'
  BY ManagerKept
<1>2. CASE Distances # {}
  <2> DEFINE n == NextSlot
             c == [l[n] EXCEPT !.state = "RUNNING"]
  <2>1. n \in Slots /\ occupied[n]
    BY <1>0, <1>2, ChosenSlot
  <2>2. /\ list' = [l EXCEPT ![n].state = "RUNNING"]
        /\ current_running_pid' = n
        /\ cr3' = l[n].dir
        /\ tlb' = [v \in Mem!Pages |-> Mem!NoEntry]
        /\ regs' = l[n].regs
        /\ mode' = "user"
    BY <1>2 DEF SwitchToNext, Resume
  <2> HIDE DEF n
  <2>3. list' = [l EXCEPT ![n] = c]
    BY <2>1, <2>2
  <2>4. /\ c \in Pcbs
        /\ c.pid = l[n].pid
        /\ c.dir = l[n].dir
        /\ c.state = "RUNNING"
    BY <2>1, BlockRunning
  <2> HIDE DEF c
  <2>5. /\ list' \in [Slots -> Pcbs]
        /\ \A t \in Slots : list'[t].dir = list[t].dir /\ list'[t].pid = list[t].pid
        /\ list'[n].state = "RUNNING"
    BY <2>1, <2>3, <2>4
  <2>6. cr3' = list[n].dir /\ cr3' \in Mem!Dirs /\ mem.used[cr3']
    BY <2>1, <2>2 DEF Inv, DirsOwned
  <2>7. TypeOK'
    <3>1. cr3' \in Mem!AllDirs
      BY <2>6, PageFacts
    <3>2. tlb' \in [Mem!Pages -> Mem!Entries]
      BY <2>2, ProcessAssumption DEF Mem!NoEntry, Mem!Entries, Mem!FrameNumbers
    <3>3. Mem!TypeOK'
      BY <1>0, <3>1, <3>2 DEF TypeOK, Mem!TypeOK
    <3>4. regs' \in Regs
      BY <2>1, <2>2 DEF Pcbs
    <3>5. current_running_pid' \in Nat
      BY <2>1, <2>2 DEF Slots
    <3>6. QED
      BY <1>0, <2>2, <2>5, <3>3, <3>4, <3>5 DEF TypeOK, Modes, boundVars
  <2>8. DirsOwned'
    BY <2>5 DEF Inv, DirsOwned
  <2>9. RunsInDir'
    BY <2>6 DEF RunsInDir
  <2>10. Alone'
    <3>1. mode' # "setup" /\ creates' # 0
      BY <2>2 DEF Inv, Alone, boundVars
    <3>2. ASSUME creates' <= 1
          PROVE  /\ \A s \in Slots : occupied'[s] => s = 0
                 /\ list'[0].pid = 0
                 /\ current_running_pid' = 0
                 /\ occupied'[0]
                 /\ list'[0].dir = cr3' /\ list'[0].state = "RUNNING"
      <4>1. /\ \A s \in Slots : occupied[s] => s = 0
            /\ list[0].pid = 0
        BY <3>2 DEF Inv, Alone, boundVars
      <4>2. n = 0
        BY <2>1, <4>1
      <4>3. QED
        BY <1>0, <4>1, <4>2, <2>1, <2>2, <2>5, <2>6
    <3>3. QED
      BY <3>1, <3>2 DEF Alone
  <2>11. QED
    BY <1>1, <2>7, <2>8, <2>9, <2>10 DEF Inv
<1>3. CASE Distances = {}
  <2>1. /\ mode' = "stuck"
        /\ list' = l
        /\ UNCHANGED <<current_running_pid, cr3, tlb, regs>>
    BY <1>3 DEF SwitchToNext
  <2>2. TypeOK'
    BY <1>0, <2>1 DEF TypeOK, Mem!TypeOK, Modes, boundVars
  <2>3. DirsOwned'
    BY <2>1 DEF Inv, DirsOwned
  <2>4. RunsInDir'
    BY <2>1 DEF RunsInDir
  <2>5. Alone'
    BY <1>0, <2>1 DEF Inv, Alone, boundVars
  <2>6. QED
    BY <1>1, <2>2, <2>3, <2>4, <2>5 DEF Inv
<1>4. QED
  BY <1>2, <1>3

(* The end of kernel_setup().                                              *)
LEMMA StartInv == ASSUME Inv, Start PROVE Inv'
<1>1. list \in [Slots -> Pcbs]
  BY DEF Inv, TypeOK
<1>2. QED
  BY <1>1, SwitchInv DEF Start

(* The timer interrupt.                                                    *)
LEMMA TimerInv == ASSUME Inv, Timer PROVE Inv'
<1>1. /\ SaveContext \in [Slots -> Pcbs]
      /\ \A t \in Slots : /\ SaveContext[t].dir = list[t].dir
                          /\ SaveContext[t].pid = list[t].pid
  BY SavedList DEF Inv
<1>2. QED
  BY <1>1, SwitchInv DEF Timer

(* The user program goes on.                                               *)
LEMMA UserStepInv == ASSUME Inv, NEW r \in Regs, UserStep(r) PROVE Inv'
<1> USE DEF UserStep, pageVars, tableVars, boundVars
<1>1. Mem!FramesCounted' /\ FramesApart' /\ DirsMapped'
  BY ManagerKept
<1>2. TypeOK'
  BY DEF Inv, TypeOK, Mem!TypeOK
<1>3. DirsOwned' /\ RunsInDir' /\ Alone'
  BY DEF Inv, DirsOwned, RunsInDir, Alone
<1>4. QED
  BY <1>1, <1>2, <1>3 DEF Inv

(* Ending a process: its slot becomes free, and its directory stays.       *)
LEMMA TerminateInv == ASSUME Inv, Terminate PROVE Inv'
<1> USE DEF pageVars
<1>0. /\ TypeOK
      /\ mode = "user"
      /\ destroys < MaxDestroys
      /\ destroys' = destroys + 1
      /\ UNCHANGED <<mem, cr3, tlb, current_running_pid, mode, regs, creates>>
  BY DEF Inv, Terminate
<1>1. Mem!FramesCounted' /\ FramesApart' /\ DirsMapped'
  BY <1>0, ManagerKept
<1>2. RunsInDir'
  BY <1>0 DEF Inv, RunsInDir
<1>3. destroys' \in 0 .. MaxDestroys /\ destroys' # 0
  BY <1>0, ProcessAssumption DEF TypeOK
<1>4. CASE Matching(current_running_pid) # {}
  <2> DEFINE s == Mem!First(Matching(current_running_pid))
  <2>1. s \in Slots
    <3>1. Matching(current_running_pid) \in SUBSET Nat
      BY DEF Matching, Slots
    <3>2. s \in Matching(current_running_pid)
      BY <1>4, <3>1, FirstFound
    <3>3. QED
      BY <3>2 DEF Matching
  <2>2. /\ list' = [list EXCEPT ![s] = NoPcb]
        /\ occupied' = [occupied EXCEPT ![s] = FALSE]
        /\ active_process_count' = active_process_count - 1
    BY <1>4 DEF Terminate, Destroy
  <2> HIDE DEF s
  <2>3. /\ list' \in [Slots -> Pcbs]
        /\ occupied' \in [Slots -> BOOLEAN]
        /\ \A t \in Slots : occupied'[t] => occupied[t] /\ list'[t] = list[t]
        /\ \A t \in Slots : list'[t] = list[t] \/ list'[t] = NoPcb
    BY <1>0, <2>1, <2>2, BlockFields DEF TypeOK
  <2>4. TypeOK'
    <3>1. active_process_count' \in Int
      BY <1>0, <2>2 DEF TypeOK
    <3>2. QED
      BY <1>0, <1>3, <2>3, <3>1 DEF TypeOK, Mem!TypeOK
  <2>5. DirsOwned'
    BY <1>0, <2>3 DEF Inv, DirsOwned
  <2>6. Alone'
    <3>1. 0 \in Slots
      BY ProcessAssumption DEF Slots
    <3>2. creates <= 1 => list'[0].pid = 0
      BY <3>1, <2>3, BlockFields DEF Inv, Alone
    <3>3. QED
      BY <1>0, <1>3, <2>3, <3>1, <3>2 DEF Inv, Alone
  <2>7. QED
    BY <1>1, <1>2, <2>4, <2>5, <2>6 DEF Inv
<1>5. CASE Matching(current_running_pid) = {}
  <2>1. UNCHANGED <<list, occupied, active_process_count>>
    BY <1>5 DEF Terminate
  <2>2. TypeOK'
    BY <1>0, <1>3, <2>1 DEF TypeOK, Mem!TypeOK
  <2>3. DirsOwned' /\ Alone'
    BY <1>0, <1>3, <2>1 DEF Inv, DirsOwned, Alone
  <2>4. QED
    BY <1>1, <1>2, <2>2, <2>3 DEF Inv
<1>6. QED
  BY <1>4, <1>5
(* Creating a process.  The slot that is claimed may be one that is        *)
(* occupied, because the process in slot 0 has the pid 0: its block then   *)
(* gets the new directory, which is none of the others'.                   *)
LEMMA CreateInv ==
  ASSUME Inv, NEW page \in EntryPages, NEW size \in Sizes,
         NEW g \in StackGarbage, Create(page, size, g)
  PROVE  Inv'
<1> DEFINE s == Mem!First(InactiveSlots)
           d == Mem!First(Mem!UnusedDirs(mem))
<1>0. /\ TypeOK
      /\ mode \in {"setup", "user"}
      /\ creates < MaxCreates
      /\ creates' = creates + 1
      /\ mode' = IF mode = "setup" THEN "start" ELSE mode
      /\ UNCHANGED <<regs, destroys>>
      /\ creates \in Nat
      /\ 0 \in Slots
  BY ProcessAssumption DEF Inv, TypeOK, Create, Slots
<1>1. /\ creates' \in 0 .. MaxCreates
      /\ creates' # 0
      /\ mode' \in Modes
      /\ mode' # "setup"
      /\ mode' = "user" => mode = "user" /\ creates # 0
  BY <1>0, ProcessAssumption DEF TypeOK, Modes, Inv, Alone
<1>2. creates' <= 1 => mode = "setup" /\ mode' = "start" /\ creates = 0
  BY <1>0 DEF Inv, Alone
<1>3. CASE CreateRefused(page, size)
  <2>1. UNCHANGED <<mem, cr3, tlb, list, occupied, active_process_count,
                    current_running_pid>>
    BY <1>3 DEF CreateRefused, pageVars, tableVars
  <2>2. TypeOK'
    BY <1>0, <1>1, <2>1 DEF TypeOK, Mem!TypeOK
  <2>3. Mem!FramesCounted' /\ FramesApart' /\ DirsMapped'
    BY <2>1, ManagerKept
  <2>4. DirsOwned' /\ RunsInDir'
    BY <1>1, <2>1 DEF Inv, DirsOwned, RunsInDir
  <2>5. Alone'
    BY <1>0, <1>1, <1>2, <2>1 DEF Inv, Alone
  <2>6. QED
    BY <2>2, <2>3, <2>4, <2>5 DEF Inv
<1>4. CASE CreateNoDirectory(page, size)
  <2>1. /\ MayCreate(page, size)
        /\ list' = Claimed(s)
        /\ UNCHANGED <<mem, cr3, tlb, occupied, active_process_count,
                       current_running_pid>>
    BY <1>4 DEF CreateNoDirectory, pageVars
  <2>2. s \in Slots /\ (list[0].pid = 0 => s = 0)
    BY <2>1, MayCreateFacts
  <2> HIDE DEF s
  <2>3. /\ list' \in [Slots -> Pcbs]
        /\ list'[s].pid = current_running_pid
        /\ \A t \in Slots : list'[t].dir = list[t].dir
    BY <1>0, <2>1, <2>2, ClaimedList
  <2>4. TypeOK'
    BY <1>0, <1>1, <2>1, <2>3 DEF TypeOK, Mem!TypeOK
  <2>5. Mem!FramesCounted' /\ FramesApart' /\ DirsMapped'
    BY <2>1, ManagerKept
  <2>6. DirsOwned' /\ RunsInDir'
    BY <1>1, <2>1, <2>3 DEF Inv, DirsOwned, RunsInDir
  <2>7. Alone'
    BY <1>0, <1>1, <1>2, <2>1, <2>2, <2>3 DEF Inv, Alone
  <2>8. QED
    BY <2>4, <2>5, <2>6, <2>7 DEF Inv
<1>5. CASE CreateReadFails(page, size, g)
  <2>1. /\ MayCreate(page, size)
        /\ Mem!UnusedDirs(mem) # {}
        /\ list' = Claimed(s)
        /\ mem' = Loaded(page, g)
        /\ cr3' = d
        /\ tlb' = [v \in Mem!Pages |-> Mem!NoEntry]
        /\ UNCHANGED <<occupied, active_process_count, current_running_pid>>
    BY <1>5 DEF CreateReadFails
  <2>2. s \in Slots /\ (list[0].pid = 0 => s = 0)
    BY <2>1, MayCreateFacts
  <2>3. /\ d \in Mem!Dirs
        /\ ~ mem.used[d]
        /\ mem' \in Mem!Mems
        /\ mem'.used = [mem.used EXCEPT ![d] = TRUE]
        /\ Mem!FramesCounted' /\ FramesApart' /\ DirsMapped'
    BY <2>1, LoadedKept
  <2> HIDE DEF s, d
  <2>4. /\ list' \in [Slots -> Pcbs]
        /\ list'[s].pid = current_running_pid
        /\ \A t \in Slots : list'[t].dir = list[t].dir
    BY <1>0, <2>1, <2>2, ClaimedList
  <2>5. \A e \in Mem!Dirs : mem.used[e] \/ e = d => mem'.used[e]
    BY <2>3, <1>0, ManagerFields DEF TypeOK, Mem!TypeOK
  <2>6. TypeOK'
    <3>1. tlb' \in [Mem!Pages -> Mem!Entries]
      BY <2>1, ProcessAssumption DEF Mem!NoEntry, Mem!Entries, Mem!FrameNumbers
    <3>2. Mem!TypeOK'
      BY <2>1, <2>3, <3>1, PageFacts DEF Mem!TypeOK
    <3>3. QED
      BY <1>0, <1>1, <2>1, <2>4, <3>2 DEF TypeOK
  <2>7. DirsOwned'
    BY <2>1, <2>4, <2>5 DEF Inv, DirsOwned
  <2>8. RunsInDir'
    BY <2>1, <2>3, <2>5 DEF RunsInDir
  <2>9. Alone'
    BY <1>0, <1>1, <1>2, <2>1, <2>2, <2>4 DEF Inv, Alone
  <2>10. QED
    BY <2>3, <2>6, <2>7, <2>8, <2>9 DEF Inv
<1>6. CASE CreateSucceeds(page, size, g)
  <2>1. /\ MayCreate(page, size)
        /\ Mem!UnusedDirs(mem) # {}
        /\ list' = [Claimed(s) EXCEPT ![s].regs = EntryRegs, ![s].dir = d]
        /\ occupied' = [occupied EXCEPT ![s] = TRUE]
        /\ mem' = Loaded(page, g)
        /\ tlb' = [v \in Mem!Pages |-> Mem!NoEntry]
        /\ active_process_count' = active_process_count + 1
        /\ current_running_pid' = current_running_pid + 1
        /\ UNCHANGED cr3
    BY <1>6 DEF CreateSucceeds
  <2>2. s \in Slots /\ (list[0].pid = 0 => s = 0)
    BY <2>1, MayCreateFacts
  <2>3. /\ d \in Mem!Dirs
        /\ ~ mem.used[d]
        /\ mem' \in Mem!Mems
        /\ mem'.used = [mem.used EXCEPT ![d] = TRUE]
        /\ Mem!FramesCounted' /\ FramesApart' /\ DirsMapped'
    BY <2>1, LoadedKept
  <2> HIDE DEF s, d
  <2>4. /\ list' \in [Slots -> Pcbs]
        /\ list'[s].pid = current_running_pid
        /\ list'[s].dir = d
        /\ \A t \in Slots : t # s => list'[t] = list[t]
    BY <1>0, <2>1, <2>2, <2>3, CreatedList
  <2>5. \A e \in Mem!Dirs : mem.used[e] \/ e = d => mem'.used[e]
    BY <2>3, <1>0, ManagerFields DEF TypeOK, Mem!TypeOK
  <2>6. TypeOK'
    <3>1. tlb' \in [Mem!Pages -> Mem!Entries]
      BY <2>1, ProcessAssumption DEF Mem!NoEntry, Mem!Entries, Mem!FrameNumbers
    <3>2. Mem!TypeOK'
      BY <1>0, <2>1, <2>3, <3>1 DEF Mem!TypeOK, TypeOK
    <3>3. occupied' \in [Slots -> BOOLEAN]
      BY <1>0, <2>1 DEF TypeOK
    <3>4. active_process_count' \in Int /\ current_running_pid' \in Nat
      BY <1>0, <2>1 DEF TypeOK
    <3>5. QED
      BY <1>0, <1>1, <2>4, <3>2, <3>3, <3>4 DEF TypeOK
  <2>7. \A t \in Slots : occupied'[t] <=> (t = s \/ occupied[t])
    BY <1>0, <2>1, <2>2 DEF TypeOK
  <2>8. DirsOwned'
    <3> SUFFICES ASSUME NEW t \in Slots, occupied'[t]
                 PROVE  /\ list'[t].dir \in Mem!Dirs
                        /\ mem'.used[list'[t].dir]
                        /\ \A u \in Slots :
                             occupied'[u] /\ list'[u].dir = list'[t].dir => u = t
      BY DEF DirsOwned
    <3>1. \A u \in Slots : u # s /\ occupied'[u] =>
            /\ list'[u] = list[u]
            /\ list[u].dir \in Mem!Dirs
            /\ mem.used[list[u].dir]
            /\ list[u].dir # d
      BY <2>3, <2>4, <2>7 DEF Inv, DirsOwned
    <3>2. CASE t = s
      BY <3>1, <3>2, <2>3, <2>4, <2>5
    <3>3. CASE t # s
      <4>1. /\ list'[t] = list[t]
            /\ list[t].dir \in Mem!Dirs
            /\ mem'.used[list[t].dir]
            /\ list[t].dir # d
            /\ occupied[t]
        BY <3>1, <3>3, <2>5, <2>7
      <4>2. \A u \in Slots : u # s /\ occupied'[u] /\ list[u].dir = list[t].dir
              => u = t
        BY <4>1, <2>7 DEF Inv, DirsOwned
      <4>3. QED
        BY <4>1, <4>2, <3>1, <2>4
    <3>4. QED
      BY <3>2, <3>3
  <2>9. RunsInDir'
    BY <1>1, <2>1, <2>5 DEF Inv, RunsInDir
  <2>10. Alone'
    <3>1. ASSUME creates' <= 1
          PROVE  /\ \A t \in Slots : occupied'[t] => t = 0
                 /\ list'[0].pid = 0
      <4>1. /\ \A t \in Slots : occupied[t] => t = 0
            /\ list[0].pid = 0
            /\ current_running_pid = 0
        BY <3>1, <1>0, <1>2 DEF Inv, Alone
      <4>2. s = 0
        BY <4>1, <2>2
      <4>3. QED
        BY <4>1, <4>2, <2>4, <2>7
    <3>2. QED
      BY <1>1, <1>2, <3>1 DEF Alone
  <2>11. QED
    BY <2>3, <2>6, <2>8, <2>9, <2>10 DEF Inv
<1>7. QED
  BY <1>3, <1>4, <1>5, <1>6 DEF Create

(* Every step keeps the invariant.                                         *)
LEMMA StepInv == Inv /\ [Next]_vars => Inv'
<1> SUFFICES ASSUME Inv, [Next]_vars PROVE Inv'
  OBVIOUS
<1>1. ASSUME NEW page \in EntryPages, NEW size \in Sizes,
             NEW g \in StackGarbage, Create(page, size, g)
      PROVE  Inv'
  BY <1>1, CreateInv
<1>2. CASE Start
  BY <1>2, StartInv
<1>3. CASE Timer
  BY <1>3, TimerInv
<1>4. ASSUME NEW r \in Regs, UserStep(r) PROVE Inv'
  BY <1>4, UserStepInv
<1>5. CASE Terminate
  BY <1>5, TerminateInv
<1>6. CASE UNCHANGED vars
  <2> USE <1>6 DEF vars, pageVars, tableVars, boundVars
  <2>1. Mem!FramesCounted' /\ FramesApart' /\ DirsMapped'
    BY ManagerKept
  <2>2. TypeOK'
    BY DEF Inv, TypeOK, Mem!TypeOK
  <2>3. DirsOwned' /\ RunsInDir' /\ Alone'
    BY DEF Inv, DirsOwned, RunsInDir, Alone
  <2>4. QED
    BY <2>1, <2>2, <2>3 DEF Inv
<1>7. QED
  BY <1>1, <1>2, <1>3, <1>4, <1>5, <1>6 DEF Next, Spin

-----------------------------------------------------------------------------
(* The theorems.                                                           *)

(* Every reachable state satisfies the invariant.                          *)
THEOREM ProcessInvariant == Spec => []Inv
BY InitInv, StepInv, PTL DEF Spec

(* Every variable of the process table, the scheduler and the page manager *)
(* always holds a value of its kind: no index runs out of a table.         *)
THEOREM ProcessTypes == Spec => []TypeOK
<1>1. Inv => TypeOK
  BY DEF Inv
<1>2. QED
  BY <1>1, ProcessInvariant, PTL

(* Each process that the scheduler may choose owns a directory with memory *)
(* in it, whatever process_create_user_process() and process_destroy()     *)
(* were called for before.                                                 *)
THEOREM SpacesCorrect == Spec => []SpacesOwned
<1>1. Inv => SpacesOwned
  BY DEF Inv, DirsOwned, DirsMapped, SpacesOwned
<1>2. QED
  BY <1>1, ProcessInvariant, PTL

(* The processor runs user code only in a directory that is in use and     *)
(* maps the kernel and user memory, also after the process has ended.      *)
THEOREM MappedCorrect == Spec => []RunsInMappedSpace
<1>1. Inv => RunsInMappedSpace
  BY DEF Inv, RunsInDir, DirsMapped, RunsInMappedSpace
<1>2. QED
  BY <1>1, ProcessInvariant, PTL

(* The shell, alone in the system, runs in its own directory and is saved  *)
(* to its own block.                                                       *)
THEOREM OwnSpaceCorrect == Spec => []RunsInOwnSpace
<1>1. Inv => RunsInOwnSpace
  <2> SUFFICES ASSUME Inv, mode = "user", creates = 1, destroys = 0
               PROVE  /\ RunningSlots # {}
                      /\ list[Mem!First(RunningSlots)].dir = cr3
                      /\ list[Mem!First(RunningSlots)].state = "RUNNING"
    BY DEF RunsInOwnSpace
  <2>1. /\ occupied[0] /\ list[0].pid = 0 /\ current_running_pid = 0
        /\ list[0].dir = cr3 /\ list[0].state = "RUNNING"
    BY DEF Inv, Alone
  <2>2. 0 \in RunningSlots /\ RunningSlots \in SUBSET Nat
    BY <2>1, ProcessAssumption DEF RunningSlots, Slots
  <2>3. Mem!First(RunningSlots) = 0
    BY <2>2, FirstZero
  <2>4. QED
    BY <2>1, <2>2, <2>3
<1>2. QED
  BY <1>1, ProcessInvariant, PTL

(* The memory of processes stays apart while they are created, switched    *)
(* and ended: no frame is mapped at two user pages.                        *)
THEOREM MemoryApart == Spec => []Mem!FramesExclusive
<1>1. Inv => Mem!FramesExclusive
  BY DEF Inv, FramesApart
<1>2. QED
  BY <1>1, ProcessInvariant, PTL

(* A timer interrupt gives a program that is alone its registers and its   *)
(* directory back: what the interrupt saves in the block that it finds is  *)
(* what the scheduler restores from the slot that it chooses.              *)
THEOREM TimerCorrect == Spec => TimerInvisible
<1>1. Inv /\ [Next]_vars
      => [Timer /\ mode' = "user" /\ creates = 1 => regs' = regs /\ cr3' = cr3]_vars
  <2> SUFFICES ASSUME Inv, Timer, mode' = "user", creates = 1
               PROVE  regs' = regs /\ cr3' = cr3
    OBVIOUS
  <2>1. Distances # {} /\ mode = "user"
    BY DEF Timer, SwitchToNext
  <2>2. NextSlot \in Slots /\ occupied[NextSlot]
    BY <2>1, ChosenSlot DEF Inv
  <2>3. NextSlot = 0
    BY <2>2 DEF Inv, Alone
  <2>4. /\ occupied[0] /\ list[0].pid = 0 /\ current_running_pid = 0
        /\ list[0].dir = cr3
    BY <2>1, <2>2, <2>3 DEF Inv, Alone
  <2>5. 0 \in RunningSlots /\ 0 \in Slots
    BY <2>4, ProcessAssumption DEF RunningSlots, Slots
  <2>6. SaveContext[0].regs = regs /\ SaveContext[0].dir = cr3
    BY <2>4, <2>5, SavedList DEF Inv
  <2>7. cr3' = SaveContext[0].dir /\ regs' = SaveContext[0].regs
    BY <2>1, <2>3 DEF Timer, SwitchToNext, Resume
  <2>8. QED
    BY <2>6, <2>7
<1>2. QED
  BY <1>1, ProcessInvariant, PTL DEF Spec, TimerInvisible
=============================================================================
