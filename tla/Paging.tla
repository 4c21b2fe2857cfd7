------------------------------- MODULE Paging -------------------------------
(***************************************************************************)
(* The page manager of src/src/paging.c: which physical frames are taken,  *)
(* what the page directories map, the directory in CR3, and the            *)
(* translations that the processor has cached.  The operators on mem are   *)
(* the functions of the file; module Process puts them together.  The      *)
(* specification here lets a client call them in any order, with a         *)
(* directory it was given and the address of a user page.                  *)
(*                                                                         *)
(* An address is the index of its 4 MiB page: virtual_addr >> 22.  Of the  *)
(* other bits of an entry, write and page size are always set together     *)
(* with present, and paging.c never looks at the rest.                     *)
(***************************************************************************)
EXTENDS Integers, FiniteSets

CONSTANTS
  FrameCount,       \* PAGE_FRAME_MAX_COUNT (32)
  DirectoryCount,   \* PAGING_DIRECTORY_TABLE_MAX_COUNT (32)
  UserPages,        \* the user pages that clients ask for
  StackGarbage      \* what an uninitialised entry may hold in its frame
                    \* number and user bit: they are whatever is on the stack

KernelPage   == 768        \* 0x300, where 0xC0000000 is mapped
FrameNumbers == 0 .. 1023  \* the 10 bits of lower_address

ASSUME PagingAssumption ==
  /\ FrameCount \in 1 .. 1024
  /\ DirectoryCount \in Nat
  /\ UserPages \subseteq 0 .. KernelPage - 1
  /\ StackGarbage \subseteq [frame : FrameNumbers, user : BOOLEAN]

Frames == 0 .. FrameCount - 1
Dirs   == 0 .. DirectoryCount - 1
Pages  == UserPages \cup {KernelPage}

(* _paging_kernel_page_directory, which is not in page_directory_list.     *)
KernelDir == DirectoryCount
AllDirs   == Dirs \cup {KernelDir}

Entries == [present : BOOLEAN, user : BOOLEAN, frame : FrameNumbers]
NoEntry == [present |-> FALSE, user |-> FALSE, frame |-> 0]

(* Mutated form: the physical address of the frame after it.               *)
UserEntryNext(i) == [present |-> TRUE, user |-> TRUE, frame |-> i + 1]

(* What update_page_directory_entry() makes of frame i and the user flags. *)
UserEntry(i) == [present |-> TRUE, user |-> TRUE, frame |-> i]

(* The kernel's frame, for the kernel only.                                *)
SupervisorEntry == [present |-> TRUE, user |-> FALSE, frame |-> 0]

(* The page directories: at a user page there is a frame of the machine.   *)
(* The kernel's page of a new directory has the number that the stack held.*)
Tables == {t \in [AllDirs -> [Pages -> Entries]] :
             \A d \in AllDirs, v \in UserPages : t[d][v].frame \in Frames}

Mems == [frame_map  : [Frames -> BOOLEAN],      \* page_frame_map
         free_count : Int,                      \* free_page_frame_count
         used       : [Dirs -> BOOLEAN],        \* page_directory_used
         table      : Tables]

VARIABLES
  mem,      \* the page manager and all directories
  cr3,      \* the directory in use
  tlb       \* the cached translations; NoEntry where there is none

memory == <<mem, cr3, tlb>>

(* page_manager_state and the directories when kernel_setup() begins:      *)
(* frame 0 is the kernel's, and its identity mapping is removed.           *)
InitialMem ==
  [frame_map  |-> [i \in Frames |-> i = 0],
   free_count |-> FrameCount - 1,
   used       |-> [d \in Dirs |-> FALSE],
   table      |-> [d \in AllDirs |-> [v \in Pages |->
                     IF d = KernelDir /\ v = KernelPage
                       THEN SupervisorEntry ELSE NoEntry]]]

Init ==
  /\ mem = InitialMem
  /\ cr3 = KernelDir
  /\ tlb = [v \in Pages |-> NoEntry]

-----------------------------------------------------------------------------
(* The functions.                                                          *)

(* The first index that a search loop finds.                               *)
First(S) == CHOOSE i \in S : \A j \in S : i <= j

FreeFrames(m)  == {i \in Frames : ~ m.frame_map[i]}
UnusedDirs(m)  == {d \in Dirs : ~ m.used[d]}

(* paging_allocate_check()                                                 *)
AllocateCheck(m, amount) == m.free_count >= amount

(* Mutated form: the frame is not counted.                                 *)
AllocateUncounted(m, d, v) ==
  IF FreeFrames(m) = {} THEN m
  ELSE LET i == First(FreeFrames(m))
       IN  [m EXCEPT !.frame_map[i] = TRUE, !.table[d][v] = UserEntry(i)]

(* paging_allocate_user_page_frame(): nothing changes, and false is        *)
(* returned, when there is no frame.  An entry that was there is lost.     *)
Allocate(m, d, v) ==
  IF FreeFrames(m) = {} THEN m
  ELSE LET i == First(FreeFrames(m))
       IN  [m EXCEPT !.frame_map[i] = TRUE,
                     !.free_count = @ - 1,
                     !.table[d][v] = UserEntry(i)]

(* Mutated form: an entry that is not present is freed as well.            *)
FreeUnchecked(m, d, v) ==
  [m EXCEPT !.frame_map[m.table[d][v].frame] = FALSE,
            !.free_count = @ + 1,
            !.table[d][v] = NoEntry]

(* paging_free_user_page_frame()                                           *)
Free(m, d, v) ==
  IF ~ m.table[d][v].present THEN m
  ELSE [m EXCEPT !.frame_map[m.table[d][v].frame] = FALSE,
                 !.free_count = @ + 1,
                 !.table[d][v] = NoEntry]

(* paging_create_new_page_directory(), when a directory is unused: three   *)
(* flags of the kernel's entry are set, and all else in it is what the     *)
(* stack held, the frame number and the user bit included.                 *)
CreateDirectory(m, g) ==
  LET d == First(UnusedDirs(m))
  IN  [m EXCEPT
         !.used[d] = TRUE,
         !.table[d] = [v \in Pages |->
            IF v = KernelPage
              THEN [present |-> TRUE, user |-> g.user, frame |-> g.frame]
              ELSE NoEntry]]

(* paging_free_page_directory()                                            *)
FreeDirectory(m, d) ==
  [m EXCEPT !.used[d] = FALSE, !.table[d] = [v \in Pages |-> NoEntry]]

-----------------------------------------------------------------------------
(* The steps of a client and of the processor.                             *)

(* Mutated form: the cached translation stays.                             *)
FlushNothing(v) == tlb

(* flush_single_tlb() ...                                                  *)
Flush(v) == [tlb EXCEPT ![v] = NoEntry]

(* ... which update_page_directory_entry() calls whenever it is called.    *)
AllocateFrame(d, v) ==
  /\ mem' = Allocate(mem, d, v)
  /\ tlb' = IF FreeFrames(mem) = {} THEN tlb ELSE Flush(v)
  /\ UNCHANGED cr3

FreeFrame(d, v) ==
  /\ mem' = Free(mem, d, v)
  /\ tlb' = IF mem.table[d][v].present THEN Flush(v) ELSE tlb
  /\ UNCHANGED cr3

NewDirectory(g) ==
  /\ UnusedDirs(mem) # {}
  /\ mem' = CreateDirectory(mem, g)
  /\ UNCHANGED <<cr3, tlb>>

(* No client frees the directory it runs in.                               *)
ReleaseDirectory(d) ==
  /\ d # cr3
  /\ mem' = FreeDirectory(mem, d)
  /\ UNCHANGED <<cr3, tlb>>

(* paging_use_page_directory(): loading CR3 drops all translations.        *)
UseDirectory(d) ==
  /\ cr3' = d
  /\ tlb' = [v \in Pages |-> NoEntry]
  /\ UNCHANGED mem

(* The processor may cache a translation whenever it likes.                *)
Translate(v) ==
  /\ mem.table[cr3][v].present
  /\ tlb' = [tlb EXCEPT ![v] = mem.table[cr3][v]]
  /\ UNCHANGED <<mem, cr3>>

Next ==
  \/ \E g \in StackGarbage : NewDirectory(g)
  \/ \E d \in Dirs :
       /\ mem.used[d]
       /\ \/ ReleaseDirectory(d)
          \/ UseDirectory(d)
          \/ \E v \in UserPages : AllocateFrame(d, v) \/ FreeFrame(d, v)
  \/ UseDirectory(KernelDir)
  \/ \E v \in Pages : Translate(v)

Spec == Init /\ [][Next]_memory

-----------------------------------------------------------------------------
(***************************************************************************)
(* Properties.                                                             *)
(***************************************************************************)

(* Every variable holds a value of its kind: in particular, whatever the   *)
(* stack held, an entry at a user page never goes outside the machine.     *)
TypeOK ==
  /\ mem \in Mems
  /\ cr3 \in AllDirs
  /\ tlb \in [Pages -> Entries]

(* free_page_frame_count, which paging_allocate_check() trusts, is the     *)
(* number of frames that the search of paging_allocate_user_page_frame()   *)
(* can find, whatever was allocated, freed twice or remapped before.       *)
FramesCounted == mem.free_count = Cardinality(FreeFrames(mem))

(* A frame is mapped at one user page of one directory at most, it is      *)
(* marked as taken as long as it is mapped, and the kernel's frame is not  *)
(* mapped at a user page: no process sees the memory of another one or of  *)
(* the kernel through a user page.  It says nothing of the kernel's page,  *)
(* whose entry in a new directory leads wherever the stack has it.         *)
FramesExclusive ==
  \A d1, d2 \in Dirs, v1, v2 \in UserPages :
    LET e1 == mem.table[d1][v1]
        e2 == mem.table[d2][v2]
    IN  e1.present =>
          /\ mem.frame_map[e1.frame]
          /\ e1.frame # 0
          /\ e2.present /\ e1.frame = e2.frame => d1 = d2 /\ v1 = v2

(* The processor never uses a translation that the directory in CR3 does   *)
(* not hold any more: one page is flushed when its entry changes, all are  *)
(* when CR3 is loaded, and that is enough.                                 *)
TlbFresh ==
  \A v \in Pages : tlb[v] # NoEntry => tlb[v] = mem.table[cr3][v]

=============================================================================
