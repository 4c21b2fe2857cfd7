------------------------------ MODULE Process -------------------------------
(***************************************************************************)
(* Processes and the scheduler: src/src/process.c and src/src/scheduler.c  *)
(* with the timer interrupt and the system call that ends a process, from  *)
(* the start of the kernel on.  The page manager is module Paging.         *)
(*                                                                         *)
(* kernel_setup() creates the shell and hands the processor over.  The     *)
(* function that creates a process is offered by process.h to the rest of  *)
(* the kernel; with MaxCreates = 1 the system is the one that is built,    *)
(* with more the function is called again in later system calls.           *)
(*                                                                         *)
(* Interrupts are off in the kernel, so each interrupt and each call is    *)
(* one step.  All registers, eip and eflags are one value of Regs.  Return *)
(* codes are left out: kernel_setup() and syscall() drop them.             *)
(***************************************************************************)
EXTENDS Integers, FiniteSets

CONSTANTS
  FrameCount, DirectoryCount, StackGarbage,    \* see Paging
  EntryPages,       \* the pages that request.buf may lie in
  PageFrameSize,    \* PAGE_FRAME_SIZE (4 MiB)
  SizeLimit,        \* 2^32, where a uint32_t begins again at 0
  Sizes,            \* the buffer_size of requests
  MaxFrames,        \* PROCESS_PAGE_FRAME_COUNT_MAX (8)
  SlotCount,        \* PROCESS_COUNT_MAX (16)
  Regs,             \* what the registers of a user program may hold
  EntryRegs,        \* the registers that a process starts with
  MaxCreates,       \* bound: how often a process is created
  MaxDestroys       \* bound: how often a process is ended

(* A request is so small that counting its frames does not wrap: the only  *)
(* one in the kernel is of 1 MiB.                                          *)
ASSUME ProcessAssumption ==
  /\ FrameCount \in 1 .. 1024 /\ DirectoryCount \in Nat
  /\ PageFrameSize \in Nat \ {0} /\ SizeLimit \in Nat
  /\ Sizes \subseteq {size \in Nat : size + 2 * PageFrameSize <= SizeLimit}
  /\ MaxFrames \in Nat /\ SlotCount \in Nat \ {0}
  /\ EntryPages \subseteq Nat
  /\ EntryRegs \in Regs
  /\ StackGarbage \subseteq [frame : 0 .. 1023, user : BOOLEAN]
  /\ MaxCreates \in Nat /\ MaxDestroys \in Nat

Slots == 0 .. SlotCount - 1

VARIABLES
  mem, cr3, tlb,            \* the page manager
  list,                     \* _process_list
  occupied,                 \* process_slot_occupied
  active_process_count,
  current_running_pid,
  mode,                     \* what the processor does, see Modes
  regs,                     \* the registers in user mode
  creates, destroys         \* how often each was called

Mem == INSTANCE Paging WITH
  UserPages <- EntryPages \cap 0 .. 767

KernelPage == Mem!KernelPage

pageVars  == <<mem, cr3, tlb>>
tableVars == <<list, occupied, active_process_count, current_running_pid>>
boundVars == <<creates, destroys>>
vars == <<pageVars, tableVars, mode, regs, boundVars>>

(* Starting the kernel, choosing the first process, running a program, and *)
(* the loop of scheduler_switch_to_next_process() that finds no process.   *)
Modes  == {"setup", "start", "user", "stuck"}
States == {"NO_PROCESS", "READY", "RUNNING"}
NoDir  == DirectoryCount + 1     \* a null pointer

Pcbs == [pid : Nat, state : States, regs : Regs,
         dir : Mem!AllDirs \cup {NoDir}]

(* A process control block of zeros.                                       *)
NoPcb == [pid |-> 0, state |-> "NO_PROCESS", regs |-> EntryRegs, dir |-> NoDir]

Init ==
  /\ Mem!Init
  /\ list = [s \in Slots |-> NoPcb]
  /\ occupied = [s \in Slots |-> FALSE]
  /\ active_process_count = 0
  /\ current_running_pid = 0
  /\ mode = "setup"
  /\ regs = EntryRegs
  /\ creates = 0 /\ destroys = 0

-----------------------------------------------------------------------------
(* Creating a process.                                                     *)

CeilDiv(n, d) == (n + d - 1) \div d

(* The program and a frame for its stack.  The code adds in uint32_t; see  *)
(* ProcessAssumption.                                                      *)
FramesNeeded(size) == CeilDiv(size + PageFrameSize, PageFrameSize)

(* process_list_get_inactive_index(): by pid, not by process_slot_occupied. *)
InactiveSlots == {s \in Slots : list[s].pid = 0}

EnoughMemory(size) ==
  /\ Mem!AllocateCheck(mem, FramesNeeded(size))
  /\ FramesNeeded(size) <= MaxFrames

MayCreate(page, size) ==
  /\ active_process_count < SlotCount
  /\ page < KernelPage
  /\ EnoughMemory(size)
  /\ InactiveSlots # {}

(* The four returns before anything is changed: too many processes, an     *)
(* entry point in the kernel's half, not enough memory, no slot.           *)
CreateRefused(page, size) ==
  /\ ~ MayCreate(page, size)
  /\ UNCHANGED <<pageVars, tableVars>>

(* Mutated form: the pid is the next one.                                  *)
ClaimedNextPid(s) ==
  [list EXCEPT ![s].pid = current_running_pid + 1, ![s].state = "READY"]

(* The slot's metadata are set before the directory is made.               *)
Claimed(s) == [list EXCEPT ![s].pid = current_running_pid, ![s].state = "READY"]

CreateNoDirectory(page, size) ==
  /\ MayCreate(page, size)
  /\ Mem!UnusedDirs(mem) = {}
  /\ list' = Claimed(Mem!First(InactiveSlots))
  /\ UNCHANGED <<pageVars, occupied, active_process_count, current_running_pid>>

(* The new directory is put in use, given a frame, and filled by read().   *)
Loaded(page, g) ==
  Mem!Allocate(Mem!CreateDirectory(mem, g), Mem!First(Mem!UnusedDirs(mem)), page)

(* read() fails, and its code is returned; the new directory stays in CR3. *)
CreateReadFails(page, size, g) ==
  /\ MayCreate(page, size)
  /\ Mem!UnusedDirs(mem) # {}
  /\ list' = Claimed(Mem!First(InactiveSlots))
  /\ mem' = Loaded(page, g)
  /\ cr3' = Mem!First(Mem!UnusedDirs(mem))
  /\ tlb' = [v \in Mem!Pages |-> Mem!NoEntry]
  /\ UNCHANGED <<occupied, active_process_count, current_running_pid>>

(* Mutated form: the block gets the directory that was in use before.      *)
CreateSucceedsOldSpace(page, size, g) ==
  /\ MayCreate(page, size)
  /\ Mem!UnusedDirs(mem) # {}
  /\ LET s == Mem!First(InactiveSlots)
     IN  /\ list' = [Claimed(s) EXCEPT ![s].regs = EntryRegs, ![s].dir = cr3]
         /\ occupied' = [occupied EXCEPT ![s] = TRUE]
  /\ mem' = Loaded(page, g)
  /\ tlb' = [v \in Mem!Pages |-> Mem!NoEntry]
  /\ active_process_count' = active_process_count + 1
  /\ current_running_pid' = current_running_pid + 1
  /\ UNCHANGED cr3

CreateSucceeds(page, size, g) ==
  /\ MayCreate(page, size)
  /\ Mem!UnusedDirs(mem) # {}
  /\ LET s == Mem!First(InactiveSlots)
     IN  /\ list' = [Claimed(s) EXCEPT ![s].regs = EntryRegs,
                                       ![s].dir = Mem!First(Mem!UnusedDirs(mem))]
         /\ occupied' = [occupied EXCEPT ![s] = TRUE]
  /\ mem' = Loaded(page, g)
  /\ tlb' = [v \in Mem!Pages |-> Mem!NoEntry]
  /\ active_process_count' = active_process_count + 1
  /\ current_running_pid' = current_running_pid + 1
  /\ UNCHANGED cr3

(* process_create_user_process(), from kernel_setup() or a system call.    *)
Create(page, size, g) ==
  /\ mode \in {"setup", "user"}
  /\ creates < MaxCreates
  /\ \/ CreateRefused(page, size)
     \/ CreateNoDirectory(page, size)
     \/ CreateReadFails(page, size, g)
     \/ CreateSucceeds(page, size, g)
  /\ creates' = creates + 1
  /\ mode' = IF mode = "setup" THEN "start" ELSE mode
  /\ UNCHANGED <<regs, destroys>>

-----------------------------------------------------------------------------
(* Running and ending processes.                                           *)

(* The block that process_get_current_running_pcb_pointer() finds.         *)
RunningSlots ==
  {s \in Slots : occupied[s] /\ list[s].pid = current_running_pid}

(* Mutated form: the registers are not saved.                              *)
SaveContextStateOnly ==
  IF RunningSlots = {} THEN list
  ELSE [list EXCEPT ![Mem!First(RunningSlots)].state = "READY"]

(* scheduler_save_context_to_current_running_pcb()                         *)
SaveContext ==
  IF RunningSlots = {} THEN list
  ELSE [list EXCEPT ![Mem!First(RunningSlots)].state = "READY",
                    ![Mem!First(RunningSlots)].regs = regs]

(* How far the search of scheduler_switch_to_next_process() goes: from the *)
(* slot with the number of the running pid, round to that slot itself.     *)
Distances ==
  {k \in 1 .. SlotCount : occupied[(current_running_pid + k) % SlotCount]}

(* Mutated form: the search starts at the first slot every time.            *)
NextSlotFirst == Mem!First({s \in Slots : occupied[s]})

NextSlot == (current_running_pid + Mem!First(Distances)) % SlotCount

(* process_context_switch() to the process of a block, in its directory.   *)
Resume(pcb) ==
  /\ cr3' = pcb.dir
  /\ tlb' = [v \in Mem!Pages |-> Mem!NoEntry]
  /\ regs' = pcb.regs
  /\ mode' = "user"

(* scheduler_switch_to_next_process() with the given process list.         *)
(* Without any process its loop never ends, and interrupts are off.        *)
SwitchToNext(l) ==
  \/ /\ Distances # {}
     /\ list' = [l EXCEPT ![NextSlot].state = "RUNNING"]
     /\ current_running_pid' = NextSlot
     /\ Resume(l[NextSlot])
  \/ /\ Distances = {}
     /\ mode' = "stuck"
     /\ list' = l
     /\ UNCHANGED <<current_running_pid, cr3, tlb, regs>>

(* The end of kernel_setup().                                              *)
Start ==
  /\ mode = "start"
  /\ SwitchToNext(list)
  /\ UNCHANGED <<mem, occupied, active_process_count, boundVars>>

(* The timer interrupt.                                                    *)
Timer ==
  /\ mode = "user"
  /\ SwitchToNext(SaveContext)
  /\ UNCHANGED <<mem, occupied, active_process_count, boundVars>>

(* The user program goes on.                                               *)
UserStep(r) ==
  /\ mode = "user"
  /\ regs' = r
  /\ UNCHANGED <<pageVars, tableVars, mode, boundVars>>

(* process_destroy(): the first block with that pid, in use or not.        *)
Matching(pid) == {s \in Slots : list[s].pid = pid}

(* Mutated form: the slot stays occupied.                                  *)
DestroyKeepingSlot(pid) ==
  LET s == Mem!First(Matching(pid))
  IN  /\ list' = [list EXCEPT ![s] = NoPcb]
      /\ active_process_count' = active_process_count - 1
      /\ UNCHANGED occupied

Destroy(pid) ==
  LET s == Mem!First(Matching(pid))
  IN  /\ list' = [list EXCEPT ![s] = NoPcb]
      /\ occupied' = [occupied EXCEPT ![s] = FALSE]
      /\ active_process_count' = active_process_count - 1

(* SYSCALL_TERMINATE_PROCESS: the program goes on until the next timer.    *)
Terminate ==
  /\ mode = "user"
  /\ destroys < MaxDestroys
  /\ \/ /\ Matching(current_running_pid) # {}
        /\ Destroy(current_running_pid)
     \/ /\ Matching(current_running_pid) = {}
        /\ UNCHANGED <<list, occupied, active_process_count>>
  /\ destroys' = destroys + 1
  /\ UNCHANGED <<pageVars, current_running_pid, mode, regs, creates>>

(* The loop that found no process goes on without changing anything.       *)
Spin ==
  /\ mode = "stuck"
  /\ UNCHANGED vars

Next ==
  \/ \E page \in EntryPages, size \in Sizes, g \in StackGarbage :
       Create(page, size, g)
  \/ Start
  \/ Timer
  \/ \E r \in Regs : UserStep(r)
  \/ Terminate
  \/ Spin

(* The timer keeps ticking while a program runs with interrupts on, and     *)
(* kernel_setup() goes on to its end.                                       *)
Fairness == WF_vars(Timer) /\ WF_vars(Start)

Spec == Init /\ [][Next]_vars /\ Fairness

-----------------------------------------------------------------------------
(***************************************************************************)
(* Properties.                                                             *)
(***************************************************************************)

(* Every variable holds a value of its kind.                               *)
TypeOK ==
  /\ Mem!TypeOK
  /\ list \in [Slots -> Pcbs]
  /\ occupied \in [Slots -> BOOLEAN]
  /\ active_process_count \in Int
  /\ current_running_pid \in Nat
  /\ mode \in Modes
  /\ regs \in Regs
  /\ creates \in 0 .. MaxCreates
  /\ destroys \in 0 .. MaxDestroys

(* A process that the scheduler may choose has a directory of its own,     *)
(* which is in use and has memory at some user page, whatever was created, *)
(* refused and ended before: check and allocation in                       *)
(* process_create_user_process() go together.                              *)
SpacesOwned ==
  \A s \in Slots : occupied[s] =>
    /\ list[s].dir \in Mem!Dirs
    /\ mem.used[list[s].dir]
    /\ \E v \in EntryPages \ {KernelPage} : mem.table[list[s].dir][v].present
    /\ \A t \in Slots : occupied[t] /\ list[t].dir = list[s].dir => t = s

(* No process starves: each one that has a block in use is chosen again    *)
(* and again, whatever is created, refused and ended meanwhile, although   *)
(* the search goes by the number of the running process and creating a     *)
(* process changes that number.                                            *)
EveryProcessRuns ==
  \A s \in Slots :
    []<>(~ occupied[s] \/ (mode = "user" /\ current_running_pid = s))

(* In the system as it is built, where the shell is the only process, the  *)
(* processor uses its directory and its block is the one that the          *)
(* scheduler saves to, until it ends: slot, pid and the running pid, which *)
(* process_create_user_process() raises by one too many, agree again.      *)
RunsInOwnSpace ==
  mode = "user" /\ creates = 1 /\ destroys = 0 =>
    /\ RunningSlots # {}
    /\ list[Mem!First(RunningSlots)].dir = cr3
    /\ list[Mem!First(RunningSlots)].state = "RUNNING"

(* A timer interrupt is invisible to a program that is alone: it goes on   *)
(* with the registers and the directory that it had.                       *)
TimerInvisible ==
  [][Timer /\ mode' = "user" /\ creates = 1 => regs' = regs /\ cr3' = cr3]_vars

(* The processor never runs a program in memory that is not mapped: also a *)
(* process that has just ended keeps its directory until the timer.        *)
RunsInMappedSpace ==
  mode = "user" =>
    /\ cr3 \in Mem!Dirs
    /\ mem.used[cr3]
    /\ mem.table[cr3][KernelPage].present
    /\ \E v \in EntryPages \ {KernelPage} : mem.table[cr3][v].present

=============================================================================
