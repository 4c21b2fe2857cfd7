# A verification project for BEBAS OS

BEBAS is a small operating system for 32-bit x86, written in C and assembly
and run under QEMU: a FAT32-like file system on an ATA disk, a text screen, a
keyboard driver, paging, processes with a timer scheduler, and a shell that
runs as its only user process.  This directory holds TLA+ models of its parts,
the TLC configurations that check them on small instances, and TLAPS proofs of
the invariants that matter most.

* `PROJECT.json` names every run, mutation, theorem, finding and hazard, and
  maps each definition to the lines of the source that it models.
* A definition that ends in a "Mutated form" comment is a wrong version of the
  definition after it.  It is used by no run: each property of a passing run
  has one, and substituting it must make TLC find the property violated.

## 1. The system

| Part | Source (`src/src/`) | State | Operations | Reached through |
|---|---|---|---|---|
| File system | `fat32.c` | the disk; the FAT in memory (`memory`) | format/mount, read, read_directory, write, delete | system calls 0-3, kernel start |
| Disk driver | `disk.c` | the ATA device | read_blocks, write_blocks | the file system |
| Text screen | `framebuffer.c` | VGA cells, hardware cursor | putchar, puts, clear | system calls 5, 6, 10 |
| Keyboard | `keyboard.c` | on/off, one character, column counter | interrupt handler, activate, deactivate, read | IRQ 1, system calls 4, 7, 8 |
| Shell | `user-shell.c` | the line, the current directory and its stack | input loop, commands, prompt | user mode |
| Inserter | `external-inserter.c` | the disk image, on the host | one `write()` | the developer, machine off |
| Clock | `clock.c` (not built yet) | the last reading | read_rtc, main loop | user mode, RTC ports |
| Processes | `process.c` | process table, running pid | create, destroy | kernel start, system call 18 |
| Scheduler | `scheduler.c`, `context_switch.s` | saved contexts | save, switch to next | timer interrupt |
| Paging | `paging.c` | frame map, page directories, CR3, TLB | allocate, free, create/free directory, switch | processes |
| Interrupts | `interrupt.c`, `intsetup.s`, `idt.c` | none of its own | dispatch of IRQs and system calls | hardware |
| Start | `kernel.c`, assembly | none | set-up in a fixed order | boot loader |

All gates are interrupt gates (`idt.c:39-42`), so interrupts are off in the
kernel: a system call is never interleaved with an interrupt or another call.
Concurrency is between the shell in user mode and the interrupts, and between
the driver and the failure of the machine.

Hard behaviours, and the properties that make each part correct:

* **File system.**  Every operation is several cluster writes; power can fail
  between two of them.  Requests carry the cluster number of their parent
  directory, which the shell has remembered and which may be stale.  The FAT
  is kept in memory and on disk, and only some operations reload it.
  Allocation can fail half way; a directory can be full; chains are followed
  without a count.  Correct means: entries own disjoint whole chains, the
  directories form a tree, a call changes only what it names, and what was
  written is read back.
* **Screen.**  Backspace scans backwards over the rows with unsigned
  coordinates.  Correct means that the cells always hold one text without gaps
  that ends at the cursor.
* **Keyboard and shell.**  One character of buffer, overwritten by each
  interrupt, key releases included.  Correct means that the line, the screen
  and the keys that were read agree, wherever interrupts come.
* **Shell commands.**  The shell keeps cluster numbers on a stack and walks
  parent links without a count, while its own commands remove directories and
  reuse clusters.  An unused slot of a directory leads to cluster 0, the boot
  sector, and `cd` and the prompt take that for a directory.  Correct means that the
  stack stays a path of the tree, that the prompt tells the truth, that `find`
  misses nothing and that every command comes back to the prompt; an empty component
  in a path of `cd` breaks the first and the last of these.
* **Clock.**  The chip ticks between the reads of two registers.  Correct means
  that the time which `main()` prints from existed, and that the reading ends.
* **Paging and processes.**  The processor caches translations behind the
  kernel's back; a counter of free frames is kept beside the frame map; creating
  a process can fail at six places, one of them after CR3 was switched; pids,
  slots and the running pid are used for one another; an ended process goes on
  until the next timer interrupt.  Correct means: frames are counted and belong
  to one page of one directory, no old translation is used, each process that
  the scheduler may choose has a directory of its own and gets its turn again and
  again, and a timer interrupt is invisible to the program it interrupts.

## 2. The modules

```
FATImage  <-  FAT32  --(ImplementsStore)-->  FileStore
                 ^------ MCFAT32
                 ^------ FAT32_proofs  <-  FAT32_tree_proofs
Framebuffer  --(ImplementsTerminal)-->  Terminal
   ^------ Framebuffer_proofs
ShellCommands  =  shell commands and prompt + FAT32 (INSTANCE) + inserter
   ^------ ShellCommands_proofs  =  ... + FAT32_tree_proofs (INSTANCE)
Clock  <-  MCClock
   ^------ Clock_proofs
Console  =  shell input loop + Keyboard (INSTANCE) + Framebuffer (INSTANCE)
   ^------ Console_proofs  =  ... + Framebuffer_proofs (INSTANCE)
Paging  <-  MCPaging
   ^------ Paging_proofs
Process  =  processes and scheduler + Paging (INSTANCE)  <-  MCProcess
   ^------ Process_proofs  =  ... + Paging_proofs (INSTANCE)
```

### FATImage, FAT32 (the file system driver)

`FATImage` is the on-disk format: a disk is a value with the signature, the FAT
and one cell per cluster, and each operator is what one `write_clusters` call
does to it, or one search loop of the driver.  `FAT32` has the variables

* `disk`, `map` (`memory.fat_table.cluster_map`), `mounted`,
* `todo`: the disk images that the outstanding writes of the running operation
  will leave, in the order of the code,
* `op`: the last request with its return value and what it delivered,
* `losses`: a counter that bounds power failures.

The step of an operation reads the disk, changes `map` and lines up `todo`;
each `WriteBlocks` step performs one write; `PowerLoss` drops the rest.  This
is exact because nothing else runs during a system call.  The early returns are
actions of their own (`WriteRefused`, `WriteRunsOut`, `DeleteRefused`).
Requests come with *any* data cluster as their parent, so stale and wrong
handles are included.

Abstractions: a cluster is written atomically; cluster contents are a directory
table, a part of a payload, or zeros; file data read as a directory table has
no used entry (otherwise any file could forge a directory); a walk that leaves
`cluster_map` ends in the mark `"runaway"` or a stray cell, and what it reads
or destroys is not modelled; names are model values.  `dir_table_buf` and
`cluster_buf` are loaded before each use and are not state.  When the
search for a free slot runs past a full table (`fat32.c:263`) the entry lands in
memory that is not written to the disk, which the model records as no entry.

`FileStore` is the promise to the callers: handles, names and contents only.
It has one exception, which it names: a file for a full directory is
acknowledged and forgotten (`ForgetFile`; finding `doc_full`).
`FAT32` ends with the mapping to it: the directories and entries of the disk with all
outstanding writes made, so that an operation takes effect in its first step.
`MCFAT32` adds the symmetry for TLC and what the header says of the calls.

### Framebuffer, Terminal (the screen)

The grid of cells, and the cursor.  One action per branch of `putchar`; `puts`
is a sequence of `putchar` and has no action of its own.  Colours are left out.
The hardware cursor register holds `row * 80 + col` and returns it, so row and
column are kept apart.  If a scan left the screen, `row` would become
`OffScreen`; that this does not happen is checked and proved.  `Terminal` is
the promise: the last rows of a text to which characters are appended, and
from which backspace takes the last one.

### Keyboard, Console (the shell's input loop)

`Keyboard` is the driver.  `Console` composes it with `Framebuffer` and with
`shell()` and `handleInput()`; each system call is one step, and a keyboard
interrupt (`KeyboardInterrupt`) may come between any two.  The prompt and the
output of a command are one character each; `parseCommand` is a step that
prints or does not, except for `ps` (`RunPs`, `PsPoll`), which polls the column
counter of the keyboard.  `taken`, `presses` and `reads` are history.

`ps` can hang: its loops wait for a column that only keys can change, and typing
is off.  They compare a 32-bit variable of which the kernel sets one byte
(`user-shell.c:949`, `interrupt.c`, `SYSCALL_GET_CURSOR_COL`), so it depends on
three bytes of the stack whether they wait at all.  Both outcomes are modelled,
and `KeysAreRead` says that a key is read in the end unless the shell hangs there.

An observation that no document contradicts and that is therefore not a
finding: backspace clears the place *behind* the last character
(`user-shell.c:1050`) and then lowers the length, so the erased character stays
in `inputBuffer` and `parseCommand` sees it.  `Terminated` shows that the
buffer stays a C string and that the line shown is a prefix of it.

### ShellCommands (cd and its stack, the other commands, the prompt)

The shell is the only process, so what it reads from the disk stays true until
it writes: a command is one step that makes all its reads and hands the driver
at most one call that writes, whose disk writes follow one by one
(`DriverStep`); then `ShowPrompt` walks up from the working directory, as
`print_dir_tree()` does.  The variables are those of `FAT32` and

* `clusters`: the stack of `cd`, up to `idx`.  Its last element is the working
  directory, because every assignment sets both;
* `place`: what the shell does; `astray` says that the walk of the prompt has come to a
  cluster that is not a directory and goes on from there, past the end of `temp`.

Where C gives no meaning to what a command does, the model says `undefined` and
stops following the shell (the machine can still be switched off): pushing on a
full stack (`user-shell.c:514`), a path longer than `temp` (`:247`), a file longer than
the buffers of `cat`, `cp` and `mv` (`:620`, `:664`, `:783`), `cd` or `find`
on a file, whose bytes are taken for a directory table (`:498`, `:399`), a copy to a
destination without a name when a slot is unused, and `find` on its way down, which
appends to a buffer that is not initialised (`:423`) and may have no terminator.

If it has one, what stands before it decides how soon line 431 takes a path as too long and
cuts the descent.  The length of a path is not kept; instead `FindInDirectory` gets the set
`open` of the directories whose paths are short enough, and `Find` may take any such set
that has the directories one level down, whose paths are always short.  `FindComplete`
and its proof hold for each set.

`cd` cuts the line at backslashes (`CdRound`, `PathWalk`).  A component is a name, `.`,
too long (`Long`), or nothing at all (`Blank`): `cd \`, `cd a\\b`.  Too long is also a
name of eight characters at the end of the line (`:484`), which can only be entered with
a backslash behind it; `PromptTruthful` therefore reads the path in the prompt with its
backslash after the last name.  An empty component matches the first slot that is
unused, whose cluster is 0; `read_directory()` delivers the boot sector, which begins
with a `C`, and `cd` enters the 16 bits that stand in entry 0 of it: 0x2079
(`BootCluster`), a cluster that no disk has.  In a full directory there is no such slot,
and nothing is found.  The model follows `cd` there, and the prompt astray: the request
for `.` is answered with the table that entry 0 of the cluster leads to (`OwnTable`),
which for bytes of no directory is the boot sector again.  `TypeOK`, `StackIsPath`,
`PromptTruthful` and `CommandsEnd` name this cluster as their one exception.

Variables that are not initialised but only compared are choices: `cp` may
return after a good read, because three bytes of `retcode` are never set (`:685`).

`mv` returns after its read, whatever it was (`:822-833`), and so moves nothing.
`rm` may be given any name but that of the directory it is in
(`SelfRequests`): the driver then removes the directory under the shell, which is
the finding `doc_delete`.  `Insert` is the inserter: the same `write()` on the
image while the machine is off, and `InsertFormat` its start on a blank one, which it
formats.  The file that holds the shell is left out of the disk.  The words of a line are
inputs.  `mkdir` and `cp` may be given no name, and `cp` no destination: then entry 0
matches, and with a full directory `write()` is called for the boot sector, which it refuses
because that is not a directory (`WriteToBoot`).  A name that a command other than `cd`
is given is taken to fit into its eight characters.

### Clock (reading the real-time clock)

`read_rtc()` register by register, the comparison of two passes, the conversions from
BCD and from the 12-hour clock, and the local time of `main()`; the chip (`BeginUpdate`,
`Tick`) moves between any two steps.  Day, month and year are read alike and not
compared; they are one register of the model.  What `main()` makes of the time at
`clock.c:125-161` is left out: it adds numbers to the address of `"0"` and passes what
lies there to the screen, so that no digits come of it.  The properties speak of the
variables `hour`, `minute` and `second` that it starts from.

`Days` and `MaxTicks` are bounds of the chip: it stands still after the last day, and after
`MaxTicks` ticks within one reading, where a real one goes on.

### Paging (frames, directories, CR3 and cached translations)

`mem` is `page_manager_state` with the directories; the functions of `paging.c` are
operators from one `mem` to the next, so that `Process` can chain them.  The
specification of `Paging` itself lets a client call them in any order, as their
interface allows, and a processor cache translations (`Translate`) at any moment.
Addresses are page indices.  Write and page-size bits go with the present bit and are
left out, as are the bits that `paging.c` never looks at. `CreateDirectory` copies an
entry that is partly uninitialised (`paging.c:139`): its frame number, 10 bits, and user
bit are any member of `StackGarbage`, because the makefile compiles without optimisation
and the value is what earlier calls left on the stack.  With 32 frames of memory most of
these numbers are of no frame, so the type of a table (`Tables`) asks only of user pages
that they lead to frames of the machine.  The run `paging` lets the stack hold any frame
of the machine, the first number behind them and the last one of the field; the proofs
let it hold any set of numbers of the field; `processes` lets it hold zeros, the case in
which the system starts.  What the properties say is about user pages: that they are
counted, exclusive and freshly translated whatever the kernel's entry holds.  That the
kernel is mapped at its own frame, for itself alone, is false in the code when the stack
holds anything else, and no property claims it (section 6).

### Process (process table, scheduler, timer, termination)

One action for each way out of `process_create_user_process()`, the two that leave
something behind included (`CreateNoDirectory`, `CreateReadFails`); `Start` is the end
of `kernel_setup()`; `Timer` saves, searches and switches in one step, since interrupts
are off; `Terminate` is the system call, after which the program continues until the
next timer.  The search loop without a process to find is the mode `stuck`.  All
registers with eip and eflags are one value of `Regs`; `intsetup.s` and
`context_switch.s` move each of them, the user's stack pointer included, to and from its
place in the context.  Whether `read()` succeeds is left open.  `NO_PROCESS_RUNNING`,
which `scheduler.c:36` looks for, is never assigned.  `active_process_count` is a C
`int` and may become negative. `FramesNeeded` is counted in `uint32_t` (`process.c:23`);
`ProcessAssumption` keeps sizes so far below `SizeLimit` (2^32) that it does not wrap,
since the only request in the kernel is of 1 MiB (`kernel.c:31`).  TLC's own integers
are too narrow for 2^32, so the run has a small limit.

In the system as it is built `kernel_setup()` makes the only call that creates a
process: those are the behaviours with `creates = 1`, of which `RunsInOwnSpace`
and `TimerInvisible` speak.  In the others the function that `process.h` offers
is called again, from system calls to come.

## 3. The runs

| Run | Bounds | Shows |
|---|---|---|
| `tree` | 6 clusters of 2 bytes, 4 slots, three plain names (symmetric), `..` and the name of the root, sizes 0, 2, 3, no power loss | types, ownership, tree, no run-away; only the named file is touched; FAT32 implements FileStore |
| `files` | one name with two extensions, two payloads, sizes 1 and 4, two power losses | listed files have whole chains and hold one write's data, or zeros |
| `crash` | two names, sizes 0, 2, 3, one power loss | chains ascend, memory agrees, the loss hurts only the named entry |
| `screen` | 3 x 3 cells, two glyphs | types, scan, text, refinement of Terminal |
| `console` | 2 x 2 cells, two letters, lines of 3, 6 key presses, `ps` waiting for column 1 | line editing against interrupts, and that keys are read |
| `commands` | the disk of `tree` with two names and files of one cluster, paths of two components, each a name, `.`, empty or too long, a stack of 3, prompts of two levels | the stack of `cd` is a path, the prompt is true, `find` is complete, commands end |
| `clock` | minutes of 2 seconds, hours of 3 minutes, two days from any moment, 4 ticks in a reading, all four modes | the time printed from was real; readings end |
| `paging` | 4 frames, 2 directories, 2 user pages; on the stack any of the 4 frames, the number behind them and 1023, with either user bit | types, counter, exclusive frames, fresh translations |
| `processes` | 3 slots, 9 frames, 6 directories, 7 creations of three sizes, also with an entry in the kernel's half, 2 terminations, 3 register values | every process that can be chosen owns a directory with memory and is chosen again and again; user code always in mapped memory; as long as there is one creation, as in the system as built, the shell runs in its own directory and does not notice the timer |
| `doc_*` | | violations, see section 6 |

Why the bounds are enough.  Six clusters leave three data clusters beside the root: a
two-cluster file and a directory compete for them, a file is allocated around holes, and
the disk runs out half way.  Sizes 2 and 3 are an exact multiple and a partly filled
cluster; size 0 asks for a directory.  Four slots leave two entries per directory and
there are three plain names, so directories run full.  Plain names are only compared, so
they are symmetric.  Two power losses cover a loss in the recovery from a loss.  A
screen of three rows has a first, an inner and a last one, and all of them scroll.  On
the 2 x 2 console every line of three letters wraps and scrolls; six presses make two
edited lines.  Four frames, one of them the kernel's, are fewer than the four user pages
of two directories, so allocation fails and an entry is remapped. Seven creations
exhaust three slots and six directories; of the three sizes one always fits, one stops
fitting when few frames are left, and one exceeds the three frames that a process may
have.  In `commands` three clusters beside the root make directories of depth two and
reuse of removed ones, and the stack, the prompt and the buffers are small enough to
meet each limit; every kind of component comes first and last in a path and after every
other one.  `FindComplete` is checked for every set of directories that line 431 may
take as too deep.  In `clock` every carry, from second to day, falls between any two
reads; four ticks are an hour less a minute, the most that a reading may take if two
passes that agree are to prove a time (section 4).

The runs switch deadlock checking off only in
`crash`, where a chain broken by the loss may lead `delete()` into the run-away
step, after which nothing more is modelled.  `NoRunaway` is not claimed there.

Fairness, and why the code justifies it.

* `Console`: `WF_vars(Shell)`.  The shell is the only process, it never blocks, and
  after each interrupt the handler returns to it.  None is assumed of the
  keyboard: presses are finite in number (`MaxPresses`) and a release empties the
  buffer.
* `ShellCommands`: `WF_vars(ShowPrompt \/ DriverStep)`, for the same reason; nobody
  has to type a command.
* `Process`: `WF_vars(Timer)`, since the timer is programmed to repeat and user
  programs run with interrupts on, and `WF_vars(Start)`, the end of
  `kernel_setup()`.  None is assumed of the programs.
* `Clock`: `WF_vars(Program)` and `WF_vars(Tick)`: an update of the chip ends.  A
  reading meets at most `MaxTicks` ticks, since it takes microseconds; the proof of
  `TimeWasReal` needs no more than that it takes no longer than an hour less a minute.
  `ReadingEnds` rests on that bound: it says that the loop ends once the ticks stop,
  not that it would end against a chip that ticks in every pass.

## 4. What is proved

`FAT32_proofs` (for all disk sizes, table sizes, names, extensions, payloads,
request sizes and any number of power losses, from `GeometryAssumption` and
`RequestAssumption`):

* `TypeCorrect`: `Spec => []TypeOK`.  Inductive as it stands; the work is in the
  lemmas on what each helper returns and that every image lined up in `todo` is
  a disk.
* `AscendCorrect`: `Spec => []ChainsAscend`.  Inductive relative to `TypeOK`
  because it speaks of the FAT in memory, on the disk and in every outstanding
  image at once: the FAT of an image is the old one or the one made by `Link`,
  which joins the lowest empty clusters in rising order.
* `MemoryCorrect`: `Spec => []MemoryAgrees`.  `MemoryAgrees` speaks of quiet
  states only, so the proof uses `MemoryInv`: the FAT in memory agrees with the
  disk *as it will be when `todo` is done*, as long as the file system is mounted.

`Framebuffer_proofs` (any screen up to 255 x 255, any glyphs, from
`ScreenAssumption`):

* `ScreenCorrect`, with `ScreenTypes`, `ScanCorrect` and `TextCorrect`: the invariant
  `Inv` says that the cells hold a text without gaps that ends at the cursor.  It is
  what the scan of backspace relies on: every row that the cursor has passed begins with
  a character, so the scan ends in the row above.  Scrolling moves the whole statement
  up by one row.

* `TerminalImplemented`: `Spec => ImplementsTerminal`.  Each action of the screen is one
  of the terminal under the mapping of rows to lines, given `Inv`: that rows have no gap
  makes a row the line of its characters, and that the scan ends at the last character
  of the row above is `Erase` across a line break.

`Paging_proofs` (up to 1024 frames, any number of directories, any user pages, any 10-bit
frame numbers and user bits on the stack, from `PagingAssumption`):

* `PagingInvariant`, with `PagingTypes`, `CountCorrect`, `ExclusiveCorrect` and
  `TlbCorrect`.  `PagingTypes` shows among other things that no user page leads outside
  the machine, which the kernel's entry of a new directory may.  None of the three
  others is inductive alone.  A frame that is freed raises the number of free frames
  only if it was taken, which is exclusiveness; exclusiveness needs that frame 0 stays
  taken; and no old translation is used because the directory in CR3 is in use
  (`InUse`), so that it is never the one that is being made, nor, by the client's rule,
  the one that is being released.

`FAT32_tree_proofs` (the same generality, under the one hypothesis `~ SelfRequests`: the
driver really breaks its tree when `delete()` is given the name of the directory it
works in, the finding `doc_delete`):

* `TreeInvariant`: `Spec => []TreeInv`.  The properties of the runs speak of the disk as it
  is; none of them is inductive, because a call lines up its writes in advance.
  `TreeInv` says of *every* outstanding image that it is sound (`Sound`: tables are well
  formed, the chain of each file has its length and its data, no two entries own a
  cluster), that its directories form a tree except for the entry that the call names
  (`TreeBut`), and that it leaves the files alone that the call does not name
  (`Untouched`); the last image and a quiet disk are `Ready`, whole trees.  For each
  call a lemma (`WriteLinedUp`, `MakeLinedUp`, `DropLinedUp`, `EraseLinedUp`,
  `FormatLinedUp`) shows this of its images, write by write.
* From it follow `SharingCorrect`, `ChainsCorrect`, `ContentsCorrect`, `WalksCorrect`,
  `TreeCorrect`, `LossCorrect` and the action property `WritesCorrect`, which state the
  properties of the runs `tree`, `files` and `crash`.
* Where they say `Calm`, power has not failed within an operation yet, or only files are
  made.  This is a limit of the code and not of the proof: when power fails in
  `mkdir` or in the removal of a directory, an entry may lead to a cluster that is free in
  the FAT, and the next `write()` gives that cluster to a file.  The first loss is
  confined to the entry named (`LossCorrect`), and without directories every loss is.
  The runs check the properties in just these cases.
* `StoreImplemented`: `Spec /\ [](losses = 0) => ImplementsStore`, that is, while power does
  not fail within an operation the driver is a file store.  The invariant of the
  refinement is `NamesApart` of the disk to come: no entry has the name of another one in
  its table, nor that of the directory or of "..".  Without it the entry that a search finds
  first need not be the one that was stored, so `read()` and `delete()` could miss.  The
  lemmas on the images of each call say what the last image holds (`Filled`, `Cleared`);
  from that the store gains or loses one key (`StoreAdds`, `StoreDrops`) or stays
  (`StoreSame`), a directory is full just when its table has no free slot (`FullMeans`, by
  counting), and what `read()` delivers along the FAT in memory begins with what was
  stored (`ReadBack`, from `MemoryCorrect`).
* The last part is for the shell.  `WayUp` is the way from a directory along the second
  entries to the root; it passes no directory twice, so it is shorter than the disk
  (`WayBounded`).  `Proper` says of a disk that every directory has such a way and that the
  entries have names apart and no types; `Steady` says of the images of a call that the last
  one is `Proper` again, and that until then only directories without entries lose their
  tables, the one that the call is given not among them.  Hence a stack of directories, each
  on the way up from the next one, outlasts every write of a call (`StackSteady`).

`ShellCommands_proofs` (any disk, names, payloads, stack and path lengths; the clusters
of the driver are those of an instance of `FAT32_tree_proofs` in which files may have
any size):

* `ShellInvariant`, with `TypeCorrect`, `StackCorrect`, `PromptCorrect` and
  `FindCorrect`: all invariants of the run `commands`.  The invariant `ShellInv` says
  that the driver has a `Proper` tree ahead of it, that the stack of `cd` begins with
  the root and that in the disk and in each image still to be written every cluster on
  it has the one under it on its way up.  It holds of the stack without its last element
  if that is `BootCluster`, and the shell is then on its way to the prompt or astray: no
  command is reached from there.
* All of them assume `Orderly`: `rm` is not given the name of the directory it works in,
  and no path goes through `..` (the command `cd ..` is another one and is covered).
  Both are limits of the code: without the first the tree breaks (`doc_delete`), without
  the second the stack is no path and the prompt may go astray from a removed directory
  (`doc_prompt`).  Empty components and those that are too long are covered.
* `PromptCorrect` covers names of any kind.  An entry cannot be called `..`, since every
  table already has one; one can be called `.`, and names would not lead to a directory
  of that name.  But `cd .` stays where it is, so no such directory is ever on the way
  up from the working directory: `ShellInv` carries that along (`Reached`).
* `FindCorrect` shows for every set of directories with short paths, by induction on the
  depth, that what the search finds is below where it began through such directories,
  and along the way up that it misses nothing there: a way is shorter than the number of
  clusters, so the bound on the depth in `FindInDirectory` cuts nothing off.  It speaks
  of the search where its path buffer has a terminator.
* The walks (`UpWalk`, `PathWalk`, `FindInDirectory`) are recursive functions; that they
  exist and satisfy their equations comes from `RecursExists`, and facts about all of
  their steps from `UpTo`, as below.

`Process_proofs` (any number of slots, directories, pages and creations, up to 1024 frames):

* `ProcessInvariant`, with `ProcessTypes`, `SpacesCorrect`, `MappedCorrect`,
  `OwnSpaceCorrect` and the action property `TimerCorrect`.  The invariant adds to the
  types that frames are counted (the lemmas of `Paging_proofs`, used through an
  instance), that no frame is mapped twice by the directories of the table, that
  directories of processes are in use and mapped (`DirsMapped`, `DirsOwned`), and that
  the directory in CR3 is one of them (`RunsInDir`), also after a creation whose
  `read()` failed; while there was one creation only, that its process is in the first
  block with pid 0 (`Alone`).
* `MemoryApart`: what `Paging` requires of its clients is what `process.c` does.

`Console_proofs` (any screen, any line length, any keys and any number of presses):

* `ConsoleInvariant`, with `ConsoleTypes`, `TerminatedCorrect`, `EditingCorrect`,
  `KeysCorrect` and `ScreenShows`.  Between the system calls of one round the line, the
  screen and the keys differ by the character in hand, so the invariant states for each
  place of the loop by what they differ.  `EditingCorrect` unfolds the recursive
  function `Edited` one key at a time; `ScreenShows` uses the lemmas of
  `Framebuffer_proofs` on what one `putchar()` does to the text.

`Clock_proofs` (minutes and hours of any length, all four modes):

* `ClockInvariant`, with `ClockTypes` and `TimeCorrect`.  The invariant relates each
  register that was read to the moment it was read at; two passes that agree then
  leave only one hour, minute and second that the chip can have had in between.  The proof
  showed what a reading must not exceed: `ClockAssumption` bounds it by an hour less a
  minute (`MaxTicks <= Seconds * (Minutes - 1)`), where an earlier version of the model
  only asked for less than an hour, for which the property is false.

`FAT32_proofs`, `Console_proofs` and `ShellCommands_proofs` each begin with what they use of
induction: a set of numbers that has 0 and with each number the next one has them all
(`UpTo`), and a function defined by recursion over 0 .. n exists and satisfies its equation.
They are stated with sets and functions, since the provers cannot instantiate an operator.

Only model-checked:

* liveness (`KeysAreRead`, `EveryProcessRuns`, `CommandsEnd`, `ReadingEnds`), which is
  out of the prover's reach;
* what the code does under `SelfRequests`, with `..` inside a path, and after a loss with
  directories: there the properties fail or are not stated, and the runs say in which cases.

## 5. What is not modelled

* The ATA handshake, sector by sector writes, port I/O, PIC, GDT, IDT and TSS
  set-up, the assembly that enters protected mode: hardware protocols or tables
  written once.
* `string.c`: used as the copies and comparisons that it implements.
* `process_load_executable` and `process_allocate_virtual_memory`, which nothing
  calls; `get_process_info`, which only reads.
* System call 11 (moving a directory entry), which no program makes, and the
  helpers of `user-shell.c` that nothing calls (`get_parent_directory`,
  `invert_memcpy`).
* How a line is cut into words, and the texts that commands show; what the clock prints
  (`clock.c:125-161`).
* What the processor makes of a kernel entry that names another frame than the kernel's, or
  none.
* A `write()` of size 0 with an extension: no caller sends one.  It would pass the
  comparison of name and extension and then lose the extension (`fat32.c:63-71`, `:240`).
* The commands after a loss of power: `FAT32` shows what a loss leaves on the disk, and
  after an interrupted format there is no root for the prompt to find.

## 6. Findings

Each `doc_*` run checks one statement of a header and TLC refutes it.

* `src/src/header/filesystem/fat32.h`: the success of a write to a full directory
  (`doc_full`), and deleting the directory that a request is made in (`doc_delete`).
* `src/src/user-shell.c:259`, "Stop when we reach the root" (`doc_prompt`): `cd a`,
  `cd .\..`, `rm a`, `cd ..` makes the freed cluster of `a` the working directory.  Entry 0
  of its zeros leads to cluster 0, so `print_dir_tree()` reads the boot sector, appends
  `Course  \` and takes its next cluster, 0x7720333C, from entry 1; that one is not on
  the disk either, and the walk goes on until it has overrun `temp`, without meeting the
  root.  An empty component of a path (`cd \`, in a directory with an unused slot) leads
  astray in the same way, through `BootCluster`.  `StackIsPath` and `PromptTruthful`
  show that without `..` inside a path and without empty components neither happens.

Met while modelling, plain to see in the code and without a run of their own:

* `read()` and `write()` do not return all of the codes that `fat32.h:218-235`
  documents (`fat32.c:164`, `:188`, `:340`): "not found", "not a file", "not a folder"
  and "invalid parent cluster" are missing or have other numbers.
* `read()` takes the number of clusters from the file alone (`fat32.c:195`), and one
  more when its size is a multiple of the cluster size, although `fat32.h:226` says
  "buffer_size will limit reading count".
* `paging_create_new_page_directory()` sets three flags of the kernel's entry and
  leaves its frame number and user bit as the stack has them (`paging.c:139`), although
  `paging.h:150` says "prefilled with 1 page directory entry for kernel higher half
  mapping".  Most 10-bit numbers are of no frame of the machine.
* `clock.c:98` says "Convert 12 hour clock to 24 hour clock if necessary": noon becomes
  0 and midnight stays 12.  `TimeWasReal` leaves these two hours aside.  The date may be
  that of the next day, since it is not compared, and at 17 h UTC the local hour becomes
  24.  The program then prints what lies at addresses computed from the time
  (`clock.c:125-161`).
* `process_destroy()` releases neither directory nor frames, against
  `process.c:109`, and compares pids without `process_slot_occupied`
  (`process.c:116`): since pid 0 is also the mark of an empty block, ending a
  process twice succeeds and `active_process_count` becomes negative.
* For the same reason `process_list_get_inactive_index()` would give the block of
  the first process to a second one (`process.c:87`); the system as built
  creates only one.

Further observations without a document to hold against: the signature is
written before the FAT and the root (`fat32.c:25`), so a loss of power in
between leaves a disk that mounts without a root and is never formatted again;
and deleting a file zeroes its clusters but never frees them in the FAT
(`fat32.c:382-406`), so the disk only fills up.  When the shell cannot be loaded, or has
ended, the search of the scheduler never ends (`scheduler.c:39`).  A creation
whose `read()` fails returns with the new directory in CR3 (`process.c:58`).

## 7. Plan

Done: the file system, the screen, the keyboard with the shell's input loop, the
shell's commands, the clock, the page manager, and processes with the scheduler; every
safety invariant and action property that a passing run checks is also proved.

What could follow: an abstract specification of the scheduler (one process runs at a time
and resumes where it was) that `Process` implements.
