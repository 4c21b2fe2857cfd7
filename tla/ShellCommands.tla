--------------------------- MODULE ShellCommands ----------------------------
(***************************************************************************)
(* The commands of the shell (src/src/user-shell.c: parseCommand and its   *)
(* helpers) over the file system driver.  The shell is the only process,   *)
(* so what it reads stays true until it writes: a command is one step that *)
(* makes its reads and hands the driver at most one call that writes; the  *)
(* disk writes of that call follow one by one (FS!WriteBlocks), and then   *)
(* the prompt, which walks up the tree from the working directory.         *)
(*                                                                         *)
(* The file that holds the shell is left out: no command depends on it.    *)
(*                                                                         *)
(* clusters is the array of that name up to idx.  Its last element is also *)
(* current_cluster_pos: every assignment sets both.                        *)
(*                                                                         *)
(* A command may leave the defined behaviour of C: it overruns an array,   *)
(* or takes a cluster number out of bytes that are not a directory's.  The *)
(* model says so in place and does not follow the shell any further.  One  *)
(* such number is known: in the boot sector, which an unused slot leads    *)
(* to, entry 0 has BootCluster.                                            *)
(***************************************************************************)
EXTENDS FATImage

CONSTANTS
  Sizes,            \* the sizes of inserted files; 0: there is no file
  SelfRequests,     \* may rm be given the name of the directory it is in
  TextPayloads,     \* the payloads whose first byte is not zero
  Components,       \* what the paths given to cd are made of
  MaxComponents,    \* bound: the components of a path
  StackSize,        \* the length of clusters (100)
  PathLevels,       \* the names that fit into temp of print_dir_tree (14)
  CatClusters,      \* the clusters of the buffer of cat (4)
  CopyClusters      \* the clusters that cp writes (5)

(* A component is what stands between two backslashes, and may be nothing  *)
(* at all: Blank.  Long is one with eight characters that no backslash     *)
(* follows: it is too long for a name, or is one of eight characters at    *)
(* the end of the line.                                                    *)
Long == "long"

(* cluster_low of entry 0 of fs_signature, 0x2079: cd keeps 16 bits.  It   *)
(* is outside of the FAT and of the disk.                                  *)
BootCluster == 8313

(* A request without an extension sends zeros; "zero" and "stray" stand    *)
(* for clusters that hold nothing a caller stored.                         *)
ASSUME ShellAssumption ==
  /\ TextPayloads \subseteq Payloads /\ {"zero", "stray"} \cap Payloads = {}
  /\ Blank \in Exts /\ Sizes \subseteq Nat /\ SelfRequests \in BOOLEAN
  /\ Components \subseteq Names \cup {".", "..", Long, Blank} /\ Long \notin Names
  /\ ClusterMapSize <= BootCluster
  /\ {StackSize, PathLevels, CatClusters, CopyClusters} \subseteq Nat \ {0}
  /\ MaxComponents \in Nat

VARIABLES
  disk, map, mounted, todo, op, losses,   \* the driver
  clusters,                               \* where cd has been
  place                                   \* what the shell is doing

(* The power is only switched off when no call is running: what a loss in  *)
(* between does to the disk is the subject of FAT32.                       *)
FS == INSTANCE FAT32 WITH MaxPowerLosses <- 0

fsVars == <<disk, map, mounted, todo, op, losses>>
vars   == <<fsVars, clusters, place>>

(* "busy": a command or the start-up is running; "ready": the prompt is    *)
(* shown; "astray": print_dir_tree() has come to a cluster that is not a   *)
(* directory and goes on from there, past the end of temp.                 *)
PlaceNames == {"off", "busy", "ready", "astray", "undefined"}

cwd == clusters[Len(clusters)]

Init ==
  /\ FS!Init
  /\ clusters = <<ROOT_CLUSTER_NUMBER>>
  /\ place = "off"

-----------------------------------------------------------------------------
(* Looking at the disk.                                                    *)

TableAt(c) == CellAt(disk, c).table

(* The slot that read_directory() takes: the first with that name, with no *)
(* regard to extension or attribute, and slot 0 for ".".                   *)
SlotFor(c, n) ==
  IF n = "." THEN {0} ELSE {i \in Slots \ {0} : TableAt(c)[i].name = n}

(* What read_directory_interface() puts into its buffer.                   *)
CellFor(c, n) == CellAt(disk, TableAt(c)[Least(SlotFor(c, n))].cluster)

(* A request for "." delivers the table of the cluster that entry 0 leads  *)
(* to.  Of a directory that is its own table.                              *)
OwnTable(c) == TableAt(TableAt(c)[0].cluster)

(* A buffer in which table[0].name begins with a zero byte.  The boot      *)
(* sector begins with a "C".                                               *)
NoName(cell) ==
  cell.table[0].name = Blank /\ cell.data.what \notin TextPayloads \cup {"stray"}

(* The cluster that entry 0 of the buffer leads to.                        *)
Entered(cell) ==
  IF cell.data.what = "stray" THEN BootCluster ELSE cell.table[0].cluster

(* One round of the loop of cd: w says where it is, whether it has met a   *)
(* directory, and how the loop has ended.                                  *)
CdRound(w, n) ==
  IF w.end # "more" THEN w
  ELSE IF n = Long THEN [w EXCEPT !.end = "long"]
  ELSE IF w.at = BootCluster THEN [w EXCEPT !.end = "unknown"]
  ELSE IF SlotFor(w.at, n) = {} \/ NoName(CellFor(w.at, n))
    THEN [w EXCEPT !.end = "missing"]
  ELSE IF CellFor(w.at, n).data.what \in TextPayloads
    THEN [w EXCEPT !.end = "unknown"]
  ELSE [w EXCEPT !.at = Entered(CellFor(w.at, n)), !.found = TRUE]

(* Mutated form: every path begins at the root.                            *)
PathWalkFromRoot(from, path) ==
  LET walk[k \in 0 .. Len(path)] ==
        IF k = 0
          THEN [at |-> ROOT_CLUSTER_NUMBER, found |-> FALSE, end |-> "more"]
          ELSE CdRound(walk[k - 1], path[k])
  IN  walk[Len(path)]

(* The loop of cd over the components of a path from a cluster.            *)
PathWalk(from, path) ==
  LET walk[k \in 0 .. Len(path)] ==
        IF k = 0 THEN [at |-> from, found |-> FALSE, end |-> "more"]
        ELSE CdRound(walk[k - 1], path[k])
  IN  walk[Len(path)]

(* Mutated form: the entry of the directory itself is followed.            *)
UpWalkSelf(c) ==
  LET next == [d \in Clusters \cup {BootCluster} |-> OwnTable(d)[0].cluster]
      up[k \in 0 .. ClusterMapSize] == IF k = 0 THEN c ELSE next[up[k - 1]]
  IN  up

(* The clusters that print_dir_tree() visits: its loop body runs for       *)
(* UpWalk(c)[0], UpWalk(c)[1], ... until the next one is the root.         *)
UpWalk(c) ==
  LET next == [d \in Clusters \cup {BootCluster} |-> OwnTable(d)[1].cluster]
      up[k \in 0 .. ClusterMapSize] == IF k = 0 THEN c ELSE next[up[k - 1]]
  IN  up

Rounds(c) == {k \in 1 .. ClusterMapSize : UpWalk(c)[k] = ROOT_CLUSTER_NUMBER}

(* The path it shows: the names met, the last one first.                   *)
ShownPath(c) ==
  LET n == Least(Rounds(c))
  IN  [k \in 1 .. n |-> OwnTable(UpWalk(c)[n - k])[0].name]

(* Mutated form: directories are not searched.                             *)
FindInDirectoryHere(c, n, open) ==
  LET hits == {i \in Slots \ {0, 1} : OwnTable(c)[i].name = n}
  IN  IF hits = {} THEN <<>> ELSE <<c, Least(hits)>>

(* find_in_directory(): the slots from 2 on in order, a directory that has *)
(* another name searched before the next slot if the path to it is not too *)
(* long: open has the directories whose paths are not.  The entry found,   *)
(* as <<cluster, slot>>, or <<>>.                                          *)
FindInDirectory(c, n, open) ==
  LET find[k \in 0 .. ClusterMapSize] ==
        LET below(t, i) == IF k = 0 \/ t[i].attr # ATTR_SUBDIRECTORY
                                    \/ t[i].cluster \notin open
                             THEN <<>> ELSE find[k - 1][t[i].cluster]
            hits(t) == {i \in Slots \ {0, 1} : t[i].name = n \/ below(t, i) # <<>>}
            hit(d, t, i) == IF t[i].name = n THEN <<d, i>> ELSE below(t, i)
        IN  [d \in DataClusters |->
               IF hits(OwnTable(d)) = {} THEN <<>>
               ELSE hit(d, OwnTable(d), Least(hits(OwnTable(d))))]
  IN  find[ClusterMapSize][c]

-----------------------------------------------------------------------------
(* The machine and the prompt.                                             *)

(* The kernel starts: the file system first, then the shell.               *)
Boot ==
  /\ place = "off"
  /\ FS!Format \/ FS!Mount
  /\ place' = "busy"
  /\ clusters' = <<ROOT_CLUSTER_NUMBER>>

(* The driver carries on with the call of a command.                       *)
DriverStep ==
  /\ FS!WriteBlocks \/ FS!Return
  /\ UNCHANGED <<clusters, place>>

SwitchOff ==
  /\ FS!PowerOff
  /\ place' = "off"
  /\ clusters' = <<ROOT_CLUSTER_NUMBER>>

(* The names that print_dir_tree() collects fit into temp.                 *)
PathFits(c) == Rounds(c) # {} /\ Least(Rounds(c)) <= PathLevels

(* The next round of shell(): print_dir_tree() of the working directory.   *)
ShowPrompt ==
  /\ place = "busy"
  /\ FS!Idle
  /\ place' = CASE Rounds(cwd) = {} -> "astray"
                [] PathFits(cwd)     -> "ready"
                [] OTHER             -> "undefined"
  /\ UNCHANGED <<fsVars, clusters>>

-----------------------------------------------------------------------------
(* The commands.                                                           *)

(* A command that hands a call to the driver.                              *)
Calling(call) ==
  /\ call
  /\ place' = "busy"
  /\ UNCHANGED clusters

(* A command that leaves the defined behaviour.                            *)
Undefined ==
  /\ place' = "undefined"
  /\ UNCHANGED <<fsVars, clusters>>

(* Mutated form: idx is lowered in the root as well.                       *)
CdUpUnchecked ==
  /\ place = "ready"
  /\ clusters' = SubSeq(clusters, 1, Len(clusters) - 1)
  /\ place' = "busy"
  /\ UNCHANGED fsVars

(* cd with an argument that begins with "..".                              *)
CdUp ==
  /\ place = "ready"
  /\ clusters' = IF Len(clusters) = 1 THEN clusters
                 ELSE SubSeq(clusters, 1, Len(clusters) - 1)
  /\ place' = "busy"
  /\ UNCHANGED fsVars

(* Any other cd.  A component that is too long ends the loop with retcode  *)
(* still 0: what was found until then is entered.                          *)
Cd(path) ==
  LET w == PathWalk(cwd, path)
      enters == w.found /\ w.end \in {"more", "long"}
  IN  /\ place = "ready"
      /\ path[1] # ".."
      /\ \/ /\ enters => Len(clusters) < StackSize
            /\ w.end # "unknown"
            /\ clusters' = IF enters THEN Append(clusters, w.at) ELSE clusters
            /\ place' = "busy"
            /\ UNCHANGED fsVars
         \/ w.end = "unknown" /\ Undefined
         \/ enters /\ Len(clusters) = StackSize /\ Undefined

Ls == place = "ready" /\ Calling(FS!ReadDirectory(cwd, "."))

(* mkdir, its name taken from behind the sixth character of the line: it   *)
(* may be empty.                                                           *)
Mkdir(n) ==
  /\ place = "ready"
  /\ Calling(\/ FS!MakeDirectory(cwd, n)
             \/ FS!WriteRefused(cwd, n, Blank, 0))

(* The buffer of k clusters is large enough for all that read() delivers.  *)
Fits(n, x, k) ==
  \A i \in SlotsNamed(TableAt(cwd), n, x) :
    Len(FS!ReadClusters(TableAt(cwd)[i])) <= k

Cat(n, x) ==
  /\ place = "ready"
  /\ \/ /\ Fits(n, x, CatClusters)
        /\ Calling(FS!Read(cwd, n, x, CatClusters * ClusterSize))
     \/ ~ Fits(n, x, CatClusters) /\ Undefined

(* The slots of the destination's own table among which cp takes the first *)
(* that begins with the name given: "." is also the beginning of "..".     *)
Target(dest) ==
  IF SlotFor(cwd, dest) = {} THEN {}
  ELSE {i \in Slots : CellFor(cwd, dest).table[i].name
                        \in IF dest = "." THEN {".", ".."} ELSE {dest}}

(* What the copy begins with: the first cluster of what was read.  A       *)
(* directory is read as well as a file.                                    *)
CopiedPayload(n, x) ==
  LET e == TableAt(cwd)[Least(SlotsNamed(TableAt(cwd), n, x))]
      what == CellAt(disk, e.cluster).data.what
  IN  IF what \in Payloads THEN {what}
      ELSE IF NoName(CellAt(disk, e.cluster)) THEN Payloads \ TextPayloads
      ELSE TextPayloads

(* write() into cluster 0: the boot sector is not a directory.             *)
WriteToBoot(n, x, size) ==
  /\ FS!Idle
  /\ map' = disk.fat
  /\ op' = FS!WriteReply(0, n, x, size, "zero", -1)
  /\ UNCHANGED <<disk, mounted, todo, losses>>

(* cp reads into a buffer of one cluster and writes CopyClusters of it.    *)
(* The call sets one byte of retcode and the others are not initialised:   *)
(* cp may return after any read.  Every name begins with an empty          *)
(* destination, so that entry 0 is taken: of the boot sector, with all 32  *)
(* bits of its cluster number, or of zeros if the directory is full.       *)
Cp(n, x, dest) ==
  LET size == CopyClusters * ClusterSize
      read == Fits(n, x, 1) /\ SlotsNamed(TableAt(cwd), n, x) # {}
      to   == CellFor(cwd, dest).table[Least(Target(dest))].cluster
  IN  /\ place = "ready"
      /\ \/ ~ Fits(n, x, 1) /\ Undefined
         \/ Fits(n, x, 1) /\ Calling(FS!Read(cwd, n, x, size))
         \/ /\ read /\ dest = Blank
            /\ SlotFor(cwd, Blank) # {} /\ Undefined
         \/ /\ read /\ dest = Blank
            /\ SlotFor(cwd, Blank) = {} /\ Calling(WriteToBoot(n, x, size))
         \/ /\ read /\ dest # Blank /\ Target(dest) # {}
            /\ Calling(\/ FS!WriteRefused(to, n, x, size)
                       \/ FS!WriteRunsOut(to, n, x, size)
                       \/ \E p \in CopiedPayload(n, x) :
                            FS!WriteFile(to, n, x, size, p))

(* rm: is_in_directory() finds the working directory and says yes.         *)
Rm(n) ==
  /\ place = "ready"
  /\ Calling(\/ FS!DeleteRefused(cwd, n, Blank)
             \/ FS!DeleteDirectory(cwd, n, Blank)
             \/ FS!DeleteFile(cwd, n, Blank))

(* mv reads like cp; every outcome of that read makes it return.           *)
Mv(n, x) ==
  /\ place = "ready"
  /\ \/ /\ Fits(n, x, 1)
        /\ Calling(FS!Read(cwd, n, x, CopyClusters * ClusterSize))
     \/ ~ Fits(n, x, 1) /\ Undefined

(* The directories in the working directory, and whether find comes to one *)
(* before an entry of that name.                                           *)
Subdirectories ==
  {i \in Slots \ {0, 1} : OwnTable(cwd)[i].attr = ATTR_SUBDIRECTORY}
Descends(n) ==
  \E i \in Subdirectories : \A j \in 2 .. i : OwnTable(cwd)[j].name # n

(* What find finds is shown by print_dir_tree(), which walks through the   *)
(* bytes of a file as if it were a directory.                              *)
FindShows(n, open) ==
  LET hit == FindInDirectory(cwd, n, open)
      e   == OwnTable(hit[1])[hit[2]]
  IN  hit # <<>> => e.attr = ATTR_SUBDIRECTORY /\ PathFits(e.cluster)

(* On the way down find appends to new_path, which is not initialised and  *)
(* may have no end.  If it has one, what it holds decides how far down the *)
(* paths stay short enough; those of one name always are.                  *)
Find(n) ==
  LET opens == {open \in SUBSET DataClusters :
                  \A i \in Subdirectories : OwnTable(cwd)[i].cluster \in open}
      shown == {open \in opens : FindShows(n, open)}
  IN  /\ place = "ready"
      /\ \/ shown # {} /\ Calling(FS!ReadDirectory(cwd, "."))
         \/ (shown # opens \/ Descends(n)) /\ Undefined

-----------------------------------------------------------------------------
(* The external inserter (src/src/external-inserter.c) puts a file into    *)
(* the image while the machine is off, through the same write(); the image *)
(* is saved as a whole.  Without a file to read it makes a directory.      *)
Insert(parent, n, size, p) ==
  /\ place = "off"
  /\ disk.signed
  /\ FS!CanWrite(parent, n, Blank)
  /\ \/ /\ size = 0 /\ FreeSlots(disk.cell[parent].table) # {}
        /\ disk' = FS!InitDirectoryTable(disk, disk.fat, n, parent)[3]
     \/ /\ size > 0 /\ Cardinality(FS!Allocation(size)) >= CeilDiv(size)
        /\ LET k == CeilDiv(size)
               c == Least(FS!Allocation(size))
               m == Link(disk.fat, FS!Allocation(size), FAT32_FAT_END_OF_FILE)
           IN  disk' = FS!WriteImages(disk, m, c, p, k, parent,
                         AddEntry(disk.cell[parent].table,
                                  FileEntry(n, Blank, size, c)))[k + 2]
  /\ UNCHANGED <<map, mounted, todo, op, losses, clusters, place>>

(* The inserter makes a file system on a disk that has none, and saves it  *)
(* also if the write that follows is refused.                              *)
InsertFormat ==
  /\ place = "off"
  /\ ~ disk.signed
  /\ disk' = FS!FormatImages[5]
  /\ UNCHANGED <<map, mounted, todo, op, losses, clusters, place>>

Paths == UNION {[1 .. k -> Components] : k \in 1 .. MaxComponents}

(* A "." alone ends the line of a cp: what follows it is the extension.    *)
Destinations(n) == IF n = Blank THEN {Blank} ELSE Names \cup {".", "..", Blank}

Command ==
  \/ CdUp \/ Ls
  \/ \E path \in Paths : Cd(path)
  \/ \E n \in Names : Rm(n) \/ Find(n)
  \/ \E n \in Names \cup {Blank} :
       \/ Mkdir(n)
       \/ \E x \in Exts : Cat(n, x) \/ Mv(n, x)
       \/ \E x \in Exts, dest \in Destinations(n) : Cp(n, x, dest)

Next ==
  \/ Boot \/ SwitchOff \/ ShowPrompt \/ DriverStep \/ Command \/ InsertFormat
  \/ \E parent \in DataClusters, n \in Names, size \in Sizes, p \in Payloads :
       Insert(parent, n, size, p)

(* A running call returns, because the driver never waits for anything but *)
(* the disk, and the shell is the only process.  No one has to type.       *)
Spec == Init /\ [][Next]_vars /\ WF_vars(ShowPrompt \/ DriverStep)

-----------------------------------------------------------------------------
(***************************************************************************)
(* Properties.                                                             *)
(***************************************************************************)

(* Every variable holds a value of its kind: no path takes cd out of the   *)
(* FAT, but for the one cluster number that it finds in the boot sector.   *)
TypeOK ==
  /\ FS!TypeOK
  /\ clusters \in Seq(Clusters \cup {BootCluster})
  /\ Len(clusters) \in 1 .. StackSize
  /\ place \in PlaceNames

Above(c) == {UpWalk(c)[k] : k \in 0 .. Least(Rounds(c))}

(* The stack of cd never goes stale: whatever was made and removed since,  *)
(* each cluster on it is still a directory below the one under it, so that *)
(* "cd .." leads back to where the user was and never to a freed or reused *)
(* cluster.  Only a path with an empty component can add one that is not a *)
(* directory, and the shell never comes back to the prompt from there.  No *)
(* path goes up in the middle, and rm is not given the name of the working *)
(* directory: see PromptFindsRoot.                                         *)
StackIsPath ==
  \A k \in 2 .. Len(clusters) :
    \/ /\ clusters[k] \in FS!Directories(disk)
       /\ Rounds(clusters[k]) # {}
       /\ clusters[k - 1] \in Above(clusters[k])
    \/ /\ clusters[k] = BootCluster
       /\ k = Len(clusters) /\ place \in {"busy", "astray"}

(* The walk up to the root only goes astray from the cluster that an empty *)
(* component of a path led to, and the path in the prompt is true: cd      *)
(* along it from the root, with a backslash after the last name, leads to  *)
(* the working directory.                                                  *)
PromptTruthful ==
  /\ place = "astray" => cwd = BootCluster
  /\ place = "ready" =>
       LET path == IF cwd = ROOT_CLUSTER_NUMBER THEN <<>> ELSE ShownPath(cwd)
           w    == PathWalk(ROOT_CLUSTER_NUMBER, path)
       IN  w.at = cwd /\ w.end = "more"

(* find misses nothing: whichever paths are short enough, it finds a name  *)
(* exactly if some directory lists it from which print_dir_tree() would    *)
(* come by the working directory through none but directories with such    *)
(* paths.                                                                  *)
FindComplete ==
  place = "ready" =>
    \A n \in Names, open \in SUBSET DataClusters :
      FindInDirectory(cwd, n, open) # <<>>
        <=> \E l \in FS!Listed(disk) :
              /\ FS!EntryAt(disk, l).name = n
              /\ \E k \in 0 .. Least(Rounds(l[1])) :
                   /\ UpWalk(l[1])[k] = cwd
                   /\ \A j \in 0 .. k - 1 : UpWalk(l[1])[j] \in open

(* Every command comes back to the prompt, unless the machine is switched  *)
(* off, the command has left the defined behaviour or an empty component   *)
(* of a path has led to the cluster number in the boot sector: no loop     *)
(* over chains, directories or parents keeps it.                           *)
CommandsEnd ==
  place = "busy" ~>
    \/ place \in {"ready", "off", "undefined"}
    \/ place = "astray" /\ cwd = BootCluster

(* print_dir_tree(): "Stop when we reach the root".                        *)
PromptFindsRoot == place # "astray"

=============================================================================
