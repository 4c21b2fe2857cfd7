----------------------------- MODULE FileStore ------------------------------
(***************************************************************************)
(* What the file system promises its callers, without clusters, tables or  *)
(* disk writes: a directory handle and a name lead to the contents of a    *)
(* file or to another directory, one call changes only what it names, and  *)
(* a call that returns 0 has done what it was asked, except in a directory *)
(* that is full.  Handles are the parent_cluster_number of the calls in    *)
(* src/src/header/filesystem/fat32.h.                                      *)
(***************************************************************************)
EXTENDS Integers, Sequences, FiniteSets

CONSTANTS
  Handles,      \* what a caller may pass as a directory
  Root,         \* the handle of the root directory
  Capacity,     \* how many entries a directory can hold
  FileNames,    \* the names that a directory may have
  Whole(_, _)   \* Whole(p, size): the contents that storing p leaves

VARIABLES
  dirs,         \* the directories there are, and the name of each
  store,        \* what each <<handle, name, extension>> leads to
  reply         \* the last call and what it returned

avars == <<dirs, store, reply>>

(* An entry is a file with contents or a directory with a handle.          *)
File(contents) == [file |-> TRUE, contents |-> contents, dir |-> 0]
Dir(h)         == [file |-> FALSE, contents |-> <<>>, dir |-> h]

Key(r)   == <<r.parent, r.name, r.ext>>
Known(r) == Key(r) \in DOMAIN store
Below(h) == {k \in DOMAIN store : k[1] = h}
Full(h)  == Cardinality(Below(h)) >= Capacity

Without(f, S) == [k \in DOMAIN f \ S |-> f[k]]
With(f, k, v) == [j \in DOMAIN f \cup {k} |-> IF j = k THEN v ELSE f[j]]

Init ==
  /\ dirs = <<>>
  /\ store = <<>>
  /\ reply.call = "none"

(* The first start makes an empty root.                                    *)
Create ==
  /\ reply'.call = "format"
  /\ dirs = <<>>
  /\ \E n \in FileNames : dirs' = With(dirs, Root, n)
  /\ UNCHANGED store

(* Returning to the caller, and switching the machine off and on again,    *)
(* change nothing.                                                         *)
Rest ==
  /\ reply'.call = "none"
  /\ UNCHANGED <<dirs, store>>

AddFile ==
  /\ reply'.call = "write" /\ reply'.ret = 0 /\ reply'.size > 0
  /\ reply'.parent \in DOMAIN dirs
  /\ Key(reply') \notin DOMAIN store
  /\ ~ Full(reply'.parent)
  /\ store' = With(store, Key(reply'), File(Whole(reply'.what, reply'.size)))
  /\ UNCHANGED dirs

(* The one exception to the promise: a file for a full directory is        *)
(* acknowledged and forgotten, and does no harm to the others.             *)
ForgetFile ==
  /\ reply'.call = "write" /\ reply'.ret = 0 /\ reply'.size > 0
  /\ reply'.parent \in DOMAIN dirs
  /\ Key(reply') \notin DOMAIN store
  /\ Full(reply'.parent)
  /\ UNCHANGED <<dirs, store>>

AddDirectory ==
  /\ reply'.call = "write" /\ reply'.ret = 0 /\ reply'.size = 0
  /\ reply'.parent \in DOMAIN dirs
  /\ Key(reply') \notin DOMAIN store
  /\ ~ Full(reply'.parent)
  /\ \E h \in Handles \ DOMAIN dirs :
       /\ store' = With(store, Key(reply'), Dir(h))
       /\ dirs' = With(dirs, h, reply'.name)

RemoveFile ==
  /\ reply'.call = "delete" /\ reply'.ret = 0
  /\ Key(reply') \in DOMAIN store
  /\ store[Key(reply')].file
  /\ store' = Without(store, {Key(reply')})
  /\ UNCHANGED dirs

RemoveDirectory ==
  /\ reply'.call = "delete" /\ reply'.ret = 0
  /\ Key(reply') \in DOMAIN store
  /\ ~ store[Key(reply')].file
  /\ Below(store[Key(reply')].dir) = {}
  /\ store' = Without(store, {Key(reply')})
  /\ dirs' = Without(dirs, {store[Key(reply')].dir})

(* A file is read back as it was stored; read() may deliver more clusters. *)
ReadFile ==
  /\ reply'.call = "read"
  /\ CASE reply'.ret = 0 ->
            LET k == Key(reply') IN
            /\ k \in DOMAIN store /\ store[k].file =>
                 /\ Len(reply'.out) >= Len(store[k].contents)
                 /\ SubSeq(reply'.out, 1, Len(store[k].contents))
                      = store[k].contents
       [] reply'.ret = 1 -> reply'.size = 0
       [] reply'.ret = 2 -> Key(reply') \notin DOMAIN store
       [] OTHER -> FALSE
  /\ UNCHANGED <<dirs, store>>

(* The directory tables themselves are not part of the promise, only that  *)
(* a directory that exists is found.                                       *)
ReadFolder ==
  /\ reply'.call = "read_directory"
  /\ reply'.ret = 2 => Key(reply') \notin DOMAIN store
  /\ UNCHANGED <<dirs, store>>

(* A call that returns an error changes nothing, and the error is true: a  *)
(* name is taken by an entry, by the directory itself or by "..".          *)
Refuse ==
  /\ reply'.ret # 0
  /\ \/ /\ reply'.call = "write" /\ reply'.ret = 1
        /\ \/ Key(reply') \in DOMAIN store
           \/ reply'.parent \in DOMAIN dirs
              /\ reply'.name \in {"..", dirs[reply'.parent]}
     \/ reply'.call = "write" /\ reply'.ret = -1
     \/ /\ reply'.call = "delete" /\ reply'.ret = 1
        /\ Key(reply') \notin DOMAIN store
     \/ /\ reply'.call = "delete" /\ reply'.ret = 2
        /\ \/ reply'.parent \in DOMAIN dirs /\ reply'.name \in {"..", dirs[reply'.parent]}
           \/ /\ Key(reply') \in DOMAIN store
              /\ ~ store[Key(reply')].file
              /\ Below(store[Key(reply')].dir) # {}
     \/ /\ reply'.call = "delete" /\ reply'.ret = -1
        /\ Key(reply') \notin DOMAIN store
  /\ UNCHANGED <<dirs, store>>

Next ==
  \/ Create \/ Rest
  \/ AddFile \/ ForgetFile \/ AddDirectory \/ RemoveFile \/ RemoveDirectory
  \/ ReadFile \/ ReadFolder \/ Refuse

Spec == Init /\ [][Next]_avars
=============================================================================
