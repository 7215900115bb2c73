------------------------------ MODULE PosixFs ------------------------------
(* The file system as the two command line tools use it: one directory,    *)
(* inodes holding a fixed number of chunks, and what a loss of power may   *)
(* leave of both.  It stands for calls made in crates/krcm-cli/src/main.rs *)
(* (atomic_write), krcm/cli.py (_atomic_write) and krcm/core.py; the code  *)
(* of the file system itself is external.                                  *)
(*                                                                         *)
(*  - Every change of the directory may or may not have reached the disk   *)
(*    until the directory is synced: dirDisk holds each state a loss of    *)
(*    power may restore (directory changes are journalled in order, and a  *)
(*    rename is atomic).                                                   *)
(*  - Every chunk written since the last sync of its inode may be lost.    *)
EXTENDS Naturals

CONSTANTS Names,     \* what a directory entry can be called
          Inodes,    \* the files themselves
          Chunks,    \* how many writes a whole file takes
          None       \* no inode, or a chunk that was never written

VARIABLES dir,       \* name -> inode or None, as running processes see it
          dirDisk,   \* the directories a loss of power may leave
          data,      \* inode -> chunk -> value or None
          dirty      \* inode -> the chunks a loss of power may lose

Exists(n) == dir[n] # None

SetDir(d) == /\ dir' = d
             /\ dirDisk' = dirDisk \cup {d}
             /\ UNCHANGED <<data, dirty>>

\* OpenOptions::create_new: the name must be free (O_EXCL).
CreateNew(n, i) == ~Exists(n) /\ SetDir([dir EXCEPT ![n] = i])

Unlink(n) == Exists(n) /\ SetDir([dir EXCEPT ![n] = None])

\* rename(2) replaces whatever the target name held.
Rename(from, to) ==
  Exists(from) /\ SetDir([dir EXCEPT ![to] = dir[from], ![from] = None])

WriteChunk(i, c, v) == /\ data' = [data EXCEPT ![i][c] = v]
                       /\ dirty' = [dirty EXCEPT ![i] = @ \cup {c}]
                       /\ UNCHANGED <<dir, dirDisk>>

\* open(2) with O_TRUNC; that it reaches the disk at once is the worse case.
Truncate(i) == /\ data' = [data EXCEPT ![i] = [c \in 1..Chunks |-> None]]
               /\ dirty' = [dirty EXCEPT ![i] = {}]
               /\ UNCHANGED <<dir, dirDisk>>

SyncFile(i) == /\ dirty' = [dirty EXCEPT ![i] = {}]
               /\ UNCHANGED <<dir, dirDisk, data>>

SyncDirectory == dirDisk' = {dir} /\ UNCHANGED <<dir, data, dirty>>

Unsynced == {ic \in Inodes \X (1..Chunks) : ic[2] \in dirty[ic[1]]}

LosePower ==
  /\ dir' \in dirDisk
  /\ dirDisk' = {dir'}
  /\ \E lost \in SUBSET Unsynced :
       data' = [i \in Inodes |-> [c \in 1..Chunks |->
                  IF <<i, c>> \in lost THEN None ELSE data[i][c]]]
  /\ dirty' = [i \in Inodes |-> {}]
=============================================================================
