------------------------------ MODULE PyCommand ------------------------------
(* Concurrent invocations of the Python command line tool (krcm/cli.py),   *)
(* whose _atomic_write gives every output one fixed temporary name, and    *)
(* programs that write containers in place with encrypt_to_file of         *)
(* krcm/core.py.  Any call may fail, any process may be killed and power   *)
(* may be lost between two steps.  What a process writes is told apart by  *)
(* the process alone.                                                      *)
EXTENDS Naturals

CONSTANTS Procs,      \* processes
          Paths,      \* names users give to files
          Temp,       \* path -> the name with ".tmp" after it, perhaps a path
          Commands,   \* what processes may be asked to do
          Existing,   \* paths that hold a file at first
          Chunks,     \* how many writes a file takes
          MaxLosses,  \* how many times power may be lost
          None

Names  == Paths \cup {Temp[x] : x \in Paths}
Inodes == Paths \cup Procs    \* an initial file, or the one a process creates

Command == [tool : {"cli", "library"}, input : Paths, output : Paths,
            force : BOOLEAN]

ASSUME PyAssumption == /\ Commands \subseteq Command /\ None \notin Commands
                       /\ Existing \subseteq Paths
                       /\ Paths \cap Procs = {} /\ None \notin Inodes \cup Names
                       /\ \A x \in Paths : Temp[x] # x
                       /\ Chunks \in Nat \ {0} /\ MaxLosses \in Nat

VARIABLES
  dir, dirDisk, data, dirty,   \* the file system
  pc,       \* process -> the step of main or _atomic_write it is at
  cmd,      \* process -> what it was asked
  fd,       \* process -> the inode it has open
  pos,      \* process -> the chunks it wrote
  met,      \* history: outputs two processes were writing at the same time
  stuck,    \* history: processes whose unlink failed
  losses    \* power losses so far

INSTANCE PosixFs

fsVars == <<dir, dirDisk, data, dirty>>
vars   == <<fsVars, pc, cmd, fd, pos, met, stuck, losses>>

Terminal == {"ok", "failed", "killed"}
Writing  == {"write", "sync", "replace", "leave-ok", "leave-failed"}
Labels   == {"idle", "password", "read", "check", "open"} \cup Writing \cup Terminal

Init ==
  /\ dir = [n \in Names |-> IF n \in Existing THEN n ELSE None]
  /\ dirDisk = {dir}
  /\ data = [i \in Inodes |-> [c \in 1..Chunks |-> IF i \in Existing THEN i ELSE None]]
  /\ dirty = [i \in Inodes |-> {}]
  /\ pc  = [p \in Procs |-> "idle"]
  /\ cmd = [p \in Procs |-> None]
  /\ fd  = [p \in Procs |-> None]
  /\ pos = [p \in Procs |-> 0]
  /\ met = {} /\ stuck = {} /\ losses = 0

Goto(p, label) == pc' = [pc EXCEPT ![p] = label]

Library(p) == cmd[p].tool = "library"

\* Mutant: one temporary name for all outputs.
OneTarget(p) ==
  IF Library(p) THEN cmd[p].output ELSE Temp[CHOOSE x \in Paths : TRUE]

\* What a process writes to.
Target(p) == IF Library(p) THEN cmd[p].output ELSE Temp[cmd[p].output]

Unavailable(c) == Exists(c.output) /\ ~c.force

\* Mutant: an error goes unnoticed.
FailureIgnored(p) == "write"

\* The `finally` of _atomic_write runs after any error in its `try`.
Failure(p) == IF Library(p) THEN "failed" ELSE "leave-failed"

-----------------------------------------------------------------------------
Start(p) ==
  /\ pc[p] = "idle"
  /\ \E c \in Commands :
       /\ cmd' = [cmd EXCEPT ![p] = c]
       /\ Goto(p, IF c.tool = "library" THEN "open"
                  ELSE IF Unavailable(c) THEN "failed" ELSE "password")
  /\ UNCHANGED <<fsVars, fd, pos, met, stuck, losses>>

\* getpass, twice with --confirm-password.
Password(p) ==
  /\ pc[p] = "password"
  /\ \E answer \in {"read", "failed"} : Goto(p, answer)
  /\ UNCHANGED <<fsVars, cmd, fd, pos, met, stuck, losses>>

\* read_bytes, and encrypt_bytes or decrypt_bytes, which may refuse.
ReadInput(p) ==
  /\ pc[p] = "read"
  /\ \/ Exists(cmd[p].input) /\ Goto(p, "check")
     \/ Goto(p, "failed")
  /\ UNCHANGED <<fsVars, cmd, fd, pos, met, stuck, losses>>

\* _atomic_write looks once more, before its `try`.
Recheck(p) ==
  /\ pc[p] = "check"
  /\ Goto(p, IF Unavailable(cmd[p]) THEN "failed" ELSE "open")
  /\ UNCHANGED <<fsVars, cmd, fd, pos, met, stuck, losses>>

\* open(tmp, "wb"): a file of that name is truncated, whoever writes to it.
Open(p) ==
  /\ pc[p] = "open"
  /\ \/ /\ Exists(Target(p)) /\ Truncate(dir[Target(p)])
        /\ fd' = [fd EXCEPT ![p] = dir[Target(p)]]
        /\ Goto(p, "write")
     \/ /\ ~Exists(Target(p)) /\ CreateNew(Target(p), p)
        /\ fd' = [fd EXCEPT ![p] = p]
        /\ Goto(p, "write")
     \/ Goto(p, Failure(p)) /\ UNCHANGED <<fsVars, fd>>
  /\ met' = met \cup {x \in {cmd[p].output} : \E q \in Procs \ {p} :
                        pc[q] \in Writing /\ cmd[q].output = x}
  /\ UNCHANGED <<cmd, pos, stuck, losses>>

\* encrypt_to_file is done when the file is written.
Write(p) ==
  /\ pc[p] = "write"
  /\ \/ /\ WriteChunk(fd[p], pos[p] + 1, p)
        /\ pos' = [pos EXCEPT ![p] = @ + 1]
        /\ Goto(p, IF pos[p] + 1 < Chunks THEN "write"
                   ELSE IF Library(p) THEN "ok" ELSE "sync")
     \/ Goto(p, Failure(p)) /\ UNCHANGED <<fsVars, pos>>
  /\ UNCHANGED <<cmd, fd, met, stuck, losses>>

\* Mutant: the file is flushed, not synced.
Flush(p) ==
  /\ pc[p] = "sync"
  /\ \E next \in {"replace", "leave-failed"} : Goto(p, next)
  /\ UNCHANGED <<fsVars, cmd, fd, pos, met, stuck, losses>>

Sync(p) ==
  /\ pc[p] = "sync"
  /\ \/ SyncFile(fd[p]) /\ Goto(p, "replace")
     \/ Goto(p, "leave-failed") /\ UNCHANGED fsVars
  /\ UNCHANGED <<cmd, fd, pos, met, stuck, losses>>

\* Mutant: what is done after os.replace may fail too.
ReplaceAndCheck(p) ==
  /\ pc[p] = "replace"
  /\ \/ /\ Rename(Target(p), cmd[p].output)
        /\ \E next \in {"leave-ok", "leave-failed"} : Goto(p, next)
     \/ Goto(p, "leave-failed") /\ UNCHANGED fsVars
  /\ UNCHANGED <<cmd, fd, pos, met, stuck, losses>>

\* os.replace moves whatever has the temporary name by now.
Replace(p) ==
  /\ pc[p] = "replace"
  /\ \/ Rename(Target(p), cmd[p].output) /\ Goto(p, "leave-ok")
     \/ Goto(p, "leave-failed") /\ UNCHANGED fsVars
  /\ UNCHANGED <<cmd, fd, pos, met, stuck, losses>>

\* Mutant: only a command that succeeded looks for its temporary file.
LeaveOnSuccess(p) ==
  /\ pc[p] \in {"leave-ok", "leave-failed"}
  /\ \/ pc[p] = "leave-ok" /\ Unlink(Target(p)) /\ UNCHANGED stuck
     \/ Exists(Target(p)) /\ stuck' = stuck \cup {p} /\ UNCHANGED fsVars
     \/ (pc[p] = "leave-failed" \/ ~Exists(Target(p))) /\ UNCHANGED <<fsVars, stuck>>
  /\ Goto(p, IF pc[p] = "leave-ok" THEN "ok" ELSE "failed")
  /\ UNCHANGED <<cmd, fd, pos, met, losses>>

\* The `finally`: whatever has the temporary name is removed, its own or not.
Leave(p) ==
  /\ pc[p] \in {"leave-ok", "leave-failed"}
  /\ \/ Unlink(Target(p)) /\ UNCHANGED stuck
     \/ Exists(Target(p)) /\ stuck' = stuck \cup {p} /\ UNCHANGED fsVars
     \/ ~Exists(Target(p)) /\ UNCHANGED <<fsVars, stuck>>
  /\ Goto(p, IF pc[p] = "leave-ok" THEN "ok" ELSE "failed")
  /\ UNCHANGED <<cmd, fd, pos, met, losses>>

Kill(p) ==
  /\ pc[p] \notin Terminal \cup {"idle"}
  /\ Goto(p, "killed")
  /\ UNCHANGED <<fsVars, cmd, fd, pos, met, stuck, losses>>

PowerLoss ==
  /\ losses < MaxLosses
  /\ losses' = losses + 1
  /\ LosePower
  /\ pc' = [p \in Procs |->
             IF pc[p] \in Terminal \cup {"idle"} THEN pc[p] ELSE "killed"]
  /\ UNCHANGED <<cmd, fd, pos, met, stuck>>

Step(p) == \/ Start(p) \/ Password(p) \/ ReadInput(p) \/ Recheck(p) \/ Open(p)
           \/ Write(p) \/ Sync(p) \/ Replace(p) \/ Leave(p) \/ Kill(p)

Next == (\E p \in Procs : Step(p)) \/ PowerLoss

Spec == Init /\ [][Next]_vars

-----------------------------------------------------------------------------
(* Properties                                                              *)

\* Every variable keeps its type, and nobody writes without an open file.
TypeOK ==
  /\ dir \in [Names -> Inodes \cup {None}]
  /\ dirDisk \subseteq [Names -> Inodes \cup {None}]
  /\ data \in [Inodes -> [1..Chunks -> Inodes \cup {None}]]
  /\ dirty \in [Inodes -> SUBSET (1..Chunks)]
  /\ pc \in [Procs -> Labels]
  /\ cmd \in [Procs -> Commands \cup {None}]
  /\ fd \in [Procs -> Inodes \cup {None}]
  /\ \A p \in Procs : pc[p] \in {"write", "sync", "replace"} => fd[p] \in Inodes
  /\ pos \in [Procs -> 0..Chunks]
  /\ met \subseteq Paths /\ stuck \subseteq Procs /\ losses \in 0..MaxLosses

Touches(p) == IF Library(p) THEN {cmd[p].output}
              ELSE {cmd[p].output, Temp[cmd[p].output]}

\* Only commands of the tool write to x, one at a time, and no other process
\* was given x or its temporary name for a file of its own.
Orderly(x) ==
  /\ x \notin met
  /\ \A p \in Procs : cmd[p] # None =>
       \/ cmd[p].output = x /\ ~Library(p)
       \/ Touches(p) \cap {x, Temp[x]} = {}

\* A path whose commands do not overlap inside _atomic_write holds a whole file
\* that is on the disk, at all times and after every loss of power, however
\* many of them were killed and left their temporary file to the next.
WholeUnlessMet ==
  \A x \in Paths : Orderly(x) =>
    \A d \in dirDisk \cup {dir} : d[x] # None =>
      /\ dirty[d[x]] = {}
      /\ \A c \in 1..Chunks : data[d[x]][c] = data[d[x]][1] /\ data[d[x]][c] # None

\* A command that reports failure on such a path has left no data of its own
\* there, not even after a loss of power.
FailureIsInvisible ==
  \A p \in Procs : (pc[p] = "failed" /\ Orderly(cmd[p].output)) =>
    \A d \in dirDisk \cup {dir} :
      d[cmd[p].output] # None => \A c \in 1..Chunks : data[d[cmd[p].output]][c] # p

\* A command that gets past os.replace on such a path has put its own data
\* there: neither the leftover of a killed command nor a neighbour's file.
OkMeansPublished ==
  [][\A p \in Procs :
       LET i == dir'[cmd[p].output]
       IN  (pc[p] = "replace" /\ pc'[p] = "leave-ok" /\ Orderly(cmd[p].output)) =>
             i # None /\ \A c \in 1..Chunks : data'[i][c] = p]_vars

\* When every process has ended by itself and no unlink failed, no temporary
\* file is left, even where commands on one output overlapped and took each
\* other's file away.
NoLeftover ==
  (losses = 0 /\ stuck = {} /\ \A p \in Procs : pc[p] \in {"idle", "ok", "failed"})
  => \A n \in Names \ Paths : ~Exists(n)
=============================================================================
