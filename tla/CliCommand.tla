----------------------------- MODULE CliCommand -----------------------------
(* Concurrent invocations of the Rust command line tool                    *)
(* (crates/krcm-cli/src/main.rs), each system call of atomic_write a step  *)
(* of its own, each of them allowed to fail, with invocations killed and   *)
(* power lost between any two steps.                                       *)
EXTENDS CliBase

CONSTANTS Suffixes,   \* what the random part of a temporary name can be
          Chunks,     \* how many writes a file takes
          Initial,    \* path -> the contents it starts with, or None
          MaxLosses   \* how many times power may be lost

Temps  == Paths \X Suffixes
Names  == Paths \cup Temps
Inodes == Paths \cup Procs   \* an initial file, or the one a process creates

ASSUME NamesAssumption ==
  /\ Paths \cap Temps = {}
  /\ Paths \cap Procs = {}
  /\ None \notin Names \cup Inodes \cup Contents
ASSUME SizeAssumption == Chunks \in Nat \ {0} /\ MaxLosses \in Nat
ASSUME InitialAssumption ==
  Initial \in [Paths -> [plain : Paths, seals : Seq(Versions)] \cup {None}]

VARIABLES
  dir, dirDisk, data, dirty,       \* the file system
  pc,        \* process -> the step of run() or atomic_write it is at
  cmd,       \* process -> its command line
  got,       \* process -> the contents it read
  tmp,       \* process -> the temporary name it drew
  fd,        \* process -> the inode it has open
  pos,       \* process -> the chunks it wrote
  log,       \* history: the renames, oldest first
  seen,      \* history: process -> renames before its second check
  synced,    \* history: processes whose rename was followed by a sync
  stuck,     \* history: processes whose remove_file failed
  losses     \* power losses so far

INSTANCE PosixFs

fsVars   == <<dir, dirDisk, data, dirty>>
procVars == <<pc, cmd, got, tmp, fd, pos>>
histVars == <<log, seen, synced, stuck, losses>>
vars     == <<fsVars, procVars, histVars>>

Terminal == {"ok", "failed", "killed"}
Labels   == {"idle", "password", "read", "check", "draw", "create", "write",
             "sync", "rename", "dirsync", "cleanup"} \cup Terminal

\* What a reader of inode i gets.
Whole(i) == \A c \in 1..Chunks : data[i][c] = data[i][1] /\ data[i][c] # None
Read(i)  == IF Whole(i) THEN data[i][1] ELSE Torn

\* Mutant: the input is read again for every chunk that is written.
StreamedOutput(p) ==
  Result(cmd[p], IF Exists(cmd[p].input) THEN Read(dir[cmd[p].input]) ELSE Torn)

Output(p) == Result(cmd[p], got[p])

Goto(p, label)    == pc' = [pc EXCEPT ![p] = label]
Move(p, from, to) == pc[p] = from /\ Goto(p, to)

-----------------------------------------------------------------------------
Init ==
  /\ dir = [n \in Names |->
             IF n \in Paths THEN IF Initial[n] # None THEN n ELSE None
                            ELSE None]
  /\ dirDisk = {dir}
  /\ data = [i \in Inodes |-> [c \in 1..Chunks |->
              IF i \in Paths THEN Initial[i] ELSE None]]
  /\ dirty = [i \in Inodes |-> {}]
  /\ pc   = [p \in Procs |-> "idle"]
  /\ cmd  = [p \in Procs |-> None]
  /\ got  = [p \in Procs |-> None]
  /\ tmp  = [p \in Procs |-> None]
  /\ fd   = [p \in Procs |-> None]
  /\ pos  = [p \in Procs |-> 0]
  /\ log  = << >>
  /\ seen = [p \in Procs |-> 0]
  /\ synced = {}
  /\ stuck  = {}
  /\ losses = 0

\* ensure_output_available
Unavailable(c) == Exists(c.output) /\ ~c.force

\* run(): the first check, and the version check of migrate, come before the
\* password is asked for.
Start(p) ==
  /\ pc[p] = "idle"
  /\ \E c \in Commands :
       /\ cmd' = [cmd EXCEPT ![p] = c]
       /\ Goto(p, IF c.op \notin Writers THEN "read"
                  ELSE IF Unavailable(c) \/ (c.op = "migrate" /\ c.version # 5)
                       THEN "failed" ELSE "password")
  /\ UNCHANGED <<fsVars, got, tmp, fd, pos, histVars>>

Password(p) ==
  /\ pc[p] = "password"
  /\ \E answer \in {"read", "failed"} : Goto(p, answer)
  /\ UNCHANGED <<fsVars, cmd, got, tmp, fd, pos, histVars>>

\* fs::read, then the transformation, which a wrong password also fails.
ReadInput(p) ==
  /\ pc[p] = "read" /\ cmd[p].op \in Writers
  /\ \/ /\ Exists(cmd[p].input)
        /\ Accepts(cmd[p], Read(dir[cmd[p].input]))
        /\ got' = [got EXCEPT ![p] = Read(dir[cmd[p].input])]
        /\ Goto(p, "check")
     \/ Goto(p, "failed") /\ UNCHANGED got
  /\ UNCHANGED <<fsVars, cmd, tmp, fd, pos, histVars>>

\* `info` looks at the magic of its input.
Recognized(c) == Exists(c.input) /\ Sealed(Read(dir[c.input]))

\* The commands that write no file; self-test and bench read none either.
Report(p) ==
  /\ pc[p] = "read" /\ cmd[p].op \notin Writers
  /\ \/ (cmd[p].op = "info" => Recognized(cmd[p])) /\ Goto(p, "ok")
     \/ Goto(p, "failed")
  /\ UNCHANGED <<fsVars, cmd, got, tmp, fd, pos, histVars>>

\* atomic_write checks the output once more.
NoRecheck(p) ==
  /\ Move(p, "check", "draw")
  /\ seen' = [seen EXCEPT ![p] = Len(log)]
  /\ UNCHANGED <<fsVars, cmd, got, tmp, fd, pos, log, synced, stuck, losses>>

Recheck(p) ==
  /\ pc[p] = "check"
  /\ Goto(p, IF Unavailable(cmd[p]) THEN "failed" ELSE "draw")
  /\ seen' = [seen EXCEPT ![p] = Len(log)]
  /\ UNCHANGED <<fsVars, cmd, got, tmp, fd, pos, log, synced, stuck, losses>>

\* Mutant: the suffix is drawn once, outside the loop.
DrawOnce(p, s) ==
  /\ Move(p, "draw", "create")
  /\ tmp' = [tmp EXCEPT ![p] = IF @ = None THEN <<cmd[p].output, s>> ELSE @]
  /\ UNCHANGED <<fsVars, cmd, got, fd, pos, histVars>>

DrawSuffix(p, s) ==
  /\ Move(p, "draw", "create")
  /\ tmp' = [tmp EXCEPT ![p] = <<cmd[p].output, s>>]
  /\ UNCHANGED <<fsVars, cmd, got, fd, pos, histVars>>

Draw(p) == \E s \in Suffixes : DrawSuffix(p, s)

\* Mutant: a temporary name that is taken is opened, not drawn again.
CreateOrOpen(p) ==
  /\ Move(p, "create", "write")
  /\ IF Exists(tmp[p])
     THEN fd' = [fd EXCEPT ![p] = dir[tmp[p]]] /\ UNCHANGED fsVars
     ELSE fd' = [fd EXCEPT ![p] = p] /\ CreateNew(tmp[p], p)
  /\ UNCHANGED <<cmd, got, tmp, pos, histVars>>

\* open with create_new: a name that is taken is drawn again, any other
\* error ends the command.
CreateTemp(p) ==
  /\ pc[p] = "create"
  /\ \/ /\ CreateNew(tmp[p], p)
        /\ fd' = [fd EXCEPT ![p] = p]
        /\ Goto(p, "write")
     \/ Exists(tmp[p]) /\ Goto(p, "draw") /\ UNCHANGED <<fsVars, fd>>
     \/ Goto(p, "failed") /\ UNCHANGED <<fsVars, fd>>
  /\ UNCHANGED <<cmd, got, tmp, pos, histVars>>

\* Mutant: one write too many.
WriteTooMuch(p) ==
  /\ pc[p] = "write"
  /\ WriteChunk(fd[p], pos[p] + 1, Output(p))
  /\ pos' = [pos EXCEPT ![p] = @ + 1]
  /\ Goto(p, IF pos[p] = Chunks THEN "sync" ELSE "write")
  /\ UNCHANGED <<cmd, got, tmp, fd, histVars>>

\* One write of write_all.
WriteTemp(p) ==
  /\ pc[p] = "write"
  /\ \/ /\ WriteChunk(fd[p], pos[p] + 1, Output(p))
        /\ pos' = [pos EXCEPT ![p] = @ + 1]
        /\ Goto(p, IF pos[p] + 1 = Chunks THEN "sync" ELSE "write")
     \/ Goto(p, "cleanup") /\ UNCHANGED <<fsVars, pos>>
  /\ UNCHANGED <<cmd, got, tmp, fd, histVars>>

\* Mutant: the data is flushed to the kernel but never synced.
FlushTemp(p) ==
  /\ pc[p] = "sync"
  /\ \E next \in {"rename", "cleanup"} : Goto(p, next)
  /\ UNCHANGED <<fsVars, cmd, got, tmp, fd, pos, histVars>>

SyncTemp(p) ==
  /\ pc[p] = "sync"
  /\ \/ SyncFile(fd[p]) /\ Goto(p, "rename")
     \/ Goto(p, "cleanup") /\ UNCHANGED fsVars
  /\ UNCHANGED <<cmd, got, tmp, fd, pos, histVars>>

Published(p) ==
  [by |-> p, over |-> dir[cmd[p].output], seen |-> seen[p]]

\* Mutant: the old output is removed first, then the new one renamed.
RemoveThenRename(p) ==
  /\ pc[p] = "rename"
  /\ IF Exists(cmd[p].output)
     THEN Unlink(cmd[p].output) /\ UNCHANGED <<pc, log>>
     ELSE /\ Rename(tmp[p], cmd[p].output)
          /\ log' = Append(log, Published(p))
          /\ Goto(p, "dirsync")
  /\ UNCHANGED <<cmd, got, tmp, fd, pos, seen, synced, stuck, losses>>

RenameTemp(p) ==
  /\ pc[p] = "rename"
  /\ \/ /\ Rename(tmp[p], cmd[p].output)
        /\ log' = Append(log, Published(p))
        /\ Goto(p, "dirsync")
     \/ Goto(p, "cleanup") /\ UNCHANGED <<fsVars, log>>
  /\ UNCHANGED <<cmd, got, tmp, fd, pos, seen, synced, stuck, losses>>

\* Mutant: an error of the directory sync is reported with `?`.
StrictSyncParent(p) ==
  /\ pc[p] = "dirsync"
  /\ \/ /\ ~cmd[p].bare
        /\ SyncDirectory
        /\ synced' = synced \cup {p}
        /\ Goto(p, "ok")
     \/ Goto(p, "cleanup") /\ UNCHANGED <<fsVars, synced>>
  /\ UNCHANGED <<cmd, got, tmp, fd, pos, log, seen, stuck, losses>>

\* Mutant: the directory is opened but not synced.
OpenParent(p) ==
  /\ Move(p, "dirsync", "ok")
  /\ synced' = IF cmd[p].bare THEN synced ELSE synced \cup {p}
  /\ UNCHANGED <<fsVars, cmd, got, tmp, fd, pos, log, seen, stuck, losses>>

\* The directory is opened and synced, and any error ignored; the parent of
\* a bare file name is the empty path, which cannot be opened.
SyncParent(p) ==
  /\ Move(p, "dirsync", "ok")
  /\ \/ ~cmd[p].bare /\ SyncDirectory /\ synced' = synced \cup {p}
     \/ UNCHANGED <<fsVars, synced>>
  /\ UNCHANGED <<cmd, got, tmp, fd, pos, log, seen, stuck, losses>>

\* Mutant: an error returns at once, the temporary file is left.
NoCleanup(p) ==
  /\ Move(p, "cleanup", "failed")
  /\ UNCHANGED <<fsVars, cmd, got, tmp, fd, pos, histVars>>

\* fs::remove_file, and its error ignored.
Cleanup(p) ==
  /\ Move(p, "cleanup", "failed")
  /\ \/ Unlink(tmp[p]) /\ UNCHANGED stuck
     \/ stuck' = stuck \cup {p} /\ UNCHANGED fsVars
  /\ UNCHANGED <<cmd, got, tmp, fd, pos, log, seen, synced, losses>>

Kill(p) ==
  /\ pc[p] \notin Terminal \cup {"idle"}
  /\ Goto(p, "killed")
  /\ UNCHANGED <<fsVars, cmd, got, tmp, fd, pos, histVars>>

\* Power is lost: every running process with it.
PowerLoss ==
  /\ losses < MaxLosses
  /\ losses' = losses + 1
  /\ LosePower
  /\ pc' = [p \in Procs |->
             IF pc[p] \in Terminal \cup {"idle"} THEN pc[p] ELSE "killed"]
  /\ UNCHANGED <<cmd, got, tmp, fd, pos, log, seen, synced, stuck>>

\* What a process does once the password has been entered.
Step(p) == \/ ReadInput(p) \/ Report(p) \/ Recheck(p) \/ Draw(p)
           \/ CreateTemp(p) \/ WriteTemp(p) \/ SyncTemp(p)
           \/ RenameTemp(p) \/ SyncParent(p) \/ Cleanup(p)

Next == \/ \E p \in Procs : Start(p) \/ Password(p) \/ Step(p) \/ Kill(p)
        \/ PowerLoss

Spec == Init /\ [][Next]_vars

\* The system runs a process that waits for nobody, and a generator that is
\* asked again and again returns a suffix that is free in the end.
DrawFree(p) == /\ pc[p] = "draw"
               /\ \E s \in Suffixes : /\ ~Exists(<<cmd[p].output, s>>)
                                     /\ DrawSuffix(p, s)

FairSpec == Spec /\ \A p \in Procs : WF_vars(Step(p)) /\ SF_vars(DrawFree(p))

-----------------------------------------------------------------------------
(* Properties                                                              *)

\* Every variable keeps its type: a process never writes past the end of its
\* file, and directories lead to inodes.
TypeOK ==
  /\ dir \in [Names -> Inodes \cup {None}]
  /\ dirDisk \subseteq [Names -> Inodes \cup {None}]
  /\ data \in [Inodes -> [1..Chunks -> Contents \cup {None}]]
  /\ dirty \in [Inodes -> SUBSET (1..Chunks)]
  /\ pc \in [Procs -> Labels]
  /\ cmd \in [Procs -> Commands \cup {None}]
  /\ got \in [Procs -> Contents \cup {None}]
  /\ tmp \in [Procs -> Temps \cup {None}]
  /\ fd \in [Procs -> Inodes \cup {None}]
  /\ pos \in [Procs -> 0..Chunks]
  /\ log \in Seq([by : Procs, over : Inodes \cup {None}, seen : Nat])
  /\ seen \in [Procs -> Nat]
  /\ synced \subseteq Procs
  /\ stuck \subseteq Procs
  /\ losses \in 0..MaxLosses

\* A file whose every chunk was written and has reached the disk.
Durable(i) == Whole(i) /\ dirty[i] = {}

\* Whatever a user's path names, now or after power is lost, is a whole file
\* that is on the disk: write_all and sync_all come before the rename, and
\* nothing writes to a file once it is published.
CrashSafe ==
  \A d \in dirDisk \cup {dir} : \A x \in Paths :
    d[x] # None => Durable(d[x]) /\ data[d[x]][1].plain # None

\* A path that commands only ever rewrite in place (`--force` with the input
\* as output) holds its own plaintext at all times and after every loss of
\* power: no crash and no race between such commands loses the only copy.
InPlaceKeepsPlaintext ==
  \A x \in Paths :
    (/\ Initial[x] # None
     /\ \A p \in Procs : cmd[p] # None /\ cmd[p].output = x
                           => cmd[p].input = x)
    => \A d \in dirDisk \cup {dir} :
         d[x] # None /\ Read(d[x]).plain = Initial[x].plain

\* Once a command whose directory sync succeeded is done, no loss of power
\* brings back what its output held before: later renames alone replace it.
ConfirmedSurvives ==
  \A k \in 1..Len(log) : log[k].by \in synced =>
    LET x == cmd[log[k].by].output
    IN  \A d \in dirDisk \cup {dir} :
          \E j \in k..Len(log) : log[j].by = d[x] /\ cmd[log[j].by].output = x

\* Without --force, the only file a command can replace is one that another
\* command published after atomic_write looked: the check is made again
\* after the password and the computation, however long they take.
RaceOnly ==
  \A k \in 1..Len(log) :
    (log[k].over # None /\ ~cmd[log[k].by].force)
    => \E j \in (log[k].seen + 1)..(k - 1) : log[j].by = log[k].over

\* A command that reports failure has not touched a user's path, not even on
\* the disk, whichever of its calls failed and whoever ran beside it.
FailureIsInvisible ==
  \A p \in Procs : pc[p] = "failed" =>
    \A d \in dirDisk \cup {dir} : \A x \in Paths : d[x] # p

\* A command that ended by itself leaves no temporary file: neither one that
\* succeeded, nor one that failed and whose remove_file worked (until a loss
\* of power, which may bring an unlinked name back).
TempRemoved ==
  \A p \in Procs :
    \/ pc[p] \notin {"ok", "failed"}
    \/ p \in stuck
    \/ losses > 0 /\ p \notin synced
    \/ \A n \in Temps : dir[n] # p

\* No step, a loss of power included, changes the bytes of the file a user's
\* path names: replacing it by rename is the only way it changes, so a reader
\* that has it open sees one version.
PublishedImmutable ==
  [][\A x \in Paths : dir[x] # None => data'[dir[x]] = data[dir[x]]]_vars

\* A command whose password was entered ends: the loop over temporary names
\* cannot keep it, nor can files left by commands that were killed.
CommandEnds == \A p \in Procs : pc[p] = "read" ~> pc[p] \in Terminal

\* README.md: "Without --force, the CLI fails" when the output exists, so no
\* command without it replaces a file.
NoClobber == \A k \in 1..Len(log) : cmd[log[k].by].force \/ log[k].over = None

-----------------------------------------------------------------------------
(* The inductive invariant that CrashSafe needs.                           *)

\* The directory running processes see is one that may be on the disk.
DirInDisk == dir \in dirDisk

\* From the creation of its temporary file to the rename, a process has that
\* file open and the name it drew leads to it.
OwnsTemp ==
  \A p \in Procs :
    /\ pc[p] = "create" => tmp[p] \in Temps
    /\ pc[p] \in {"write", "sync", "rename", "cleanup"} =>
         tmp[p] \in Temps /\ fd[p] = p /\ dir[tmp[p]] = p

\* No path leads to the file of a process that has not renamed it.
Unpublished ==
  \A p \in Procs : pc[p] \notin {"dirsync", "ok", "killed"} =>
    \A d \in dirDisk : \A x \in Paths : d[x] # p

\* A process that has its input has a result.
Prepared ==
  \A p \in Procs :
    /\ pc[p] # "idle" => cmd[p] \in Commands
    /\ pc[p] \in {"check", "draw", "create", "write", "sync", "rename"} =>
         got[p] \in Contents /\ got[p].plain # None /\ Accepts(cmd[p], got[p])

\* The chunks written so far hold the result, and they have reached the disk
\* when the rename is due.
Written ==
  \A p \in Procs :
    /\ pc[p] \in {"idle", "password", "read", "check", "draw", "create"} =>
         pos[p] = 0
    /\ pc[p] = "write" => pos[p] < Chunks
    /\ pc[p] \in {"sync", "rename"} => pos[p] = Chunks
    /\ pc[p] \in {"write", "sync", "rename"} =>
         \A c \in 1..pos[p] : data[p][c] = Output(p)
    /\ pc[p] = "rename" => dirty[p] = {}

\* What every step of run and atomic_write keeps, whatever runs beside it.
IInv == /\ TypeOK /\ DirInDisk /\ OwnsTemp /\ Unpublished
        /\ Prepared /\ Written /\ CrashSafe

-----------------------------------------------------------------------------
\* The files a user sees in directory d; what is still only in memory counts
\* as torn in every directory a loss of power may leave.
FilesIn(d, lossy) ==
  [x \in Paths |-> IF d[x] = None THEN None
                   ELSE IF lossy /\ ~Durable(d[x]) THEN Torn
                   ELSE Read(d[x])]

Status(p) == CASE pc[p] \in Terminal \cup {"idle"} -> pc[p]
               [] pc[p] = "dirsync" -> "published"
               [] OTHER -> "running"

Abstract == INSTANCE AtomicFile
              WITH file    <- FilesIn(dir, FALSE),
                   recover <- {FilesIn(d, TRUE) : d \in dirDisk},
                   status  <- [p \in Procs |-> Status(p)]

\* Every command, whatever runs beside it and wherever it is stopped, behaves
\* as one read of its input and one replacement of its output.
ImplementsAtomicFile == Abstract!Spec
=============================================================================
