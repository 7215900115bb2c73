--------------------------- MODULE PyCommandProofs ---------------------------
(* Proofs that PyCommand keeps its type, and of what its fixed temporary   *)
(* names still guarantee: paths whose commands do not overlap hold whole   *)
(* files, a command that fails leaves nothing on them, one that succeeds   *)
(* has published its own data, and nobody leaves a temporary file.         *)
EXTENDS PyCommand, TLAPS

Early   == {"idle", "password", "read", "check", "open"}
Holders == {"write", "sync", "replace"}    \* those with an open file

\* A process has a command line from the moment it has begun.
Begun ==
  \A p \in Procs : /\ pc[p] = "idle" => cmd[p] = None
                   /\ pc[p] # "idle" => cmd[p] \in Commands

\* The chunks written, step by step.
Counted ==
  \A p \in Procs : /\ pc[p] \in Early => pos[p] = 0
                   /\ pc[p] = "write" => pos[p] < Chunks
                   /\ pc[p] \in {"sync", "replace"} => pos[p] = Chunks

\* Nothing is known of the file a process has not created yet.
Unborn ==
  \A p \in Procs : pc[p] \in Early =>
    /\ \A q \in Procs : fd[q] # p
    /\ \A d \in dirDisk, n \in Names : d[n] # p
    /\ \A i \in Inodes, c \in 1..Chunks : data[i][c] # p

DirInDisk == dir \in dirDisk

\* A temporary name is there because some process still means to remove it.
Wanted ==
  (losses = 0 /\ stuck = {} /\ \A p \in Procs : pc[p] # "killed") =>
    \A n \in Names \ Paths : Exists(n) =>
      \E p \in Procs : pc[p] \in Writing /\ Target(p) = n

Base == TypeOK /\ Begun /\ Counted /\ Unborn /\ DirInDisk

-----------------------------------------------------------------------------
(* What holds of a path x that is Orderly.                                 *)

Pair(x) == {x, Temp[x]}

\* One process at a time is inside _atomic_write for x.
Alone(x) ==
  \A p, q \in Procs : (/\ pc[p] \in Writing /\ cmd[p].output = x
                       /\ pc[q] \in Writing /\ cmd[q].output = x) => p = q

\* No directory has the file of x under its temporary name, nor has it now.
Apart(x) == \A d \in dirDisk : d[x] # None =>
              d[x] # d[Temp[x]] /\ d[x] # dir[Temp[x]]

\* The files of x and its temporary name never have another name.
Separate(x) ==
  \A d, e \in dirDisk : \A n \in Pair(x), m \in Names \ Pair(x) :
    d[n] # None => d[n] # e[m]

\* Nobody else has one of them open.
Others(x) ==
  \A q \in Procs : (pc[q] \in Holders /\ cmd[q].output # x) =>
    \A d \in dirDisk, n \in Pair(x) : d[n] # fd[q]

\* The process at work on x has the temporary file open, and what it wrote is
\* there, and on the disk when it is moved.
Holds(x) ==
  \A p \in Procs : (pc[p] \in Holders /\ cmd[p].output = x) =>
    /\ dir[Temp[x]] = fd[p]
    /\ \A c \in 1..pos[p] : data[fd[p]][c] = p
    /\ pc[p] = "replace" => dirty[fd[p]] = {}

WholeAt(x) ==
  \A d \in dirDisk : d[x] # None =>
    /\ dirty[d[x]] = {}
    /\ \A c \in 1..Chunks : data[d[x]][c] = data[d[x]][1] /\ data[d[x]][c] # None

\* Only a process that moved its file has data at x.
NoTrace(x) ==
  \A p \in Procs : (/\ cmd[p] # None /\ cmd[p].output = x
                    /\ pc[p] \notin {"leave-ok", "ok", "killed"}) =>
    \A d \in dirDisk : d[x] # None => \A c \in 1..Chunks : data[d[x]][c] # p

Files(x) == /\ Apart(x) /\ Separate(x) /\ Others(x)
            /\ Holds(x) /\ WholeAt(x) /\ NoTrace(x)

Kept(x) == Alone(x) /\ Files(x)

AllKept == \A x \in Paths : Orderly(x) => Kept(x)

IInv == Base /\ Wanted /\ AllKept

-----------------------------------------------------------------------------
(* The base: types, command lines, counters, and files not created yet.    *)

\* What the definitions say of names and commands.
LEMMA NamesOfCommands ==
  /\ Paths \subseteq Names
  /\ \A x \in Paths : Temp[x] \in Names /\ Temp[x] # x
  /\ \A c \in Commands : /\ c.output \in Paths /\ c.input \in Paths
                         /\ c.tool \in {"cli", "library"} /\ c # None
  /\ None \notin Inodes /\ Procs \subseteq Inodes
BY PyAssumption DEF Names, Inodes, Command

\* A process that has begun has a target.
LEMMA TargetIsName ==
  ASSUME Begun, NEW p \in Procs, pc[p] # "idle"
  PROVE  /\ cmd[p] \in Commands /\ cmd[p].output \in Paths
         /\ Target(p) \in Names
BY NamesOfCommands DEF Begun, Target

\* The invariant's base holds at first.
LEMMA BaseInit == Init => Base
<1> SUFFICES ASSUME Init PROVE Base
  OBVIOUS
<1>1. TypeOK
  BY PyAssumption DEF Init, TypeOK, Labels, Names, Inodes
<1>2. Begun /\ Counted /\ DirInDisk
  BY PyAssumption DEF Init, Begun, Counted, DirInDisk, Early
<1>3. Unborn
  BY PyAssumption DEF Init, Unborn, Names, Inodes
<1> QED BY <1>1, <1>2, <1>3 DEF Base

\* The invariant's base holds after every step of a process.
LEMMA BaseStep ==
  ASSUME Base, NEW p \in Procs, Step(p) PROVE Base'
<1>t. TypeOK
  BY DEF Base
<1>b. Begun
  BY DEF Base
<1>c. Counted
  BY DEF Base
<1>u. Unborn
  BY DEF Base
<1>d. DirInDisk
  BY DEF Base
<1>n. None \notin Inodes /\ Procs \subseteq Inodes /\ None \notin Commands
  BY NamesOfCommands
<1>s. \A l \in Labels : Goto(p, l) =>
        /\ pc' \in [Procs -> Labels]
        /\ \A q \in Procs : pc'[q] = IF q = p THEN l ELSE pc[q]
  BY <1>t DEF TypeOK, Goto
<1>l. Labels = {"idle", "password", "read", "check", "open", "write", "sync",
                "replace", "leave-ok", "leave-failed", "ok", "failed", "killed"}
  BY DEF Labels, Writing, Terminal
\* Steps that leave files, descriptors and counters alone.
<1>q. ASSUME NEW l \in Labels \ Early, Goto(p, l), pc[p] # "idle", UNCHANGED <<fsVars, cmd, fd, pos, losses>>,
             met' \subseteq Paths, stuck' \subseteq Procs,
             \/ l \in Terminal \cup {"leave-failed", "leave-ok"}
             \/ pc[p] = "sync" /\ l = "replace"
      PROVE  Base'
  <2>p. pc' \in [Procs -> Labels] /\ \A q \in Procs : pc'[q] = IF q = p THEN l ELSE pc[q]
    BY <1>q, <1>s
  <2>1. TypeOK'
    BY <2>p, <1>q, <1>t DEF TypeOK, fsVars, Terminal
  <2>2. Begun' /\ DirInDisk'
    BY <2>p, <1>q, <1>b, <1>d DEF Begun, DirInDisk, fsVars, Early
  <2>3. Counted'
    BY <2>p, <1>q, <1>c DEF Counted, Early, Terminal
  <2>4. Unborn'
    BY <2>p, <1>q, <1>u DEF Unborn, fsVars
  <2> QED BY <2>1, <2>2, <2>3, <2>4 DEF Base
\* Steps before the file is opened.
<1>e. ASSUME NEW l \in Early, pc[p] \in Early, Goto(p, l), l # "idle",
             UNCHANGED <<fsVars, fd, pos, met, stuck, losses>>,
             cmd' \in [Procs -> Commands \cup {None}], cmd'[p] \in Commands,
             \A q \in Procs \ {p} : cmd'[q] = cmd[q]
      PROVE  Base'
  <2>p. pc' \in [Procs -> Labels] /\ \A q \in Procs : pc'[q] = IF q = p THEN l ELSE pc[q]
    BY <1>e, <1>s, <1>l DEF Early
  <2>1. TypeOK'
    BY <2>p, <1>e, <1>t DEF TypeOK, fsVars, Early
  <2>2. Begun' /\ DirInDisk'
    BY <2>p, <1>e, <1>b, <1>d DEF Begun, DirInDisk, fsVars, Early
  <2>3. Counted'
    BY <2>p, <1>e, <1>c DEF Counted, Early
  <2>4. Unborn'
    BY <2>p, <1>e, <1>u DEF Unborn, fsVars
  <2> QED BY <2>1, <2>2, <2>3, <2>4 DEF Base
<1>f. ASSUME NEW l \in Terminal, pc[p] # "idle" \/ cmd'[p] \in Commands, Goto(p, l),
             UNCHANGED <<fsVars, fd, pos, met, stuck, losses>>,
             cmd' \in [Procs -> Commands \cup {None}],
             pc[p] # "idle" => cmd'[p] = cmd[p],
             \A q \in Procs \ {p} : cmd'[q] = cmd[q]
      PROVE  Base'
  <2>p. pc' \in [Procs -> Labels] /\ \A q \in Procs : pc'[q] = IF q = p THEN l ELSE pc[q]
    BY <1>f, <1>s, <1>l DEF Terminal
  <2>1. TypeOK'
    BY <2>p, <1>f, <1>t DEF TypeOK, fsVars, Terminal
  <2>2. Begun' /\ DirInDisk'
    BY <2>p, <1>f, <1>b, <1>d DEF Begun, DirInDisk, fsVars, Terminal
  <2>3. Counted'
    BY <2>p, <1>f, <1>c DEF Counted, Early, Terminal
  <2>4. Unborn'
    BY <2>p, <1>f, <1>u DEF Unborn, fsVars, Early, Terminal
  <2> QED BY <2>1, <2>2, <2>3, <2>4 DEF Base
<1>1. CASE Start(p)
  <2>0. pc[p] = "idle" /\ UNCHANGED <<fsVars, fd, pos, met, stuck, losses>>
    BY <1>1 DEF Start
  <2>1. PICK c \in Commands : /\ cmd' = [cmd EXCEPT ![p] = c]
                             /\ \E l \in {"open", "failed", "password"} : Goto(p, l)
    BY <1>1 DEF Start
  <2>2. /\ cmd' \in [Procs -> Commands \cup {None}] /\ cmd'[p] \in Commands
        /\ \A q \in Procs \ {p} : cmd'[q] = cmd[q]
    BY <2>1, <1>t DEF TypeOK
  <2>3. CASE Goto(p, "failed")
    BY <2>3, <2>0, <2>2, <1>f DEF Terminal
  <2>4. CASE \E l \in {"open", "password"} : Goto(p, l)
    BY <2>4, <2>0, <2>2, <1>e DEF Early
  <2> QED BY <2>1, <2>3, <2>4
<1>2. CASE Password(p) \/ ReadInput(p) \/ Recheck(p) \/ Kill(p)
  <2>0. /\ pc[p] # "idle" /\ UNCHANGED <<fsVars, cmd, fd, pos, met, stuck, losses>>
        /\ \/ \E l \in {"failed", "killed"} : Goto(p, l)
           \/ pc[p] \in Early /\ \E l \in {"read", "check", "open"} : Goto(p, l)
    BY <1>2 DEF Password, ReadInput, Recheck, Kill, Early
  <2>1. cmd' \in [Procs -> Commands \cup {None}] /\ cmd'[p] \in Commands
    BY <2>0, <1>t, <1>b DEF TypeOK, Begun
  <2>2. CASE \E l \in {"failed", "killed"} : Goto(p, l)
    BY <2>2, <2>0, <2>1, <1>f DEF Terminal
  <2>3. CASE pc[p] \in Early /\ \E l \in {"read", "check", "open"} : Goto(p, l)
    BY <2>3, <2>0, <2>1, <1>e DEF Early
  <2> QED BY <2>0, <2>2, <2>3
<1>3. CASE Open(p)
  <2>o. pc[p] = "open" /\ UNCHANGED <<cmd, pos, stuck, losses>>
    BY <1>3 DEF Open
  <2>t. cmd[p].output \in Paths /\ Target(p) \in Names
    BY <2>o, <1>b, TargetIsName
  <2>g. met' \subseteq Paths
    BY <1>3, <2>t, <1>t DEF Open, TypeOK
  <2>w. ASSUME Goto(p, "write"), fd' \in [Procs -> Inodes \cup {None}], fd'[p] \in Inodes,
               \A q \in Procs \ {p} : fd'[q] = fd[q],
               dir' \in [Names -> Inodes \cup {None}], dir' \in dirDisk',
               dirDisk' \subseteq [Names -> Inodes \cup {None}],
               data' \in [Inodes -> [1..Chunks -> Inodes \cup {None}]],
               dirty' \in [Inodes -> SUBSET (1..Chunks)],
               \A r \in Procs \ {p} : pc[r] \in Early =>
                 /\ fd'[p] # r
                 /\ \A d \in dirDisk', n \in Names : d[n] # r
                 /\ \A i \in Inodes, c \in 1..Chunks : data'[i][c] # r
        PROVE  Base'
    <3>p. pc' \in [Procs -> Labels] /\ \A q \in Procs : pc'[q] = IF q = p THEN "write" ELSE pc[q]
      BY <2>w, <1>s, <1>l
    <3>f. \A q \in Procs : pc'[q] \in {"write", "sync", "replace"} => fd'[q] \in Inodes
      BY <2>w, <3>p, <1>t DEF TypeOK
    <3>1. TypeOK'
      BY <3>p, <3>f, <2>w, <2>o, <2>g, <1>t DEF TypeOK
    <3>2. Begun' /\ DirInDisk'
      BY <3>p, <2>w, <2>o, <1>b DEF Begun, DirInDisk
    <3>3. Counted'
      <4>1. pos[p] = 0
        BY <2>o, <1>c DEF Counted, Early
      <4> QED BY <4>1, <3>p, <2>o, <1>c, PyAssumption DEF Counted, Early
    <3>4. Unborn'
      BY <3>p, <2>w, <1>u DEF Unborn, Early
    <3> QED BY <3>1, <3>2, <3>3, <3>4 DEF Base
  <2>1. CASE Exists(Target(p)) /\ Truncate(dir[Target(p)])
             /\ fd' = [fd EXCEPT ![p] = dir[Target(p)]] /\ Goto(p, "write")
    <3>1. dir[Target(p)] \in Inodes
      BY <2>1, <2>t, <1>t DEF Exists, TypeOK
    <3>2. UNCHANGED <<dir, dirDisk>>
      BY <2>1 DEF Truncate
    <3>3. /\ data' \in [Inodes -> [1..Chunks -> Inodes \cup {None}]]
          /\ \A i \in Inodes, c \in 1..Chunks : data'[i][c] \in {None, data[i][c]}
      BY <2>1, <3>1, <1>t DEF Truncate, TypeOK
    <3>4. dirty' \in [Inodes -> SUBSET (1..Chunks)]
      BY <2>1, <3>1, <1>t DEF Truncate, TypeOK
    <3>5. /\ fd' \in [Procs -> Inodes \cup {None}] /\ fd'[p] = dir[Target(p)]
          /\ \A q \in Procs \ {p} : fd'[q] = fd[q]
      BY <2>1, <3>1, <1>t DEF TypeOK
    <3>6. \A r \in Procs \ {p} : pc[r] \in Early =>
                 /\ fd'[p] # r
                 /\ \A d \in dirDisk', n \in Names : d[n] # r
                 /\ \A i \in Inodes, c \in 1..Chunks : data'[i][c] # r
      BY <3>5, <3>3, <3>2, <2>t, <1>u, <1>d, <1>n DEF Unborn, DirInDisk
    <3>7. dir' \in [Names -> Inodes \cup {None}] /\ dir' \in dirDisk'
          /\ dirDisk' \subseteq [Names -> Inodes \cup {None}]
      BY <3>2, <1>t, <1>d DEF TypeOK, DirInDisk
    <3> QED BY <2>1, <3>1, <3>3, <3>4, <3>5, <3>6, <3>7, <2>w
  <2>2. CASE ~Exists(Target(p)) /\ CreateNew(Target(p), p)
             /\ fd' = [fd EXCEPT ![p] = p] /\ Goto(p, "write")
    <3>1. p \in Inodes
      BY <1>n
    <3>2. /\ dir' \in [Names -> Inodes \cup {None}]
          /\ \A n \in Names : dir'[n] \in {p, dir[n]}
          /\ dirDisk' = dirDisk \cup {dir'} /\ UNCHANGED <<data, dirty>>
      BY <2>2, <3>1, <2>t, <1>t DEF CreateNew, SetDir, TypeOK
    <3>5. /\ fd' \in [Procs -> Inodes \cup {None}] /\ fd'[p] = p
          /\ \A q \in Procs \ {p} : fd'[q] = fd[q]
      BY <2>2, <3>1, <1>t DEF TypeOK
    <3>6. \A r \in Procs \ {p} : pc[r] \in Early =>
                 /\ fd'[p] # r
                 /\ \A d \in dirDisk', n \in Names : d[n] # r
                 /\ \A i \in Inodes, c \in 1..Chunks : data'[i][c] # r
      BY <3>5, <3>2, <1>u, <1>d DEF Unborn, DirInDisk
    <3>7. /\ dirDisk' \subseteq [Names -> Inodes \cup {None}] /\ dir' \in dirDisk'
          /\ data' \in [Inodes -> [1..Chunks -> Inodes \cup {None}]]
          /\ dirty' \in [Inodes -> SUBSET (1..Chunks)]
      BY <3>2, <1>t DEF TypeOK
    <3> QED BY <2>2, <3>1, <3>2, <3>5, <3>6, <3>7, <2>w
  <2>3. CASE Goto(p, Failure(p)) /\ UNCHANGED <<fsVars, fd>>
    <3>1. Failure(p) \in {"failed", "leave-failed"} /\ stuck' \subseteq Procs
      BY <2>o, <1>t DEF Failure, TypeOK
    <3> QED BY <3>1, <2>3, <2>o, <2>g, <1>q, <1>l DEF Early, Terminal
  <2> QED BY <1>3, <2>1, <2>2, <2>3 DEF Open
<1>4. CASE Write(p)
  <2>o. pc[p] = "write" /\ UNCHANGED <<cmd, fd, met, stuck, losses>>
    BY <1>4 DEF Write
  <2>1. CASE WriteChunk(fd[p], pos[p] + 1, p) /\ pos' = [pos EXCEPT ![p] = @ + 1]
             /\ Goto(p, IF pos[p] + 1 < Chunks THEN "write"
                        ELSE IF Library(p) THEN "ok" ELSE "sync")
    <3>1. fd[p] \in Inodes /\ p \in Inodes /\ pos[p] \in Nat /\ pos[p] < Chunks /\ Chunks \in Nat
      BY <2>o, <1>t, <1>c, <1>n, PyAssumption DEF TypeOK, Counted
    <3>d. data' = [data EXCEPT ![fd[p]][pos[p] + 1] = p]
          /\ dirty' = [dirty EXCEPT ![fd[p]] = @ \cup {pos[p] + 1}]
          /\ UNCHANGED <<dir, dirDisk>>
      BY <2>1 DEF WriteChunk
    <3>2. /\ data' \in [Inodes -> [1..Chunks -> Inodes \cup {None}]]
          /\ \A i \in Inodes, c \in 1..Chunks : data'[i][c] \in {p, data[i][c]}
      BY <3>1, <3>d, <1>t DEF TypeOK
    <3>3. dirty' \in [Inodes -> SUBSET (1..Chunks)]
      BY <3>1, <3>d, <1>t DEF TypeOK
    <3>p. pos' \in [Procs -> 0..Chunks] /\ \A q \in Procs : pos'[q] = IF q = p THEN pos[p] + 1 ELSE pos[q]
      BY <2>1, <3>1, <1>t DEF TypeOK
    <3>l. PICK l \in {"write", "ok", "sync"} :
             Goto(p, l) /\ (l = "write" <=> pos[p] + 1 < Chunks)
      BY <2>1
    <3>c. pc' \in [Procs -> Labels] /\ \A q \in Procs : pc'[q] = IF q = p THEN l ELSE pc[q]
      BY <3>l, <1>s, <1>l
    <3>f. \A q \in Procs : pc'[q] \in {"write", "sync", "replace"} => fd'[q] \in Inodes
      BY <3>c, <3>1, <2>o, <1>t DEF TypeOK
    <3>4. TypeOK'
      BY <3>2, <3>3, <3>c, <3>d, <3>f, <3>p, <2>o, <1>t DEF TypeOK
    <3>5. Counted'
      BY <3>p, <3>c, <3>l, <3>1, <1>c DEF Counted, Early
    <3>6. Begun' /\ DirInDisk'
      BY <3>c, <3>l, <2>o, <3>d, <1>b, <1>d DEF Begun, DirInDisk
    <3>7. Unborn'
      BY <3>c, <3>l, <2>o, <3>d, <3>2, <1>u DEF Unborn, Early
    <3> QED BY <3>4, <3>5, <3>6, <3>7 DEF Base
  <2>2. CASE Goto(p, Failure(p)) /\ UNCHANGED <<fsVars, pos>>
    <3>1. Failure(p) \in {"failed", "leave-failed"} /\ stuck' \subseteq Procs /\ met' \subseteq Paths
      BY <2>o, <1>t DEF Failure, TypeOK
    <3> QED BY <3>1, <2>2, <2>o, <1>q, <1>l DEF Early, Terminal
  <2> QED BY <1>4, <2>1, <2>2 DEF Write
<1>5. CASE Sync(p)
  <2>o. pc[p] = "sync" /\ UNCHANGED <<cmd, fd, pos, met, stuck, losses>>
    BY <1>5 DEF Sync
  <2>m. met' \subseteq Paths /\ stuck' \subseteq Procs
    BY <2>o, <1>t DEF TypeOK
  <2>1. CASE SyncFile(fd[p]) /\ Goto(p, "replace")
    <3>1. dirty' = [dirty EXCEPT ![fd[p]] = {}] /\ UNCHANGED <<dir, dirDisk, data>>
      BY <2>1 DEF SyncFile
    <3>2. dirty' \in [Inodes -> SUBSET (1..Chunks)]
      BY <3>1, <1>t DEF TypeOK
    <3>p. pc' \in [Procs -> Labels] /\ \A q \in Procs : pc'[q] = IF q = p THEN "replace" ELSE pc[q]
      BY <2>1, <1>s, <1>l
    <3>f. \A q \in Procs : pc'[q] \in {"write", "sync", "replace"} => fd'[q] \in Inodes
      BY <3>p, <2>o, <1>t DEF TypeOK
    <3>3. TypeOK'
      BY <3>1, <3>2, <3>p, <3>f, <2>o, <1>t DEF TypeOK
    <3>4. Begun' /\ DirInDisk'
      BY <3>1, <3>p, <2>o, <1>b, <1>d DEF Begun, DirInDisk
    <3>5. Counted'
      BY <3>p, <2>o, <1>c DEF Counted, Early
    <3>6. Unborn'
      BY <3>1, <3>p, <2>o, <1>u DEF Unborn, Early
    <3> QED BY <3>3, <3>4, <3>5, <3>6 DEF Base
  <2>2. CASE Goto(p, "leave-failed") /\ UNCHANGED fsVars
    BY <2>2, <2>o, <2>m, <1>q, <1>l DEF Early
  <2> QED BY <1>5, <2>1, <2>2 DEF Sync
<1>6. CASE Replace(p) \/ Leave(p)
  <2>o. pc[p] \in {"replace", "leave-ok", "leave-failed"} /\ UNCHANGED <<cmd, fd, pos, met, losses>>
    BY <1>6 DEF Replace, Leave
  <2>t. cmd[p].output \in Names /\ Target(p) \in Names
    BY <2>o, <1>b, TargetIsName, NamesOfCommands
  <2>m. met' \subseteq Paths /\ stuck' \subseteq Procs
    BY <1>6, <2>o, <1>t DEF Replace, Leave, TypeOK
  <2>l. PICK l \in {"leave-ok", "leave-failed", "ok", "failed"} : Goto(p, l)
    BY <1>6 DEF Replace, Leave
  <2>p. pc' \in [Procs -> Labels] /\ \A q \in Procs : pc'[q] = IF q = p THEN l ELSE pc[q]
    BY <2>l, <1>s, <1>l
  <2>1. CASE UNCHANGED fsVars
    BY <2>1, <2>l, <2>o, <2>m, <1>q, <1>l DEF Early, Terminal
  <2>2. ASSUME dir' \in [Names -> Inodes \cup {None}], UNCHANGED <<data, dirty>>,
               dirDisk' = dirDisk \cup {dir'},
               \A n \in Names : dir'[n] = None \/ \E m \in Names : dir'[n] = dir[m]
        PROVE  Base'
    <3>1. TypeOK'
      BY <2>o, <2>m, <2>p, <2>2, <1>t DEF TypeOK
    <3>2. Begun' /\ DirInDisk'
      BY <2>o, <2>p, <2>2, <1>b DEF Begun, DirInDisk
    <3>3. Counted'
      BY <2>o, <2>p, <1>c DEF Counted, Early
    <3>4. Unborn'
      <4>1. ASSUME NEW r \in Procs, pc[r] \in Early PROVE \A n \in Names : dir'[n] # r
        BY <4>1, <2>2, <1>u, <1>d, <1>n DEF Unborn, DirInDisk
      <4> QED BY <4>1, <2>o, <2>p, <2>2, <1>u DEF Unborn, Early
    <3> QED BY <3>1, <3>2, <3>3, <3>4 DEF Base
  <2>3. CASE Unlink(Target(p))
    <3>1. /\ dir' \in [Names -> Inodes \cup {None}]
          /\ \A n \in Names : dir'[n] = None \/ dir'[n] = dir[n]
          /\ UNCHANGED <<data, dirty>> /\ dirDisk' = dirDisk \cup {dir'}
      BY <2>3, <2>t, <1>t DEF Unlink, SetDir, TypeOK
    <3> QED BY <3>1, <2>2
  <2>4. CASE Rename(Target(p), cmd[p].output)
    <3>1. /\ dir' \in [Names -> Inodes \cup {None}]
          /\ UNCHANGED <<data, dirty>> /\ dirDisk' = dirDisk \cup {dir'}
      BY <2>4, <2>t, <1>t DEF Rename, SetDir, TypeOK
    <3>2. \A n \in Names : \/ dir'[n] = None \/ dir'[n] = dir[n]
                           \/ dir'[n] = dir[Target(p)]
      BY <2>4, <2>t, <1>t DEF Rename, SetDir, TypeOK
    <3> QED BY <3>1, <3>2, <2>t, <2>2
  <2> QED BY <1>6, <2>1, <2>3, <2>4 DEF Replace, Leave
<1> QED BY <1>1, <1>2, <1>3, <1>4, <1>5, <1>6 DEF Step

\* The invariant's base outlives a loss of power.
LEMMA BaseLoss ==
  ASSUME Base, PowerLoss PROVE Base'
<1>t. TypeOK /\ Begun /\ Counted /\ Unborn
  BY DEF Base
<1>d. /\ dir' \in dirDisk /\ dirDisk' = {dir'}
      /\ dirty' = [i \in Inodes |-> {}]
  BY DEF PowerLoss, LosePower
<1>a. /\ data' \in [Inodes -> [1..Chunks -> Inodes \cup {None}]]
      /\ \A i \in Inodes, c \in 1..Chunks : data'[i][c] \in {None, data[i][c]}
  <2>1. PICK lost \in SUBSET Unsynced :
           data' = [i \in Inodes |-> [c \in 1..Chunks |->
                      IF <<i, c>> \in lost THEN None ELSE data[i][c]]]
    BY DEF PowerLoss, LosePower
  <2>2. data \in [Inodes -> [1..Chunks -> Inodes \cup {None}]]
    BY <1>t DEF TypeOK
  <2>3. ASSUME NEW i \in Inodes, NEW c \in 1..Chunks
        PROVE  data'[i][c] \in {None, data[i][c]} /\ data'[i][c] \in Inodes \cup {None}
    <3>1. data[i] \in [1..Chunks -> Inodes \cup {None}]
      BY <2>2
    <3>2. data'[i] = [k \in 1..Chunks |-> IF <<i, k>> \in lost THEN None ELSE data[i][k]]
      BY <2>1
    <3> QED BY <3>1, <3>2
  <2>4. data' = [i \in Inodes |-> [c \in 1..Chunks |-> data'[i][c]]]
    <3> DEFINE D == [i \in Inodes |-> [c \in 1..Chunks |->
                      IF <<i, c>> \in lost THEN None ELSE data[i][c]]]
    <3>1. D = [i \in Inodes |-> [c \in 1..Chunks |-> D[i][c]]]
      OBVIOUS
    <3> QED BY <3>1, <2>1
  <2> QED BY <2>3, <2>4
<1>p. /\ \A p \in Procs : pc'[p] \in {pc[p], "killed"} /\ pc'[p] \in Terminal \cup {"idle"}
      /\ \A p \in Procs : pc[p] = "idle" <=> pc'[p] = "idle"
      /\ pc' \in [Procs -> Labels]
      /\ UNCHANGED <<cmd, fd, pos, met, stuck>>
  BY <1>t DEF PowerLoss, TypeOK, Terminal, Labels
<1>l. losses' \in 0..MaxLosses
  BY <1>t, PyAssumption DEF PowerLoss, TypeOK
<1>1. TypeOK'
  <2>1. dirty' \in [Inodes -> SUBSET (1..Chunks)]
    BY <1>d
  <2>2. dir' \in [Names -> Inodes \cup {None}] /\ dirDisk' \subseteq [Names -> Inodes \cup {None}]
    BY <1>d, <1>t DEF TypeOK
  <2> QED BY <2>1, <2>2, <1>a, <1>p, <1>l, <1>t DEF TypeOK, Terminal
<1>2. (Begun /\ Counted /\ DirInDisk)'
  BY <1>d, <1>p, <1>t DEF Begun, Counted, DirInDisk, Early, Terminal
<1>3. Unborn'
  <2> SUFFICES ASSUME NEW r \in Procs, pc'[r] \in Early
               PROVE /\ \A q \in Procs : fd'[q] # r
                     /\ \A d \in dirDisk', n \in Names : d[n] # r
                     /\ \A i \in Inodes, c \in 1..Chunks : data'[i][c] # r
    BY DEF Unborn
  <2>1. pc[r] \in Early
    BY <1>p DEF Early, Terminal
  <2>2. r # None
    BY NamesOfCommands
  <2> QED BY <2>1, <2>2, <1>d, <1>a, <1>p, <1>t DEF Unborn
<1> QED BY <1>1, <1>2, <1>3 DEF Base

-----------------------------------------------------------------------------
(* Temporary names: Wanted is kept.                                        *)

\* The step of a process in terms of labels and command lines.
LEMMA LabelsMove ==
  ASSUME Base, NEW p \in Procs, Step(p)
  PROVE  /\ \A q \in Procs \ {p} : pc'[q] = pc[q] /\ cmd'[q] = cmd[q]
         /\ pc[p] # "idle" => cmd'[p] = cmd[p]
         /\ pc[p] = "idle" => cmd[p] = None
         /\ met \subseteq met' /\ stuck \subseteq stuck' /\ losses' = losses
         /\ pc[p] \notin Terminal
         /\ pc'[p] \in Writing => pc[p] \in Writing \cup {"open"}
<1>t. pc \in [Procs -> Labels] /\ cmd \in [Procs -> Commands \cup {None}] /\ Begun
  BY DEF Base, TypeOK
<1>1. pc[p] = "idle" => cmd[p] = None
  BY <1>t DEF Begun
<1>2. CASE Start(p)
  BY <1>t, <1>1, <1>2 DEF Start, Goto, Terminal, Writing, fsVars
<1>3. CASE Password(p) \/ ReadInput(p) \/ Recheck(p) \/ Kill(p)
  BY <1>t, <1>1, <1>3
  DEF Password, ReadInput, Recheck, Kill, Goto, Terminal, Writing, fsVars
<1>4. CASE Open(p)
  BY <1>t, <1>1, <1>4 DEF Open, Goto, Terminal, Writing, Failure, fsVars
<1>5. CASE Write(p)
  BY <1>t, <1>1, <1>5 DEF Write, Goto, Terminal, Writing, Failure, fsVars
<1>6. CASE Sync(p) \/ Replace(p) \/ Leave(p)
  BY <1>t, <1>1, <1>6 DEF Sync, Replace, Leave, Goto, Terminal, Writing, fsVars
<1> QED BY <1>2, <1>3, <1>4, <1>5, <1>6 DEF Step

\* What a step of a process does to the directory.
LEMMA DirMoves ==
  ASSUME Base, NEW p \in Procs, Step(p)
  PROVE  \/ UNCHANGED <<dir, dirDisk>>
         \/ /\ pc[p] = "open" /\ pc'[p] = "write" /\ Target(p) \in Names
            /\ \A n \in Names : dir'[n] = IF n = Target(p) THEN p ELSE dir[n]
         \/ /\ pc[p] = "replace" /\ pc'[p] = "leave-ok"
            /\ \A n \in Names : dir'[n] =
                 IF n = Target(p) THEN None
                 ELSE IF n = cmd[p].output THEN dir[Target(p)] ELSE dir[n]
         \/ /\ pc[p] \in {"leave-ok", "leave-failed"}
            /\ \A n \in Names : dir'[n] = IF n = Target(p) THEN None ELSE dir[n]
<1>t. pc \in [Procs -> Labels] /\ dir \in [Names -> Inodes \cup {None}] /\ Begun
  BY DEF Base, TypeOK
<1>n. pc[p] # "idle" => Target(p) \in Names /\ cmd[p].output \in Names
  BY <1>t, TargetIsName, NamesOfCommands
<1>1. CASE Start(p) \/ Password(p) \/ ReadInput(p) \/ Recheck(p) \/ Kill(p)
  BY <1>1 DEF Start, Password, ReadInput, Recheck, Kill, fsVars
<1>2. CASE Open(p)
  <2>1. CASE CreateNew(Target(p), p) /\ Goto(p, "write")
    BY <1>t, <1>n, <1>2, <2>1 DEF Open, CreateNew, SetDir, Goto
  <2>2. CASE Truncate(dir[Target(p)]) \/ UNCHANGED fsVars
    BY <2>2 DEF Truncate, fsVars
  <2> QED BY <1>2, <2>1, <2>2 DEF Open
<1>3. CASE Write(p) \/ Sync(p)
  BY <1>3 DEF Write, Sync, WriteChunk, SyncFile, fsVars
<1>4. CASE Replace(p)
  <2>1. CASE Rename(Target(p), cmd[p].output) /\ Goto(p, "leave-ok")
    <3>1. pc[p] = "replace" /\ pc'[p] = "leave-ok"
      BY <1>4, <2>1, <1>t DEF Replace, Goto
    <3>2. dir' = [dir EXCEPT ![cmd[p].output] = dir[Target(p)], ![Target(p)] = None]
      BY <2>1 DEF Rename, SetDir
    <3> QED BY <3>1, <3>2, <1>t, <1>n
  <2>2. CASE UNCHANGED fsVars
    BY <2>2 DEF fsVars
  <2> QED BY <1>4, <2>1, <2>2 DEF Replace
<1>5. CASE Leave(p)
  <2>1. CASE Unlink(Target(p))
    BY <1>t, <1>n, <1>5, <2>1 DEF Leave, Unlink, SetDir
  <2>2. CASE UNCHANGED fsVars
    BY <2>2 DEF fsVars
  <2> QED BY <1>5, <2>1, <2>2 DEF Leave
<1> QED BY <1>1, <1>2, <1>3, <1>4, <1>5 DEF Step

\* A process is done with a temporary name only when it is free, or the
\* process was killed, or its unlink failed.
LEMMA WantedStep ==
  ASSUME Base, Wanted, NEW p \in Procs, Step(p) PROVE Wanted'
<1> SUFFICES ASSUME losses' = 0, stuck' = {}, \A q \in Procs : pc'[q] # "killed",
                    NEW n \in Names \ Paths, dir'[n] # None
             PROVE  \E q \in Procs : pc'[q] \in Writing /\ Target(q)' = n
  BY DEF Wanted, Exists
<1>l. /\ \A q \in Procs \ {p} : pc'[q] = pc[q] /\ cmd'[q] = cmd[q]
      /\ pc[p] # "idle" => cmd'[p] = cmd[p]
      /\ stuck \subseteq stuck' /\ losses' = losses
      /\ pc[p] \notin Terminal
  BY LabelsMove
<1>t. pc \in [Procs -> Labels] /\ Begun
  BY DEF Base, TypeOK
<1>h. losses = 0 /\ stuck = {} /\ \A q \in Procs : pc[q] # "killed"
  BY <1>l DEF Terminal
<1>k. \A q \in Procs : pc[q] # "idle" =>
        /\ Target(q)' = Target(q) /\ cmd[q].output \in Paths
        /\ Library(q) => Target(q) \in Paths
  BY <1>l, <1>t, TargetIsName DEF Target, Library
<1>1. CASE pc[p] = "open" /\ pc'[p] = "write" /\ Target(p) = n
  BY <1>1, <1>k DEF Writing
<1>2. CASE ~(pc[p] = "open" /\ pc'[p] = "write" /\ Target(p) = n)
  <2>1. dir[n] # None /\ (pc[p] \in {"leave-ok", "leave-failed"} /\ Target(p) = n => UNCHANGED dir)
    <3>1. pc[p] = "replace" => n # cmd[p].output
      BY <1>k
    <3> QED BY <3>1, <1>2, DirMoves
  <2>2. PICK q \in Procs : pc[q] \in Writing /\ Target(q) = n
    BY <1>h, <2>1 DEF Wanted, Exists
  <2>3. pc'[q] \in Writing
    <3>1. CASE q # p
      BY <3>1, <2>2, <1>l
    <3>2. CASE q = p
      <4>1. ~Library(p) /\ pc[p] # "idle"
        BY <3>2, <2>2, <1>k DEF Writing
      <4>2. CASE Write(p)
        BY <3>2, <4>1, <4>2, <1>t DEF Write, Goto, Failure, Writing
      <4>3. CASE Sync(p) \/ Replace(p)
        BY <3>2, <4>3, <1>t DEF Sync, Replace, Goto, Writing
      <4>4. CASE Leave(p)
        <5>1. pc[p] \in {"leave-ok", "leave-failed"} /\ dir[Target(p)] # None
              /\ dir'[Target(p)] # None
          BY <4>4, <2>1, <2>2, <3>2 DEF Leave
        <5>2. ~Unlink(Target(p))
          <6>1. Target(p) \in Names /\ dir \in [Names -> Inodes \cup {None}]
            BY <2>2, <3>2 DEF Base, TypeOK
          <6> QED BY <5>1, <6>1 DEF Unlink, SetDir
        <5> QED BY <4>4, <5>1, <5>2 DEF Leave, Exists
      <4>5. CASE Kill(p)
        <5>1. pc'[p] = "killed"
          BY <4>5, <1>t DEF Kill, Goto
        <5> QED BY <5>1
      <4>6. CASE Start(p) \/ Password(p) \/ ReadInput(p) \/ Recheck(p) \/ Open(p)
        BY <4>6, <2>2, <3>2
        DEF Start, Password, ReadInput, Recheck, Open, Writing
      <4> QED BY <4>2, <4>3, <4>4, <4>5, <4>6 DEF Step
    <3> QED BY <3>1, <3>2
  <2> QED BY <2>2, <2>3, <1>k DEF Writing
<1> QED BY <1>1, <1>2

-----------------------------------------------------------------------------
(* Orderly paths: Kept is kept.                                            *)

\* A path that is orderly has always been.
LEMMA OrderlyBefore ==
  ASSUME Base, Next, NEW x \in Paths, Orderly(x)' PROVE Orderly(x)
<1>1. met \subseteq met' /\ \A q \in Procs : cmd[q] # None => cmd'[q] = cmd[q]
  <2>1. CASE PowerLoss
    BY <2>1 DEF PowerLoss
  <2>2. ASSUME NEW p \in Procs, Step(p)
        PROVE  met \subseteq met' /\ \A q \in Procs : cmd[q] # None => cmd'[q] = cmd[q]
    BY <2>2, LabelsMove
  <2> QED BY <2>1, <2>2 DEF Next
<1> QED BY <1>1 DEF Orderly, Touches, Library

\* Of an orderly path, a process touches what atomic_write touches, or nothing.
LEMMA Sides ==
  ASSUME Begun, NEW x \in Paths, Orderly(x), NEW p \in Procs, pc[p] # "idle"
  PROVE  \/ cmd[p].output = x /\ ~Library(p) /\ Target(p) = Temp[x]
         \/ cmd[p].output \notin Pair(x) /\ Target(p) \notin Pair(x)
BY NamesOfCommands DEF Begun, Orderly, Touches, Target, Pair

\* The second process to open x, or its temporary file, is noted.
LEMMA AloneStep ==
  ASSUME Base, NEW p \in Procs, Step(p), NEW x \in Paths, Orderly(x)', Alone(x)
  PROVE  Alone(x)'
<1>l. /\ \A q \in Procs \ {p} : pc'[q] = pc[q] /\ cmd'[q] = cmd[q]
      /\ pc[p] # "idle" => cmd'[p] = cmd[p]
      /\ pc'[p] \in Writing => pc[p] \in Writing \cup {"open"}
  BY LabelsMove
<1>1. CASE Open(p)
  <2>1. \A q \in Procs \ {p} : ~(pc[q] \in Writing /\ cmd[q].output = x)
        \/ cmd[p].output # x
    BY <1>1 DEF Open, Orderly
  <2> QED BY <1>1, <2>1, <1>l DEF Open, Alone
<1>2. CASE ~Open(p)
  <2>1. pc[p] = "open" => pc'[p] \notin Writing
    <3>1. CASE pc[p] = "open" /\ Kill(p)
      BY <3>1 DEF Kill, Goto, Writing, Base, TypeOK
    <3> QED BY <1>2, <3>1 DEF Step, Start, Password, ReadInput, Recheck, Write, Sync,
                              Replace, Leave
  <2> QED BY <2>1, <1>l DEF Alone, Writing
<1> QED BY <1>1, <1>2

\* What the lemmas below need of the base.
LEMMA BaseFacts ==
  ASSUME Base
  PROVE  /\ dir \in dirDisk /\ Begun
         /\ \A d \in dirDisk, n \in Names : d[n] \in Inodes \cup {None}
         /\ \A q \in Procs : pc[q] \in Holders => fd[q] \in Inodes
         /\ None \notin Inodes /\ Chunks \in Nat \ {0}
BY NamesOfCommands, PyAssumption DEF Base, TypeOK, DirInDisk, Holders

\* A step that changes neither files nor descriptors.
LEMMA SameStep ==
  ASSUME Base, NEW x \in Paths, NEW p \in Procs, Orderly(x), Files(x), Step(p),
         UNCHANGED <<fsVars, fd, pos>>, pc'[p] \notin Holders,
         \/ pc[p] \notin {"leave-ok", "ok", "killed"}
         \/ pc'[p] \in {"leave-ok", "ok", "killed"}
  PROVE  Files(x)'
<1>l. /\ \A q \in Procs \ {p} : pc'[q] = pc[q] /\ cmd'[q] = cmd[q]
      /\ pc[p] # "idle" => cmd'[p] = cmd[p]
      /\ pc[p] = "idle" => cmd[p] = None
  BY LabelsMove
<1>1. Apart(x)' /\ Separate(x)' /\ WholeAt(x)'
  BY DEF Files, Apart, Separate, WholeAt, fsVars
<1>2. Others(x)' /\ Holds(x)'
  BY <1>l DEF Files, Others, Holds, fsVars
<1>3. NoTrace(x)'
  <2>1. pc[p] = "idle" => \A d \in dirDisk : d[x] # None =>
           \A c \in 1..Chunks : data[d[x]][c] # p
    BY NamesOfCommands DEF Base, Unborn, Early, TypeOK
  <2> QED BY <2>1, <1>l DEF Files, NoTrace, fsVars
<1> QED BY <1>1, <1>2, <1>3 DEF Files

\* What is at x is whole and nobody's if no file changes and x is not moved.
LEMMA NotHereStep ==
  ASSUME NEW x \in Paths, NEW p \in Procs, WholeAt(x), NoTrace(x), dir \in dirDisk,
         dir'[x] = dir[x], dirDisk' = dirDisk \cup {dir'},
         UNCHANGED <<data, dirty, cmd>>,
         \A q \in Procs \ {p} : pc'[q] = pc[q],
         \/ pc[p] \notin {"leave-ok", "ok", "killed"}
         \/ pc'[p] \in {"leave-ok", "ok", "killed"}
  PROVE  WholeAt(x)' /\ NoTrace(x)'
<1>1. \A d \in dirDisk' : \E g \in dirDisk : d[x] = g[x]
  OBVIOUS
<1>2. WholeAt(x)'
  <2>1. ASSUME NEW d \in dirDisk', d[x] # None
        PROVE  /\ dirty[d[x]] = {}
               /\ \A c \in 1..Chunks : data[d[x]][c] = data[d[x]][1] /\ data[d[x]][c] # None
    <3>1. PICK g \in dirDisk : d[x] = g[x]
      BY <1>1
    <3> QED BY <2>1, <3>1 DEF WholeAt
  <2> QED BY <2>1 DEF WholeAt
<1>3. NoTrace(x)'
  BY <1>1 DEF NoTrace
<1> QED BY <1>2, <1>3

\* A step that opens, for writing, a file that is there.
LEMMA TruncateStep ==
  ASSUME Base, NEW x \in Paths, NEW p \in Procs, Orderly(x), Files(x), Alone(x)',
         Step(p), pc[p] = "open", pc'[p] = "write", Exists(Target(p)),
         Truncate(dir[Target(p)]), fd' = [fd EXCEPT ![p] = dir[Target(p)]],
         UNCHANGED <<cmd, pos>>
  PROVE  Files(x)'
<1> DEFINE i == dir[Target(p)]
<1>l. \A q \in Procs \ {p} : pc'[q] = pc[q]
  BY LabelsMove
<1>b. /\ dir \in dirDisk /\ None \notin Inodes
      /\ \A q \in Procs : pc[q] \in Holders => fd[q] \in Inodes
  BY BaseFacts
<1>t. Target(p) \in Names /\ i \in Inodes /\ pos[p] = 0
  BY TargetIsName DEF Base, TypeOK, Exists, Counted, Early
<1>s. \/ cmd[p].output = x /\ Target(p) = Temp[x]
      \/ cmd[p].output # x /\ Target(p) \notin Pair(x)
  BY Sides DEF Base, Pair
<1>i. /\ \A d \in dirDisk : d[x] # i
      /\ cmd[p].output # x => \A d \in dirDisk, n \in Pair(x) : d[n] # i
  <2>1. CASE cmd[p].output = x /\ Target(p) = Temp[x]
    BY <2>1, <1>b, <1>t DEF Files, Apart
  <2>2. CASE cmd[p].output # x /\ Target(p) \notin Pair(x)
    <3>1. \A d \in dirDisk, n \in Pair(x) : d[n] # i
      BY <2>2, <1>b, <1>t DEF Files, Separate
    <3> QED BY <2>2, <3>1 DEF Pair
  <2> QED BY <1>s, <2>1, <2>2
<1>f. UNCHANGED <<dir, dirDisk>>
  BY DEF Truncate
<1>d. /\ \A j \in Inodes \ {i} : data'[j] = data[j] /\ dirty'[j] = dirty[j]
      /\ \A j \in Inodes, c \in 1..Chunks : data'[j][c] \in {None, data[j][c]}
  BY <1>t DEF Truncate, Base, TypeOK
<1>o. fd'[p] = i /\ \A q \in Procs \ {p} : fd'[q] = fd[q]
  BY DEF Base, TypeOK
<1>x. \A d \in dirDisk : d[x] # None => d[x] \in Inodes \ {i}
  BY <1>i, BaseFacts, NamesOfCommands
<1>1. Apart(x)' /\ Separate(x)'
  BY <1>f DEF Files, Apart, Separate
<1>2. Others(x)'
  BY <1>f, <1>l, <1>o, <1>i DEF Files, Others
<1>3. Holds(x)'
  <2> SUFFICES ASSUME NEW q \in Procs, pc'[q] \in Holders, cmd[q].output = x
               PROVE  /\ dir[Temp[x]] = fd'[q]
                      /\ \A c \in 1..pos[q] : data'[fd'[q]][c] = q
                      /\ pc'[q] = "replace" => dirty'[fd'[q]] = {}
    BY <1>f DEF Holds
  <2>1. CASE q = p
    BY <2>1, <1>o, <1>s, <1>t DEF Pair
  <2>2. CASE q # p
    <3>1. cmd[p].output # x
      BY <2>2 DEF Alone, Writing, Holders
    <3>2. fd[q] # i /\ fd[q] \in Inodes /\ dir[Temp[x]] = fd[q]
      BY <3>1, <1>i, <1>b, <1>l, <2>2 DEF Files, Holds, Pair
    <3> QED BY <2>2, <3>2, <1>d, <1>l, <1>o DEF Files, Holds
  <2> QED BY <2>1, <2>2
<1>4. WholeAt(x)'
  BY <1>f, <1>d, <1>x DEF Files, WholeAt
<1>5. NoTrace(x)'
  <2>1. \A d \in dirDisk : d[x] # None => data'[d[x]] = data[d[x]]
    BY <1>d, <1>x
  <2> QED BY <2>1, <1>f, <1>l DEF Files, NoTrace
<1> QED BY <1>1, <1>2, <1>3, <1>4, <1>5 DEF Files

\* A step that creates a file.
LEMMA CreateStep ==
  ASSUME Base, NEW x \in Paths, NEW p \in Procs, Orderly(x), Files(x), Alone(x)',
         Step(p), pc[p] = "open", pc'[p] = "write",
         CreateNew(Target(p), p), fd' = [fd EXCEPT ![p] = p], UNCHANGED <<cmd, pos>>
  PROVE  Files(x)'
<1>l. \A q \in Procs \ {p} : pc'[q] = pc[q]
  BY LabelsMove
<1>b. dir \in dirDisk /\ None \notin Inodes /\ p \in Inodes
  BY BaseFacts, NamesOfCommands
<1>t. Target(p) \in Names /\ pos[p] = 0
  BY TargetIsName DEF Base, Counted, Early
<1>n. x \in Names /\ Temp[x] \in Names /\ Temp[x] # x /\ Pair(x) \subseteq Names
  BY NamesOfCommands DEF Pair
<1>s. \/ cmd[p].output = x /\ Target(p) = Temp[x]
      \/ cmd[p].output # x /\ Target(p) \notin Pair(x)
  BY Sides DEF Base, Pair
<1>u. /\ \A q \in Procs : fd[q] # p
      /\ \A d \in dirDisk, n \in Names : d[n] # p
  BY DEF Base, Unborn, Early
<1>d. /\ \A n \in Names : dir'[n] = IF n = Target(p) THEN p ELSE dir[n]
      /\ dirDisk' = dirDisk \cup {dir'} /\ UNCHANGED <<data, dirty>>
  BY <1>t DEF CreateNew, SetDir, Base, TypeOK
<1>o. fd'[p] = p /\ \A q \in Procs \ {p} : fd'[q] = fd[q]
  BY DEF Base, TypeOK
<1>x. dir'[x] = dir[x]
  BY <1>d, <1>s, <1>n DEF Pair
<1>1. Apart(x)'
  <2>1. \A d \in dirDisk : d[x] # dir'[Temp[x]] \/ d[x] = None
    BY <1>d, <1>n, <1>u DEF Files, Apart
  <2>2. \A d \in dirDisk : d[x] # None => d[x] # d[Temp[x]]
    BY DEF Files, Apart
  <2>3. dir'[x] # None => dir'[x] # dir'[Temp[x]]
    BY <2>1, <1>x, <1>b
  <2> QED BY <2>1, <2>2, <2>3, <1>d DEF Apart
<1>2. Separate(x)'
  <2> SUFFICES ASSUME NEW d \in dirDisk', NEW e \in dirDisk',
                      NEW n \in Pair(x), NEW m \in Names \ Pair(x), d[n] # None
               PROVE  d[n] # e[m]
    BY DEF Separate, Pair
  <2>1. CASE Target(p) \in Pair(x)
    <3>1. PICK f \in dirDisk : e[m] = f[m]
      BY <2>1, <1>d, <1>b
    <3>2. d[n] = p \/ \E g \in dirDisk : d[n] = g[n]
      BY <1>d, <1>b, <1>n
    <3> QED BY <3>1, <3>2, <1>u DEF Files, Separate
  <2>2. CASE Target(p) \notin Pair(x)
    <3>1. PICK g \in dirDisk : d[n] = g[n]
      BY <2>2, <1>d, <1>b, <1>n
    <3>2. e[m] = p \/ \E f \in dirDisk : e[m] = f[m]
      BY <1>d, <1>b
    <3> QED BY <3>1, <3>2, <1>u, <1>n DEF Files, Separate
  <2> QED BY <2>1, <2>2
<1>3. Others(x)'
  <2> SUFFICES ASSUME NEW q \in Procs, pc'[q] \in Holders, cmd[q].output # x,
                      NEW d \in dirDisk', NEW n \in Pair(x)
               PROVE  d[n] # fd'[q]
    BY DEF Others, Pair
  <2>1. CASE q = p
    <3>1. \E g \in dirDisk : d[n] = g[n]
      BY <2>1, <1>s, <1>d, <1>b, <1>n DEF Pair
    <3> QED BY <3>1, <2>1, <1>o, <1>u, <1>n
  <2>2. CASE q # p
    <3>1. d[n] = p \/ \E g \in dirDisk : d[n] = g[n]
      BY <1>d, <1>b, <1>n
    <3> QED BY <3>1, <2>2, <1>o, <1>u, <1>l DEF Files, Others
  <2> QED BY <2>1, <2>2
<1>4. Holds(x)'
  <2> SUFFICES ASSUME NEW q \in Procs, pc'[q] \in Holders, cmd[q].output = x
               PROVE  /\ dir'[Temp[x]] = fd'[q]
                      /\ \A c \in 1..pos[q] : data[fd'[q]][c] = q
                      /\ pc'[q] = "replace" => dirty[fd'[q]] = {}
    BY <1>d DEF Holds
  <2>1. CASE q = p
    BY <2>1, <1>o, <1>s, <1>t, <1>d, <1>n DEF Pair
  <2>2. CASE q # p
    <3>1. cmd[p].output # x
      BY <2>2 DEF Alone, Writing, Holders
    <3>2. dir'[Temp[x]] = dir[Temp[x]]
      BY <3>1, <1>s, <1>d, <1>n DEF Pair
    <3> QED BY <2>2, <3>2, <1>l, <1>o DEF Files, Holds
  <2> QED BY <2>1, <2>2
<1>5. WholeAt(x)' /\ NoTrace(x)'
  BY <1>x, <1>b, <1>d, <1>l, NotHereStep DEF Files
<1> QED BY <1>1, <1>2, <1>3, <1>4, <1>5 DEF Files

\* A step that writes a chunk.
LEMMA WriteStep ==
  ASSUME Base, NEW x \in Paths, NEW p \in Procs, Orderly(x), Files(x), Alone(x),
         Step(p), pc[p] = "write", pc'[p] \in {"write", "sync", "ok"},
         WriteChunk(fd[p], pos[p] + 1, p), pos' = [pos EXCEPT ![p] = @ + 1],
         UNCHANGED <<cmd, fd>>
  PROVE  Files(x)'
<1> DEFINE i == fd[p]
<1>l. \A q \in Procs \ {p} : pc'[q] = pc[q]
  BY LabelsMove
<1>b. /\ dir \in dirDisk /\ None \notin Inodes
      /\ \A q \in Procs : pc[q] \in Holders => fd[q] \in Inodes
      /\ i \in Inodes
  BY BaseFacts DEF Holders
<1>t. pos[p] \in Nat /\ pos[p] + 1 \in 1..Chunks /\ pos'[p] = pos[p] + 1
      /\ \A q \in Procs \ {p} : pos'[q] = pos[q]
  BY PyAssumption DEF Base, TypeOK, Counted
<1>s. \/ cmd[p].output = x /\ Target(p) = Temp[x]
      \/ cmd[p].output # x /\ Target(p) \notin Pair(x)
  BY Sides DEF Base, Pair
<1>i. /\ \A d \in dirDisk : d[x] # i
      /\ cmd[p].output = x => dir[Temp[x]] = i
      /\ cmd[p].output # x => \A d \in dirDisk, n \in Pair(x) : d[n] # i
  <2>1. CASE cmd[p].output = x
    BY <2>1, <1>b DEF Files, Apart, Holds, Holders
  <2>2. CASE cmd[p].output # x
    BY <2>2 DEF Files, Others, Pair, Holders
  <2> QED BY <2>1, <2>2
<1>f. UNCHANGED <<dir, dirDisk>>
  BY DEF WriteChunk
<1>d. /\ \A j \in Inodes \ {i} : data'[j] = data[j] /\ dirty'[j] = dirty[j]
      /\ \A c \in 1..Chunks : data'[i][c] = IF c = pos[p] + 1 THEN p ELSE data[i][c]
  BY <1>b, <1>t DEF WriteChunk, Base, TypeOK
<1>x. \A d \in dirDisk : d[x] # None => d[x] \in Inodes \ {i}
  BY <1>i, BaseFacts, NamesOfCommands
<1>1. Apart(x)' /\ Separate(x)'
  BY <1>f DEF Files, Apart, Separate
<1>2. Others(x)'
  BY <1>f, <1>l, <1>i DEF Files, Others
<1>3. Holds(x)'
  <2> SUFFICES ASSUME NEW q \in Procs, pc'[q] \in Holders, cmd[q].output = x
               PROVE  /\ dir[Temp[x]] = fd[q]
                      /\ \A c \in 1..pos'[q] : data'[fd[q]][c] = q
                      /\ pc'[q] = "replace" => dirty'[fd[q]] = {}
    BY <1>f DEF Holds
  <2>1. CASE q = p
    <3>1. \A c \in 1..pos[p] : data[i][c] = p
      BY <2>1 DEF Files, Holds, Holders
    <3>2. \A c \in 1..(pos[p] + 1) : c \in 1..Chunks /\ (c = pos[p] + 1 \/ c \in 1..pos[p])
      BY <1>t, PyAssumption
    <3>3. \A c \in 1..(pos[p] + 1) : data'[i][c] = p
      BY <3>1, <3>2, <1>d
    <3> QED BY <2>1, <3>3, <1>t, <1>i
  <2>2. CASE q # p
    <3>2. cmd[p].output # x
      BY <2>2, <1>l DEF Alone, Writing, Holders
    <3>3. fd[q] # i /\ fd[q] \in Inodes /\ dir[Temp[x]] = fd[q]
      BY <3>2, <1>i, <1>b, <1>l, <2>2 DEF Files, Holds, Pair
    <3> QED BY <2>2, <3>3, <1>d, <1>l, <1>t DEF Files, Holds
  <2> QED BY <2>1, <2>2
<1>4. WholeAt(x)'
  BY <1>f, <1>d, <1>x DEF Files, WholeAt
<1>5. NoTrace(x)'
  <2>1. \A d \in dirDisk : d[x] # None => data'[d[x]] = data[d[x]]
    BY <1>d, <1>x
  <2> QED BY <2>1, <1>f, <1>l DEF Files, NoTrace
<1> QED BY <1>1, <1>2, <1>3, <1>4, <1>5 DEF Files

\* A step that syncs the file.
LEMMA SyncStep ==
  ASSUME Base, NEW x \in Paths, NEW p \in Procs, Orderly(x), Files(x),
         Step(p), pc[p] = "sync", pc'[p] = "replace", SyncFile(fd[p]),
         UNCHANGED <<cmd, fd, pos>>
  PROVE  Files(x)'
<1>l. \A q \in Procs \ {p} : pc'[q] = pc[q]
  BY LabelsMove
<1>b. \A q \in Procs : pc[q] \in Holders => fd[q] \in Inodes
  BY BaseFacts
<1>f. UNCHANGED <<dir, dirDisk, data>>
  BY DEF SyncFile
<1>d. \A j \in Inodes : dirty'[j] = IF j = fd[p] THEN {} ELSE dirty[j]
  BY DEF SyncFile, Base, TypeOK
<1>1. Apart(x)' /\ Separate(x)'
  BY <1>f DEF Files, Apart, Separate
<1>2. Others(x)'
  BY <1>f, <1>l DEF Files, Others, Holders
<1>3. Holds(x)'
  <2>1. dirty'[fd[p]] = {}
    BY <1>b, <1>d DEF Holders
  <2>2. \A q \in Procs \ {p} : pc'[q] = "replace" /\ cmd[q].output = x => dirty'[fd[q]] = {}
    BY <1>b, <1>d, <1>l DEF Files, Holds, Holders
  <2> QED BY <2>1, <2>2, <1>f, <1>l DEF Files, Holds, Holders
<1>4. WholeAt(x)'
  <2>1. \A d \in dirDisk : d[x] # None /\ dirty[d[x]] = {} => dirty'[d[x]] = {}
    BY <1>d, BaseFacts, NamesOfCommands
  <2> QED BY <2>1, <1>f DEF Files, WholeAt
<1>5. NoTrace(x)'
  BY <1>f, <1>l DEF Files, NoTrace
<1> QED BY <1>1, <1>2, <1>3, <1>4, <1>5 DEF Files

\* A step that moves a file into place.
LEMMA MoveStep ==
  ASSUME Base, NEW x \in Paths, NEW p \in Procs, Orderly(x), Files(x), Alone(x),
         Step(p), pc[p] = "replace", pc'[p] = "leave-ok",
         Rename(Target(p), cmd[p].output), UNCHANGED <<cmd, fd, pos>>
  PROVE  Files(x)'
<1>l. \A q \in Procs \ {p} : pc'[q] = pc[q]
  BY LabelsMove
<1>b. dir \in dirDisk /\ None \notin Inodes /\ p \in Inodes /\ fd[p] \in Inodes
      /\ \A q \in Procs : pc[q] \in Holders => fd[q] \in Inodes
  BY BaseFacts, NamesOfCommands DEF Holders
<1>n. x \in Names /\ Temp[x] \in Names /\ Temp[x] # x /\ Pair(x) \subseteq Names
      /\ Target(p) \in Names /\ cmd[p].output \in Names
  BY NamesOfCommands, TargetIsName DEF Pair, Base
<1>d. /\ \A n \in Names : dir'[n] =
           IF n = Target(p) THEN None
           ELSE IF n = cmd[p].output THEN dir[Target(p)] ELSE dir[n]
      /\ dirDisk' = dirDisk \cup {dir'} /\ UNCHANGED <<data, dirty>>
  <2>1. /\ dir' = [dir EXCEPT ![cmd[p].output] = dir[Target(p)], ![Target(p)] = None]
        /\ dirDisk' = dirDisk \cup {dir'} /\ UNCHANGED <<data, dirty>>
    BY DEF Rename, SetDir
  <2>2. DOMAIN dir = Names
    BY DEF Base, TypeOK
  <2> QED BY <2>1, <2>2, <1>n
<1>1. CASE cmd[p].output = x /\ Target(p) = Temp[x]
  <2>0. /\ dir'[Temp[x]] = None /\ dir'[x] = dir[Temp[x]] /\ dir[Temp[x]] = fd[p]
        /\ \A m \in Names \ Pair(x) : dir'[m] = dir[m]
    BY <1>1, <1>d, <1>n DEF Pair, Files, Holds, Holders
  <2>p. pos[p] = Chunks /\ \A c \in 1..Chunks : data[fd[p]][c] = p
    <3>1. pos[p] = Chunks
      BY DEF Base, Counted
    <3> QED BY <3>1, <1>1 DEF Files, Holds, Holders
  <2>q. \A q \in Procs : pc[q] \in Holders /\ cmd[q].output = x => q = p
    BY <1>1 DEF Alone, Writing, Holders
  <2>1. Apart(x)'
    BY <2>0, <1>b, <1>d DEF Files, Apart
  <2>2. Separate(x)'
    <3> SUFFICES ASSUME NEW d \in dirDisk', NEW e \in dirDisk',
                        NEW n \in Pair(x), NEW m \in Names \ Pair(x), d[n] # None
                 PROVE  d[n] # e[m]
      BY DEF Separate, Pair
    <3>1. PICK f \in dirDisk : e[m] = f[m]
      BY <2>0, <1>d, <1>b
    <3>2. \E g \in dirDisk, k \in Pair(x) : d[n] = g[k]
      BY <2>0, <1>d, <1>b DEF Pair
    <3> QED BY <3>1, <3>2 DEF Files, Separate
  <2>3. Others(x)'
    <3> SUFFICES ASSUME NEW q \in Procs, pc'[q] \in Holders, cmd[q].output # x,
                        NEW d \in dirDisk', NEW n \in Pair(x)
                 PROVE  d[n] # fd[q]
      BY DEF Others, Pair
    <3>1. q # p /\ pc[q] \in Holders /\ fd[q] # None
      BY <1>1, <1>l, <1>b
    <3>2. d[n] = None \/ \E g \in dirDisk, k \in Pair(x) : d[n] = g[k]
      BY <2>0, <1>d, <1>b DEF Pair
    <3> QED BY <3>1, <3>2 DEF Files, Others
  <2>4. Holds(x)'
    <3>1. \A q \in Procs : pc'[q] \in Holders => cmd[q].output # x
      BY <1>l, <2>q DEF Holders
    <3> QED BY <3>1 DEF Holds
  <2>5. WholeAt(x)'
    <3> SUFFICES ASSUME NEW d \in dirDisk', d[x] # None
                 PROVE  /\ dirty[d[x]] = {}
                        /\ \A c \in 1..Chunks : data[d[x]][c] = data[d[x]][1]
                                              /\ data[d[x]][c] # None
      BY <1>d DEF WholeAt
    <3>1. CASE d \in dirDisk
      BY <3>1 DEF Files, WholeAt
    <3>2. CASE d[x] = fd[p]
      <4>1. dirty[fd[p]] = {}
        BY <1>1 DEF Files, Holds, Holders
      <4>2. 1 \in 1..Chunks
        BY BaseFacts
      <4> QED BY <3>2, <4>1, <4>2, <2>p, <1>b
    <3> QED BY <3>1, <3>2, <2>0, <1>d
  <2>6. NoTrace(x)'
    <3> SUFFICES ASSUME NEW q \in Procs, cmd[q] # None, cmd[q].output = x,
                        pc'[q] \notin {"leave-ok", "ok", "killed"},
                        NEW d \in dirDisk', d[x] # None, NEW c \in 1..Chunks
                 PROVE  data[d[x]][c] # q
      BY <1>d DEF NoTrace
    <3>1. q # p
      OBVIOUS
    <3>2. CASE d \in dirDisk
      BY <3>1, <3>2, <1>l DEF Files, NoTrace
    <3>3. CASE d[x] = fd[p]
      BY <3>1, <3>3, <2>p
    <3> QED BY <3>2, <3>3, <2>0, <1>d
  <2> QED BY <2>1, <2>2, <2>3, <2>4, <2>5, <2>6 DEF Files
<1>2. CASE cmd[p].output \notin Pair(x) /\ Target(p) \notin Pair(x)
  <2>0. \A n \in Pair(x) : dir'[n] = dir[n]
    BY <1>2, <1>d, <1>n
  <2>x. dir'[x] = dir[x] /\ dir'[Temp[x]] = dir[Temp[x]]
    BY <2>0 DEF Pair
  <2>g. \A d \in dirDisk' : \E g \in dirDisk : \A n \in Pair(x) : d[n] = g[n]
    BY <2>0, <1>d, <1>b
  <2>1. Apart(x)'
    BY <2>x, <1>d, <1>b DEF Files, Apart
  <2>2. Separate(x)'
    <3> SUFFICES ASSUME NEW d \in dirDisk', NEW e \in dirDisk',
                        NEW n \in Pair(x), NEW m \in Names \ Pair(x), d[n] # None
                 PROVE  d[n] # e[m]
      BY DEF Separate, Pair
    <3>1. e[m] = None \/ \E f \in dirDisk, k \in Names \ Pair(x) : e[m] = f[k]
      BY <1>2, <1>d, <1>b, <1>n
    <3>2. PICK g \in dirDisk : d[n] = g[n]
      BY <2>g
    <3> QED BY <3>1, <3>2 DEF Files, Separate
  <2>3. Others(x)'
    <3>1. \A q \in Procs : pc'[q] \in Holders => pc[q] \in Holders
      BY <1>l DEF Holders
    <3> QED BY <3>1, <2>g DEF Files, Others, Pair
  <2>4. Holds(x)'
    <3>1. \A q \in Procs : pc'[q] \in Holders => pc[q] \in Holders /\ pc'[q] = pc[q]
      BY <1>l DEF Holders
    <3> QED BY <3>1, <2>x, <1>d DEF Files, Holds
  <2>5. WholeAt(x)' /\ NoTrace(x)'
    BY <2>x, <1>b, <1>d, <1>l, NotHereStep DEF Files
  <2> QED BY <2>1, <2>2, <2>3, <2>4, <2>5 DEF Files
<1>s. \/ cmd[p].output = x /\ Target(p) = Temp[x]
      \/ cmd[p].output \notin Pair(x) /\ Target(p) \notin Pair(x)
  BY Sides DEF Base
<1> QED BY <1>s, <1>1, <1>2

\* A step that removes a name.
LEMMA UnlinkStep ==
  ASSUME Base, NEW x \in Paths, NEW p \in Procs, Orderly(x), Files(x), Alone(x),
         Step(p), pc[p] \in {"leave-ok", "leave-failed"},
         pc'[p] = IF pc[p] = "leave-ok" THEN "ok" ELSE "failed",
         Unlink(Target(p)), UNCHANGED <<cmd, fd, pos>>
  PROVE  Files(x)'
<1>l. \A q \in Procs \ {p} : pc'[q] = pc[q]
  BY LabelsMove
<1>b. dir \in dirDisk /\ None \notin Inodes
      /\ \A q \in Procs : pc[q] \in Holders => fd[q] \in Inodes
  BY BaseFacts
<1>n. x \in Names /\ Temp[x] \in Names /\ Temp[x] # x /\ Pair(x) \subseteq Names
  BY NamesOfCommands DEF Pair
<1>d. /\ \A n \in Names : dir'[n] = IF n = Target(p) THEN None ELSE dir[n]
      /\ dirDisk' = dirDisk \cup {dir'} /\ UNCHANGED <<data, dirty>>
  BY DEF Unlink, SetDir, Base, TypeOK
<1>s. \/ cmd[p].output = x /\ Target(p) = Temp[x]
      \/ cmd[p].output # x /\ Target(p) \notin Pair(x)
  BY Sides DEF Base, Pair
<1>x. dir'[x] = dir[x] /\ dir'[Temp[x]] \in {None, dir[Temp[x]]}
  BY <1>s, <1>d, <1>n DEF Pair
<1>h. \A q \in Procs : pc'[q] \in Holders => pc[q] \in Holders /\ pc'[q] = pc[q]
  BY <1>l DEF Holders
<1>1. Apart(x)'
  BY <1>x, <1>d, <1>b DEF Files, Apart
<1>2. Separate(x)'
  <2> SUFFICES ASSUME NEW d \in dirDisk', NEW e \in dirDisk',
                      NEW n \in Pair(x), NEW m \in Names \ Pair(x), d[n] # None
               PROVE  d[n] # e[m]
    BY DEF Separate, Pair
  <2>1. e[m] = None \/ \E f \in dirDisk : e[m] = f[m]
    BY <1>d, <1>b
  <2>2. PICK g \in dirDisk : d[n] = g[n]
    BY <1>d, <1>b, <1>n
  <2> QED BY <2>1, <2>2 DEF Files, Separate
<1>3. Others(x)'
  <2> SUFFICES ASSUME NEW q \in Procs, pc'[q] \in Holders, cmd[q].output # x,
                      NEW d \in dirDisk', NEW n \in Pair(x)
               PROVE  d[n] # fd[q]
    BY DEF Others, Pair
  <2>1. d[n] = None \/ \E g \in dirDisk : d[n] = g[n]
    BY <1>d, <1>b, <1>n
  <2> QED BY <2>1, <1>h, <1>b DEF Files, Others
<1>4. Holds(x)'
  <2> SUFFICES ASSUME NEW q \in Procs, pc'[q] \in Holders, cmd[q].output = x
               PROVE  dir'[Temp[x]] = dir[Temp[x]]
    BY <1>h, <1>d DEF Files, Holds
  <2>1. cmd[p].output # x
    BY <1>h DEF Alone, Writing, Holders
  <2> QED BY <2>1, <1>s, <1>d, <1>n DEF Pair
<1>5. WholeAt(x)' /\ NoTrace(x)'
  BY <1>x, <1>b, <1>d, <1>l, NotHereStep DEF Files
<1> QED BY <1>1, <1>2, <1>3, <1>4, <1>5 DEF Files

\* A loss of power leaves of an orderly path what was whole and synced.
LEMMA LossStep ==
  ASSUME Base, NEW x \in Paths, Kept(x), PowerLoss
  PROVE  Kept(x)'
<1>d. dir' \in dirDisk /\ dirDisk' = {dir'} /\ \A i \in Inodes : dirty'[i] = {}
  BY DEF PowerLoss, LosePower
<1>p. /\ \A q \in Procs : pc'[q] \in Terminal \cup {"idle"}
      /\ \A q \in Procs : pc'[q] = pc[q] \/ pc'[q] = "killed"
      /\ UNCHANGED <<cmd, fd, pos>>
  BY DEF PowerLoss, Base, TypeOK, Terminal
<1>x. dir'[x] # None => /\ dir'[x] \in Inodes
                        /\ \A c \in 1..Chunks : data'[dir'[x]][c] = data[dir'[x]][c]
  <2> SUFFICES ASSUME dir'[x] # None
               PROVE  /\ dir'[x] \in Inodes
                      /\ \A c \in 1..Chunks : data'[dir'[x]][c] = data[dir'[x]][c]
    OBVIOUS
  <2>1. dir'[x] \in Inodes /\ dirty[dir'[x]] = {}
    BY <1>d, BaseFacts, NamesOfCommands DEF Kept, Files, WholeAt
  <2>2. \A c \in 1..Chunks : <<dir'[x], c>> \notin Unsynced
    BY <2>1 DEF Unsynced
  <2>3. PICK lost \in SUBSET Unsynced :
           data' = [i \in Inodes |-> [c \in 1..Chunks |->
                      IF <<i, c>> \in lost THEN None ELSE data[i][c]]]
    BY DEF PowerLoss, LosePower
  <2> QED BY <2>1, <2>2, <2>3
<1>1. Alone(x)' /\ Others(x)' /\ Holds(x)'
  BY <1>p DEF Alone, Others, Holds, Terminal, Writing, Holders
<1>2. Apart(x)' /\ Separate(x)'
  BY <1>d DEF Kept, Files, Apart, Separate
<1>3. WholeAt(x)'
  <2>1. 1 \in 1..Chunks
    BY BaseFacts
  <2> QED BY <2>1, <1>d, <1>x DEF Kept, Files, WholeAt
<1>4. NoTrace(x)'
  BY <1>d, <1>p, <1>x DEF Kept, Files, NoTrace
<1> QED BY <1>1, <1>2, <1>3, <1>4 DEF Kept, Files

\* What is kept of an orderly path is kept by every step of a process.
LEMMA KeptStep ==
  ASSUME Base, NEW x \in Paths, NEW p \in Procs, Step(p),
         Orderly(x), Orderly(x)', Kept(x)
  PROVE  Kept(x)'
<1>0. Alone(x) /\ Files(x)
  BY DEF Kept
<1>a. Alone(x)'
  BY <1>0, AloneStep
<1> SUFFICES Files(x)'
  BY <1>a DEF Kept
<1>g. \A l : Goto(p, l) => pc'[p] = l
  BY DEF Goto, Base, TypeOK
<1>1. CASE Start(p)
  <2>1. pc[p] = "idle" /\ pc'[p] \notin Holders /\ UNCHANGED <<fsVars, fd, pos>>
    BY <1>1, <1>g DEF Start, Holders
  <2> QED BY <2>1, <1>0, SameStep
<1>2. CASE Password(p) \/ ReadInput(p) \/ Recheck(p)
  <2>1. pc[p] \in {"password", "read", "check"} /\ pc'[p] \notin Holders
        /\ UNCHANGED <<fsVars, fd, pos>>
    BY <1>2, <1>g DEF Password, ReadInput, Recheck, Holders
  <2> QED BY <2>1, <1>0, SameStep
<1>3. CASE Open(p)
  <2>0. pc[p] = "open" /\ UNCHANGED <<cmd, pos>>
    BY <1>3 DEF Open
  <2>1. CASE Exists(Target(p)) /\ Truncate(dir[Target(p)])
             /\ fd' = [fd EXCEPT ![p] = dir[Target(p)]] /\ Goto(p, "write")
    BY <2>0, <2>1, <1>0, <1>a, <1>g, TruncateStep
  <2>2. CASE CreateNew(Target(p), p) /\ fd' = [fd EXCEPT ![p] = p] /\ Goto(p, "write")
    BY <2>0, <2>2, <1>0, <1>a, <1>g, CreateStep
  <2>3. CASE Goto(p, Failure(p)) /\ UNCHANGED <<fsVars, fd>>
    <3>1. pc'[p] \notin Holders
      BY <2>3, <1>g DEF Failure, Holders
    <3> QED BY <2>0, <2>3, <3>1, <1>0, SameStep
  <2> QED BY <1>3, <2>1, <2>2, <2>3 DEF Open
<1>4. CASE Write(p)
  <2>0. pc[p] = "write" /\ UNCHANGED <<cmd, fd>>
    BY <1>4 DEF Write
  <2>1. CASE WriteChunk(fd[p], pos[p] + 1, p) /\ pos' = [pos EXCEPT ![p] = @ + 1]
             /\ \E l \in {"write", "sync", "ok"} : Goto(p, l)
    BY <2>0, <2>1, <1>0, <1>g, WriteStep
  <2>2. CASE Goto(p, Failure(p)) /\ UNCHANGED <<fsVars, pos>>
    <3>1. pc'[p] \notin Holders
      BY <2>2, <1>g DEF Failure, Holders
    <3> QED BY <2>0, <2>2, <3>1, <1>0, SameStep
  <2> QED BY <1>4, <2>1, <2>2 DEF Write
<1>5. CASE Sync(p)
  <2>0. pc[p] = "sync" /\ UNCHANGED <<cmd, fd, pos>>
    BY <1>5 DEF Sync
  <2>1. CASE SyncFile(fd[p]) /\ Goto(p, "replace")
    BY <2>0, <2>1, <1>0, <1>g, SyncStep
  <2>2. CASE Goto(p, "leave-failed") /\ UNCHANGED fsVars
    <3>1. pc'[p] \notin Holders
      BY <2>2, <1>g DEF Holders
    <3> QED BY <2>0, <2>2, <3>1, <1>0, SameStep
  <2> QED BY <1>5, <2>1, <2>2 DEF Sync
<1>6. CASE Replace(p)
  <2>0. pc[p] = "replace" /\ UNCHANGED <<cmd, fd, pos>>
    BY <1>6 DEF Replace
  <2>1. CASE Rename(Target(p), cmd[p].output) /\ Goto(p, "leave-ok")
    BY <2>0, <2>1, <1>0, <1>g, MoveStep
  <2>2. CASE Goto(p, "leave-failed") /\ UNCHANGED fsVars
    <3>1. pc'[p] \notin Holders
      BY <2>2, <1>g DEF Holders
    <3> QED BY <2>0, <2>2, <3>1, <1>0, SameStep
  <2> QED BY <1>6, <2>1, <2>2 DEF Replace
<1>7. CASE Leave(p)
  <2>0. /\ pc[p] \in {"leave-ok", "leave-failed"} /\ UNCHANGED <<cmd, fd, pos>>
        /\ pc'[p] = IF pc[p] = "leave-ok" THEN "ok" ELSE "failed"
    BY <1>7, <1>g DEF Leave
  <2>1. CASE Unlink(Target(p))
    BY <2>0, <2>1, <1>0, UnlinkStep
  <2>2. CASE UNCHANGED fsVars
    <3>1. pc'[p] \notin Holders
      BY <2>0 DEF Holders
    <3> QED BY <2>0, <2>2, <3>1, <1>0, SameStep
  <2> QED BY <1>7, <2>1, <2>2 DEF Leave
<1>8. CASE Kill(p)
  <2>1. pc'[p] = "killed" /\ UNCHANGED <<fsVars, fd, pos>>
    BY <1>8, <1>g DEF Kill
  <2>2. pc'[p] \notin Holders
    BY <2>1 DEF Holders
  <2> QED BY <2>1, <2>2, <1>0, SameStep
<1> QED BY <1>1, <1>2, <1>3, <1>4, <1>5, <1>6, <1>7, <1>8 DEF Step

-----------------------------------------------------------------------------
(* The invariant and the theorems.                                         *)

\* At first every file is whole and nobody has begun.
LEMMA InvInit == Init => IInv
<1> SUFFICES ASSUME Init PROVE IInv
  OBVIOUS
<1>b. Base
  BY BaseInit
<1>w. Wanted
  BY PyAssumption DEF Init, Wanted, Exists, Names
<1>0. /\ dirDisk = {dir}
      /\ \A n \in Names : dir[n] = IF n \in Existing THEN n ELSE None
      /\ \A i \in Existing : dirty[i] = {} /\ \A c \in 1..Chunks : data[i][c] = i
      /\ \A p \in Procs : pc[p] = "idle"
  BY PyAssumption DEF Init, Inodes
<1>1. ASSUME NEW x \in Paths PROVE Kept(x)
  <2>n. x \in Names /\ Temp[x] \in Names /\ Temp[x] # x /\ None \notin Existing
    BY PyAssumption, NamesOfCommands DEF Inodes
  <2>1. Alone(x) /\ Others(x) /\ Holds(x)
    BY <1>0 DEF Alone, Others, Holds, Writing, Holders
  <2>2. Apart(x) /\ Separate(x)
    BY <1>0, <2>n DEF Apart, Separate, Pair
  <2>3. WholeAt(x)
    BY <1>0, <2>n, PyAssumption DEF WholeAt
  <2>4. NoTrace(x)
    <3>1. \A p \in Procs : cmd[p] = None
      BY DEF Init
    <3> QED BY <3>1 DEF NoTrace
  <2> QED BY <2>1, <2>2, <2>3, <2>4 DEF Kept, Files
<1> QED BY <1>b, <1>w, <1>1 DEF IInv, AllKept

\* The invariant is inductive.
LEMMA InvStep == IInv /\ [Next]_vars => IInv'
<1> SUFFICES ASSUME IInv, [Next]_vars PROVE IInv'
  OBVIOUS
<1>0. Base /\ Wanted /\ AllKept
  BY DEF IInv
<1>1. ASSUME NEW p \in Procs, Step(p) PROVE IInv'
  <2>1. Base' /\ Wanted'
    BY <1>0, <1>1, BaseStep, WantedStep
  <2>2. ASSUME NEW x \in Paths, Orderly(x)' PROVE Kept(x)'
    <3>1. Orderly(x)
      BY <1>0, <1>1, <2>2, OrderlyBefore DEF Next
    <3>2. Kept(x)
      BY <1>0, <3>1 DEF AllKept
    <3> QED BY <1>0, <1>1, <2>2, <3>1, <3>2, KeptStep
  <2> QED BY <2>1, <2>2 DEF IInv, AllKept
<1>2. CASE PowerLoss
  <2>1. Base'
    BY <1>0, <1>2, BaseLoss
  <2>2. Wanted'
    BY <1>0, <1>2 DEF PowerLoss, Base, TypeOK, Wanted
  <2>3. ASSUME NEW x \in Paths, Orderly(x)' PROVE Kept(x)'
    <3>1. Orderly(x)
      BY <1>0, <1>2, <2>3, OrderlyBefore DEF Next
    <3> QED BY <1>0, <1>2, <3>1, LossStep DEF AllKept
  <2> QED BY <2>1, <2>2, <2>3 DEF IInv, AllKept
<1>3. CASE UNCHANGED vars
  <2>1. Base' /\ Wanted'
    BY <1>0, <1>3
    DEF Base, TypeOK, Begun, Counted, Unborn, DirInDisk, Wanted, Exists, Target,
        Library, vars, fsVars
  <2>2. ASSUME NEW x \in Paths PROVE Orderly(x)' <=> Orderly(x)
    BY <1>3 DEF Orderly, Touches, Library, vars
  <2>3. ASSUME NEW x \in Paths, Kept(x) PROVE Kept(x)'
    BY <1>3, <2>3
    DEF Kept, Files, Alone, Apart, Separate, Others, Holds, WholeAt, NoTrace, vars, fsVars
  <2> QED BY <1>0, <2>1, <2>2, <2>3 DEF IInv, AllKept
<1> QED BY <1>1, <1>2, <1>3 DEF Next

\* The inductive invariant holds in every reachable state.
THEOREM Invariant == Spec => []IInv
<1> QED BY InvInit, InvStep, PTL DEF Spec

\* Every variable keeps its type, for any number of processes and of paths.
THEOREM TypeCorrect == Spec => []TypeOK
<1>1. IInv => TypeOK
  BY DEF IInv, Base
<1> QED BY <1>1, Invariant, PTL

\* A path whose commands do not overlap holds a whole file that is on the disk,
\* however many of them were killed at any step.
THEOREM WholeFiles == Spec => []WholeUnlessMet
<1>1. IInv => WholeUnlessMet
  BY DEF IInv, Base, DirInDisk, AllKept, Kept, Files, WholeAt, WholeUnlessMet
<1> QED BY <1>1, Invariant, PTL

\* A command that fails leaves no data of its own on such a path.
THEOREM FailuresLeaveNothing == Spec => []FailureIsInvisible
<1>1. ASSUME IInv PROVE FailureIsInvisible
  <2> SUFFICES ASSUME NEW p \in Procs, pc[p] = "failed", Orderly(cmd[p].output),
                      NEW d \in dirDisk \cup {dir}, d[cmd[p].output] # None,
                      NEW c \in 1..Chunks
               PROVE  data[d[cmd[p].output]][c] # p
    BY DEF FailureIsInvisible
  <2>1. cmd[p].output \in Paths /\ cmd[p] # None
    BY <1>1, TargetIsName, NamesOfCommands DEF IInv, Base
  <2>2. NoTrace(cmd[p].output)
    BY <1>1, <2>1 DEF IInv, AllKept, Kept, Files
  <2>3. d \in dirDisk
    BY <1>1 DEF IInv, Base, DirInDisk
  <2> QED BY <2>1, <2>2, <2>3 DEF NoTrace
<1> QED BY <1>1, Invariant, PTL

\* Commands that all end by themselves leave no temporary file, also where they
\* took one another's away.
THEOREM TempsAreRemoved == Spec => []NoLeftover
<1>1. IInv => NoLeftover
  BY DEF IInv, Wanted, NoLeftover, Writing
<1> QED BY <1>1, Invariant, PTL

\* A command that gets past os.replace on such a path has published its own data.
THEOREM SuccessIsPublished == Spec => OkMeansPublished
<1> DEFINE Published ==
      \A p \in Procs :
        (pc[p] = "replace" /\ pc'[p] = "leave-ok" /\ Orderly(cmd[p].output)) =>
          dir'[cmd[p].output] # None
          /\ \A c \in 1..Chunks : data'[dir'[cmd[p].output]][c] = p
<1>1. ASSUME IInv, [Next]_vars PROVE Published
  <2> SUFFICES ASSUME NEW p \in Procs, pc[p] = "replace", pc'[p] = "leave-ok",
                      Orderly(cmd[p].output)
               PROVE  /\ dir'[cmd[p].output] # None
                      /\ \A c \in 1..Chunks : data'[dir'[cmd[p].output]][c] = p
    OBVIOUS
  <2> DEFINE x == cmd[p].output
  <2>0. Base /\ AllKept
    BY <1>1 DEF IInv
  <2>n. x \in Paths /\ x \in Names /\ Temp[x] \in Names /\ Temp[x] # x
    BY <2>0, TargetIsName, NamesOfCommands DEF Base
  <2>1. Step(p)
    <3>1. pc'[p] # pc[p]
      OBVIOUS
    <3>2. ~PowerLoss
      BY <2>0 DEF PowerLoss, Base, TypeOK, Terminal
    <3>3. ASSUME NEW q \in Procs, Step(q) PROVE q = p
      BY <2>0, <3>1, <3>3, LabelsMove
    <3> QED BY <1>1, <3>1, <3>2, <3>3 DEF Next, vars
  <2>2. Replace(p)
    BY <2>1 DEF Step, Start, Password, ReadInput, Recheck, Open, Write, Sync, Replace,
                Leave, Kill, Goto, Base, TypeOK
  <2>3. Rename(Target(p), x)
    BY <2>0, <2>2 DEF Replace, Goto, Base, TypeOK
  <2>4. Target(p) = Temp[x]
    BY <2>0, <2>n, Sides DEF Base, Pair
  <2>5. dir'[x] = dir[Temp[x]] /\ UNCHANGED data
    BY <2>0, <2>n, <2>3, <2>4 DEF Rename, SetDir, Base, TypeOK
  <2>6. Holds(x)
    BY <2>0, <2>n DEF AllKept, Kept, Files
  <2>7. pos[p] = Chunks /\ fd[p] # None
    BY <2>0, BaseFacts DEF Base, Counted, Holders
  <2> QED BY <2>5, <2>6, <2>7 DEF Holds, Holders
<1>2. OkMeansPublished <=> [][Published]_vars
  BY PTL DEF OkMeansPublished
<1> QED BY <1>1, <1>2, Invariant, PTL DEF Spec
=============================================================================
