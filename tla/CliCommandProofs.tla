-------------------------- MODULE CliCommandProofs --------------------------
(* Proofs about CliCommand, for any number of invocations, paths, command  *)
(* lines, chunks and losses of power: that it keeps its type and           *)
(* CrashSafe; then about what the invocations leave behind: which file a   *)
(* rename may replace, which version a loss of power may bring back, which *)
(* temporary names remain, and that every behaviour is one of AtomicFile.  *)
EXTENDS CliCommand, TLAPS

\* The result of a command that accepts its input is the contents of a file,
\* with the plaintext of the input (Result, for encrypt, decrypt, migrate).
LEMMA ResultContents ==
  ASSUME NEW c \in Commands, NEW v \in Contents, Accepts(c, v)
  PROVE  Result(c, v) \in Contents /\ Result(c, v).plain = v.plain
<1>1. c \in Command
  BY CommandsAssumption
<1>2. v.seals \in Seq(Versions) /\ v.plain \in Paths \cup {None}
  BY DEF Contents
<1>3. CASE c.op = "encrypt"
  <2>1. <<c.version>> \o v.seals \in Seq(Versions)
    BY <1>1, <1>2, <1>3 DEF Accepts, Versions, Command
  <2> QED BY <1>2, <1>3, <2>1 DEF Result, Contents
<1>4. CASE c.op = "decrypt"
  <2>1. Tail(v.seals) \in Seq(Versions)
    BY <1>2, <1>4 DEF Accepts, Sealed
  <2> QED BY <1>2, <1>4, <2>1 DEF Result, Contents
<1>5. CASE c.op = "migrate"
  <2>1. <<5>> \o Tail(v.seals) \in Seq(Versions)
    BY <1>2, <1>5 DEF Accepts, Sealed, Versions
  <2> QED BY <1>2, <1>5, <2>1 DEF Result, Contents
<1> QED BY <1>1, <1>3, <1>4, <1>5 DEF Accepts

-----------------------------------------------------------------------------
\* The output of a process that is ready to write it.
LEMMA OutputContents ==
  ASSUME Prepared, NEW p \in Procs,
         pc[p] \in {"check", "draw", "create", "write", "sync", "rename"}
  PROVE  /\ Output(p) \in Contents
         /\ Output(p).plain # None
         /\ Output(p) # None
<1>1. /\ cmd[p] \in Commands /\ got[p] \in Contents
      /\ got[p].plain # None /\ Accepts(cmd[p], got[p])
  BY DEF Prepared
<1> QED BY <1>1, ResultContents, NamesAssumption DEF Output

\* A command that has begun names an input and an output.
LEMMA CommandPaths ==
  ASSUME Prepared, NEW p \in Procs, pc[p] # "idle"
  PROVE  /\ cmd[p] \in Commands
         /\ cmd[p].input \in Paths /\ cmd[p].output \in Paths
BY CommandsAssumption DEF Prepared, Command

\* What a path names can be read, and has a plaintext.
LEMMA ReadPath ==
  ASSUME TypeOK, DirInDisk, CrashSafe, NEW x \in Paths, Exists(x)
  PROVE  Read(dir[x]) \in Contents /\ Read(dir[x]).plain # None
<1>1. dir[x] \in Inodes
  BY DEF TypeOK, Exists, Names
<1>2. Durable(dir[x]) /\ data[dir[x]][1].plain # None
  BY DEF CrashSafe, DirInDisk, Exists
<1>3. 1 \in 1..Chunks
  BY SizeAssumption
<1>4. data[dir[x]][1] \in Contents
  <2>1. data \in [Inodes -> [1..Chunks -> Contents \cup {None}]]
    BY DEF TypeOK
  <2>2. data[dir[x]][1] # None
    BY <1>2, <1>3 DEF Durable, Whole
  <2> QED BY <1>1, <1>3, <2>1, <2>2
<1> QED BY <1>2, <1>4 DEF Read, Durable

\* Initially each path leads to a whole file that is on the disk.
LEMMA InitInv == Init => IInv
<1> SUFFICES ASSUME Init PROVE IInv
  OBVIOUS
<1> USE DEF Init
<1>1. dir \in [Names -> Inodes \cup {None}]
  BY DEF Names, Inodes
<1>2. \A x \in Paths : Initial[x] # None =>
        Initial[x] \in Contents /\ Initial[x].plain # None
  BY InitialAssumption, NamesAssumption DEF Contents, Names
<1>3. data \in [Inodes -> [1..Chunks -> Contents \cup {None}]]
  BY <1>2 DEF Inodes
<1>4. log \in Seq([by : Procs, over : Inodes \cup {None}, seen : Nat])
  OBVIOUS
<1>5. TypeOK
  <2>1. dirDisk \subseteq [Names -> Inodes \cup {None}]
    BY <1>1
  <2>2. /\ dirty \in [Inodes -> SUBSET (1..Chunks)]
        /\ cmd \in [Procs -> Commands \cup {None}]
        /\ got \in [Procs -> Contents \cup {None}]
        /\ tmp \in [Procs -> Temps \cup {None}]
        /\ fd \in [Procs -> Inodes \cup {None}]
    OBVIOUS
  <2>3. /\ pos \in [Procs -> 0..Chunks]
        /\ seen \in [Procs -> Nat]
        /\ losses \in 0..MaxLosses
    BY SizeAssumption
  <2> QED BY <1>1, <1>3, <1>4, <2>1, <2>2, <2>3 DEF TypeOK, Labels, Terminal
<1>6. /\ \A x \in Paths : dir[x] = IF Initial[x] # None THEN x ELSE None
      /\ \A d \in dirDisk \cup {dir} : d = dir
  BY DEF Names
<1>6a. Unpublished
  <2> HIDE DEF Init
  <2> QED BY <1>6, NamesAssumption DEF Unpublished, Names, Inodes
<1>7. CrashSafe
  <2> SUFFICES ASSUME NEW x \in Paths, dir[x] # None
               PROVE  Durable(dir[x]) /\ data[dir[x]][1].plain # None
    <3> HIDE DEF Init
    <3> QED BY <1>6 DEF CrashSafe
  <2>1. dir[x] = x /\ Initial[x] # None
    BY <1>6
  <2>2. \A c \in 1..Chunks : data[x][c] = Initial[x]
    BY DEF Inodes
  <2>3. 1 \in 1..Chunks
    BY SizeAssumption
  <2> QED BY <1>2, <2>1, <2>2, <2>3 DEF Durable, Whole, Inodes
<1>8. DirInDisk /\ OwnsTemp /\ Prepared /\ Written
  BY DEF DirInDisk, OwnsTemp, Prepared, Written
<1> QED BY <1>5, <1>6a, <1>7, <1>8 DEF IInv

-----------------------------------------------------------------------------
\* Every step preserves the types; the type of what is written comes from
\* OutputContents, that of what is read from ReadPath.
LEMMA TypeStep == IInv /\ [Next]_vars => TypeOK'
<1> SUFFICES ASSUME IInv, [Next]_vars PROVE TypeOK'
  OBVIOUS
<1> USE DEF TypeOK, Labels, Terminal, Goto, Move, fsVars, histVars
<1>0. TypeOK
  BY DEF IInv
<1>a. dir \in [Names -> Inodes \cup {None}]
  BY <1>0
<1>b. data \in [Inodes -> [1..Chunks -> Contents \cup {None}]]
  BY <1>0
<1>c. dirty \in [Inodes -> SUBSET (1..Chunks)]
  BY <1>0
<1>d. pos \in [Procs -> 0..Chunks]
  BY <1>0
<1>1. ASSUME NEW p \in Procs, Start(p) PROVE TypeOK'
  BY <1>0, <1>1 DEF Start
<1>2. ASSUME NEW p \in Procs, Password(p) PROVE TypeOK'
  BY <1>0, <1>2 DEF Password
<1>3. ASSUME NEW p \in Procs, ReadInput(p) PROVE TypeOK'
  <2>1. \/ got' = got
        \/ got' = [got EXCEPT ![p] = Read(dir[cmd[p].input])]
           /\ Exists(cmd[p].input)
    BY <1>3 DEF ReadInput
  <2>2. Exists(cmd[p].input) => Read(dir[cmd[p].input]) \in Contents
    BY <1>3, ReadPath, CommandPaths DEF ReadInput, IInv
  <2>3. got' \in [Procs -> Contents \cup {None}]
    BY <1>0, <2>1, <2>2
  <2> QED BY <1>0, <1>3, <2>3 DEF ReadInput
<1>4. ASSUME NEW p \in Procs, Report(p) PROVE TypeOK'
  BY <1>0, <1>4 DEF Report
<1>5. ASSUME NEW p \in Procs, Recheck(p) PROVE TypeOK'
  BY <1>0, <1>5 DEF Recheck
<1>6. ASSUME NEW p \in Procs, Draw(p) PROVE TypeOK'
  <2>1. PICK s \in Suffixes : DrawSuffix(p, s)
    BY <1>6 DEF Draw
  <2>2. <<cmd[p].output, s>> \in Temps
    BY <2>1, CommandPaths DEF DrawSuffix, Temps, IInv
  <2>3. tmp' \in [Procs -> Temps \cup {None}]
    BY <1>0, <2>1, <2>2 DEF DrawSuffix
  <2> QED BY <1>0, <2>1, <2>3 DEF DrawSuffix
<1>7. ASSUME NEW p \in Procs, CreateTemp(p) PROVE TypeOK'
  <2>1. /\ dir' \in [Names -> Inodes \cup {None}]
        /\ dirDisk' \subseteq dirDisk \cup {dir'}
        /\ UNCHANGED <<data, dirty>>
    <3> HIDE DEF TypeOK
    <3> QED BY <1>a, <1>7 DEF CreateTemp, CreateNew, SetDir, Inodes
  <2>2. /\ pc' \in [Procs -> Labels]
        /\ fd' \in [Procs -> Inodes \cup {None}]
    BY <1>0, <1>7 DEF CreateTemp, Inodes
  <2>3. UNCHANGED <<cmd, got, tmp, pos, log, seen, synced, stuck, losses>>
    BY <1>7 DEF CreateTemp
  <2> QED BY <1>0, <2>1, <2>2, <2>3
<1>8. ASSUME NEW p \in Procs, WriteTemp(p) PROVE TypeOK'
  <2>1. pc[p] = "write" /\ fd[p] = p /\ pos[p] < Chunks
    BY <1>8 DEF WriteTemp, IInv, OwnsTemp, Written
  <2>2. pos[p] + 1 \in 1..Chunks
    BY <1>0, <2>1, SizeAssumption
  <2>3. Output(p) \in Contents
    BY <2>1, OutputContents DEF IInv
  <2>4. data' \in [Inodes -> [1..Chunks -> Contents \cup {None}]]
    <3>1. \/ data' = data
          \/ data' = [data EXCEPT ![p] =
                        [data[p] EXCEPT ![pos[p] + 1] = Output(p)]]
      BY <1>8, <2>1 DEF WriteTemp, WriteChunk
    <3>2. p \in Inodes
      BY DEF Inodes
    <3>3. data[p] \in [1..Chunks -> Contents \cup {None}]
      BY <1>b, <3>2
    <3>4. [data[p] EXCEPT ![pos[p] + 1] = Output(p)]
             \in [1..Chunks -> Contents \cup {None}]
      BY <2>2, <2>3, <3>3
    <3> HIDE DEF TypeOK
    <3> QED BY <1>b, <3>1, <3>2, <3>4
  <2>5. dirty' \in [Inodes -> SUBSET (1..Chunks)]
    <3> HIDE DEF TypeOK
    <3> QED BY <1>c, <1>8, <2>1, <2>2 DEF WriteTemp, WriteChunk
  <2>6. pos' \in [Procs -> 0..Chunks]
    <3> HIDE DEF TypeOK
    <3> QED BY <1>d, <1>8, <2>2 DEF WriteTemp
  <2>7. pc' \in [Procs -> Labels]
    BY <1>0, <1>8 DEF WriteTemp
  <2>8. UNCHANGED <<dir, dirDisk, cmd, got, tmp, fd, log, seen, synced, stuck,
                    losses>>
    BY <1>8 DEF WriteTemp, WriteChunk
  <2> QED BY <1>0, <2>4, <2>5, <2>6, <2>7, <2>8
<1>9. ASSUME NEW p \in Procs, SyncTemp(p) PROVE TypeOK'
  BY <1>0, <1>9 DEF SyncTemp, SyncFile
<1>10. ASSUME NEW p \in Procs, RenameTemp(p) PROVE TypeOK'
  <2>1. cmd[p].output \in Names /\ tmp[p] \in Names
    BY <1>10, CommandPaths DEF RenameTemp, IInv, OwnsTemp, Names
  <2>2. /\ dir' \in [Names -> Inodes \cup {None}]
        /\ dirDisk' \subseteq dirDisk \cup {dir'}
        /\ UNCHANGED <<data, dirty>>
    BY <1>0, <1>10, <2>1 DEF RenameTemp, Rename, SetDir
  <2>3. Published(p) \in [by : Procs, over : Inodes \cup {None}, seen : Nat]
    BY <1>0, <2>1 DEF Published
  <2>4. log' \in Seq([by : Procs, over : Inodes \cup {None}, seen : Nat])
    <3>1. \/ log' = log
          \/ log' = Append(log, Published(p))
      BY <1>10 DEF RenameTemp
    <3> DEFINE Renames == [by : Procs, over : Inodes \cup {None}, seen : Nat]
    <3>2. log \in Seq(Renames) /\ Published(p) \in Renames
      BY <1>0, <2>3
    <3> HIDE DEF TypeOK, Renames
    <3>3. log' \in Seq(Renames)
      BY <3>1, <3>2
    <3> QED BY <3>3 DEF Renames
  <2>5. pc' \in [Procs -> Labels]
    BY <1>0, <1>10 DEF RenameTemp
  <2>6. UNCHANGED <<cmd, got, tmp, fd, pos, seen, synced, stuck, losses>>
    BY <1>10 DEF RenameTemp
  <2> QED BY <1>0, <2>2, <2>4, <2>5, <2>6
<1>11. ASSUME NEW p \in Procs, SyncParent(p) PROVE TypeOK'
  BY <1>0, <1>11 DEF SyncParent, SyncDirectory
<1>12. ASSUME NEW p \in Procs, Cleanup(p) PROVE TypeOK'
  BY <1>0, <1>12 DEF Cleanup, Unlink, SetDir
<1>13. ASSUME NEW p \in Procs, Kill(p) PROVE TypeOK'
  BY <1>0, <1>13 DEF Kill
<1>14. ASSUME PowerLoss PROVE TypeOK'
  <2>1. /\ dir' \in [Names -> Inodes \cup {None}]
        /\ dirDisk' \subseteq [Names -> Inodes \cup {None}]
        /\ dirty' \in [Inodes -> SUBSET (1..Chunks)]
    BY <1>0, <1>14 DEF PowerLoss, LosePower
  <2>2. data' \in [Inodes -> [1..Chunks -> Contents \cup {None}]]
    <3>1. PICK lost \in SUBSET Unsynced :
            data' = [i \in Inodes |-> [c \in 1..Chunks |->
                       IF <<i, c>> \in lost THEN None ELSE data[i][c]]]
      BY <1>14 DEF PowerLoss, LosePower
    <3> HIDE DEF TypeOK
    <3> QED BY <1>b, <3>1
  <2>3. pc' \in [Procs -> Labels]
    BY <1>0, <1>14 DEF PowerLoss
  <2>4. losses' \in 0..MaxLosses
    BY <1>0, <1>14, SizeAssumption DEF PowerLoss
  <2>5. UNCHANGED <<cmd, got, tmp, fd, pos, log, seen, synced, stuck>>
    BY <1>14 DEF PowerLoss
  <2> QED BY <1>0, <2>1, <2>2, <2>3, <2>4, <2>5
<1>15. ASSUME UNCHANGED vars PROVE TypeOK'
  BY <1>0, <1>15 DEF vars, procVars
<1> QED BY <1>1, <1>2, <1>3, <1>4, <1>5, <1>6, <1>7, <1>8, <1>9, <1>10,
           <1>11, <1>12, <1>13, <1>14, <1>15 DEF Next, Step

-----------------------------------------------------------------------------
\* No call makes the directory one that a loss of power could not leave.
LEMMA DirInDiskStep == IInv /\ [Next]_vars => DirInDisk'
<1> SUFFICES ASSUME IInv, [Next]_vars PROVE DirInDisk'
  OBVIOUS
<1> USE DEF DirInDisk, fsVars, histVars
<1>0. DirInDisk
  BY DEF IInv
<1>1. ASSUME NEW p \in Procs, Start(p) \/ Password(p) \/ Kill(p)
      PROVE  DirInDisk'
  BY <1>0, <1>1 DEF Start, Password, Kill
<1>2. ASSUME NEW p \in Procs, ReadInput(p) \/ Report(p) \/ Recheck(p) \/ Draw(p)
      PROVE  DirInDisk'
  BY <1>0, <1>2 DEF ReadInput, Report, Recheck, Draw, DrawSuffix
<1>3. ASSUME NEW p \in Procs, CreateTemp(p) PROVE DirInDisk'
  BY <1>0, <1>3 DEF CreateTemp, CreateNew, SetDir
<1>4. ASSUME NEW p \in Procs, WriteTemp(p) \/ SyncTemp(p) PROVE DirInDisk'
  BY <1>0, <1>4 DEF WriteTemp, WriteChunk, SyncTemp, SyncFile
<1>5. ASSUME NEW p \in Procs, RenameTemp(p) PROVE DirInDisk'
  BY <1>0, <1>5 DEF RenameTemp, Rename, SetDir
<1>6. ASSUME NEW p \in Procs, SyncParent(p) PROVE DirInDisk'
  BY <1>0, <1>6 DEF SyncParent, SyncDirectory
<1>7. ASSUME NEW p \in Procs, Cleanup(p) PROVE DirInDisk'
  BY <1>0, <1>7 DEF Cleanup, Unlink, SetDir
<1>8. ASSUME PowerLoss PROVE DirInDisk'
  BY <1>8 DEF PowerLoss, LosePower
<1>9. ASSUME UNCHANGED vars PROVE DirInDisk'
  BY <1>0, <1>9 DEF vars
<1> QED BY <1>1, <1>2, <1>3, <1>4, <1>5, <1>6, <1>7, <1>8, <1>9
        DEF Next, Step

-----------------------------------------------------------------------------
\* The steps that leave the file system alone and start no file operation.
LocalStep(p) == \/ Start(p) \/ Password(p) \/ ReadInput(p) \/ Report(p)
                \/ Recheck(p) \/ Kill(p)

\* A local step of p moves p alone, and to no step that has a temporary file.
LEMMA LocalMove ==
  ASSUME TypeOK, NEW p \in Procs, LocalStep(p)
  PROVE  /\ UNCHANGED <<dir, dirDisk, data, dirty, tmp, fd, pos>>
         /\ \A q \in Procs : pc'[q] # pc[q] =>
              /\ q = p
              /\ pc[q] \notin {"ok", "failed", "killed"}
              /\ pc'[q] \in {"password", "read", "check", "draw"} \cup Terminal
              /\ pc[q] \notin {"idle", "password", "read", "check"} =>
                   pc'[q] = "killed"
BY DEF TypeOK, LocalStep, Start, Password, ReadInput, Report, Recheck, Kill,
       Goto, Move, fsVars, histVars, Terminal, Labels

\* Nobody takes away the name of the temporary file a process has open: it was
\* created with create_new, and others rename and remove their own only.
LEMMA OwnsTempStep == IInv /\ [Next]_vars => OwnsTemp'
<1> SUFFICES ASSUME IInv, [Next]_vars PROVE OwnsTemp'
  OBVIOUS
<1>0. TypeOK /\ OwnsTemp
  BY DEF IInv
<1>t. pc \in [Procs -> Labels] /\ fd \in [Procs -> Inodes \cup {None}]
      /\ tmp \in [Procs -> Temps \cup {None}]
      /\ dir \in [Names -> Inodes \cup {None}]
  BY <1>0 DEF TypeOK
<1> USE DEF OwnsTemp, Goto, Move
<1>1. ASSUME NEW p \in Procs, LocalStep(p) PROVE OwnsTemp'
  BY <1>0, <1>1, LocalMove DEF Terminal
<1>2. ASSUME NEW p \in Procs, Draw(p) PROVE OwnsTemp'
  <2>1. PICK s \in Suffixes : DrawSuffix(p, s)
    BY <1>2 DEF Draw
  <2>2. <<cmd[p].output, s>> \in Temps
    BY <2>1, CommandPaths DEF DrawSuffix, Temps, IInv
  <2> QED BY <1>0, <1>t, <2>1, <2>2 DEF DrawSuffix, fsVars
<1>3. ASSUME NEW p \in Procs, CreateTemp(p) PROVE OwnsTemp'
  <2>1. tmp[p] \in Temps /\ p \in Inodes /\ p # None
    BY <1>0, <1>3, NamesAssumption DEF CreateTemp, Inodes
  <2>2. /\ UNCHANGED tmp
        /\ \A q \in Procs \ {p} : pc'[q] = pc[q] /\ fd'[q] = fd[q]
    BY <1>t, <1>3 DEF CreateTemp
  <2>3. CASE CreateNew(tmp[p], p) /\ fd' = [fd EXCEPT ![p] = p]
    <3>1. dir' = [dir EXCEPT ![tmp[p]] = p] /\ dir[tmp[p]] = None
      BY <2>3 DEF CreateNew, SetDir, Exists
    <3>2. \A q \in Procs : q # None
      BY NamesAssumption DEF Inodes
    <3> QED BY <1>0, <1>t, <2>1, <2>2, <2>3, <3>1, <3>2 DEF Names
  <2>4. CASE pc'[p] \in {"draw", "failed"} /\ UNCHANGED <<fsVars, fd>>
    BY <1>0, <2>2, <2>4 DEF fsVars
  <2> QED BY <1>t, <1>3, <2>3, <2>4 DEF CreateTemp
<1>4. ASSUME NEW p \in Procs, WriteTemp(p) \/ SyncTemp(p) PROVE OwnsTemp'
  BY <1>0, <1>t, <1>4 DEF WriteTemp, WriteChunk, SyncTemp, SyncFile, fsVars
<1>5. ASSUME NEW p \in Procs, RenameTemp(p) PROVE OwnsTemp'
  <2>1. /\ tmp[p] \in Temps /\ dir[tmp[p]] = p
        /\ cmd[p].output \in Paths
        /\ UNCHANGED <<tmp, fd>>
        /\ \A q \in Procs \ {p} : pc'[q] = pc[q]
    BY <1>0, <1>t, <1>5, CommandPaths DEF RenameTemp, IInv
  <2>2. CASE Rename(tmp[p], cmd[p].output) /\ pc'[p] = "dirsync"
    BY <1>0, <1>t, <2>1, <2>2, NamesAssumption DEF Rename, SetDir, Names
  <2>3. CASE UNCHANGED fsVars
    BY <1>0, <1>t, <1>5, <2>1, <2>3 DEF RenameTemp, fsVars
  <2> QED BY <1>t, <1>5, <2>2, <2>3 DEF RenameTemp
<1>6. ASSUME NEW p \in Procs, SyncParent(p) PROVE OwnsTemp'
  BY <1>0, <1>t, <1>6 DEF SyncParent, SyncDirectory, fsVars
<1>7. ASSUME NEW p \in Procs, Cleanup(p) PROVE OwnsTemp'
  <2>1. /\ tmp[p] \in Temps /\ dir[tmp[p]] = p
        /\ UNCHANGED <<tmp, fd>> /\ pc'[p] = "failed"
        /\ \A q \in Procs \ {p} : pc'[q] = pc[q]
    BY <1>0, <1>t, <1>7 DEF Cleanup
  <2>2. dir' = dir \/ dir' = [dir EXCEPT ![tmp[p]] = None]
    BY <1>7 DEF Cleanup, Unlink, SetDir, fsVars
  <2> QED BY <1>0, <1>t, <2>1, <2>2 DEF Names
<1>8. ASSUME PowerLoss PROVE OwnsTemp'
  BY <1>8 DEF PowerLoss, Terminal
<1>9. ASSUME UNCHANGED vars PROVE OwnsTemp'
  BY <1>0, <1>9 DEF vars, fsVars, procVars
<1> QED BY <1>1, <1>2, <1>3, <1>4, <1>5, <1>6, <1>7, <1>8, <1>9
        DEF Next, Step, LocalStep

-----------------------------------------------------------------------------
\* What a step of p can change of the directory: a path only by the rename.
LEMMA DirectorySteps ==
  ASSUME IInv, NEW p \in Procs, Step(p)
  PROVE  \A d \in dirDisk' : \/ d \in dirDisk
                             \/ \A x \in Paths : d[x] \in {dir[x], None}
                             \/ /\ pc[p] = "rename" /\ pc'[p] = "dirsync"
                                /\ \A x \in Paths : d[x] \in {dir[x], p}
<1>0. TypeOK /\ OwnsTemp /\ DirInDisk
  BY DEF IInv
<1>t. pc \in [Procs -> Labels] /\ dir \in [Names -> Inodes \cup {None}]
  BY <1>0 DEF TypeOK
<1>1. CASE ReadInput(p) \/ Report(p) \/ Recheck(p) \/ Draw(p)
  BY <1>1 DEF ReadInput, Report, Recheck, Draw, DrawSuffix, fsVars
<1>2. CASE WriteTemp(p) \/ SyncTemp(p)
  BY <1>2 DEF WriteTemp, WriteChunk, SyncTemp, SyncFile, fsVars
<1>3. CASE CreateTemp(p)
  <2>1. tmp[p] \in Temps
    BY <1>0, <1>3 DEF OwnsTemp, CreateTemp
  <2>2. \/ dirDisk' = dirDisk
        \/ dirDisk' = dirDisk \cup {[dir EXCEPT ![tmp[p]] = p]}
    BY <1>3 DEF CreateTemp, CreateNew, SetDir, fsVars
  <2> QED BY <1>t, <2>1, <2>2, NamesAssumption DEF Names
<1>4. CASE RenameTemp(p)
  <2>1. dir[tmp[p]] = p /\ tmp[p] \in Temps /\ cmd[p].output \in Paths
    BY <1>0, <1>4, CommandPaths DEF OwnsTemp, RenameTemp, IInv
  <2>2. \/ dirDisk' = dirDisk
        \/ /\ dirDisk' = dirDisk \cup
                 {[dir EXCEPT ![cmd[p].output] = p, ![tmp[p]] = None]}
           /\ pc[p] = "rename" /\ pc'[p] = "dirsync"
    BY <1>t, <1>4, <2>1 DEF RenameTemp, Rename, SetDir, fsVars, Goto
  <2> QED BY <1>t, <2>1, <2>2, NamesAssumption DEF Names
<1>5. CASE SyncParent(p)
  BY <1>0, <1>5 DEF SyncParent, SyncDirectory, fsVars, DirInDisk
<1>6. CASE Cleanup(p)
  <2>1. \/ dirDisk' = dirDisk
        \/ dirDisk' = dirDisk \cup {[dir EXCEPT ![tmp[p]] = None]}
    BY <1>6 DEF Cleanup, Unlink, SetDir, fsVars
  <2> QED BY <1>t, <2>1 DEF Names
<1> QED BY <1>1, <1>2, <1>3, <1>4, <1>5, <1>6 DEF Step

\* A process that has published has moved on to dirsync, and one that is
\* done stays where it is.
LEMMA PublishedStays ==
  ASSUME TypeOK, [Next]_vars, NEW q \in Procs,
         pc[q] \in {"dirsync", "ok", "killed"}
  PROVE  pc'[q] \in {"dirsync", "ok", "killed"}
<1> USE DEF Goto, Move, Terminal
<1>t. pc \in [Procs -> Labels]
  BY DEF TypeOK
<1>1. ASSUME NEW p \in Procs, LocalStep(p)
      PROVE  pc'[q] \in {"dirsync", "ok", "killed"}
  BY <1>1, LocalMove
<1>2. ASSUME NEW p \in Procs, Draw(p) \/ CreateTemp(p) \/ WriteTemp(p)
      PROVE  pc'[q] \in {"dirsync", "ok", "killed"}
  BY <1>t, <1>2 DEF Draw, DrawSuffix, CreateTemp, WriteTemp
<1>3. ASSUME NEW p \in Procs, SyncTemp(p) \/ RenameTemp(p)
      PROVE  pc'[q] \in {"dirsync", "ok", "killed"}
  BY <1>t, <1>3 DEF SyncTemp, RenameTemp
<1>4. ASSUME NEW p \in Procs, SyncParent(p) \/ Cleanup(p)
      PROVE  pc'[q] \in {"dirsync", "ok", "killed"}
  BY <1>t, <1>4 DEF SyncParent, Cleanup
<1>5. ASSUME PowerLoss PROVE pc'[q] \in {"dirsync", "ok", "killed"}
  BY <1>5 DEF PowerLoss
<1>6. ASSUME UNCHANGED vars PROVE pc'[q] \in {"dirsync", "ok", "killed"}
  BY <1>6 DEF vars, procVars
<1> QED BY <1>1, <1>2, <1>3, <1>4, <1>5, <1>6 DEF Next, Step, LocalStep

\* Only its own rename puts the file of a process at a path a user gave.
LEMMA UnpublishedStep == IInv /\ [Next]_vars => Unpublished'
<1> SUFFICES ASSUME IInv, [Next]_vars,
                    NEW q \in Procs, pc'[q] \notin {"dirsync", "ok", "killed"},
                    NEW d \in dirDisk', NEW x \in Paths
             PROVE  d[x] # q
  BY DEF Unpublished
<1>1. pc[q] \notin {"dirsync", "ok", "killed"}
  BY PublishedStays DEF IInv
<1>2. \A e \in dirDisk : e[x] # q
  BY <1>1 DEF IInv, Unpublished
<1>3. dir[x] # q /\ q # None
  BY <1>2, NamesAssumption DEF IInv, DirInDisk, Inodes
<1>4. ASSUME NEW p \in Procs, Step(p) PROVE d[x] # q
  BY <1>2, <1>3, <1>4, DirectorySteps
<1>5. ASSUME NEW p \in Procs, Start(p) \/ Password(p) \/ Kill(p)
      PROVE  d[x] # q
  BY <1>2, <1>5 DEF Start, Password, Kill, fsVars
<1>6. ASSUME PowerLoss PROVE d[x] # q
  BY <1>2, <1>6 DEF PowerLoss, LosePower
<1>7. ASSUME UNCHANGED vars PROVE d[x] # q
  BY <1>2, <1>7 DEF vars, fsVars
<1> QED BY <1>4, <1>5, <1>6, <1>7 DEF Next

-----------------------------------------------------------------------------
\* A process reaches atomic_write with an input it read and a result of it.
LEMMA PreparedStep == IInv /\ [Next]_vars => Prepared'
<1> SUFFICES ASSUME IInv, [Next]_vars PROVE Prepared'
  OBVIOUS
<1>0. TypeOK /\ Prepared
  BY DEF IInv
<1>t. /\ pc \in [Procs -> Labels]
      /\ cmd \in [Procs -> Commands \cup {None}]
      /\ got \in [Procs -> Contents \cup {None}]
  BY <1>0 DEF TypeOK
<1> USE DEF Prepared, Goto, Move, Terminal
<1>1. ASSUME NEW p \in Procs, Start(p) PROVE Prepared'
  BY <1>0, <1>t, <1>1 DEF Start
<1>2. ASSUME NEW p \in Procs, Password(p) \/ Kill(p) PROVE Prepared'
  BY <1>0, <1>t, <1>2 DEF Password, Kill
<1>3. ASSUME NEW p \in Procs, ReadInput(p) PROVE Prepared'
  <2>1. cmd[p] \in Commands /\ cmd[p].input \in Paths
    BY <1>0, <1>3, CommandPaths DEF ReadInput
  <2>2. CASE pc'[p] = "failed" /\ UNCHANGED got
    BY <1>0, <1>t, <1>3, <2>2 DEF ReadInput
  <2>3. CASE /\ Exists(cmd[p].input)
             /\ Accepts(cmd[p], Read(dir[cmd[p].input]))
             /\ got' = [got EXCEPT ![p] = Read(dir[cmd[p].input])]
    <3>1. /\ Read(dir[cmd[p].input]) \in Contents
          /\ Read(dir[cmd[p].input]).plain # None
      BY <2>1, <2>3, ReadPath DEF IInv
    <3> QED BY <1>0, <1>t, <1>3, <2>1, <2>3, <3>1 DEF ReadInput
  <2> QED BY <1>t, <1>3, <2>2, <2>3 DEF ReadInput
<1>4. ASSUME NEW p \in Procs, Report(p) \/ Recheck(p) \/ Draw(p) PROVE Prepared'
  BY <1>0, <1>t, <1>4 DEF Report, Recheck, Draw, DrawSuffix
<1>5. ASSUME NEW p \in Procs, CreateTemp(p) \/ WriteTemp(p) \/ SyncTemp(p)
      PROVE  Prepared'
  BY <1>0, <1>t, <1>5 DEF CreateTemp, WriteTemp, SyncTemp
<1>6. ASSUME NEW p \in Procs, RenameTemp(p) \/ SyncParent(p) \/ Cleanup(p)
      PROVE  Prepared'
  BY <1>0, <1>t, <1>6 DEF RenameTemp, SyncParent, Cleanup
<1>7. ASSUME PowerLoss PROVE Prepared'
  BY <1>0, <1>t, <1>7 DEF PowerLoss
<1>8. ASSUME UNCHANGED vars PROVE Prepared'
  BY <1>0, <1>8 DEF vars, procVars
<1> QED BY <1>1, <1>2, <1>3, <1>4, <1>5, <1>6, <1>7, <1>8 DEF Next, Step

-----------------------------------------------------------------------------
\* The file grows chunk by chunk, and nothing of it is unsynced when it is
\* renamed.
LEMMA WrittenStep == IInv /\ [Next]_vars => Written'
<1> SUFFICES ASSUME IInv, [Next]_vars PROVE Written'
  OBVIOUS
<1>0. TypeOK /\ Written /\ OwnsTemp
  BY DEF IInv
<1>t. /\ pc \in [Procs -> Labels]
      /\ pos \in [Procs -> 0..Chunks]
      /\ data \in [Inodes -> [1..Chunks -> Contents \cup {None}]]
      /\ dirty \in [Inodes -> SUBSET (1..Chunks)]
      /\ got \in [Procs -> Contents \cup {None}]
      /\ cmd \in [Procs -> Commands \cup {None}]
      /\ Procs \subseteq Inodes
  BY <1>0 DEF TypeOK, Inodes
<1> USE DEF Written, Output, Goto, Move
<1>1. ASSUME NEW p \in Procs, Start(p) PROVE Written'
  BY <1>0, <1>t, <1>1 DEF Start, fsVars
<1>2. ASSUME NEW p \in Procs, ReadInput(p) PROVE Written'
  BY <1>0, <1>t, <1>2 DEF ReadInput, fsVars
<1>3. ASSUME NEW p \in Procs,
             Password(p) \/ Report(p) \/ Recheck(p) \/ Kill(p) \/ Draw(p)
      PROVE  Written'
  <2>1. UNCHANGED <<data, dirty, cmd, got, pos>>
    BY <1>3 DEF Password, Report, Recheck, Kill, Draw, DrawSuffix, fsVars
  <2>2. \A q \in Procs :
          \/ pc'[q] = pc[q]
          \/ pc'[q] \in Terminal
          \/ /\ pc[q] \in {"password", "check", "draw"}
             /\ pc'[q] \in {"read", "draw", "create"}
    BY <1>t, <1>3 DEF Password, Report, Recheck, Kill, Draw, DrawSuffix, Terminal
  <2> QED BY <1>0, <2>1, <2>2 DEF Terminal
<1>4. ASSUME NEW p \in Procs, CreateTemp(p) PROVE Written'
  <2>1. UNCHANGED <<data, dirty, cmd, got, pos>> /\ pc[p] = "create"
    BY <1>4 DEF CreateTemp, CreateNew, SetDir, fsVars
  <2>2. \A q \in Procs : \/ pc'[q] = pc[q]
                         \/ q = p /\ pc'[q] \in {"write", "draw", "failed"}
    BY <1>t, <1>4 DEF CreateTemp
  <2> QED BY <1>0, <2>1, <2>2, SizeAssumption
<1>5. ASSUME NEW p \in Procs, WriteTemp(p) PROVE Written'
  <2>1. fd[p] = p /\ pc[p] = "write" /\ pos[p] < Chunks /\ pos[p] \in Nat
    BY <1>0, <1>t, <1>5 DEF WriteTemp, OwnsTemp
  <2>2. \A q \in Procs \ {p} : pc'[q] = pc[q]
    BY <1>t, <1>5 DEF WriteTemp
  <2>3. UNCHANGED <<cmd, got>>
    BY <1>5 DEF WriteTemp
  <2>4. CASE pc'[p] = "cleanup" /\ UNCHANGED <<fsVars, pos>>
    BY <1>0, <2>2, <2>3, <2>4 DEF fsVars
  <2>5. CASE /\ WriteChunk(p, pos[p] + 1, Output(p))
             /\ pos' = [pos EXCEPT ![p] = @ + 1]
             /\ pc'[p] = IF pos[p] + 1 = Chunks THEN "sync" ELSE "write"
    <3>1. /\ data' = [data EXCEPT ![p][pos[p] + 1] = Output(p)]
          /\ dirty' = [dirty EXCEPT ![p] = @ \cup {pos[p] + 1}]
      BY <2>5 DEF WriteChunk
    <3>2. \A q \in Procs \ {p} : /\ data'[q] = data[q]
                                 /\ dirty'[q] = dirty[q]
                                 /\ pos'[q] = pos[q]
      BY <1>t, <2>5, <3>1
    <3>3. pos'[p] = pos[p] + 1 /\ pos'[p] \in 1..Chunks
      BY <1>t, <2>1, <2>5, SizeAssumption
    <3>4. \A c \in 1..pos[p] : data[p][c] = Output(p)
      BY <1>0, <2>1
    <3>5. \A c \in 1..pos'[p] : data'[p][c] = Output(p)
      <4> SUFFICES ASSUME NEW c \in 1..pos'[p] PROVE data'[p][c] = Output(p)
        OBVIOUS
      <4>1. data[p] \in [1..Chunks -> Contents \cup {None}]
        BY <1>t
      <4>2. c \in 1..Chunks /\ pos[p] + 1 \in 1..Chunks
        BY <2>1, <3>3, SizeAssumption
      <4>3. data'[p] = [data[p] EXCEPT ![pos[p] + 1] = Output(p)]
        BY <1>t, <3>1
      <4>4. CASE c = pos[p] + 1
        BY <4>1, <4>2, <4>3, <4>4
      <4>5. CASE c # pos[p] + 1
        <5>1. c \in 1..pos[p]
          BY <2>1, <3>3, <4>5
        <5> QED BY <3>4, <4>1, <4>2, <4>3, <4>5, <5>1
      <4> QED BY <4>4, <4>5
    <3>6. ASSUME NEW q \in Procs, q # p
          PROVE  /\ Output(q)' = Output(q)
                 /\ pc'[q] = pc[q]
      BY <2>2, <2>3, <3>6
    <3>7. Output(p)' = Output(p)
      BY <2>3
    <3>8. pc'[p] = "sync" => pos'[p] = Chunks
      BY <2>5, <3>3
    <3>9. pc'[p] = "write" => pos'[p] < Chunks
      BY <2>1, <2>5, <3>3, SizeAssumption
    <3>10. pc'[p] \in {"sync", "write"}
      BY <2>5
    <3> HIDE DEF Output
    <3> QED BY <1>0, <3>2, <3>5, <3>6, <3>7, <3>8, <3>9, <3>10
  <2> QED BY <1>t, <1>5, <2>1, <2>4, <2>5 DEF WriteTemp
<1>6. ASSUME NEW p \in Procs, SyncTemp(p) PROVE Written'
  <2>1. fd[p] = p /\ pc[p] = "sync"
    BY <1>0, <1>6 DEF SyncTemp, OwnsTemp
  <2>2. UNCHANGED <<data, cmd, got, pos>>
    BY <1>6 DEF SyncTemp, SyncFile, fsVars
  <2>3. \A q \in Procs \ {p} : pc'[q] = pc[q] /\ dirty'[q] = dirty[q]
    BY <1>t, <1>6, <2>1 DEF SyncTemp, SyncFile, fsVars
  <2>4. \/ pc'[p] = "rename" /\ dirty'[p] = {}
        \/ pc'[p] = "cleanup"
    BY <1>t, <1>6, <2>1 DEF SyncTemp, SyncFile
  <2> QED BY <1>0, <2>1, <2>2, <2>3, <2>4
<1>7. ASSUME NEW p \in Procs, RenameTemp(p) \/ SyncParent(p) \/ Cleanup(p)
      PROVE  Written'
  <2>1. UNCHANGED <<data, dirty, cmd, got, pos>>
    BY <1>7 DEF RenameTemp, Rename, SyncParent, SyncDirectory, Cleanup,
                Unlink, SetDir, fsVars
  <2>2. \A q \in Procs : \/ pc'[q] = pc[q]
                         \/ pc'[q] \in {"dirsync", "cleanup", "ok", "failed"}
    BY <1>t, <1>7 DEF RenameTemp, SyncParent, Cleanup
  <2> QED BY <1>0, <2>1, <2>2
<1>8. ASSUME PowerLoss PROVE Written'
  <2>1. \A q \in Procs : \/ pc'[q] = "killed"
                         \/ pc'[q] = pc[q] /\ pc[q] \in Terminal \cup {"idle"}
    BY <1>8 DEF PowerLoss
  <2>2. UNCHANGED pos
    BY <1>8 DEF PowerLoss
  <2> QED BY <1>0, <2>1, <2>2 DEF Terminal
<1>9. ASSUME UNCHANGED vars PROVE Written'
  BY <1>0, <1>9 DEF vars, fsVars, procVars
<1> QED BY <1>1, <1>2, <1>3, <1>4, <1>5, <1>6, <1>7, <1>8, <1>9
        DEF Next, Step

-----------------------------------------------------------------------------
\* A file that a path leads to, in any directory a loss of power may leave,
\* keeps its bytes and stays on the disk whatever step is taken: the only
\* file a process writes or syncs is its own, which no path leads to yet.
LEMMA FileKept ==
  ASSUME IInv, [Next]_vars,
         NEW d \in dirDisk, NEW x \in Paths, d[x] # None
  PROVE  data'[d[x]] = data[d[x]] /\ dirty'[d[x]] = {}
<1>0. TypeOK /\ OwnsTemp /\ Unpublished
  BY DEF IInv
<1>1. d[x] \in Inodes
  BY <1>0 DEF TypeOK, Names
<1>2. dirty[d[x]] = {}
  BY DEF IInv, CrashSafe, Durable
<1>t. /\ data \in [Inodes -> [1..Chunks -> Contents \cup {None}]]
      /\ dirty \in [Inodes -> SUBSET (1..Chunks)]
  BY <1>0 DEF TypeOK
<1>3. ASSUME NEW p \in Procs, WriteTemp(p) \/ SyncTemp(p)
      PROVE  data'[d[x]] = data[d[x]] /\ dirty'[d[x]] = {}
  <2>1. fd[p] = p /\ d[x] # p
    BY <1>0, <1>3 DEF WriteTemp, SyncTemp, OwnsTemp, Unpublished
  <2> QED BY <1>1, <1>2, <1>3, <1>t, <2>1
          DEF WriteTemp, WriteChunk, SyncTemp, SyncFile, fsVars
<1>4. ASSUME NEW p \in Procs,
             \/ Start(p) \/ Password(p) \/ ReadInput(p) \/ Report(p) \/ Recheck(p)
             \/ Draw(p) \/ Kill(p)
      PROVE  UNCHANGED <<data, dirty>>
  BY <1>4 DEF Start, Password, ReadInput, Report, Recheck, Draw, DrawSuffix, Kill,
              fsVars
<1>5. ASSUME NEW p \in Procs,
             CreateTemp(p) \/ RenameTemp(p) \/ SyncParent(p) \/ Cleanup(p)
      PROVE  UNCHANGED <<data, dirty>>
  BY <1>5 DEF CreateTemp, CreateNew, RenameTemp, Rename, SyncParent,
              SyncDirectory, Cleanup, Unlink, SetDir, fsVars
<1>6. ASSUME PowerLoss PROVE data'[d[x]] = data[d[x]] /\ dirty'[d[x]] = {}
  <2>1. PICK lost \in SUBSET Unsynced :
          data' = [i \in Inodes |-> [c \in 1..Chunks |->
                     IF <<i, c>> \in lost THEN None ELSE data[i][c]]]
    BY <1>6 DEF PowerLoss, LosePower
  <2>2. \A c \in 1..Chunks : <<d[x], c>> \notin lost
    BY <1>2 DEF Unsynced
  <2>3. data[d[x]] \in [1..Chunks -> Contents \cup {None}]
    BY <1>1, <1>t
  <2>4. data'[d[x]] = [c \in 1..Chunks |-> data[d[x]][c]]
    BY <1>1, <2>1, <2>2
  <2> QED BY <1>1, <1>6, <2>3, <2>4 DEF PowerLoss, LosePower
<1>7. ASSUME UNCHANGED vars PROVE UNCHANGED <<data, dirty>>
  BY <1>7 DEF vars, fsVars
<1> QED BY <1>2, <1>3, <1>4, <1>5, <1>6, <1>7 DEF Next, Step

\* What is renamed is a whole file that has reached the disk.
LEMMA RenamedDurable ==
  ASSUME IInv, NEW p \in Procs, RenameTemp(p)
  PROVE  /\ Durable(p) /\ data[p][1].plain # None
         /\ UNCHANGED <<data, dirty>>
<1>1. pc[p] = "rename"
  BY DEF RenameTemp
<1>2. \A c \in 1..Chunks : data[p][c] = Output(p)
  BY <1>1 DEF IInv, Written
<1>3. Output(p) # None /\ Output(p).plain # None
  BY <1>1, OutputContents DEF IInv
<1>4. dirty[p] = {}
  BY <1>1 DEF IInv, Written
<1>5. 1 \in 1..Chunks
  BY SizeAssumption
<1>6. UNCHANGED <<data, dirty>>
  BY DEF RenameTemp, Rename, SetDir, fsVars
<1> QED BY <1>2, <1>3, <1>4, <1>5, <1>6 DEF Durable, Whole

\* No call, kill or loss of power leaves a path with less than a whole file.
LEMMA CrashSafeStep == IInv /\ [Next]_vars => CrashSafe'
<1> SUFFICES ASSUME IInv, [Next]_vars,
                    NEW d \in dirDisk', NEW x \in Paths, d[x] # None
             PROVE  Durable(d[x])' /\ data'[d[x]][1].plain # None
  BY DirInDiskStep DEF CrashSafe, DirInDisk
<1>1. ASSUME NEW e \in dirDisk, e[x] = d[x]
      PROVE  Durable(d[x])' /\ data'[d[x]][1].plain # None
  <2>1. Durable(e[x]) /\ data[e[x]][1].plain # None
    BY <1>1 DEF IInv, CrashSafe
  <2>2. data'[e[x]] = data[e[x]] /\ dirty'[e[x]] = {}
    BY <1>1, FileKept
  <2> QED BY <1>1, <2>1, <2>2 DEF Durable, Whole
<1>2. dir \in dirDisk
  BY DEF IInv, DirInDisk
<1>3. ASSUME NEW p \in Procs, Step(p)
      PROVE  Durable(d[x])' /\ data'[d[x]][1].plain # None
  <2>1. CASE d \in dirDisk
    BY <1>1, <2>1
  <2>2. CASE \A y \in Paths : d[y] \in {dir[y], None}
    BY <1>1, <1>2, <2>2
  <2>3. CASE /\ pc[p] = "rename" /\ pc'[p] = "dirsync"
             /\ \A y \in Paths : d[y] \in {dir[y], p}
    <3>1. CASE d[x] = dir[x]
      BY <1>1, <1>2, <3>1
    <3>2. CASE d[x] = p
      <4>1. RenameTemp(p)
        BY <1>3, <2>3 DEF Step, ReadInput, Report, Recheck, Draw, DrawSuffix,
                          CreateTemp, WriteTemp, SyncTemp, SyncParent, Cleanup,
                          Move
      <4>2. Durable(p) /\ data[p][1].plain # None /\ UNCHANGED <<data, dirty>>
        BY <4>1, RenamedDurable
      <4> QED BY <3>2, <4>2 DEF Durable, Whole
    <3> QED BY <2>3, <3>1, <3>2
  <2> QED BY <1>3, <2>1, <2>2, <2>3, DirectorySteps
<1>4. ASSUME NEW p \in Procs, Start(p) \/ Password(p) \/ Kill(p)
      PROVE  d \in dirDisk
  BY <1>4 DEF Start, Password, Kill, fsVars
<1>5. ASSUME PowerLoss PROVE d \in dirDisk
  BY <1>5 DEF PowerLoss, LosePower
<1>6. ASSUME UNCHANGED vars PROVE d \in dirDisk
  BY <1>6 DEF vars, fsVars
<1> QED BY <1>1, <1>3, <1>4, <1>5, <1>6 DEF Next

-----------------------------------------------------------------------------
\* Every step preserves every part of the invariant.
LEMMA InvStep == IInv /\ [Next]_vars => IInv'
BY TypeStep, DirInDiskStep, OwnsTempStep, UnpublishedStep, PreparedStep,
   WrittenStep, CrashSafeStep DEF IInv

\* The invariant holds in every state the tool and the disk can be in.
THEOREM Invariant == Spec => []IInv
BY InitInv, InvStep, PTL DEF Spec

\* Every variable keeps its type (all of CliCommand).
THEOREM TypeCorrect == Spec => []TypeOK
<1>1. IInv => TypeOK
  BY DEF IInv
<1> QED BY <1>1, Invariant, PTL

\* Whatever the number of invocations and wherever they are killed or power
\* is lost, a path names a whole file that is on the disk (atomic_write).
THEOREM CrashSafety == Spec => []CrashSafe
<1>1. IInv => CrashSafe
  BY DEF IInv
<1> QED BY <1>1, Invariant, PTL

\* A command that fails has not replaced its output (atomic_write and every
\* early return of run).
THEOREM FailuresInvisible == Spec => []FailureIsInvisible
<1>1. IInv => FailureIsInvisible
  BY DEF IInv, DirInDisk, Unpublished, FailureIsInvisible
<1> QED BY <1>1, Invariant, PTL

\* No step changes the bytes of a file that a path names (create_new, and
\* the writes being over before the rename).
THEOREM PublishedKept == Spec => PublishedImmutable
<1>1. IInv /\ [Next]_vars =>
        [\A x \in Paths : dir[x] # None => data'[dir[x]] = data[dir[x]]]_vars
  <2> SUFFICES ASSUME IInv, [Next]_vars, NEW x \in Paths, dir[x] # None
               PROVE  data'[dir[x]] = data[dir[x]]
    OBVIOUS
  <2>1. dir \in dirDisk
    BY DEF IInv, DirInDisk
  <2> QED BY <2>1, FileKept
<1> QED BY <1>1, Invariant, PTL DEF Spec, PublishedImmutable

-----------------------------------------------------------------------------
(* The histories.                                                          *)

\* Before a process has read its input, it has nothing; before it has begun,
\* no command line either.
Fresh ==
  \A p \in Procs :
    /\ pc[p] = "idle" => cmd[p] = None
    /\ pc[p] \in {"idle", "password", "read"} => got[p] = None

\* Whoever has renamed is past the rename, whoever has synced is done, and no
\* second check lies ahead of the renames it counted.
LogInPast ==
  /\ \A k \in 1..Len(log) :
       /\ pc[log[k].by] \in {"dirsync", "ok", "killed"}
       /\ cmd[log[k].by] \in Commands
  /\ \A p \in Procs : seen[p] <= Len(log)
  /\ \A p \in synced : pc[p] = "ok"

\* From its second check to its rename: if the output of a process without
\* --force exists, another one renamed onto it in between.
Raced ==
  \A p \in Procs :
    (/\ pc[p] \in {"draw", "create", "write", "sync", "rename"}
     /\ ~cmd[p].force /\ Exists(cmd[p].output))
    => \E j \in (seen[p] + 1)..Len(log) : log[j].by = dir[cmd[p].output]

\* The file at path x of directory d was renamed there by entry k of the log
\* or by a later one.
Since(k, x, d) ==
  \E j \in k..Len(log) : log[j].by = d[x] /\ cmd[log[j].by].output = x

\* A process about to sync the directory has its output there, unless a later
\* rename replaced it.
Latest ==
  \A k \in 1..Len(log) : pc[log[k].by] = "dirsync" =>
    Since(k, cmd[log[k].by].output, dir)

\* The temporary names that lead to the file of a process: none before it is
\* created, the one it drew until the rename or the removal, none after.  A
\* directory that was synced afterwards has none to bring back.
TempNames ==
  \A p \in Procs : \A n \in Temps :
    /\ pc[p] \in {"idle", "password", "read", "check", "draw", "create"} =>
         \A d \in dirDisk : d[n] # p
    /\ pc[p] \in {"write", "sync", "rename", "cleanup"} /\ dir[n] = p =>
         n = tmp[p]
    /\ pc[p] = "dirsync" => dir[n] # p
    /\ p \in synced => \A d \in dirDisk : d[n] # p

\* Path x is only ever rewritten in place.
InPlace(x) ==
  /\ Initial[x] # None
  /\ \A p \in Procs : cmd[p] # None /\ cmd[p].output = x => cmd[p].input = x

\* The plaintext of such a path is in every directory that may be on the
\* disk, and in the hands of whoever is about to rewrite it.
PlaintextKept ==
  \A x \in Paths : InPlace(x) =>
    /\ \A d \in dirDisk : d[x] # None /\ data[d[x]][1].plain = Initial[x].plain
    /\ \A p \in Procs :
         (/\ pc[p] \in {"check", "draw", "create", "write", "sync", "rename"}
          /\ cmd[p].output = x)
         => got[p].plain = Initial[x].plain

HInv == /\ IInv /\ Fresh /\ LogInPast /\ Raced /\ RaceOnly
        /\ Latest /\ ConfirmedSurvives /\ TempNames /\ TempRemoved
        /\ PlaintextKept

-----------------------------------------------------------------------------
\* The paths change by a rename, which the log records, and by a loss of
\* power; whatever else a step does to the directory concerns temporary names.
Quiet == /\ UNCHANGED log
         /\ \A x \in Paths : dir'[x] = dir[x]
         /\ \A d \in dirDisk' : d \in dirDisk \/ \A x \in Paths : d[x] = dir[x]

Renames(p) ==
  /\ pc[p] = "rename" /\ pc'[p] = "dirsync"
  /\ \A q \in Procs \ {p} : pc'[q] = pc[q]
  /\ log' = Append(log, Published(p))
  /\ UNCHANGED <<data, dirty, cmd, got, tmp, fd, seen, synced, stuck, losses>>
  /\ dir' = [dir EXCEPT ![cmd[p].output] = p, ![tmp[p]] = None]
  /\ dirDisk' = dirDisk \cup {dir'}
  /\ dir'[cmd[p].output] = p
  /\ \A x \in Paths \ {cmd[p].output} : dir'[x] = dir[x]

\* fs::rename publishes the whole step at once, or fails and changes nothing.
LEMMA RenameSteps ==
  ASSUME IInv, NEW p \in Procs, RenameTemp(p)
  PROVE  Renames(p) \/ (Quiet /\ UNCHANGED <<dir, dirDisk>> /\ pc'[p] = "cleanup")
<1>0. TypeOK /\ OwnsTemp
  BY DEF IInv
<1>t. pc \in [Procs -> Labels] /\ dir \in [Names -> Inodes \cup {None}]
  BY <1>0 DEF TypeOK
<1>1. /\ tmp[p] \in Temps /\ dir[tmp[p]] = p /\ cmd[p].output \in Paths
      /\ pc[p] = "rename"
  BY <1>0, CommandPaths DEF OwnsTemp, RenameTemp, IInv
<1>2. CASE Rename(tmp[p], cmd[p].output)
  <2>1. /\ dir' = [dir EXCEPT ![cmd[p].output] = p, ![tmp[p]] = None]
        /\ dirDisk' = dirDisk \cup {dir'} /\ UNCHANGED <<data, dirty>>
    BY <1>1, <1>2 DEF Rename, SetDir
  <2>2. /\ dir'[cmd[p].output] = p
        /\ \A x \in Paths \ {cmd[p].output} : dir'[x] = dir[x]
    BY <1>1, <1>t, <2>1, NamesAssumption DEF Names
  <2>3. dir[tmp[p]] # None /\ dir # dir'
    BY <1>1, <1>t, <2>1, NamesAssumption DEF Names, Inodes
  <2>4. log' = Append(log, Published(p)) /\ Goto(p, "dirsync")
    BY <1>2, <2>3 DEF RenameTemp, fsVars
  <2> QED BY <1>1, <1>t, <2>1, <2>2, <2>4 DEF Renames, RenameTemp, Goto
<1>3. CASE UNCHANGED <<fsVars, log>> /\ Goto(p, "cleanup")
  BY <1>3, <1>t DEF Quiet, fsVars, Goto
<1> QED BY <1>2, <1>3 DEF RenameTemp

\* Creating and removing a temporary file leaves the paths alone.
LEMMA TempIsQuiet ==
  ASSUME IInv, NEW p \in Procs, CreateTemp(p) \/ Cleanup(p)
  PROVE  Quiet
<1>1. dir \in [Names -> Inodes \cup {None}] /\ tmp[p] \in Temps
  BY DEF IInv, TypeOK, OwnsTemp, CreateTemp, Cleanup, Move
<1>2. CASE CreateTemp(p)
  <2>1. UNCHANGED log
    BY <1>2 DEF CreateTemp, histVars
  <2>2. \/ UNCHANGED <<dir, dirDisk>>
        \/ /\ dir' = [dir EXCEPT ![tmp[p]] = p]
           /\ dirDisk' = dirDisk \cup {dir'}
    BY <1>2 DEF CreateTemp, CreateNew, SetDir, fsVars
  <2> QED BY <1>1, <2>1, <2>2, NamesAssumption DEF Quiet, Names
<1>3. CASE Cleanup(p)
  <2>1. UNCHANGED log
    BY <1>3 DEF Cleanup
  <2>2. \/ UNCHANGED <<dir, dirDisk>>
        \/ /\ dir' = [dir EXCEPT ![tmp[p]] = None]
           /\ dirDisk' = dirDisk \cup {dir'}
    BY <1>3 DEF Cleanup, Unlink, SetDir, fsVars
  <2> QED BY <1>1, <2>1, <2>2, NamesAssumption DEF Quiet, Names
<1> QED BY <1>2, <1>3

\* What a step does to the paths and the log.
LEMMA PathSteps ==
  ASSUME IInv, [Next]_vars
  PROVE  Quiet \/ PowerLoss \/ \E p \in Procs : Renames(p)
<1>0. TypeOK /\ OwnsTemp /\ DirInDisk
  BY DEF IInv
<1>t. dir \in [Names -> Inodes \cup {None}]
  BY <1>0 DEF TypeOK
<1>1. ASSUME NEW p \in Procs,
             \/ LocalStep(p) \/ Draw(p) \/ WriteTemp(p) \/ SyncTemp(p)
      PROVE  Quiet
  BY <1>1 DEF Quiet, LocalStep, Start, Password, ReadInput, Report, Recheck,
              Kill, Draw, DrawSuffix, WriteTemp, WriteChunk, SyncTemp,
              SyncFile, fsVars, histVars
<1>2. ASSUME NEW p \in Procs, CreateTemp(p) \/ Cleanup(p) PROVE Quiet
  BY <1>2, TempIsQuiet
<1>3. ASSUME NEW p \in Procs, RenameTemp(p)
      PROVE  Quiet \/ \E q \in Procs : Renames(q)
  BY <1>3, RenameSteps
<1>4. ASSUME NEW p \in Procs, SyncParent(p) PROVE Quiet
  BY <1>0, <1>4 DEF SyncParent, SyncDirectory, fsVars, DirInDisk, Quiet
<1>5. ASSUME UNCHANGED vars PROVE Quiet
  BY <1>5 DEF Quiet, vars, fsVars, histVars
<1> QED BY <1>1, <1>2, <1>3, <1>4, <1>5 DEF Next, Step, LocalStep

\* Once it has begun, a process keeps its command line, and a log entry of it
\* keeps its meaning.
LEMMA CommandStays ==
  ASSUME TypeOK, [Next]_vars, NEW q \in Procs, pc[q] # "idle"
  PROVE  cmd'[q] = cmd[q] /\ pc'[q] # "idle"
<1>t. /\ pc \in [Procs -> Labels]
      /\ cmd \in [Procs -> Commands \cup {None}]
  BY DEF TypeOK
<1> USE DEF Goto, Move
<1>1. ASSUME NEW p \in Procs, Start(p) PROVE cmd'[q] = cmd[q] /\ pc'[q] # "idle"
  BY <1>t, <1>1 DEF Start
<1>2. ASSUME NEW p \in Procs,
             \/ Password(p) \/ ReadInput(p) \/ Report(p) \/ Recheck(p)
             \/ Draw(p) \/ CreateTemp(p) \/ Kill(p)
      PROVE  cmd'[q] = cmd[q] /\ pc'[q] # "idle"
  BY <1>t, <1>2 DEF Password, ReadInput, Report, Recheck, Draw, DrawSuffix,
                    CreateTemp, Kill
<1>3. ASSUME NEW p \in Procs,
             \/ WriteTemp(p) \/ SyncTemp(p) \/ RenameTemp(p)
             \/ SyncParent(p) \/ Cleanup(p)
      PROVE  cmd'[q] = cmd[q] /\ pc'[q] # "idle"
  BY <1>t, <1>3 DEF WriteTemp, SyncTemp, RenameTemp, SyncParent, Cleanup
<1>4. ASSUME PowerLoss PROVE cmd'[q] = cmd[q] /\ pc'[q] # "idle"
  BY <1>t, <1>4 DEF PowerLoss
<1>5. ASSUME UNCHANGED vars PROVE cmd'[q] = cmd[q] /\ pc'[q] # "idle"
  BY <1>5 DEF vars, procVars
<1> QED BY <1>1, <1>2, <1>3, <1>4, <1>5 DEF Next, Step

-----------------------------------------------------------------------------
\* Only the read of the input gives a process anything.
LEMMA FreshStep == HInv /\ [Next]_vars => Fresh'
<1> SUFFICES ASSUME HInv, [Next]_vars PROVE Fresh'
  OBVIOUS
<1>0. TypeOK /\ Fresh
  BY DEF HInv, IInv
<1>t. /\ pc \in [Procs -> Labels]
      /\ cmd \in [Procs -> Commands \cup {None}]
      /\ got \in [Procs -> Contents \cup {None}]
  BY <1>0 DEF TypeOK
<1> USE DEF Fresh, Goto, Move
<1>1. ASSUME NEW p \in Procs, Start(p) \/ Password(p) \/ ReadInput(p)
      PROVE  Fresh'
  BY <1>0, <1>t, <1>1 DEF Start, Password, ReadInput
<1>2. ASSUME NEW p \in Procs,
             Report(p) \/ Recheck(p) \/ Draw(p) \/ CreateTemp(p) \/ Kill(p)
      PROVE  Fresh'
  BY <1>0, <1>t, <1>2 DEF Report, Recheck, Draw, DrawSuffix, CreateTemp, Kill
<1>3. ASSUME NEW p \in Procs,
             \/ WriteTemp(p) \/ SyncTemp(p) \/ RenameTemp(p)
             \/ SyncParent(p) \/ Cleanup(p)
      PROVE  Fresh'
  BY <1>0, <1>t, <1>3 DEF WriteTemp, SyncTemp, RenameTemp, SyncParent, Cleanup
<1>4. ASSUME PowerLoss PROVE Fresh'
  BY <1>0, <1>t, <1>4 DEF PowerLoss
<1>5. ASSUME UNCHANGED vars PROVE Fresh'
  BY <1>0, <1>5 DEF vars, procVars
<1> QED BY <1>1, <1>2, <1>3, <1>4, <1>5 DEF Next, Step

-----------------------------------------------------------------------------
\* What the entries of the log are.
LEMMA LogEntries ==
  ASSUME TypeOK
  PROVE  /\ Len(log) \in Nat
         /\ \A k \in 1..Len(log) : log[k].by \in Procs /\ log[k].seen \in Nat
<1> DEFINE Entries == [by : Procs, over : Inodes \cup {None}, seen : Nat]
<1>1. log \in Seq(Entries)
  BY DEF TypeOK
<1>2. Len(log) \in Nat /\ \A k \in 1..Len(log) : log[k] \in Entries
  <2> HIDE DEF Entries
  <2> QED BY <1>1
<1> QED BY <1>2

\* The log only grows, by the rename of one process at a time.
LEMMA LogKept ==
  ASSUME IInv, [Next]_vars
  PROVE  /\ Len(log) \in Nat /\ \A k \in 1..Len(log) : log[k].by \in Procs
         /\ \/ log' = log
            \/ \E p \in Procs : /\ Renames(p)
                                /\ Len(log') = Len(log) + 1
                                /\ log'[Len(log) + 1] = Published(p)
                                /\ \A k \in 1..Len(log) : log'[k] = log[k]
<1>1. log \in Seq([by : Procs, over : Inodes \cup {None}, seen : Nat])
  BY DEF IInv, TypeOK
<1>2. Len(log) \in Nat /\ \A k \in 1..Len(log) : log[k].by \in Procs
  BY LogEntries DEF IInv
<1>3. ASSUME NEW p \in Procs, Renames(p)
      PROVE  /\ Len(log') = Len(log) + 1
             /\ log'[Len(log) + 1] = Published(p)
             /\ \A k \in 1..Len(log) : log'[k] = log[k]
  BY <1>1, <1>3 DEF Renames
<1>4. PowerLoss \/ Quiet => log' = log
  BY DEF PowerLoss, Quiet
<1> QED BY <1>2, <1>3, <1>4, PathSteps

\* What the second check and the steps after it do to one process.
LEMMA SeenSteps ==
  ASSUME IInv, [Next]_vars, NEW q \in Procs
  PROVE  \/ /\ seen'[q] = seen[q]
            /\ pc[q] = "check" => pc'[q] # "draw"
            /\ pc'[q] \in {"draw", "create", "write", "sync", "rename"} =>
                 /\ pc[q] \in {"draw", "create", "write", "sync", "rename"}
                 /\ ~PowerLoss
         \/ /\ seen'[q] = Len(log) /\ UNCHANGED <<dir, dirDisk, log, cmd>>
            /\ pc'[q] = "draw" => ~Unavailable(cmd[q])
            /\ pc'[q] \in {"draw", "failed"}
<1>0. TypeOK
  BY DEF IInv
<1>t. /\ pc \in [Procs -> Labels]
      /\ seen \in [Procs -> Nat]
  BY <1>0 DEF TypeOK
<1> DEFINE Late == {"draw", "create", "write", "sync", "rename"}
<1> DEFINE Same == /\ seen'[q] = seen[q]
                   /\ pc[q] = "check" => pc'[q] # "draw"
                   /\ pc'[q] \in Late => pc[q] \in Late
<1> USE DEF Goto, Move, histVars
<1>1. ASSUME NEW p \in Procs,
             Start(p) \/ Password(p) \/ ReadInput(p) \/ Report(p) \/ Kill(p)
      PROVE  Same
  BY <1>t, <1>1 DEF Start, Password, ReadInput, Report, Kill
<1>2. ASSUME NEW p \in Procs, Recheck(p)
      PROVE  \/ Same
             \/ /\ seen'[q] = Len(log) /\ UNCHANGED <<dir, dirDisk, log, cmd>>
                /\ pc'[q] = "draw" => ~Unavailable(cmd[q])
                /\ pc'[q] \in {"draw", "failed"}
  BY <1>t, <1>2 DEF Recheck, fsVars
<1>3. ASSUME NEW p \in Procs, Draw(p) \/ CreateTemp(p) \/ WriteTemp(p)
      PROVE  Same
  BY <1>t, <1>3 DEF Draw, DrawSuffix, CreateTemp, WriteTemp
<1>4. ASSUME NEW p \in Procs,
             SyncTemp(p) \/ RenameTemp(p) \/ SyncParent(p) \/ Cleanup(p)
      PROVE  Same
  BY <1>t, <1>4 DEF SyncTemp, RenameTemp, SyncParent, Cleanup
<1>5. ASSUME PowerLoss PROVE Same /\ pc'[q] \notin Late
  BY <1>5 DEF PowerLoss, Terminal
<1>6. ASSUME UNCHANGED vars PROVE Same
  BY <1>6 DEF vars, procVars
<1>7. CASE PowerLoss
  BY <1>5, <1>7
<1>8. CASE ~PowerLoss
  BY <1>1, <1>2, <1>3, <1>4, <1>6, <1>8 DEF Next, Step
<1> QED BY <1>7, <1>8

\* What a step does to the processes that have renamed.
LEMMA SyncSteps ==
  ASSUME IInv, [Next]_vars
  PROVE  /\ \A q \in Procs : pc[q] = "ok" => pc'[q] = "ok"
         /\ \A q \in Procs : pc'[q] = "dirsync" =>
              Renames(q) \/ (pc[q] = "dirsync" /\ ~PowerLoss)
         /\ \/ synced' = synced
            \/ \E p \in Procs : /\ pc[p] = "dirsync" /\ pc'[p] = "ok"
                                /\ synced' = synced \cup {p}
                                /\ dirDisk' = {dir}
                                /\ UNCHANGED <<dir, log, cmd, data, dirty>>
<1>0. TypeOK
  BY DEF IInv
<1>t. pc \in [Procs -> Labels]
  BY <1>0 DEF TypeOK
<1> DEFINE Kept(q) == /\ pc[q] = "ok" => pc'[q] = "ok"
                      /\ pc'[q] = "dirsync" => pc[q] = "dirsync"
<1> USE DEF Goto, Move, histVars
<1>1. ASSUME NEW p \in Procs, LocalStep(p)
      PROVE  synced' = synced /\ \A q \in Procs : Kept(q)
  <2>1. synced' = synced
    BY <1>1 DEF LocalStep, Start, Password, ReadInput, Report, Recheck, Kill
  <2> QED BY <1>0, <1>1, <2>1, LocalMove DEF Terminal
<1>2. ASSUME NEW p \in Procs, Draw(p) \/ CreateTemp(p) \/ WriteTemp(p)
      PROVE  synced' = synced /\ \A q \in Procs : Kept(q)
  BY <1>t, <1>2 DEF Draw, DrawSuffix, CreateTemp, WriteTemp
<1>3. ASSUME NEW p \in Procs, SyncTemp(p) \/ Cleanup(p)
      PROVE  synced' = synced /\ \A q \in Procs : Kept(q)
  BY <1>t, <1>3 DEF SyncTemp, Cleanup
<1>4. ASSUME NEW p \in Procs, RenameTemp(p)
      PROVE  /\ synced' = synced
             /\ \A q \in Procs : Kept(q) \/ Renames(q)
             /\ \A q \in Procs : pc[q] = "ok" => pc'[q] = "ok"
  <2>1. synced' = synced
    BY <1>4 DEF RenameTemp
  <2>2. pc[p] = "rename" /\ \A q \in Procs \ {p} : pc'[q] = pc[q]
    BY <1>t, <1>4 DEF RenameTemp
  <2> QED BY <1>4, <2>1, <2>2, RenameSteps
<1>5. ASSUME NEW p \in Procs, SyncParent(p)
      PROVE  /\ \A q \in Procs : Kept(q)
             /\ \/ synced' = synced
                \/ /\ pc[p] = "dirsync" /\ pc'[p] = "ok"
                   /\ synced' = synced \cup {p}
                   /\ dirDisk' = {dir}
                   /\ UNCHANGED <<dir, log, cmd, data, dirty>>
  BY <1>t, <1>5 DEF SyncParent, SyncDirectory
<1>6. ASSUME PowerLoss
      PROVE  /\ synced' = synced
             /\ \A q \in Procs : pc[q] = "ok" => pc'[q] = "ok"
             /\ \A q \in Procs : pc'[q] # "dirsync"
  BY <1>6 DEF PowerLoss, Terminal
<1>7. ASSUME UNCHANGED vars PROVE synced' = synced /\ \A q \in Procs : Kept(q)
  BY <1>7 DEF vars, procVars
<1> HIDE DEF Goto, Move, histVars
<1>8. CASE PowerLoss
  BY <1>6, <1>8
<1>9. CASE ~PowerLoss
  BY <1>1, <1>2, <1>3, <1>4, <1>5, <1>7, <1>9 DEF Next, Step, LocalStep
<1> QED BY <1>8, <1>9

\* The renames counted at a second check lie in the past, and those who made
\* them do not return.
LEMMA LogInPastStep == HInv /\ [Next]_vars => LogInPast'
<1> SUFFICES ASSUME HInv, [Next]_vars PROVE LogInPast'
  OBVIOUS
<1>0. IInv /\ TypeOK /\ LogInPast
  BY DEF HInv, IInv
<1>1. Len(log) \in Nat /\ \A k \in 1..Len(log) : log[k].by \in Procs
  BY <1>0, LogKept
<1>t. seen \in [Procs -> Nat]
  BY <1>0 DEF TypeOK
<1>2. ASSUME NEW k \in 1..Len(log)
      PROVE  /\ pc'[log[k].by] \in {"dirsync", "ok", "killed"}
             /\ cmd'[log[k].by] \in Commands
  <2>1. /\ pc[log[k].by] \in {"dirsync", "ok", "killed"}
        /\ cmd[log[k].by] \in Commands /\ log[k].by \in Procs
    BY <1>0, <1>1 DEF LogInPast
  <2> QED BY <1>0, <2>1, PublishedStays, CommandStays
<1>3. \A q \in Procs : seen'[q] <= Len(log)
  BY <1>0, <1>1, <1>t, SeenSteps DEF LogInPast
<1>3a. \A q \in synced' : pc'[q] = "ok"
  <2>1. \A q \in synced : pc'[q] = "ok"
    BY <1>0, SyncSteps DEF LogInPast, TypeOK
  <2> QED BY <1>0, <2>1, SyncSteps
<1>4. CASE log' = log
  BY <1>2, <1>3, <1>3a, <1>4 DEF LogInPast
<1>5. ASSUME NEW p \in Procs, Renames(p),
             Len(log') = Len(log) + 1,
             log'[Len(log) + 1] = Published(p),
             \A k \in 1..Len(log) : log'[k] = log[k]
      PROVE  LogInPast'
  <2>1. cmd[p] \in Commands
    BY <1>0, <1>5, CommandPaths DEF Renames, IInv
  <2>2. log'[Len(log) + 1].by = p
    BY <1>5 DEF Published
  <2>3. pc'[p] = "dirsync" /\ cmd' = cmd
    BY <1>5 DEF Renames
  <2>4. \A k \in 1..Len(log') : k = Len(log) + 1 \/ k \in 1..Len(log)
    BY <1>1, <1>5
  <2>5. \A q \in Procs : seen'[q] <= Len(log')
    BY <1>1, <1>3, <1>5, <1>t DEF Renames
  <2> QED BY <1>2, <1>3a, <1>5, <2>1, <2>2, <2>3, <2>4, <2>5 DEF LogInPast
<1> QED BY <1>0, <1>4, <1>5, LogKept

-----------------------------------------------------------------------------
\* Only a rename puts a file where there was none, or another one, and the
\* log has it; no process that is still to rename survives a loss of power.
LEMMA RacedStep == HInv /\ [Next]_vars => Raced'
<1> SUFFICES ASSUME HInv, [Next]_vars, NEW q \in Procs,
                    pc'[q] \in {"draw", "create", "write", "sync", "rename"},
                    ~cmd'[q].force, dir'[cmd'[q].output] # None
             PROVE  \E j \in (seen'[q] + 1)..Len(log') :
                      log'[j].by = dir'[cmd'[q].output]
  BY DEF Raced, Exists
<1>0. IInv /\ TypeOK /\ LogInPast /\ Raced
  BY DEF HInv, IInv
<1>1. Len(log) \in Nat /\ seen[q] \in Nat /\ seen[q] <= Len(log)
  BY <1>0, LogKept DEF LogInPast, TypeOK
<1>2. CASE /\ seen'[q] = Len(log) /\ UNCHANGED <<dir, dirDisk, log, cmd>>
           /\ pc'[q] = "draw" => ~Unavailable(cmd[q])
           /\ pc'[q] \in {"draw", "failed"}
  BY <1>2 DEF Unavailable, Exists
<1>3. CASE /\ seen'[q] = seen[q] /\ ~PowerLoss
           /\ pc[q] \in {"draw", "create", "write", "sync", "rename"}
  <2>1. cmd'[q] = cmd[q] /\ cmd[q].output \in Paths
    BY <1>0, <1>3, CommandStays, CommandPaths DEF IInv
  <2>2. CASE Quiet
    BY <1>0, <1>3, <2>1, <2>2 DEF Quiet, Raced, Exists
  <2>3. ASSUME NEW p \in Procs, Renames(p)
        PROVE  \E j \in (seen'[q] + 1)..Len(log') :
                 log'[j].by = dir'[cmd'[q].output]
    <3>1. /\ Len(log') = Len(log) + 1
          /\ log'[Len(log) + 1] = Published(p)
          /\ \A k \in 1..Len(log) : log'[k] = log[k]
      <4>1. log \in Seq([by : Procs, over : Inodes \cup {None}, seen : Nat])
        BY <1>0 DEF TypeOK
      <4> QED BY <2>3, <4>1 DEF Renames
    <3>2. CASE cmd[q].output = cmd[p].output
      <4>1. dir'[cmd'[q].output] = p /\ log'[Len(log) + 1].by = p
        <5>1. dir'[cmd[p].output] = p
          BY <2>3 DEF Renames
        <5>2. log'[Len(log) + 1].by = p
          BY <3>1 DEF Published
        <5> QED BY <2>1, <3>2, <5>1, <5>2
      <4>2. Len(log) + 1 \in (seen'[q] + 1)..Len(log')
        BY <1>1, <1>3, <3>1
      <4> QED BY <4>1, <4>2
    <3>3. CASE cmd[q].output # cmd[p].output
      <4>1. dir'[cmd'[q].output] = dir[cmd[q].output]
        BY <2>1, <2>3, <3>3 DEF Renames
      <4>2. PICK j \in (seen[q] + 1)..Len(log) : log[j].by = dir[cmd[q].output]
        BY <1>0, <1>3, <2>1, <4>1 DEF Raced, Exists
      <4>3. /\ j \in (seen'[q] + 1)..Len(log')
            /\ j \in 1..Len(log)
        BY <1>1, <1>3, <3>1, <4>2
      <4> QED BY <3>1, <4>1, <4>2, <4>3
    <3> QED BY <3>2, <3>3
  <2> QED BY <1>0, <1>3, <2>2, <2>3, PathSteps
<1> QED BY <1>0, <1>2, <1>3, SeenSteps

\* The rename records what Raced says of the file it replaces.
LEMMA RaceOnlyStep == HInv /\ [Next]_vars => RaceOnly'
<1> SUFFICES ASSUME HInv, [Next]_vars PROVE RaceOnly'
  OBVIOUS
<1>0. IInv /\ TypeOK /\ LogInPast /\ Raced /\ RaceOnly
  BY DEF HInv, IInv
<1>1. Len(log) \in Nat /\ \A k \in 1..Len(log) : log[k].by \in Procs
  BY <1>0, LogKept
<1>2. \A k \in 1..Len(log) : cmd'[log[k].by] = cmd[log[k].by]
  BY <1>0, <1>1, CommandStays DEF LogInPast
<1>3. CASE log' = log
  BY <1>0, <1>2, <1>3 DEF RaceOnly
<1>4. ASSUME NEW p \in Procs, Renames(p),
             Len(log') = Len(log) + 1,
             log'[Len(log) + 1] = Published(p),
             \A k \in 1..Len(log) : log'[k] = log[k]
      PROVE  RaceOnly'
  <2> SUFFICES ASSUME NEW k \in 1..Len(log'),
                      log'[k].over # None, ~cmd'[log'[k].by].force
               PROVE  \E j \in (log'[k].seen + 1)..(k - 1) :
                        log'[j].by = log'[k].over
    BY DEF RaceOnly
  <2>t. \A i \in 1..Len(log) : log[i].seen \in Nat
    BY <1>0, LogEntries
  <2>1. CASE k \in 1..Len(log)
    <3>1. PICK j \in (log[k].seen + 1)..(k - 1) : log[j].by = log[k].over
      BY <1>0, <1>2, <1>4, <2>1 DEF RaceOnly
    <3>2. j \in 1..Len(log)
      BY <1>1, <2>1, <2>t
    <3> QED BY <1>4, <2>1, <3>1, <3>2
  <2>2. CASE k = Len(log) + 1
    <3>1. /\ log'[k].by = p /\ log'[k].over = dir[cmd[p].output]
          /\ log'[k].seen = seen[p] /\ seen[p] \in Nat
          /\ pc[p] = "rename" /\ cmd' = cmd
      BY <1>0, <1>4, <2>2 DEF Published, Renames, TypeOK
    <3>2. PICK j \in (seen[p] + 1)..Len(log) : log[j].by = dir[cmd[p].output]
      BY <1>0, <3>1 DEF Raced, Exists
    <3>3. j \in 1..Len(log) /\ j \in (log'[k].seen + 1)..(k - 1)
      BY <1>1, <2>2, <3>1, <3>2
    <3> QED BY <1>4, <3>1, <3>2, <3>3
  <2> QED BY <1>1, <1>4, <2>1, <2>2
<1> QED BY <1>0, <1>3, <1>4, LogKept

-----------------------------------------------------------------------------
\* A version that is recent enough stays so: the log keeps its entries.
LEMMA SinceKept ==
  ASSUME HInv, [Next]_vars, NEW k \in 1..Len(log), NEW x, NEW d,
         Since(k, x, d)
  PROVE  Since(k, x, d)'
<1>0. IInv /\ TypeOK /\ LogInPast
  BY DEF HInv, IInv
<1>1. PICK j \in k..Len(log) : log[j].by = d[x] /\ cmd[log[j].by].output = x
  BY DEF Since
<1>2. j \in 1..Len(log) /\ Len(log) \in Nat /\ log[j].by \in Procs
  BY <1>0, <1>1, LogEntries
<1>3. /\ log'[j] = log[j] /\ j \in k..Len(log')
  BY <1>0, <1>1, <1>2, LogKept
<1>4. cmd'[log[j].by] = cmd[log[j].by]
  BY <1>0, <1>2, CommandStays DEF LogInPast
<1> QED BY <1>1, <1>3, <1>4 DEF Since

\* As long as power is not lost, the directory itself gets no older.
LEMMA SinceStep ==
  ASSUME HInv, [Next]_vars, ~PowerLoss, NEW k \in 1..Len(log),
         NEW x \in Paths, Since(k, x, dir)
  PROVE  Since(k, x, dir)'
<1>0. IInv /\ TypeOK /\ LogInPast
  BY DEF HInv, IInv
<1>2. CASE dir'[x] = dir[x]
  <2>1. PICK d : d = dir
    OBVIOUS
  <2>2. Since(k, x, d)'
    BY <2>1, SinceKept
  <2> QED BY <1>2, <2>1, <2>2 DEF Since
<1>3. CASE dir'[x] # dir[x]
  <2>1. PICK p \in Procs : Renames(p)
    BY <1>0, <1>3, PathSteps DEF Quiet
  <2>2. dir'[x] = p /\ cmd'[p].output = x
    BY <1>3, <2>1 DEF Renames
  <2>3. Len(log') = Len(log) + 1 /\ log'[Len(log) + 1].by = p
    <3>1. log \in Seq([by : Procs, over : Inodes \cup {None}, seen : Nat])
      BY <1>0 DEF TypeOK
    <3> QED BY <2>1, <3>1 DEF Renames, Published
  <2>4. Len(log) + 1 \in k..Len(log')
    BY <1>0, <2>3, LogEntries
  <2> QED BY <2>2, <2>3, <2>4 DEF Since
<1> QED BY <1>2, <1>3

\* Between its rename and its sync, a process may be replaced, not undone.
LEMMA LatestStep == HInv /\ [Next]_vars => Latest'
<1> SUFFICES ASSUME HInv, [Next]_vars,
                    NEW k \in 1..Len(log'), pc'[log'[k].by] = "dirsync"
             PROVE  \E j \in k..Len(log') :
                      LET x == cmd'[log'[k].by].output
                      IN  log'[j].by = dir'[x] /\ cmd'[log'[j].by].output = x
  BY DEF Latest, Since
<1>0. IInv /\ TypeOK /\ LogInPast /\ Latest
  BY DEF HInv, IInv
<1>1. CASE k \in 1..Len(log)
  <2>1. log'[k] = log[k] /\ log[k].by \in Procs
    BY <1>0, <1>1, LogKept
  <2>2. /\ pc[log[k].by] # "rename" /\ pc[log[k].by] # "idle"
        /\ cmd[log[k].by] \in Commands
    BY <1>0, <1>1 DEF LogInPast
  <2>3. pc[log[k].by] = "dirsync" /\ ~PowerLoss
    BY <1>0, <2>1, <2>2, SyncSteps DEF Renames
  <2>4. Since(k, cmd[log[k].by].output, dir)
    BY <1>0, <1>1, <2>3 DEF Latest
  <2>5. PICK x : x = cmd[log[k].by].output
    OBVIOUS
  <2>6. x \in Paths
    BY <2>2, <2>5, CommandsAssumption DEF Command
  <2>7. Since(k, x, dir)'
    BY <1>1, <2>3, <2>4, <2>5, <2>6, SinceStep
  <2>8. cmd'[log'[k].by].output = x
    BY <1>0, <2>1, <2>2, <2>5, CommandStays
  <2> QED BY <2>7, <2>8 DEF Since
<1>2. CASE k \notin 1..Len(log)
  <2>1. PICK p \in Procs : /\ Renames(p)
                           /\ Len(log') = Len(log) + 1
                           /\ log'[Len(log) + 1] = Published(p)
    BY <1>0, <1>2, LogKept
  <2>2. k = Len(log) + 1 /\ k \in k..Len(log')
    BY <1>0, <1>2, <2>1, LogEntries
  <2>3. log'[k].by = p
    BY <2>1, <2>2 DEF Published
  <2>4. dir'[cmd'[p].output] = p
    BY <2>1 DEF Renames
  <2> QED BY <2>2, <2>3, <2>4
<1> QED BY <1>1, <1>2

\* A directory that was synced after a rename holds that file or a later one,
\* and so does every directory that comes after it.
LEMMA ConfirmedStep == HInv /\ [Next]_vars => ConfirmedSurvives'
<1>0. HInv => IInv /\ TypeOK /\ LogInPast /\ Latest /\ ConfirmedSurvives
  BY DEF HInv, IInv
<1> SUFFICES ASSUME HInv, [Next]_vars, NEW k \in 1..Len(log'),
                    log'[k].by \in synced', NEW d \in dirDisk'
             PROVE  \E j \in k..Len(log') :
                      LET x == cmd'[log'[k].by].output
                      IN  log'[j].by = d[x] /\ cmd'[log'[j].by].output = x
  <2>1. HInv /\ [Next]_vars => dir' \in dirDisk'
    BY <1>0, DirInDiskStep DEF DirInDisk
  <2> QED BY <2>1 DEF ConfirmedSurvives
<1>1. k \in 1..Len(log)
  <2> SUFFICES ASSUME k \notin 1..Len(log) PROVE FALSE
    OBVIOUS
  <2>1. PICK p \in Procs : /\ Renames(p)
                           /\ Len(log') = Len(log) + 1
                           /\ log'[Len(log) + 1] = Published(p)
    BY <1>0, LogKept
  <2>2. log'[k].by = p
    BY <1>0, <2>1, LogEntries DEF Published
  <2>3. p \in synced /\ pc[p] = "rename"
    BY <2>1, <2>2 DEF Renames
  <2> QED BY <1>0, <2>3 DEF LogInPast
<1>2. /\ log'[k] = log[k] /\ log[k].by \in Procs
      /\ pc[log[k].by] # "idle" /\ cmd[log[k].by] \in Commands
  BY <1>0, <1>1, LogKept DEF LogInPast
<1>3. PICK x : x = cmd[log[k].by].output
  OBVIOUS
<1>4. x \in Paths /\ cmd'[log'[k].by].output = x
  BY <1>0, <1>2, <1>3, CommandsAssumption, CommandStays DEF Command
<1>5. ASSUME Since(k, x, d)
      PROVE  Since(k, x, d)'
  BY <1>1, <1>5, SinceKept
<1>6. Since(k, x, d)'
  <2>1. CASE log[k].by \notin synced
    <3>1. pc[log[k].by] = "dirsync" /\ d = dir
      BY <1>0, <1>2, <2>1, SyncSteps
    <3>2. Since(k, x, dir)
      BY <1>0, <1>1, <1>3, <3>1 DEF Latest
    <3> QED BY <1>5, <3>1, <3>2
  <2>2. CASE log[k].by \in synced
    <3>1. \A e \in dirDisk : Since(k, x, e)
      BY <1>0, <1>1, <1>3, <2>2 DEF ConfirmedSurvives, Since
    <3>2. CASE d \in dirDisk
      BY <1>5, <3>1, <3>2
    <3>3. Since(k, x, dir)
      BY <1>0, <3>1 DEF IInv, DirInDisk
    <3>4. CASE d[x] = dir[x]
      BY <1>5, <3>3, <3>4 DEF Since
    <3>5. CASE d = dir' /\ ~PowerLoss
      <4>1. Since(k, x, dir)'
        BY <1>1, <1>4, <3>3, <3>5, SinceStep
      <4> QED BY <3>5, <4>1 DEF Since
    <3>6. CASE PowerLoss
      BY <3>2, <3>6 DEF PowerLoss, LosePower
    <3>7. CASE \E p \in Procs : Renames(p)
      BY <3>2, <3>5, <3>6, <3>7 DEF Renames
    <3>8. CASE Quiet
      BY <1>4, <3>2, <3>4, <3>8 DEF Quiet
    <3> QED BY <1>0, <3>6, <3>7, <3>8, PathSteps
  <2> QED BY <2>1, <2>2
<1> QED BY <1>4, <1>6 DEF Since

-----------------------------------------------------------------------------
\* What a step does to the temporary names: a process creates and removes its
\* own only, and those that a synced directory no longer has stay away.
LEMMA TempNamesStep == HInv /\ [Next]_vars => TempNames'
<1> SUFFICES ASSUME HInv, [Next]_vars PROVE TempNames'
  OBVIOUS
<1>0. IInv /\ TypeOK /\ TempNames /\ LogInPast /\ DirInDisk /\ OwnsTemp
  BY DEF HInv, IInv
<1>t. /\ pc \in [Procs -> Labels] /\ dir \in [Names -> Inodes \cup {None}]
      /\ tmp \in [Procs -> Temps \cup {None}]
      /\ \A q \in Procs : q # None
  BY <1>0, NamesAssumption DEF TypeOK, Inodes
<1> USE DEF TempNames, Goto, Move, Terminal
<1>1. ASSUME NEW p \in Procs, LocalStep(p) PROVE TempNames'
  <2>1. synced' = synced
    BY <1>1 DEF LocalStep, Start, Password, ReadInput, Report, Recheck, Kill,
                histVars
  <2> QED BY <1>0, <1>t, <1>1, <2>1, LocalMove
<1>2. ASSUME NEW p \in Procs, Draw(p) PROVE TempNames'
  BY <1>0, <1>t, <1>2 DEF Draw, DrawSuffix, fsVars, histVars
<1>3. ASSUME NEW p \in Procs, CreateTemp(p) PROVE TempNames'
  <2>1. /\ UNCHANGED <<tmp, synced>> /\ pc[p] = "create" /\ tmp[p] \in Temps
        /\ \A q \in Procs \ {p} : pc'[q] = pc[q]
    BY <1>0, <1>t, <1>3 DEF CreateTemp, histVars, OwnsTemp
  <2>2. CASE UNCHANGED <<dir, dirDisk>> /\ pc'[p] \in {"draw", "failed"}
    BY <1>0, <2>1, <2>2 DEF LogInPast
  <2>3. CASE CreateNew(tmp[p], p) /\ pc'[p] = "write"
    <3>1. /\ dir' = [dir EXCEPT ![tmp[p]] = p]
          /\ dirDisk' = dirDisk \cup {dir'}
      BY <2>3 DEF CreateNew, SetDir
    <3>2. \A n \in Temps : dir[n] # p
      BY <1>0, <2>1 DEF DirInDisk
    <3>3. ASSUME NEW q \in Procs, NEW n \in Temps, dir'[n] = q
          PROVE  (q = p /\ n = tmp[p]) \/ (q # p /\ dir[n] = q)
      BY <1>t, <2>1, <3>1, <3>2, <3>3 DEF Names
    <3>4. p \notin synced
      BY <1>0, <2>1 DEF LogInPast
    <3>5. ASSUME NEW q \in Procs \ {p}, NEW n \in Temps, NEW d \in dirDisk',
                 \A e \in dirDisk : e[n] # q
          PROVE  d[n] # q
      BY <1>0, <3>1, <3>3, <3>5 DEF DirInDisk
    <3> SUFFICES ASSUME NEW q \in Procs, NEW n \in Temps PROVE TempNames!(q)!(n)'
      BY DEF TempNames
    <3> QED BY <1>0, <2>1, <2>3, <3>3, <3>4, <3>5
  <2> QED BY <1>t, <1>3, <2>2, <2>3 DEF CreateTemp, fsVars
<1>4. ASSUME NEW p \in Procs, WriteTemp(p) \/ SyncTemp(p) PROVE TempNames'
  BY <1>0, <1>t, <1>4 DEF WriteTemp, WriteChunk, SyncTemp, SyncFile, fsVars,
                          histVars
<1>5. ASSUME NEW p \in Procs, RenameTemp(p) PROVE TempNames'
  <2>1. CASE Renames(p)
    <3>1. /\ pc[p] = "rename" /\ pc'[p] = "dirsync"
          /\ \A q \in Procs \ {p} : pc'[q] = pc[q]
          /\ UNCHANGED <<tmp, synced>>
      BY <2>1 DEF Renames
    <3>2. tmp[p] \in Temps /\ cmd[p].output \in Paths
      BY <1>0, <3>1, CommandPaths DEF OwnsTemp, IInv
    <3>3. \A n \in Temps : dir'[n] = IF n = tmp[p] THEN None ELSE dir[n]
      BY <1>t, <2>1, <3>2, NamesAssumption DEF Names, Renames
    <3>4. \A d \in dirDisk' : d \in dirDisk \/ d = dir'
      BY <2>1 DEF Renames
    <3>5. ASSUME NEW q \in Procs, NEW n \in Temps, NEW d \in dirDisk',
                 \A e \in dirDisk : e[n] # q
          PROVE  d[n] # q
      BY <1>0, <1>t, <3>3, <3>4, <3>5 DEF DirInDisk
    <3>6. \A n \in Temps : dir'[n] # p
      BY <1>0, <1>t, <3>1, <3>3
    <3>7. p \notin synced
      BY <1>0, <3>1 DEF LogInPast
    <3>8. \A q \in Procs, n \in Temps : dir'[n] = q => dir[n] = q
      BY <1>t, <3>3
    <3> SUFFICES ASSUME NEW q \in Procs, NEW n \in Temps PROVE TempNames!(q)!(n)'
      BY DEF TempNames
    <3> QED BY <1>0, <3>1, <3>5, <3>6, <3>7, <3>8
  <2>2. CASE UNCHANGED <<dir, dirDisk>> /\ pc'[p] = "cleanup"
    BY <1>0, <1>t, <1>5, <2>2 DEF RenameTemp
  <2> QED BY <1>0, <1>5, <2>1, <2>2, RenameSteps
<1>6. ASSUME NEW p \in Procs, SyncParent(p) PROVE TempNames'
  BY <1>0, <1>t, <1>6 DEF SyncParent, SyncDirectory, fsVars, DirInDisk
<1>7. ASSUME NEW p \in Procs, Cleanup(p) PROVE TempNames'
  <2>1. /\ UNCHANGED <<tmp, synced>> /\ pc[p] = "cleanup" /\ tmp[p] \in Temps
        /\ \A q \in Procs \ {p} : pc'[q] = pc[q]
        /\ pc'[p] = "failed"
    BY <1>0, <1>t, <1>7 DEF Cleanup, OwnsTemp
  <2>2. \/ UNCHANGED <<dir, dirDisk>>
        \/ /\ dir' = [dir EXCEPT ![tmp[p]] = None]
           /\ dirDisk' = dirDisk \cup {dir'}
    BY <1>7 DEF Cleanup, Unlink, SetDir, fsVars
  <2>3. \A n \in Temps : dir'[n] \in {dir[n], None}
    BY <1>t, <2>1, <2>2 DEF Names
  <2> QED BY <1>0, <1>t, <2>1, <2>2, <2>3 DEF DirInDisk
<1>8. ASSUME PowerLoss PROVE TempNames'
  BY <1>0, <1>t, <1>8 DEF PowerLoss, LosePower
<1>9. ASSUME UNCHANGED vars PROVE TempNames'
  BY <1>0, <1>9 DEF vars, fsVars, procVars, histVars
<1> QED BY <1>1, <1>2, <1>3, <1>4, <1>5, <1>6, <1>7, <1>8, <1>9
        DEF Next, Step, LocalStep

\* A process that ends by itself has renamed or removed its temporary name,
\* and what could come back with a loss of power was never synced away.
LEMMA TempRemovedStep == HInv /\ [Next]_vars => TempRemoved'
<1> SUFFICES ASSUME HInv, [Next]_vars, NEW q \in Procs
             PROVE  TempRemoved!(q)'
  BY DEF TempRemoved
<1>0. IInv /\ TypeOK /\ TempNames /\ LogInPast /\ DirInDisk /\ OwnsTemp
      /\ TempRemoved
  BY DEF HInv, IInv
<1>t. /\ pc \in [Procs -> Labels] /\ dir \in [Names -> Inodes \cup {None}]
      /\ \A p \in Procs : p # None
  BY <1>0, NamesAssumption DEF TypeOK, Inodes
<1>a. TempRemoved!(q)
  BY <1>0 DEF TempRemoved
<1> USE DEF Goto, Move, Terminal
<1>1. ASSUME NEW p \in Procs,
             \/ Start(p) \/ Password(p) \/ ReadInput(p) \/ Report(p) \/ Recheck(p)
      PROVE  TempRemoved!(q)'
  <2>1. UNCHANGED <<dir, synced, stuck, losses>>
    BY <1>1 DEF Start, Password, ReadInput, Report, Recheck, fsVars, histVars
  <2>2. \/ pc'[q] = pc[q]
        \/ pc[q] \in {"idle", "password", "read", "check"}
    BY <1>t, <1>1 DEF Start, Password, ReadInput, Report, Recheck
  <2>3. pc[q] \in {"idle", "password", "read", "check"} =>
          \A n \in Temps : dir[n] # q
    BY <1>0 DEF TempNames, DirInDisk
  <2> QED BY <1>a, <2>1, <2>2, <2>3
<1>2. ASSUME NEW p \in Procs, Kill(p) \/ Draw(p) PROVE TempRemoved!(q)'
  BY <1>a, <1>t, <1>2 DEF Kill, Draw, DrawSuffix, fsVars, histVars
<1>3. ASSUME NEW p \in Procs, CreateTemp(p) PROVE TempRemoved!(q)'
  <2>1. /\ UNCHANGED <<synced, stuck, losses>> /\ tmp[p] \in Temps
        /\ pc[p] = "create" /\ (q # p => pc'[q] = pc[q])
    BY <1>0, <1>t, <1>3 DEF CreateTemp, histVars, OwnsTemp
  <2>2. CASE UNCHANGED dir /\ pc'[p] \in {"draw", "failed"}
    BY <1>0, <1>a, <2>1, <2>2 DEF TempNames, DirInDisk
  <2>3. CASE CreateNew(tmp[p], p) /\ pc'[p] = "write"
    <3>1. dir' = [dir EXCEPT ![tmp[p]] = p]
      BY <2>3 DEF CreateNew, SetDir
    <3>2. q # p => \A n \in Temps : dir'[n] = q => dir[n] = q
      BY <1>t, <2>1, <3>1 DEF Names
    <3> QED BY <1>a, <2>1, <2>3, <3>2
  <2> QED BY <1>t, <1>3, <2>2, <2>3 DEF CreateTemp, fsVars
<1>4. ASSUME NEW p \in Procs, WriteTemp(p) \/ SyncTemp(p) PROVE TempRemoved!(q)'
  BY <1>a, <1>t, <1>4 DEF WriteTemp, WriteChunk, SyncTemp, SyncFile, fsVars,
                          histVars
<1>5. ASSUME NEW p \in Procs, RenameTemp(p) PROVE TempRemoved!(q)'
  <2>1. /\ UNCHANGED <<synced, stuck, losses>>
        /\ pc'[q] = pc[q] \/ pc'[q] \in {"dirsync", "cleanup"}
    BY <1>t, <1>5 DEF RenameTemp
  <2>2. \A n \in Temps : dir'[n] \in {dir[n], None}
    <3>1. tmp[p] \in Temps /\ cmd[p].output \in Paths
      BY <1>0, <1>5, CommandPaths DEF OwnsTemp, RenameTemp, IInv
    <3>2. Renames(p) => \A n \in Temps : dir'[n] \in {dir[n], None}
      BY <1>t, <3>1, NamesAssumption DEF Names, Renames
    <3> QED BY <1>0, <1>5, <3>2, RenameSteps
  <2> QED BY <1>a, <1>t, <2>1, <2>2
<1>6. ASSUME NEW p \in Procs, SyncParent(p) PROVE TempRemoved!(q)'
  <2>1. /\ UNCHANGED <<dir, stuck, losses>> /\ synced' \in {synced, synced \cup {p}}
        /\ pc[p] = "dirsync" /\ (q # p => pc'[q] = pc[q])
    BY <1>t, <1>6 DEF SyncParent, SyncDirectory, fsVars
  <2> QED BY <1>0, <1>a, <2>1 DEF TempNames
<1>7. ASSUME NEW p \in Procs, Cleanup(p) PROVE TempRemoved!(q)'
  <2>1. /\ UNCHANGED <<synced, losses>> /\ tmp[p] \in Temps
        /\ pc[p] = "cleanup" /\ (q # p => pc'[q] = pc[q])
    BY <1>0, <1>t, <1>7 DEF Cleanup, OwnsTemp
  <2>2. CASE Unlink(tmp[p]) /\ UNCHANGED stuck
    <3>1. dir' = [dir EXCEPT ![tmp[p]] = None]
      BY <2>2 DEF Unlink, SetDir
    <3>2. \A n \in Temps : dir'[n] = IF n = tmp[p] THEN None ELSE dir[n]
      BY <1>t, <3>1 DEF Names
    <3>3. \A n \in Temps : dir'[n] # p
      BY <1>0, <1>t, <2>1, <3>2 DEF TempNames
    <3> QED BY <1>a, <1>t, <2>1, <2>2, <3>2, <3>3
  <2>3. CASE stuck' = stuck \cup {p} /\ UNCHANGED fsVars
    BY <1>a, <2>1, <2>3 DEF fsVars
  <2> QED BY <1>7, <2>2, <2>3 DEF Cleanup
<1>8. ASSUME PowerLoss PROVE TempRemoved!(q)'
  <2>1. /\ UNCHANGED <<stuck, synced>> /\ losses' > 0 /\ dir' \in dirDisk
    BY <1>0, <1>8 DEF PowerLoss, LosePower, TypeOK
  <2> QED BY <1>0, <2>1 DEF TempNames
<1>9. ASSUME UNCHANGED vars PROVE TempRemoved!(q)'
  BY <1>a, <1>9 DEF vars, fsVars, procVars, histVars
<1> QED BY <1>1, <1>2, <1>3, <1>4, <1>5, <1>6, <1>7, <1>8, <1>9 DEF Next, Step

-----------------------------------------------------------------------------
Holding == {"check", "draw", "create", "write", "sync", "rename"}

\* A process holds the contents it read, once, of its input.
LEMMA GotSteps ==
  ASSUME IInv, [Next]_vars, NEW q \in Procs
  PROVE  \/ got'[q] = got[q] /\ (pc'[q] \in Holding => pc[q] \in Holding)
         \/ /\ pc[q] = "read" /\ Exists(cmd[q].input)
            /\ got'[q] = Read(dir[cmd[q].input])
<1>t. /\ pc \in [Procs -> Labels] /\ got \in [Procs -> Contents \cup {None}]
  BY DEF IInv, TypeOK
<1> DEFINE Same == got'[q] = got[q] /\ (pc'[q] \in Holding => pc[q] \in Holding)
<1> USE DEF Goto, Move, Holding
<1>1. ASSUME NEW p \in Procs,
             Start(p) \/ Password(p) \/ Report(p) \/ Recheck(p) \/ Kill(p)
      PROVE  Same
  BY <1>t, <1>1 DEF Start, Password, Report, Recheck, Kill
<1>2. ASSUME NEW p \in Procs, ReadInput(p)
      PROVE  \/ Same
             \/ /\ pc[q] = "read" /\ Exists(cmd[q].input)
                /\ got'[q] = Read(dir[cmd[q].input])
  BY <1>t, <1>2 DEF ReadInput
<1>3. ASSUME NEW p \in Procs,
             Draw(p) \/ CreateTemp(p) \/ WriteTemp(p) \/ SyncTemp(p)
      PROVE  Same
  BY <1>t, <1>3 DEF Draw, DrawSuffix, CreateTemp, WriteTemp, SyncTemp
<1>4. ASSUME NEW p \in Procs, RenameTemp(p) \/ SyncParent(p) \/ Cleanup(p)
      PROVE  Same
  BY <1>t, <1>4 DEF RenameTemp, SyncParent, Cleanup
<1>5. ASSUME PowerLoss PROVE Same
  BY <1>5 DEF PowerLoss, Terminal
<1>6. ASSUME UNCHANGED vars PROVE Same
  BY <1>6 DEF vars, procVars
<1> QED BY <1>1, <1>2, <1>3, <1>4, <1>5, <1>6 DEF Next, Step

\* What a rename publishes has the plaintext of the contents it was made of.
LEMMA PublishedPlain ==
  ASSUME IInv, NEW p \in Procs, pc[p] = "rename"
  PROVE  data[p][1] = Output(p) /\ Output(p).plain = got[p].plain
<1>1. pos[p] = Chunks /\ 1 \in 1..Chunks
  BY SizeAssumption DEF IInv, Written
<1>2. data[p][1] = Output(p)
  BY <1>1 DEF IInv, Written
<1>3. cmd[p] \in Commands /\ got[p] \in Contents /\ Accepts(cmd[p], got[p])
  BY DEF IInv, Prepared
<1> QED BY <1>2, <1>3, ResultContents DEF Output

\* A process that begins can only narrow down what is rewritten in place.
LEMMA InPlaceBefore ==
  ASSUME HInv, [Next]_vars, NEW x \in Paths, InPlace(x)'
  PROVE  InPlace(x)
<1> SUFFICES ASSUME NEW p \in Procs, cmd[p] # None, cmd[p].output = x
             PROVE  cmd[p].input = x
  BY DEF InPlace
<1>1. pc[p] # "idle"
  BY DEF HInv, Fresh
<1>2. cmd'[p] = cmd[p]
  BY <1>1, CommandStays DEF HInv, IInv
<1> QED BY <1>2 DEF InPlace

\* What is read in place is the plaintext, and so is what replaces it.
LEMMA PlaintextStep == HInv /\ [Next]_vars => PlaintextKept'
<1> SUFFICES ASSUME HInv, [Next]_vars, NEW x \in Paths, InPlace(x)'
             PROVE  /\ \A d \in dirDisk' :
                         d[x] # None /\ data'[d[x]][1].plain = Initial[x].plain
                    /\ \A p \in Procs :
                         pc'[p] \in Holding /\ cmd'[p].output = x
                         => got'[p].plain = Initial[x].plain
  BY DEF PlaintextKept, Holding
<1>0. IInv /\ TypeOK /\ DirInDisk /\ CrashSafe /\ PlaintextKept
  BY DEF HInv, IInv
<1>1. /\ \A d \in dirDisk :
           d[x] # None /\ data[d[x]][1].plain = Initial[x].plain
      /\ \A p \in Procs : pc[p] \in Holding /\ cmd[p].output = x
                          => got[p].plain = Initial[x].plain
  BY <1>0, InPlaceBefore DEF PlaintextKept, Holding
<1>2. ASSUME NEW d \in dirDisk'
      PROVE  d[x] # None /\ data'[d[x]][1].plain = Initial[x].plain
  <2>1. ASSUME NEW e \in dirDisk, d[x] = e[x]
        PROVE  d[x] # None /\ data'[d[x]][1].plain = Initial[x].plain
    BY <1>0, <1>1, <2>1, FileKept
  <2>2. ASSUME NEW p \in Procs, Renames(p), d = dir'
        PROVE  d[x] # None /\ data'[d[x]][1].plain = Initial[x].plain
    <3>1. CASE cmd[p].output = x
      <4>1. pc[p] = "rename" /\ d[x] = p /\ data' = data
        BY <2>2, <3>1 DEF Renames
      <4>2. got[p].plain = Initial[x].plain
        BY <1>1, <3>1, <4>1 DEF Holding
      <4> QED BY <1>0, <4>1, <4>2, PublishedPlain, NamesAssumption DEF Inodes
    <3>2. CASE cmd[p].output # x
      BY <1>0, <2>1, <2>2, <3>2 DEF Renames, DirInDisk
    <3> QED BY <3>1, <3>2
  <2>3. CASE Quiet
    BY <1>0, <2>1, <2>3 DEF Quiet, DirInDisk
  <2>4. CASE PowerLoss
    BY <2>1, <2>4 DEF PowerLoss, LosePower
  <2>5. ASSUME NEW p \in Procs, Renames(p) PROVE d \in dirDisk \/ d = dir'
    BY <2>5 DEF Renames
  <2> QED BY <1>0, <2>1, <2>2, <2>3, <2>4, <2>5, PathSteps
<1>3. ASSUME NEW q \in Procs, pc'[q] \in Holding, cmd'[q].output = x
      PROVE  got'[q].plain = Initial[x].plain
  <2>1. CASE got'[q] = got[q] /\ pc[q] \in Holding
    BY <1>0, <1>1, <1>3, <2>1, CommandStays DEF Holding
  <2>2. CASE /\ pc[q] = "read" /\ Exists(cmd[q].input)
             /\ got'[q] = Read(dir[cmd[q].input])
    <3>1. cmd'[q] = cmd[q] /\ cmd[q] # None
      BY <1>0, <2>2, CommandStays, CommandsAssumption DEF IInv, Prepared
    <3>2. cmd[q].input = x
      BY <1>3, <3>1, InPlaceBefore DEF InPlace
    <3>3. Whole(dir[x]) /\ data[dir[x]][1].plain = Initial[x].plain
      BY <1>0, <1>1, <2>2, <3>2 DEF CrashSafe, Durable, DirInDisk, Exists
    <3> QED BY <2>2, <3>2, <3>3 DEF Read
  <2> QED BY <1>0, <1>3, <2>1, <2>2, GotSteps
<1> QED BY <1>2, <1>3

-----------------------------------------------------------------------------
\* Nothing has happened yet.
LEMMA HInit == Init => HInv
<1> SUFFICES ASSUME Init PROVE HInv
  OBVIOUS
<1>1. IInv
  BY InitInv
<1>2. log = << >> /\ synced = {} /\ dirDisk = {dir}
  BY DEF Init
<1>3. Fresh
  BY DEF Init, Fresh
<1>4. LogInPast /\ Raced /\ RaceOnly /\ Latest /\ ConfirmedSurvives
  BY DEF Init, LogInPast, Raced, RaceOnly, Latest, ConfirmedSurvives
<1>5. TempNames /\ TempRemoved
  <2>1. \A n \in Temps : dir[n] = None
    BY NamesAssumption DEF Init, Names
  <2>2. \A p \in Procs : p # None /\ pc[p] = "idle"
    BY NamesAssumption DEF Init, Inodes
  <2> QED BY <1>2, <2>1, <2>2 DEF TempNames, TempRemoved
<1>6. PlaintextKept
  <2> SUFFICES ASSUME NEW x \in Paths, Initial[x] # None
               PROVE  dir[x] # None /\ data[dir[x]][1] = Initial[x]
    <3>1. \A p \in Procs : pc[p] = "idle"
      BY DEF Init
    <3> QED BY <1>2, <3>1 DEF PlaintextKept, InPlace
  <2>1. dir[x] = x /\ x # None
    BY NamesAssumption DEF Init, Names
  <2> QED BY <2>1, SizeAssumption DEF Init, Inodes
<1> QED BY <1>1, <1>3, <1>4, <1>5, <1>6 DEF HInv

\* The histories are as the parts of HInv say in every state.
THEOREM HistoryInvariant == Spec => []HInv
<1>1. HInv /\ [Next]_vars => HInv'
  BY InvStep, FreshStep, LogInPastStep, RacedStep, RaceOnlyStep, LatestStep,
     ConfirmedStep, TempNamesStep, TempRemovedStep, PlaintextStep DEF HInv
<1> QED BY <1>1, HInit, PTL DEF Spec

\* Without --force a command replaces only what another command published
\* after its second check (ensure_output_available in atomic_write).
THEOREM RaceIsTheOnlyClobber == Spec => []RaceOnly
<1>1. HInv => RaceOnly
  BY DEF HInv
<1> QED BY <1>1, HistoryInvariant, PTL

\* After a rename and a directory sync, no loss of power brings back what the
\* output held before (the end of atomic_write).
THEOREM ConfirmedStays == Spec => []ConfirmedSurvives
<1>1. HInv => ConfirmedSurvives
  BY DEF HInv
<1> QED BY <1>1, HistoryInvariant, PTL

\* A command that ended by itself leaves no temporary file, but where
\* remove_file failed or a directory that was never synced came back.
THEOREM TempsRemoved == Spec => []TempRemoved
<1>1. HInv => TempRemoved
  BY DEF HInv
<1> QED BY <1>1, HistoryInvariant, PTL

\* Rewriting a path in place (`--force`, input and output the same) never
\* loses its plaintext, whoever else does so and wherever power is lost.
THEOREM InPlaceIsSafe == Spec => []InPlaceKeepsPlaintext
<1>1. HInv => InPlaceKeepsPlaintext
  <2> SUFFICES ASSUME HInv, NEW x \in Paths, InPlace(x), NEW d \in dirDisk
               PROVE  d[x] # None /\ Read(d[x]).plain = Initial[x].plain
    <3>1. HInv => dir \in dirDisk
      BY DEF HInv, IInv, DirInDisk
    <3> QED BY <3>1 DEF InPlaceKeepsPlaintext, InPlace
  <2>1. d[x] # None /\ data[d[x]][1].plain = Initial[x].plain
    BY DEF HInv, PlaintextKept
  <2>2. Whole(d[x])
    BY <2>1 DEF HInv, IInv, CrashSafe, Durable
  <2> QED BY <2>1, <2>2 DEF Read
<1> QED BY <1>1, HistoryInvariant, PTL

-----------------------------------------------------------------------------
(* CliCommand implements AtomicFile: every behaviour of the system calls    *)
(* of atomic_write, seen through the paths users name, is one of reads at   *)
(* one instant and replacements at one instant.                            *)

\* The abstract state.
File    == FilesIn(dir, FALSE)
Recover == {FilesIn(d, TRUE) : d \in dirDisk}
Statuses == [p \in Procs |-> Status(p)]

\* The version at each path of directory d, of which there is one only: what
\* a path leads to is whole and on the disk.
View(d) == [x \in Paths |-> IF d[x] = None THEN None ELSE data[d[x]][1]]

Views == File = View(dir) /\ Recover = {View(d) : d \in dirDisk}

\* The abstract files are those of the directories.
LEMMA FilesView == IInv => Views
<1> SUFFICES ASSUME IInv PROVE Views
  OBVIOUS
<1>1. ASSUME NEW d \in dirDisk, NEW lossy \in BOOLEAN
      PROVE  FilesIn(d, lossy) = View(d)
  BY DEF FilesIn, View, IInv, CrashSafe, Durable, Read
<1>2. dir \in dirDisk
  BY DEF IInv, DirInDisk
<1> QED BY <1>1, <1>2 DEF Views, File, Recover

\* The same after a step.
LEMMA FilesViewNext == IInv' => Views'
BY FilesView, PTL

\* The abstract initial state.
LEMMA RefinementInit == Init => Abstract!Init
<1> SUFFICES ASSUME Init PROVE Abstract!Init
  OBVIOUS
<1>1. IInv /\ Views
  BY InitInv, FilesView
<1>2. View(dir) = Initial
  <2>1. \A x \in Paths : dir[x] = IF Initial[x] # None THEN x ELSE None
    BY DEF Init, Names
  <2>2. \A x \in Paths : data[x][1] = Initial[x]
    BY SizeAssumption DEF Init, Inodes
  <2>3. \A x \in Paths : x # None
    BY NamesAssumption DEF Names
  <2> QED BY <2>1, <2>2, <2>3, InitialAssumption DEF View
<1>3. File = Initial /\ Recover = {File}
  BY <1>1, <1>2 DEF Views, Init
<1>4. Statuses = [p \in Procs |-> "idle"]
  BY DEF Statuses, Status, Init, Terminal
<1> QED BY <1>3, <1>4 DEF Abstract!Init, File, Recover, Statuses, Init

-----------------------------------------------------------------------------
\* Two directories that agree on the paths look the same, and what a
\* directory on the disk shows does not change under it.
LEMMA ViewSame ==
  ASSUME NEW d, NEW e, \A x \in Paths : d[x] = e[x]
  PROVE  View(d) = View(e) /\ View(d)' = View(e)'
BY DEF View

\* What a directory on the disk shows stays as it is: published files are not
\* written to.
LEMMA ViewKept ==
  ASSUME IInv, [Next]_vars, NEW d \in dirDisk
  PROVE  View(d)' = View(d)
<1> SUFFICES ASSUME NEW x \in Paths, d[x] # None
             PROVE  data'[d[x]][1] = data[d[x]][1]
  BY DEF View
<1> QED BY FileKept

\* What a user sees of a step that renames nothing and restores nothing.
LEMMA QuietFiles ==
  ASSUME IInv, [Next]_vars, Quiet
  PROVE  /\ File' = File
         /\ dirDisk \subseteq dirDisk' => Recover' = Recover
         /\ dirDisk' = {dir} => Recover' = {File}
<1>1. Views /\ Views' /\ dir \in dirDisk
  BY FilesView, FilesViewNext, InvStep DEF IInv, DirInDisk
<1>2. PICK e : e = dir
  OBVIOUS
<1>3. PICK f : f = dir'
  OBVIOUS
<1>4. View(e)' = View(e) /\ View(f)' = View(e)'
  BY <1>1, <1>2, <1>3, ViewKept, ViewSame DEF Quiet
<1>5. File' = File
  BY <1>1, <1>2, <1>3, <1>4 DEF Views
<1>6. ASSUME NEW d \in dirDisk'
      PROVE  \E g \in dirDisk : View(d)' = View(g)
  <2>1. CASE d \in dirDisk
    BY <2>1, ViewKept
  <2>2. CASE \A x \in Paths : d[x] = e[x]
    BY <1>1, <1>2, <1>4, <2>2, ViewSame
  <2> QED BY <1>2, <2>1, <2>2 DEF Quiet
<1>7. ASSUME dirDisk \subseteq dirDisk' PROVE Recover' = Recover
  <2>1. \A g \in dirDisk : g \in dirDisk' /\ View(g)' = View(g)
    BY <1>7, ViewKept
  <2> QED BY <1>1, <1>6, <2>1 DEF Views
<1>8. ASSUME dirDisk' = {dir} PROVE Recover' = {File}
  BY <1>1, <1>2, <1>4, <1>8 DEF Views
<1> QED BY <1>5, <1>7, <1>8

\* What a user sees of a rename: the whole result, at once.
LEMMA RenameFiles ==
  ASSUME IInv, [Next]_vars, NEW p \in Procs, Renames(p)
  PROVE  /\ File' = [File EXCEPT ![cmd[p].output] = Result(cmd[p], got[p])]
         /\ Recover' = Recover \cup {File'}
<1>1. Views /\ Views' /\ dir \in dirDisk
  BY FilesView, FilesViewNext, InvStep DEF IInv, DirInDisk
<1>2. /\ data' = data /\ dir'[cmd[p].output] = p /\ pc[p] = "rename"
      /\ \A x \in Paths \ {cmd[p].output} : dir'[x] = dir[x]
      /\ dirDisk' = dirDisk \cup {dir'}
  BY DEF Renames
<1>3. cmd[p].output \in Paths /\ p # None
  BY <1>2, CommandPaths, NamesAssumption DEF IInv, Inodes
<1>4. data[p][1] = Result(cmd[p], got[p])
  BY <1>2, PublishedPlain DEF Output
<1>5. View(dir)' = [View(dir) EXCEPT ![cmd[p].output] = Result(cmd[p], got[p])]
  BY <1>2, <1>3, <1>4 DEF View
<1>6. File' = [File EXCEPT ![cmd[p].output] = Result(cmd[p], got[p])]
  BY <1>1, <1>5 DEF Views
<1>7. \A d \in dirDisk : View(d)' = View(d)
  BY ViewKept
<1>8. PICK f : f = dir'
  OBVIOUS
<1>9. View(f)' = File'
  BY <1>1, <1>8 DEF Views
<1> QED BY <1>1, <1>2, <1>6, <1>7, <1>8, <1>9 DEF Views

\* What a user sees of a loss of power: a version the disk may hold.
LEMMA LossFiles ==
  ASSUME IInv, [Next]_vars, PowerLoss
  PROVE  File' \in Recover /\ Recover' = {File'}
<1>1. Views /\ Views'
  BY FilesView, FilesViewNext, InvStep
<1>2. PICK f \in dirDisk : f = dir' /\ dirDisk' = {f}
  BY DEF PowerLoss, LosePower
<1>3. View(f)' = View(f)
  BY ViewKept
<1> QED BY <1>1, <1>2, <1>3 DEF Views

-----------------------------------------------------------------------------
\* How the status of a process follows its step.
StatusOf(label) == IF label \in Terminal \cup {"idle"} THEN label
                   ELSE IF label = "dirsync" THEN "published" ELSE "running"

\* The status of the process that moves, and of no other, follows its label.
LEMMA StatusMove ==
  ASSUME TypeOK
  PROVE  /\ \A p \in Procs : Statuses[p] = StatusOf(pc[p])
         /\ \A p \in Procs : \A label \in Labels : Goto(p, label) =>
              Statuses' = [Statuses EXCEPT ![p] = StatusOf(label)]
<1>1. pc \in [Procs -> Labels]
  BY DEF TypeOK
<1>2. \A p \in Procs : Status(p) = StatusOf(pc[p])
  BY <1>1 DEF Status, StatusOf, Labels, Terminal
<1>3. ASSUME NEW p \in Procs, NEW label \in Labels, Goto(p, label)
      PROVE  Statuses' = [Statuses EXCEPT ![p] = StatusOf(label)]
  <2>1. pc' \in [Procs -> Labels] /\ pc' = [pc EXCEPT ![p] = label]
    BY <1>1, <1>3 DEF Goto
  <2>2. \A q \in Procs : Status(q)' = IF q = p THEN StatusOf(label) ELSE Status(q)
    BY <1>1, <1>2, <2>1 DEF Status, StatusOf, Labels, Terminal
  <2> QED BY <2>2 DEF Statuses
<1> QED BY <1>2, <1>3 DEF Statuses

\* The steps that leave a running process running, and change nothing else a
\* user can see, are stutters; those that end it are failures.
LEMMA StutterOrFail ==
  ASSUME HInv, [Next]_vars, NEW p \in Procs, NEW label \in Labels,
         Goto(p, label), StatusOf(pc[p]) = "running",
         StatusOf(label) \in {"running", "failed"},
         Quiet, dirDisk \subseteq dirDisk', UNCHANGED <<cmd, got>>
  PROVE  Abstract!Fail(p) \/ UNCHANGED Abstract!vars
<1>1. File' = File /\ Recover' = Recover
  BY QuietFiles DEF HInv
<1>2. /\ Statuses[p] = "running"
      /\ Statuses' = [Statuses EXCEPT ![p] = StatusOf(label)]
  BY StatusMove DEF HInv, IInv
<1>3. CASE StatusOf(label) = "failed"
  BY <1>1, <1>2, <1>3 DEF Abstract!Fail, Abstract!Become, File, Recover, Statuses
<1>4. CASE StatusOf(label) = "running"
  <2>1. Statuses' = Statuses
    BY <1>2, <1>4 DEF Statuses
  <2> QED BY <1>1, <2>1 DEF Abstract!vars, File, Recover, Statuses
<1> QED BY <1>3, <1>4

\* The first check of the output refuses or begins.
LEMMA RefineStart ==
  ASSUME HInv, [Next]_vars, NEW p \in Procs, Start(p)
  PROVE  Abstract!Begin(p)
<1>0. IInv /\ TypeOK /\ Views
  BY FilesView DEF HInv, IInv
<1>1. PICK c \in Commands :
        /\ cmd' = [cmd EXCEPT ![p] = c]
        /\ Goto(p, IF c.op \notin Writers THEN "read"
                   ELSE IF Unavailable(c) \/ (c.op = "migrate" /\ c.version # 5)
                        THEN "failed" ELSE "password")
  BY DEF Start
<1>2. Quiet /\ UNCHANGED <<dirDisk, got>>
  BY DEF Start, Quiet, fsVars, histVars
<1>3. File' = File /\ Recover' = Recover
  BY <1>0, <1>2, QuietFiles
<1>4. Statuses[p] = "idle"
  BY <1>0, StatusMove DEF Start, StatusOf
<1>5. c.output \in Paths
  BY CommandsAssumption DEF Command
<1>6. CASE Goto(p, "failed")
  <2>1. Statuses' = [Statuses EXCEPT ![p] = "failed"]
    BY <1>0, <1>6, StatusMove DEF StatusOf, Labels, Terminal
  <2> QED BY <1>1, <1>2, <1>3, <1>4, <2>1
          DEF Abstract!Begin, Abstract!Become, File, Recover, Statuses
<1>7. CASE /\ Goto(p, "read") \/ Goto(p, "password")
           /\ c.op \notin Writers \/ ~Unavailable(c)
  <2>1. Statuses' = [Statuses EXCEPT ![p] = "running"]
    BY <1>0, <1>7, StatusMove DEF StatusOf, Labels, Terminal
  <2>2. c.force \/ c.op \notin Writers \/ File[c.output] = None
    BY <1>0, <1>5, <1>7 DEF Unavailable, Exists, Views, View
  <2> QED BY <1>1, <1>2, <1>3, <1>4, <2>1, <2>2
          DEF Abstract!Begin, Abstract!Become, Abstract!Writers, Writers,
              File, Recover, Statuses
<1> QED BY <1>1, <1>6, <1>7

\* fs::read and the transformation take one version of the input.
LEMMA RefineReadInput ==
  ASSUME HInv, [Next]_vars, NEW p \in Procs, ReadInput(p)
  PROVE  Abstract!Snapshot(p) \/ Abstract!Fail(p) \/ UNCHANGED Abstract!vars
<1>0. IInv /\ TypeOK /\ Views /\ Fresh
  BY FilesView DEF HInv, IInv
<1>1. Quiet /\ UNCHANGED <<dirDisk, cmd>> /\ pc[p] = "read"
  BY DEF ReadInput, Quiet, fsVars, histVars
<1>2. CASE Goto(p, "failed") /\ UNCHANGED got
  BY <1>1, <1>2, StutterOrFail DEF StatusOf, Labels, Terminal
<1>3. CASE /\ Exists(cmd[p].input)
           /\ Accepts(cmd[p], Read(dir[cmd[p].input]))
           /\ got' = [got EXCEPT ![p] = Read(dir[cmd[p].input])]
           /\ Goto(p, "check")
  <2>1. File' = File /\ Recover' = Recover
    BY <1>0, <1>1, QuietFiles
  <2>2. Statuses[p] = "running" /\ Statuses' = [Statuses EXCEPT ![p] = "running"]
    BY <1>0, <1>1, <1>3, StatusMove DEF StatusOf, Labels, Terminal
  <2>3. Statuses' = Statuses
    BY <2>2 DEF Statuses
  <2>4. cmd[p].input \in Paths /\ got[p] = None
    BY <1>0, <1>1, CommandPaths DEF IInv, Fresh
  <2>5. File[cmd[p].input] = Read(dir[cmd[p].input])
    BY <1>3, <2>4 DEF File, FilesIn, Exists
  <2>6. Read(dir[cmd[p].input]) # None
    BY <1>0, <1>3, <2>4, ReadPath, NamesAssumption DEF IInv
  <2>7. Abstract!Accepts(cmd[p], Read(dir[cmd[p].input]))
    BY <1>3 DEF Accepts, Abstract!Accepts, Versions, Abstract!Versions, Sealed,
                Abstract!Sealed
  <2> QED BY <1>1, <1>3, <2>1, <2>2, <2>3, <2>4, <2>5, <2>6, <2>7
          DEF Abstract!Snapshot, File, Recover, Statuses
<1> QED BY <1>2, <1>3 DEF ReadInput

\* info, self-test and bench end without a file.
LEMMA RefineReport ==
  ASSUME HInv, [Next]_vars, NEW p \in Procs, Report(p)
  PROVE  Abstract!Report(p) \/ Abstract!Fail(p) \/ UNCHANGED Abstract!vars
<1>0. IInv /\ TypeOK
  BY DEF HInv, IInv
<1>1. /\ Quiet /\ UNCHANGED <<dirDisk, cmd, got>>
      /\ pc[p] = "read" /\ cmd[p].op \notin Writers
  BY DEF Report, Quiet, fsVars, histVars
<1>2. CASE Goto(p, "failed")
  BY <1>1, <1>2, StutterOrFail DEF StatusOf, Labels, Terminal
<1>3. CASE Goto(p, "ok")
  <2>1. File' = File /\ Recover' = Recover
    BY <1>0, <1>1, QuietFiles
  <2>2. Statuses[p] = "running" /\ Statuses' = [Statuses EXCEPT ![p] = "ok"]
    BY <1>0, <1>1, <1>3, StatusMove DEF StatusOf, Labels, Terminal
  <2> QED BY <1>1, <2>1, <2>2
          DEF Abstract!Report, Abstract!Become, Abstract!Writers, Writers,
              File, Recover, Statuses
<1> QED BY <1>2, <1>3 DEF Report

\* The rename is the instant of the replacement.
LEMMA RefineRename ==
  ASSUME HInv, [Next]_vars, NEW p \in Procs, Renames(p)
  PROVE  Abstract!Publish(p)
<1>0. IInv /\ TypeOK
  BY DEF HInv, IInv
<1>1. /\ pc[p] = "rename" /\ UNCHANGED <<cmd, got>>
      /\ Goto(p, "dirsync")
  <2>1. /\ pc[p] = "rename" /\ pc'[p] = "dirsync" /\ UNCHANGED <<cmd, got>>
        /\ \A q \in Procs \ {p} : pc'[q] = pc[q]
    BY DEF Renames
  <2>2. pc' \in [Procs -> Labels] /\ pc \in [Procs -> Labels]
    BY <1>0, TypeStep DEF TypeOK
  <2> QED BY <2>1, <2>2 DEF Goto
<1>2. /\ File' = [File EXCEPT ![cmd[p].output] = Result(cmd[p], got[p])]
      /\ Recover' = Recover \cup {File'}
  BY <1>0, RenameFiles
<1>3. Statuses[p] = "running" /\ Statuses' = [Statuses EXCEPT ![p] = "published"]
  BY <1>0, <1>1, StatusMove DEF StatusOf, Labels, Terminal
<1>4. got[p] # None
  BY <1>0, <1>1, NamesAssumption DEF IInv, Prepared
<1>5. Abstract!Result(cmd[p], got[p]) = Result(cmd[p], got[p])
  BY DEF Result, Abstract!Result
<1> QED BY <1>1, <1>2, <1>3, <1>4, <1>5
        DEF Abstract!Publish, Abstract!Become, File, Recover, Statuses

\* The sync of the directory, or the error it ignores, confirms it.
LEMMA RefineSync ==
  ASSUME HInv, [Next]_vars, NEW p \in Procs, SyncParent(p)
  PROVE  Abstract!Confirm(p)
<1>0. IInv /\ TypeOK /\ DirInDisk
  BY DEF HInv, IInv
<1>1. /\ Quiet /\ UNCHANGED <<cmd, got>> /\ pc[p] = "dirsync" /\ Goto(p, "ok")
      /\ dirDisk' = {dir} \/ dirDisk' = dirDisk
  BY <1>0 DEF SyncParent, SyncDirectory, Move, Quiet, fsVars, DirInDisk
<1>2. File' = File /\ (Recover' = {File} \/ Recover' = Recover)
  BY <1>0, <1>1, QuietFiles
<1>3. Statuses[p] = "published" /\ Statuses' = [Statuses EXCEPT ![p] = "ok"]
  BY <1>0, <1>1, StatusMove DEF StatusOf, Labels, Terminal
<1> QED BY <1>1, <1>2, <1>3
        DEF Abstract!Confirm, Abstract!Become, File, Recover, Statuses

\* A kill is a kill, before and after the rename.
LEMMA RefineKill ==
  ASSUME HInv, [Next]_vars, NEW p \in Procs, Kill(p)
  PROVE  Abstract!Kill(p)
<1>0. IInv /\ TypeOK
  BY DEF HInv, IInv
<1>1. /\ Quiet /\ UNCHANGED <<dirDisk, cmd, got>>
      /\ pc[p] \notin Terminal \cup {"idle"} /\ Goto(p, "killed")
  BY DEF Kill, Quiet, fsVars, histVars
<1>2. File' = File /\ Recover' = Recover
  BY <1>0, <1>1, QuietFiles
<1>3. /\ Statuses[p] \in {"running", "published"}
      /\ Statuses' = [Statuses EXCEPT ![p] = "killed"]
  BY <1>0, <1>1, StatusMove DEF StatusOf, Labels, Terminal
<1> QED BY <1>1, <1>2, <1>3
        DEF Abstract!Kill, Abstract!Become, File, Recover, Statuses

\* A loss of power restores a version the disk may hold.
LEMMA RefineLoss ==
  ASSUME HInv, [Next]_vars, PowerLoss
  PROVE  Abstract!PowerLoss
<1>0. IInv /\ TypeOK
  BY DEF HInv, IInv
<1>1. File' \in Recover /\ Recover' = {File'}
  BY <1>0, LossFiles
<1>2. /\ pc' = [q \in Procs |->
                  IF pc[q] \in Terminal \cup {"idle"} THEN pc[q] ELSE "killed"]
      /\ UNCHANGED <<cmd, got>>
  BY DEF PowerLoss
<1>3. pc \in [Procs -> Labels]
  BY <1>0 DEF TypeOK
<1>4. \A q \in Procs : Status(q)' = IF Status(q) \in {"running", "published"}
                                   THEN "killed" ELSE Status(q)
  BY <1>2, <1>3 DEF Status, Labels, Terminal
<1>5. Statuses' = [q \in Procs |-> IF Statuses[q] \in {"running", "published"}
                                   THEN "killed" ELSE Statuses[q]]
  BY <1>4 DEF Statuses
<1> QED BY <1>1, <1>2, <1>5 DEF Abstract!PowerLoss, File, Recover, Statuses

\* Every step of the tool is one step of AtomicFile, or nothing a user sees.
LEMMA RefinementStep == HInv /\ [Next]_vars => [Abstract!Next]_(Abstract!vars)
<1> SUFFICES ASSUME HInv, [Next]_vars
             PROVE  Abstract!Next \/ UNCHANGED Abstract!vars
  OBVIOUS
<1>0. IInv /\ TypeOK /\ OwnsTemp /\ DirInDisk
  BY DEF HInv, IInv
<1> DEFINE Fails(p) == Abstract!Fail(p) \/ UNCHANGED Abstract!vars
<1>1. ASSUME NEW p \in Procs, Start(p) PROVE Abstract!Begin(p)
  BY <1>1, RefineStart
<1>2. ASSUME NEW p \in Procs, Password(p) PROVE Fails(p)
  <2>1. /\ Quiet /\ UNCHANGED <<dirDisk, cmd, got>> /\ pc[p] = "password"
        /\ Goto(p, "read") \/ Goto(p, "failed")
    BY <1>2 DEF Password, Quiet, fsVars, histVars
  <2> QED BY <2>1, StutterOrFail DEF StatusOf, Labels, Terminal
<1>3. ASSUME NEW p \in Procs, ReadInput(p)
      PROVE  Abstract!Snapshot(p) \/ Fails(p)
  BY <1>3, RefineReadInput
<1>4. ASSUME NEW p \in Procs, Report(p) PROVE Abstract!Report(p) \/ Fails(p)
  BY <1>4, RefineReport
<1>5. ASSUME NEW p \in Procs, Recheck(p) PROVE Fails(p)
  <2>1. /\ Quiet /\ UNCHANGED <<dirDisk, cmd, got>> /\ pc[p] = "check"
        /\ Goto(p, "draw") \/ Goto(p, "failed")
    BY <1>5 DEF Recheck, Quiet, fsVars
  <2> QED BY <2>1, StutterOrFail DEF StatusOf, Labels, Terminal
<1>6. ASSUME NEW p \in Procs, Draw(p) PROVE Fails(p)
  <2>1. /\ Quiet /\ UNCHANGED <<dirDisk, cmd, got>> /\ pc[p] = "draw"
        /\ Goto(p, "create")
    BY <1>6 DEF Draw, DrawSuffix, Move, Quiet, fsVars, histVars
  <2> QED BY <2>1, StutterOrFail DEF StatusOf, Labels, Terminal
<1>7. ASSUME NEW p \in Procs, CreateTemp(p) PROVE Fails(p)
  <2>1. /\ UNCHANGED <<cmd, got>> /\ pc[p] = "create"
        /\ Goto(p, "write") \/ Goto(p, "draw") \/ Goto(p, "failed")
        /\ dirDisk \subseteq dirDisk'
    BY <1>7 DEF CreateTemp, CreateNew, SetDir, fsVars
  <2> QED BY <1>0, <1>7, <2>1, TempIsQuiet, StutterOrFail
          DEF StatusOf, Labels, Terminal
<1>8. ASSUME NEW p \in Procs, WriteTemp(p) PROVE Fails(p)
  <2>1. /\ Quiet /\ UNCHANGED <<dirDisk, cmd, got>> /\ pc[p] = "write"
        /\ Goto(p, "sync") \/ Goto(p, "write") \/ Goto(p, "cleanup")
    BY <1>8 DEF WriteTemp, WriteChunk, Quiet, fsVars, histVars
  <2> QED BY <2>1, StutterOrFail DEF StatusOf, Labels, Terminal
<1>9. ASSUME NEW p \in Procs, SyncTemp(p) PROVE Fails(p)
  <2>1. /\ Quiet /\ UNCHANGED <<dirDisk, cmd, got>> /\ pc[p] = "sync"
        /\ Goto(p, "rename") \/ Goto(p, "cleanup")
    BY <1>9 DEF SyncTemp, SyncFile, Quiet, fsVars, histVars
  <2> QED BY <2>1, StutterOrFail DEF StatusOf, Labels, Terminal
<1>10. ASSUME NEW p \in Procs, RenameTemp(p)
       PROVE  Abstract!Publish(p) \/ Fails(p)
  <2>1. CASE Renames(p)
    BY <2>1, RefineRename
  <2>2. CASE Quiet /\ UNCHANGED <<dir, dirDisk>> /\ pc'[p] = "cleanup"
    <3>1. /\ UNCHANGED <<cmd, got>> /\ pc[p] = "rename" /\ Goto(p, "cleanup")
      BY <1>0, <1>10, <2>2 DEF RenameTemp, Goto, TypeOK
    <3> QED BY <2>2, <3>1, StutterOrFail DEF StatusOf, Labels, Terminal
  <2> QED BY <1>0, <1>10, <2>1, <2>2, RenameSteps
<1>11. ASSUME NEW p \in Procs, SyncParent(p) PROVE Abstract!Confirm(p)
  BY <1>11, RefineSync
<1>12. ASSUME NEW p \in Procs, Cleanup(p) PROVE Fails(p)
  <2>1. /\ UNCHANGED <<cmd, got>> /\ pc[p] = "cleanup" /\ Goto(p, "failed")
        /\ dirDisk \subseteq dirDisk'
    BY <1>12 DEF Cleanup, Move, Unlink, SetDir, fsVars
  <2> QED BY <1>0, <1>12, <2>1, TempIsQuiet, StutterOrFail
          DEF StatusOf, Labels, Terminal
<1>13. ASSUME NEW p \in Procs, Kill(p) PROVE Abstract!Kill(p)
  BY <1>13, RefineKill
<1>14. ASSUME PowerLoss PROVE Abstract!PowerLoss
  BY <1>14, RefineLoss
<1>15. ASSUME UNCHANGED vars PROVE UNCHANGED Abstract!vars
  BY <1>15 DEF vars, fsVars, procVars, Abstract!vars, FilesIn, Read, Whole,
               Durable, Status
<1> QED BY <1>1, <1>2, <1>3, <1>4, <1>5, <1>6, <1>7, <1>8, <1>9, <1>10, <1>11,
           <1>12, <1>13, <1>14, <1>15 DEF Next, Step, Abstract!Next

\* The tool implements AtomicFile: whatever runs beside a command and wherever
\* it is stopped, its file is read once and replaced once, or not at all.
THEOREM Refinement == Spec => ImplementsAtomicFile
BY RefinementInit, RefinementStep, HistoryInvariant, PTL
   DEF Spec, ImplementsAtomicFile, Abstract!Spec
=============================================================================
