----------------------------- MODULE AtomicFile -----------------------------
(* What the command line tool promises of the files it is given: a command *)
(* reads one version of its input and replaces its output at one instant   *)
(* by the whole result, or leaves everything as it was.  After a loss of   *)
(* power every path holds one of the versions it had since the last        *)
(* command that synced.  No temporary files, no partial writes.            *)
EXTENDS CliBase

CONSTANT Initial        \* path -> the contents it starts with, or None

VARIABLES file,     \* path -> contents or None
          recover,  \* the files a loss of power may leave
          cmd,      \* process -> its command line
          got,      \* process -> the version of its input it works on
          status    \* process -> idle, running, published or how it ended

vars == <<file, recover, cmd, got, status>>

Ended == {"ok", "failed", "killed"}

Become(p, s) == status' = [status EXCEPT ![p] = s]

Init == /\ file = Initial
        /\ recover = {file}
        /\ cmd = [p \in Procs |-> None]
        /\ got = [p \in Procs |-> None]
        /\ status = [p \in Procs |-> "idle"]

\* A command that may not replace an existing output is refused at once.
Begin(p) ==
  /\ status[p] = "idle"
  /\ \E c \in Commands :
       /\ cmd' = [cmd EXCEPT ![p] = c]
       /\ \/ /\ c.force \/ c.op \notin Writers \/ file[c.output] = None
             /\ Become(p, "running")
          \/ Become(p, "failed")
  /\ UNCHANGED <<file, recover, got>>

Snapshot(p) ==
  /\ status[p] = "running" /\ got[p] = None
  /\ LET version == file[cmd[p].input]
     IN  /\ version # None /\ Accepts(cmd[p], version)
         /\ got' = [got EXCEPT ![p] = version]
  /\ UNCHANGED <<file, recover, cmd, status>>

Report(p) ==
  /\ status[p] = "running" /\ cmd[p].op \notin Writers
  /\ Become(p, "ok")
  /\ UNCHANGED <<file, recover, cmd, got>>

Publish(p) ==
  /\ status[p] = "running" /\ got[p] # None
  /\ file' = [file EXCEPT ![cmd[p].output] = Result(cmd[p], got[p])]
  /\ recover' = recover \cup {file'}
  /\ Become(p, "published")
  /\ UNCHANGED <<cmd, got>>

Confirm(p) ==
  /\ status[p] = "published"
  /\ recover' = {file} \/ UNCHANGED recover
  /\ Become(p, "ok")
  /\ UNCHANGED <<file, cmd, got>>

Fail(p) ==
  /\ status[p] = "running"
  /\ Become(p, "failed")
  /\ UNCHANGED <<file, recover, cmd, got>>

Kill(p) ==
  /\ status[p] \in {"running", "published"}
  /\ Become(p, "killed")
  /\ UNCHANGED <<file, recover, cmd, got>>

PowerLoss ==
  /\ file' \in recover
  /\ recover' = {file'}
  /\ status' = [p \in Procs |->
                 IF status[p] \in {"running", "published"}
                 THEN "killed" ELSE status[p]]
  /\ UNCHANGED <<cmd, got>>

Next == \/ \E p \in Procs : \/ Begin(p) \/ Snapshot(p) \/ Report(p)
                            \/ Publish(p) \/ Confirm(p) \/ Fail(p) \/ Kill(p)
        \/ PowerLoss

Spec == Init /\ [][Next]_vars
=============================================================================
