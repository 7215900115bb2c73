---------------------------- MODULE MCCliCommand ----------------------------
(* Values for the constants of CliCommand.                                 *)
EXTENDS CliCommand

CONSTANTS p1, p2, a, b

Cmd(op, input, output, force, bare, version) ==
  [op |-> op, input |-> input, output |-> output, force |-> force,
   bare |-> bare, version |-> version]

\* Two paths: a container at a, nothing at b.  Commands that meet on b with
\* and without --force, one that rewrites a in place, one that puts what is
\* at b over a, a bare output name, the commands that write nothing, and the
\* refusals (an unknown version, a migration to version 4).
MCCommands == {
  Cmd("encrypt", a, b, FALSE, FALSE, 5),
  Cmd("encrypt", a, b, TRUE,  TRUE,  4),
  Cmd("encrypt", a, b, FALSE, FALSE, 3),
  Cmd("decrypt", b, a, TRUE,  FALSE, 5),
  Cmd("migrate", a, a, TRUE,  FALSE, 5),
  Cmd("migrate", b, a, TRUE,  FALSE, 4),
  Cmd("info",    b, b, FALSE, FALSE, 5),
  Cmd("self-test", b, b, FALSE, FALSE, 5) }

MCInitial == [x \in {a, b} |->
                IF x = a THEN [plain |-> a, seals |-> <<4>>] ELSE None]
=============================================================================
