---------------------------- MODULE MCPyCommand ----------------------------
(* Values for the constants of PyCommand.                                  *)
EXTENDS PyCommand, TLC

CONSTANTS p1, p2, a, b, c, bTmp, cTmp

Cmd(tool, input, output, force) ==
  [tool |-> tool, input |-> input, output |-> output, force |-> force]

\* Three paths, one of which has the name of another's temporary file.
MCTemp == [x \in {a, b, c} |-> CASE x = a -> c [] x = b -> bTmp [] x = c -> cTmp]

MCCommands == {
  Cmd("cli", b, a, FALSE), Cmd("cli", b, a, TRUE),
  Cmd("cli", c, b, TRUE),  Cmd("cli", b, c, TRUE),
  Cmd("library", b, b, TRUE) }

MCSymmetry == Permutations({p1, p2})
=============================================================================
