------------------------------ MODULE CliBase ------------------------------
(* The commands of the Rust command line tool, and what each makes of the  *)
(* contents of its input (crates/krcm-cli/src/main.rs).  The contents of a *)
(* file are the plaintext they stem from, named by the path that first     *)
(* held it, and the containers sealed around it, outermost first, each by  *)
(* its version.                                                            *)
EXTENDS Naturals, Sequences

CONSTANTS Procs,      \* invocations of the tool
          Paths,      \* names users give to inputs and outputs
          Commands,   \* the command lines invocations may have
          None        \* no command, no contents, no inode

Versions == {4, 5}

Contents == [plain : Paths \cup {None}, seals : Seq(Versions)]

\* A file some chunk of which is missing: no plaintext can be had from it.
Torn == [plain |-> None, seals |-> << >>]

Writers == {"encrypt", "decrypt", "migrate"}

\* self-test and bench work on data of their own: their other fields mean
\* nothing, nor do those of `info` but the input.
Command == [op      : Writers \cup {"info", "self-test", "bench"},
            input   : Paths,
            output  : Paths,
            force   : BOOLEAN,     \* --force
            bare    : BOOLEAN,     \* output named without a directory
            version : Nat]         \* --version or --to-version

ASSUME CommandsAssumption == Commands \subseteq Command /\ None \notin Commands

\* The magic decrypt_auto and `info` look for.
Sealed(v) == v.seals # << >>

\* What the library accepts, given the right password.
Accepts(c, v) == \/ c.op = "encrypt" /\ c.version \in Versions
                 \/ c.op \in {"decrypt", "migrate"} /\ Sealed(v)

\* `migrate` opens the outermost container and seals its contents as v5.
Result(c, v) ==
  [v EXCEPT !.seals = CASE c.op = "encrypt" -> <<c.version>> \o v.seals
                        [] c.op = "decrypt" -> Tail(v.seals)
                        [] c.op = "migrate" -> <<5>> \o Tail(v.seals)
                        [] OTHER -> v.seals]
=============================================================================
