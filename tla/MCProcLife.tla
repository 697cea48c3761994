---------------------------- MODULE MCProcLife ----------------------------
(***************************************************************************)
(* Processes in the kernel (ProcLife.tla), and the program that starts     *)
(* them all (Shell.tla), on small instances.  A behaviour chooses one of   *)
(* them in its first state, and the other stays off.                       *)
(***************************************************************************)
EXTENDS ProcLife, Sequences

CONSTANTS MAXARGS, NOFILE, MAXTOKENS

ASSUME ShellConstants ==
  MAXARGS \in Nat \ {0} /\ NOFILE \in Nat /\ NOFILE >= 5 /\ MAXTOKENS \in Nat

VARIABLES
  line, proc, failed,
  focus  \* what runs

svars == <<line, proc, failed>>

\* Longer lines: pipelines, blocks, commands in the background, and redirections.
Lines == {<<"a", "|", "a", "|", "a">>,
          <<"(", "a", ";", "a", "&", ")", "|", "a">>,
          <<"a", "<", "a", "|", "a", ">", "a", ">", "a">>,
          <<"a", "&", ";", "a", "|", ";", "a">>,
          <<"(", "a", "|", "a", ")", "&">>}

Sh == INSTANCE Shell

ShellOff == line = 0 /\ proc = 0 /\ failed = FALSE

LifeInit ==
  /\ Init
  /\ focus \in {"life", "shell"}
  /\ IF focus = "shell" THEN Sh!Init ELSE ShellOff
LifeNext ==
  /\ \/ focus = "life" /\ Next /\ UNCHANGED svars
     \/ focus = "shell" /\ Sh!Next /\ UNCHANGED vars
  /\ UNCHANGED focus
LifeSpec == LifeInit /\ [][LifeNext]_<<vars, svars, focus>>

\* The shell runs what the grammar says: commands with their own descriptors, in the
\* foreground or in the background, and none of them waits for ever.
ShellRuns ==
  focus = "shell" =>
    Sh!ParsesGrammar /\ Sh!DescriptorsPlumbed /\ Sh!ForegroundDone /\ Sh!NobodyStuck
=============================================================================
