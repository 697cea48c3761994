-------------------------------- MODULE Shell --------------------------------
(***************************************************************************)
(* The shell, user/program/sh.c: the parser, and the processes, pipes and  *)
(* descriptors with which runcmd() runs what it has parsed.                *)
(*                                                                         *)
(* A line is a sequence of the tokens gettoken() finds ("a" is a word, and *)
(* ">>" is left out: it differs from ">" in the mode of open()).  A word   *)
(* of a command is its place in the line.                                  *)
(***************************************************************************)
EXTENDS Integers, Sequences, FiniteSets, SequencesExt

CONSTANTS
  MAXARGS,
  NOFILE,    \* descriptors of a process
  MAXTOKENS, \* bound: tokens of lines that are only parsed
  Lines,     \* lines that are run
  NULL

VARIABLES
  line,
  proc,      \* the processes of the shell by pid: the shell itself is 1
  failed     \* a fork has failed

vars == <<line, proc, failed>>

Symbols == {"<", ">", "|", "&", ";", "(", ")"}

-----------------------------------------------------------------------------
(* The parser.  A result is a command and the place after it, 0 after panic(). *)

Fail == [cmd |-> NULL, at |-> 0]

peek(i, toks) == i \in 1 .. Len(line) /\ line[i] \in toks

RECURSIVE parseline(_), parsepipe(_), parseredirs(_), parseargs(_, _, _), backs(_)

\* Redirections are wrapped around the command, the last one outermost.
redircmd(c, redirs) == FoldLeft(LAMBDA d, i : <<"REDIR", line[i], i + 1, d>>, c, redirs)

\* The places of the redirections from i on, and the place after them.
parseredirs(i) ==
  IF ~ peek(i, {"<", ">"}) THEN [redirs |-> <<>>, at |-> i]
  ELSE IF ~ peek(i + 1, {"a"}) THEN [redirs |-> <<>>, at |-> 0]
  ELSE LET r == parseredirs(i + 2) IN [r EXCEPT !.redirs = <<i>> \o @]

parseargs(i, argv, redirs) ==
  IF i = 0 THEN Fail
  ELSE IF i > Len(line) \/ peek(i, {"|", ")", "&", ";"})
       THEN [cmd |-> redircmd(<<"EXEC", argv>>, redirs), at |-> i]
  ELSE IF ~ peek(i, {"a"}) \/ Len(argv) + 1 >= MAXARGS THEN Fail
  ELSE LET r == parseredirs(i + 1) IN parseargs(r.at, Append(argv, i), redirs \o r.redirs)

parseblock(i) ==
  LET c == parseline(i + 1)
      r == parseredirs(c.at + 1)
  IN  IF c.at = 0 \/ ~ peek(c.at, {")"}) \/ r.at = 0 THEN Fail
      ELSE [cmd |-> redircmd(c.cmd, r.redirs), at |-> r.at]

parseexec(i) == IF peek(i, {"("}) THEN parseblock(i)
                ELSE LET r == parseredirs(i) IN parseargs(r.at, <<>>, r.redirs)

\* Mutant: what follows a "|" is a whole line.
BugPipe(i) ==
  LET l == parseexec(i)
      r == parseline(l.at + 1)
  IN  IF l.at = 0 \/ ~ peek(l.at, {"|"}) THEN l
      ELSE IF r.at = 0 THEN Fail ELSE [r EXCEPT !.cmd = <<"PIPE", l.cmd, r.cmd>>]

parsepipe(i) ==
  LET l == parseexec(i)
      r == parsepipe(l.at + 1)
  IN  IF l.at = 0 \/ ~ peek(l.at, {"|"}) THEN l
      ELSE IF r.at = 0 THEN Fail ELSE [r EXCEPT !.cmd = <<"PIPE", l.cmd, r.cmd>>]

backs(c) == IF peek(c.at, {"&"}) THEN backs([cmd |-> <<"BACK", c.cmd>>, at |-> c.at + 1]) ELSE c

parseline(i) ==
  LET l == backs(parsepipe(i))
      r == parseline(l.at + 1)
  IN  IF l.at = 0 \/ ~ peek(l.at, {";"}) THEN l
      ELSE IF r.at = 0 THEN Fail ELSE [r EXCEPT !.cmd = <<"LIST", l.cmd, r.cmd>>]

\* NULL stands for a panic, the one for leftovers included.
parsecmd == LET c == parseline(1) IN IF c.at = Len(line) + 1 THEN c.cmd ELSE NULL

-----------------------------------------------------------------------------
(* Processes.                                                              *)

Fd == 0 .. NOFILE - 1
Pid == DOMAIN proc
console == [f \in Fd |-> IF f <= 2 THEN <<"console", 0>> ELSE NULL]

\* main() has opened the console three times.
Init ==
  /\ line = <<>>
  /\ proc = <<[at |-> "gets", cmd |-> NULL, fd |-> console, want |-> console, bg |-> FALSE,
               parent |-> 0, waits |-> 0, p |-> NULL]>>
  /\ failed = FALSE

lowest(fd) == CHOOSE f \in Fd : fd[f] = NULL /\ \A g \in Fd : g < f => fd[g] # NULL
close(fd, f) == [fd EXCEPT ![f] = NULL]
open(fd, x) == [fd EXCEPT ![lowest(fd)] = x]

\* getcmd(): the line grows; every line up to a size, and the beginnings of the others.
getcmd(t) ==
  /\ proc[1].at = "gets"
  /\ LET l == Append(line, t) IN
     /\ Len(l) <= MAXTOKENS \/ \E s \in Lines : IsPrefix(l, s)
     /\ line' = l
  /\ UNCHANGED <<proc, failed>>

\* Process p goes on as q, with the new processes children.
continue(p, q, children) == proc' = [proc EXCEPT ![p] = q] \o children

\* exit(): children go to init, and the parent, if it is the shell's, can wait().
dead(p) ==
  proc' = [q \in Pid |->
             IF q = p THEN [proc[p] EXCEPT !.at = IF proc[p].parent = 0 THEN "gone" ELSE "zombie",
                                           !.fd = [f \in Fd |-> NULL]]
             ELSE IF proc[q].parent = p
             THEN [proc[q] EXCEPT !.parent = 0, !.at = IF @ = "zombie" THEN "gone" ELSE @]
             ELSE proc[q]]

child(p, at, c) == [proc[p] EXCEPT !.at = at, !.cmd = c, !.parent = p, !.waits = 0]

\* panic(): fork1() finds no process or pipe() no pipe, and the caller exits, the shell too.
fork1_fails(p) ==
  /\ \/ proc[p].at = "runcmd" /\ proc[p].cmd[1] \in {"LIST", "PIPE", "BACK"}
     \/ proc[p].at \in {"gets", "right"}
  /\ dead(p)
  /\ failed' = TRUE
  /\ UNCHANGED line

\* main(): runcmd(parsecmd(buf)) in a child.
main ==
  /\ proc[1].at = "gets"
  /\ LET c == child(1, IF parsecmd = NULL THEN "exit" ELSE "runcmd", parsecmd) IN
     continue(1, [proc[1] EXCEPT !.at = "wait", !.waits = 1], <<c>>)
  /\ UNCHANGED <<line, failed>>

run_exec(p) ==
  /\ proc[p].at = "runcmd" /\ proc[p].cmd[1] = "EXEC"
  /\ continue(p, [proc[p] EXCEPT !.at = IF proc[p].cmd[2] = <<>> THEN "exit" ELSE "exec"], <<>>)
  /\ UNCHANGED <<line, failed>>

\* Mutant: the descriptor is not closed before the file is opened.
BugRedir(p) ==
  /\ proc[p].at = "runcmd" /\ proc[p].cmd[1] = "REDIR"
  /\ LET c == proc[p].cmd
         f == IF c[2] = "<" THEN 0 ELSE 1
         x == <<"file", c[3]>>
     IN  continue(p, [proc[p] EXCEPT !.cmd = c[4], !.fd = open(@, x), !.want[f] = x], <<>>)
  /\ UNCHANGED <<line, failed>>

run_redir(p) ==
  /\ proc[p].at = "runcmd" /\ proc[p].cmd[1] = "REDIR"
  /\ LET c == proc[p].cmd
         f == IF c[2] = "<" THEN 0 ELSE 1
         x == <<"file", c[3]>>
     IN  \/ continue(p, [proc[p] EXCEPT !.cmd = c[4], !.fd = open(close(@, f), x), !.want[f] = x], <<>>)
         \/ continue(p, [proc[p] EXCEPT !.at = "exit"], <<>>)  \* open() fails
  /\ UNCHANGED <<line, failed>>

run_list(p) ==
  /\ proc[p].at = "runcmd" /\ proc[p].cmd[1] = "LIST"
  /\ LET c == proc[p].cmd IN
     continue(p, [proc[p] EXCEPT !.at = "wait", !.waits = 1], <<child(p, "runcmd", c[2])>>)
  /\ UNCHANGED <<line, failed>>

\* pipe(), whose ends are the two lowest descriptors, and the first fork1().
run_pipe(p) ==
  /\ proc[p].at = "runcmd" /\ proc[p].cmd[1] = "PIPE"
  /\ LET fd == proc[p].fd
         r  == lowest(fd)
         w  == lowest(open(fd, <<"r", p>>))
         q  == [proc[p] EXCEPT !.fd = open(open(fd, <<"r", p>>), <<"w", p>>), !.p = <<r, w>>]
         l  == [q EXCEPT !.at = "left", !.cmd = @[2], !.parent = p, !.waits = 0]
     IN  continue(p, [q EXCEPT !.at = "right"], <<l>>)
  /\ UNCHANGED <<line, failed>>

\* Mutant: the parent keeps the end of the pipe that is written to.
BugRight(p) ==
  /\ proc[p].at = "right"
  /\ LET q == proc[p] IN
     continue(p, [q EXCEPT !.at = "wait", !.waits = 2, !.fd = close(@, q.p[1])],
              <<child(p, "plumb", q.cmd[3])>>)
  /\ UNCHANGED <<line, failed>>

\* Mutant: one wait() for the two sides of the pipe.
BugWait(p) ==
  /\ proc[p].at = "right"
  /\ LET q == proc[p] IN
     continue(p, [q EXCEPT !.at = "wait", !.waits = 1, !.fd = close(close(@, q.p[1]), q.p[2])],
              <<child(p, "plumb", q.cmd[3])>>)
  /\ UNCHANGED <<line, failed>>

\* The second fork1(), and the parent closes both ends.
run_right(p) ==
  /\ proc[p].at = "right"
  /\ LET q == proc[p] IN
     continue(p, [q EXCEPT !.at = "wait", !.waits = 2, !.fd = close(close(@, q.p[1]), q.p[2])],
              <<child(p, "plumb", q.cmd[3])>>)
  /\ UNCHANGED <<line, failed>>

\* The children of a pipe: close(), dup() to the lowest descriptor, close the ends.
plumb(p) ==
  /\ proc[p].at \in {"left", "plumb"}
  /\ LET q == proc[p]
         f == IF q.at = "left" THEN 1 ELSE 0
         x == q.fd[q.p[IF q.at = "left" THEN 2 ELSE 1]]
     IN  continue(p, [q EXCEPT !.at = "runcmd", !.want[f] = x,
                               !.fd = close(close(open(close(@, f), x), q.p[1]), q.p[2])], <<>>)
  /\ UNCHANGED <<line, failed>>

\* The parent does not wait; bg marks what runs in the background.
run_back(p) ==
  /\ proc[p].at = "runcmd" /\ proc[p].cmd[1] = "BACK"
  /\ continue(p, [proc[p] EXCEPT !.at = "exit"],
              <<[child(p, "runcmd", proc[p].cmd[2]) EXCEPT !.bg = TRUE]>>)
  /\ UNCHANGED <<line, failed>>

Writers(x) == {q \in Pid : \E f \in Fd : proc[q].fd[f] = <<"w", x[2]>>}

\* A program ends, one that reads a pipe at the end of what is written.
exit(p) ==
  /\ \/ proc[p].at = "exit"
     \/ /\ proc[p].at = "exec"
        /\ LET x == proc[p].fd[0] IN x[1] = "r" => Writers(x) = {}
  /\ dead(p)
  /\ UNCHANGED <<line, failed>>

\* wait(0); then the right command of a list, the end of a pipe, or the next prompt.
wait(p) ==
  /\ proc[p].at = "wait"
  /\ LET kids == {q \in Pid : proc[q].parent = p /\ proc[q].at # "gone"}
         c == proc[p].cmd
         then == IF proc[p].waits > 1 THEN [proc[p] EXCEPT !.waits = @ - 1]
                 ELSE IF p = 1 THEN [proc[p] EXCEPT !.waits = 0, !.at = "prompt"]
                 ELSE IF c[1] = "PIPE" THEN [proc[p] EXCEPT !.waits = 0, !.at = "exit"]
                 ELSE [proc[p] EXCEPT !.waits = 0, !.at = "runcmd", !.cmd = c[3]]
     IN  \/ \E q \in kids : /\ proc[q].at = "zombie"
                            /\ proc' = [proc EXCEPT ![p] = then, ![q].at = "gone"]
         \/ kids = {} /\ proc' = [proc EXCEPT ![p] = then]
  /\ UNCHANGED <<line, failed>>

Step ==
  \E p \in Pid :
    \/ run_exec(p) \/ run_redir(p) \/ run_list(p) \/ run_pipe(p) \/ run_right(p) \/ plumb(p)
    \/ run_back(p) \/ exit(p) \/ wait(p)

Next == main \/ Step \/ (\E p \in Pid : fork1_fails(p)) \/ \E t \in Symbols \cup {"a"} : getcmd(t)

Spec == Init /\ [][Next]_vars

-----------------------------------------------------------------------------
(* Properties.                                                             *)

\* The grammar as splitting of lines: at the first ";" outside parentheses, then at "&" in
\* the end, then at the first "|"; what remains are words, redirections and blocks.
Top(i, j, t) ==
  {k \in i .. j : /\ line[k] = t
                  /\ LET Count(x) == Cardinality({m \in i .. k : line[m] = x})
                     IN  Count("(") = Count(")")}
First(S) == CHOOSE k \in S : \A m \in S : k <= m
Sorted(S) == SetToSortSeq(S, <)

RECURSIVE Line(_, _), Back(_, _), Pipe(_, _), Exec(_, _)

Both(type, l, r) == IF l = NULL \/ r = NULL THEN NULL ELSE <<type, l, r>>
Line(i, j) ==
  LET S == Top(i, j, ";")
  IN  IF S = {} THEN Back(i, j) ELSE Both("LIST", Back(i, First(S) - 1), Line(First(S) + 1, j))
Back(i, j) ==
  IF ~ (i <= j /\ line[j] = "&") THEN Pipe(i, j)
  ELSE LET c == Back(i, j - 1) IN IF c = NULL THEN NULL ELSE <<"BACK", c>>
Pipe(i, j) ==
  LET S == Top(i, j, "|")
  IN  IF S = {} THEN Exec(i, j) ELSE Both("PIPE", Exec(i, First(S) - 1), Pipe(First(S) + 1, j))
Exec(i, j) ==
  LET block == i <= j /\ line[i] = "("
      S     == Top(i, j, ")")
      k     == IF ~ block THEN i ELSE IF S = {} THEN j + 1 ELSE First(S) + 1
      ops   == {m \in k .. j : line[m] \in {"<", ">"}}
      words == {m \in k .. j : line[m] = "a" /\ m - 1 \notin ops}
      c     == IF block THEN Line(i + 1, k - 2) ELSE <<"EXEC", Sorted(words)>>
      valid == /\ block => S # {} /\ words = {}
               /\ \A m \in k .. j : line[m] \in {"a", "<", ">"}
               /\ \A m \in ops : m < j /\ line[m + 1] = "a"
               /\ Cardinality(words) < MAXARGS
  IN  IF ~ valid \/ c = NULL THEN NULL
      ELSE FoldLeft(LAMBDA d, m : <<"REDIR", line[m], m + 1, d>>, c, Sorted(ops))

\* parsecmd() finds the command that the grammar gives a line, and panics if there is none.
ParsesGrammar == proc[1].at = "gets" => parsecmd = Line(1, Len(line))

\* A program starts with the ends of pipes and the files that belong at its descriptors 0
\* and 1, and no other descriptor is left open in it or in a process that waits.
DescriptorsPlumbed == \A p \in Pid : proc[p].at \in {"exec", "wait"} => proc[p].fd = proc[p].want

\* The shell prompts again when everything in the foreground has ended, unless a fork failed.
ForegroundDone ==
  proc[1].at = "prompt" /\ ~ failed => \A p \in Pid \ {1} : proc[p].at = "gone" \/ proc[p].bg

\* Nobody waits for ever: programs that read pipes see the end of their input.
NobodyStuck == (\A p \in Pid \ {1} : proc[p].at = "gone") \/ ENABLED Step
=============================================================================
