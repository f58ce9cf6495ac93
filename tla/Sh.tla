--------------------------------- MODULE Sh ---------------------------------
(***************************************************************************)
(* The shell (user/sh.c): the parser, a recursive descent over the tokens  *)
(* of a line, and runcmd() with the processes, descriptors and pipes it    *)
(* makes.  Of the kernel it uses, fork() copies descriptors, open(), dup() *)
(* and pipe() take the lowest free ones, read() on a pipe ends when nobody *)
(* has the write end open, and init adopts orphans (modules File, Pipe and *)
(* Proc).  init itself (user/init.c) starts the shell and reaps.  Every    *)
(* program reads its standard input to the end.                            *)
(***************************************************************************)
EXTENDS Integers, Sequences, FiniteSets

CONSTANTS NULL,
          Lines,            \* the lines typed, as sequences of tokens
          Words,            \* tokens that are words
          MAXARGS, NPROC, NOFILE

ASSUME ShAssumption == MAXARGS \in Nat \ {0} /\ NPROC >= 1 /\ NOFILE >= 5

Pids == 1 .. NPROC
Fds == 0 .. NOFILE - 1
init == 1

VARIABLES text, tree,       \* the line, and what parsecmd() makes of it
          k,                \* what a process has left to do; NULL for a free slot
          fd,               \* its descriptors
          parent, zombie,   \* as in struct proc
          path,             \* history: the part of the command it runs
          sh,               \* init's pid: the shell it started last
          eof,              \* the console is at its end
          failed            \* history: a fork failed

vars == <<text, tree, k, fd, parent, zombie, path, sh, eof, failed>>
-----------------------------------------------------------------------------
(* The parser: a result has the command, or what was collected, and the      *)
(* next position; Err stands for panic().                                    *)

Err == [ok |-> FALSE, cmd |-> <<>>, i |-> 0]
Ok(cmd, i) == [ok |-> TRUE, cmd |-> cmd, i |-> i]

\* gettoken() and peek(), white space and the ends of words left out.
Tok(s, i) == IF i <= Len(s) THEN s[i] ELSE "0"
Redirs == {"<", ">", ">>"}

RECURSIVE parseredirs(_, _, _), parseargs(_, _, _), parsepipe(_, _), parseline(_, _), Wrap(_, _)

\* parseredirs(), as the list of redirections read; each becomes the root of the
\* tree.
Wrap(cmd, rs) == IF rs = <<>> THEN cmd ELSE Wrap(<<"redir", cmd, Head(rs)>>, Tail(rs))
parseredirs(s, rs, i) ==
  IF Tok(s, i) \notin Redirs THEN Ok(rs, i)
  ELSE IF Tok(s, i + 1) \notin Words THEN Err
  ELSE parseredirs(s, Append(rs, <<s[i], s[i + 1]>>), i + 2)

\* The loop of parseexec(); a is [args, rs].
parseargs(s, a, i) ==
  LET r == parseredirs(s, a.rs, i)
  IN IF ~r.ok THEN Err
     ELSE IF Tok(s, r.i) \in {"|", ")", "&", ";", "0"} THEN Ok(Wrap(<<"exec", a.args>>, r.cmd), r.i)
     ELSE IF Tok(s, r.i) \notin Words \/ Len(a.args) + 1 >= MAXARGS THEN Err
     ELSE parseargs(s, [args |-> Append(a.args, s[r.i]), rs |-> r.cmd], r.i + 1)

\* parseblock(), with the line in the parentheses parsed and with the redirections
\* behind them.
Closed_bug(s, l) == l.ok
Closed(s, l) == l.ok /\ Tok(s, l.i) = ")"
Outside(l, r) == IF r.ok THEN Ok(Wrap(l.cmd, r.cmd), r.i) ELSE Err
parseblock(s, l) == IF Closed(s, l) THEN Outside(l, parseredirs(s, <<>>, l.i + 1)) ELSE Err

parseexec(s, i) == IF Tok(s, i) = "(" THEN parseblock(s, parseline(s, i + 1))
                                      ELSE parseargs(s, [args |-> <<>>, rs |-> <<>>], i)

Join(op, l, r) == IF r.ok THEN Ok(<<op, l.cmd, r.cmd>>, r.i) ELSE Err
PipeTail(s, l) == IF l.ok /\ Tok(s, l.i) = "|" THEN Join("pipe", l, parsepipe(s, l.i + 1)) ELSE l
parsepipe(s, i) == PipeTail(s, parseexec(s, i))

RECURSIVE Amps(_, _)
Amps(s, l) == IF l.ok /\ Tok(s, l.i) = "&" THEN Amps(s, Ok(<<"back", l.cmd>>, l.i + 1)) ELSE l
ListTail(s, l) == IF l.ok /\ Tok(s, l.i) = ";" THEN Join("list", l, parseline(s, l.i + 1)) ELSE l
parseline(s, i) == ListTail(s, Amps(s, parsepipe(s, i)))

\* parsecmd(): leftovers are an error.
parsecmd(s) == LET l == parseline(s, 1) IN IF l.ok /\ l.i = Len(s) + 1 THEN l ELSE Err
-----------------------------------------------------------------------------
(* The kernel as the shell sees it. *)

Live == {p \in Pids : k[p] # NULL}
Kids(p) == {q \in Live : parent[q] = p}
FreeFds(p) == {f \in Fds : fd[p][f] = NULL}
Lowest(F) == CHOOSE f \in F : \A g \in F : f <= g

At(p, f) == k[p] # NULL /\ ~zombie[p] /\ k[p] # <<>> /\ Head(k[p])[1] = f
Arg(p) == Head(k[p])[2]
Run(p, todo) == k' = [k EXCEPT ![p] = todo \o Tail(@)]

\* main() of the shell, for a line and the prompt after it.
main == << <<"console">>, <<"fork", << <<"parse">> >>, <<>> >>, <<"wait">>, <<"prompt">> >>

\* init has started its first shell when the line is read.
Init == /\ text \in Lines /\ tree = parsecmd(text)
        /\ k = [p \in Pids |-> IF p = init THEN << <<"fork", main, <<>> >>, <<"init_wait">> >> ELSE NULL]
        /\ fd = [p \in Pids |-> [f \in Fds |-> IF p = init /\ f < 3 THEN <<"console">> ELSE NULL]]
        /\ parent = [p \in Pids |-> NULL] /\ zombie = [p \in Pids |-> FALSE]
        /\ path = [p \in Pids |-> <<>>] /\ sh = NULL /\ eof = FALSE /\ failed = FALSE

close(p) == /\ At(p, "close") /\ fd' = [fd EXCEPT ![p][Arg(p)] = NULL] /\ Run(p, <<>>)
            /\ UNCHANGED <<text, tree, sh, eof, parent, zombie, path, failed>>

dup(p) == /\ At(p, "dup") /\ FreeFds(p) # {}
          /\ fd' = [fd EXCEPT ![p][Lowest(FreeFds(p))] = fd[p][Arg(p)]] /\ Run(p, <<>>)
          /\ UNCHANGED <<text, tree, sh, eof, parent, zombie, path, failed>>

open(p) == /\ At(p, "open")
           /\ \/ fd' = [fd EXCEPT ![p][Lowest(FreeFds(p))] = Arg(p)] /\ Run(p, <<>>)
              \/ k' = [k EXCEPT ![p] = << <<"exit">> >>] /\ UNCHANGED fd
           /\ UNCHANGED <<text, tree, sh, eof, parent, zombie, path, failed>>

\* fork1(): the child runs Arg, which is part side of the command.
fork(p) ==
  /\ At(p, "fork")
  /\ IF Live = Pids
       THEN k' = [k EXCEPT ![p] = << <<"exit">> >>] /\ failed' = TRUE /\ UNCHANGED <<fd, parent, zombie, path, sh>>
       ELSE LET q == Lowest(Pids \ Live)
            IN /\ k' = [k EXCEPT ![p] = Tail(@), ![q] = Arg(p)]
               /\ fd' = [fd EXCEPT ![q] = fd[p]]
               /\ parent' = [parent EXCEPT ![q] = p] /\ zombie' = [zombie EXCEPT ![q] = FALSE]
               /\ path' = [path EXCEPT ![q] = path[p] \o Head(k[p])[3]]
               /\ sh' = IF p = init THEN q ELSE sh
               /\ UNCHANGED failed
  /\ UNCHANGED <<text, tree, eof>>

wait(p) == /\ At(p, "wait")
           /\ \/ Kids(p) = {} /\ Run(p, <<>>)
              \/ \E q \in Kids(p) : zombie[q] /\ k' = [k EXCEPT ![p] = Tail(@), ![q] = NULL]
           /\ UNCHANGED <<text, tree, sh, eof, fd, parent, zombie, path, failed>>

\* exit(): init takes over the children.
exit(p) == /\ At(p, "exit")
           /\ fd' = [fd EXCEPT ![p] = [f \in Fds |-> NULL]]
           /\ parent' = [q \in Pids |-> IF parent[q] = p THEN init ELSE parent[q]]
           /\ zombie' = [zombie EXCEPT ![p] = TRUE]
           /\ UNCHANGED <<text, tree, sh, eof, k, path, failed>>

\* A program that exec() started, once its standard input is at its end.
Writers(o) == {p \in Live : ~zombie[p] /\ \E f \in Fds : fd[p][f] = <<"w", o>>}
AtEof(p) == LET o == fd[p][0] IN o[1] = "r" => Writers(o[2]) = {}
program(p) == /\ At(p, "program") /\ AtEof(p) /\ Run(p, << <<"exit">> >>)
              /\ UNCHANGED <<text, tree, sh, eof, fd, parent, zombie, path, failed>>
-----------------------------------------------------------------------------
(* runcmd(), main() and init *)

\* init reaps whatever exits, and starts the shell again when it was the shell.
init_wait(p) ==
  /\ At(p, "init_wait")
  /\ \E q \in Kids(p) : /\ zombie[q]
                         /\ k' = [k EXCEPT ![q] = NULL, ![p] = IF q = sh THEN << <<"fork", << <<"console">>, <<"prompt">> >>, <<>> >> >> \o @
                                                                         ELSE @]
  /\ UNCHANGED <<text, tree, sh, eof, fd, parent, zombie, path, failed>>

\* "Ensure that three file descriptors are open": one turn of the loop.
console(p) ==
  /\ At(p, "console")
  /\ \/ LET f == Lowest(FreeFds(p))
        IN fd' = [fd EXCEPT ![p][f] = <<"console">>] /\ Run(p, << <<IF f >= 3 THEN "close" ELSE "console", f>> >>)
     \/ Run(p, <<>>) /\ UNCHANGED fd
  /\ UNCHANGED <<text, tree, sh, eof, parent, zombie, path, failed>>

\* getcmd() finds the end of the file: the shell exits.
getcmd_eof(p) == /\ At(p, "prompt") /\ ~eof /\ eof' = TRUE /\ Run(p, << <<"exit">> >>)
                 /\ UNCHANGED <<text, tree, sh, fd, parent, zombie, path, failed>>

\* main()'s child: runcmd(parsecmd(buf)).
parse(p) == /\ At(p, "parse")
            /\ Run(p, IF tree.ok THEN << <<"runcmd", tree.cmd>> >> ELSE << <<"exit">> >>)
            /\ UNCHANGED <<text, tree, sh, eof, fd, parent, zombie, path, failed>>

Closes(f) == <<"close", f>>
LeftEnd(p0, p1) == << Closes(1), <<"dup", p1>>, Closes(p0), Closes(p1) >>
RightEnd_bug(p0, p1) == << Closes(0), <<"dup", p0>>, Closes(p0) >>
RightEnd(p0, p1) == << Closes(0), <<"dup", p0>>, Closes(p0), Closes(p1) >>

Parent_bug(p0, p1) == << <<"wait">>, <<"wait">> >>
Parent(p0, p1) == << Closes(p0), Closes(p1), <<"wait">>, <<"wait">> >>

\* What is left to do for a command; the path of the caller moves on in a
\* redirection and in the second part of a list.
Then_bug(c) == << <<"fork", << <<"runcmd", c[2]>> >>, <<"l">> >>, <<"right">>, <<"runcmd", c[3]>> >>
Then(c) == << <<"fork", << <<"runcmd", c[2]>> >>, <<"l">> >>, <<"wait">>, <<"right">>, <<"runcmd", c[3]>> >>

redir_fd(r) == IF r[1] = "<" THEN 0 ELSE 1
runcmd(p) ==
  /\ At(p, "runcmd")
  /\ LET c == Arg(p) IN
       CASE c[1] = "exec" -> IF c[2] = <<>> THEN Run(p, << <<"exit">> >>)
                             ELSE Run(p, << <<"program", c[2]>> >>) \/ Run(p, << <<"exit">> >>)
         [] c[1] = "redir" -> Run(p, << Closes(redir_fd(c[3])), <<"open", c[3]>>, <<"runcmd", c[2]>> >>)
         [] c[1] = "list" -> Run(p, Then(c))
         [] c[1] = "pipe" -> Run(p, << <<"pipe", c>> >>)
         [] c[1] = "back" -> Run(p, << <<"fork", << <<"runcmd", c[2]>> >>, <<"b">> >>, <<"exit">> >>)
  /\ UNCHANGED <<text, tree, sh, eof, fd, parent, zombie, path, failed>>

\* pipe(p), which may fail, and what follows it.
pipe(p) ==
  /\ At(p, "pipe")
  /\ LET c == Arg(p)
         p0 == Lowest(FreeFds(p))
         p1 == Lowest(FreeFds(p) \ {p0})
     IN \/ /\ Cardinality(FreeFds(p)) >= 2
           /\ fd' = [fd EXCEPT ![p][p0] = <<"r", path[p]>>, ![p][p1] = <<"w", path[p]>>]
           /\ Run(p, << <<"fork", LeftEnd(p0, p1) \o << <<"runcmd", c[2]>> >>, <<"l">> >>,
                        <<"fork", RightEnd(p0, p1) \o << <<"runcmd", c[3]>> >>, <<"r">> >> >>
                     \o Parent(p0, p1) \o << <<"exit">> >>)
        \/ k' = [k EXCEPT ![p] = << <<"exit">> >>] /\ UNCHANGED fd
  /\ UNCHANGED <<text, tree, sh, eof, parent, zombie, path, failed>>

right(p) == /\ At(p, "right") /\ path' = [path EXCEPT ![p] = Append(@, "r")] /\ Run(p, <<>>)
            /\ UNCHANGED <<text, tree, sh, eof, fd, parent, zombie, failed>>

Step(p) == \/ close(p) \/ dup(p) \/ open(p) \/ fork(p) \/ wait(p) \/ exit(p) \/ program(p)
           \/ parse(p) \/ runcmd(p) \/ pipe(p) \/ right(p) \/ init_wait(p) \/ console(p)
AtPrompt == sh # NULL /\ At(sh, "prompt")
Next == (\E p \in Pids \ {init} : Step(p) \/ getcmd_eof(p)) \/ Step(init)

Spec == Init /\ [][Next]_vars
-----------------------------------------------------------------------------
(* The grammar of command lines, as the set of trees of a sequence of tokens:
     line ::= pipe "&"* | pipe "&"* ";" line        pipe ::= exec | exec "|" pipe
     exec ::= "(" line ")" redir* | (redir | word)*                             *)
RECURSIVE LineTrees(_), PipeTrees(_), BackTrees(_)

From(s, i) == SubSeq(s, i, Len(s))
Before(s, i) == SubSeq(s, 1, i - 1)
Targets(s) == {i \in 2..Len(s) : s[i - 1] \in Redirs}
Select(s, I) == LET F[i \in 0..Len(s)] == IF i = 0 THEN <<>> ELSE IF i \in I THEN Append(F[i - 1], s[i]) ELSE F[i - 1]
                IN F[Len(s)]
RedirsOf(s) == LET at == {i \in DOMAIN s : s[i] \in Redirs}
                   F == Select(s, Targets(s))
                   K == Select(s, at)
               IN [j \in DOMAIN K |-> <<K[j], F[j]>>]
IsSimple(s) == /\ \A i \in DOMAIN s : s[i] \in Words \cup Redirs
               /\ \A i \in DOMAIN s : s[i] \in Redirs => i < Len(s) /\ s[i + 1] \in Words
ArgsOf(s) == Select(s, {i \in DOMAIN s : s[i] \in Words} \ Targets(s))

ExecTrees(s) ==
  (IF IsSimple(s) /\ Len(ArgsOf(s)) < MAXARGS THEN {Wrap(<<"exec", ArgsOf(s)>>, RedirsOf(s))} ELSE {})
  \cup (IF s = <<>> \/ s[1] # "(" THEN {}
        ELSE UNION {{Wrap(t, RedirsOf(From(s, i + 1))) : t \in LineTrees(SubSeq(s, 2, i - 1))} :
                      i \in {j \in 2..Len(s) : s[j] = ")" /\ IsSimple(From(s, j + 1)) /\ ArgsOf(From(s, j + 1)) = <<>>}})
Both(op, S, R) == {<<op, t, u>> : t \in S, u \in R}
At_(s, x) == {i \in DOMAIN s : s[i] = x}
PipeTrees(s) == ExecTrees(s) \cup UNION {Both("pipe", ExecTrees(Before(s, i)), PipeTrees(From(s, i + 1))) : i \in At_(s, "|")}
BackTrees(s) == PipeTrees(s) \cup (IF s # <<>> /\ s[Len(s)] = "&" THEN {<<"back", t>> : t \in BackTrees(Before(s, Len(s)))} ELSE {})
LineTrees(s) == BackTrees(s) \cup UNION {Both("list", BackTrees(Before(s, i)), LineTrees(From(s, i + 1))) : i \in At_(s, ";")}

\* parsecmd() accepts the lines of the grammar and no others, and gives each the one
\* tree it has.
ParsesGrammar ==
  Live = {init} =>
    LineTrees(text) = IF tree.ok THEN {tree.cmd} ELSE {}

\* What a program at path q should have as its input and output.
RECURSIVE Wired(_, _, _, _)
Wired(c, q, at, io) ==
  CASE c[1] = "exec" -> <<c[2], io>>
    [] c[1] = "redir" -> Wired(c[2], q, at, [io EXCEPT ![redir_fd(c[3])] = c[3]])
    [] c[1] \in {"list", "back"} -> Wired(IF Head(q) = "r" THEN c[3] ELSE c[2], Tail(q), Append(at, Head(q)), io)
    [] c[1] = "pipe" -> IF Head(q) = "l" THEN Wired(c[2], Tail(q), Append(at, "l"), [io EXCEPT ![1] = <<"w", at>>])
                                         ELSE Wired(c[3], Tail(q), Append(at, "r"), [io EXCEPT ![0] = <<"r", at>>])
Console3 == [f \in 0..2 |-> <<"console">>]

\* runcmd() starts each program with its arguments, with the standard input and output
\* that the redirections and pipes around it say, and with no other descriptor open.
FdsWired ==
  \A p \in Pids : At(p, "program") =>
    <<Arg(p), fd[p]>> = LET w == Wired(tree.cmd, path[p], <<>>, Console3)
                        IN <<w[1], [f \in Fds |-> IF f < 3 THEN w[2][f] ELSE NULL]>>

\* Unless a fork failed: when the shell prompts, and when the second part of a list
\* starts, all that ran before it has exited, except what "&" put in the background.
InForeground(p) == \A j \in DOMAIN path[p] : path[p][j] # "b"
Running(p) == p \in Live \ {init, sh} /\ ~zombie[p]
Under(p, q) == Len(path[p]) >= Len(q) /\ SubSeq(path[p], 1, Len(q)) = q
ForegroundDone ==
  ~failed => /\ AtPrompt => \A p \in Pids : Running(p) => ~InForeground(p)
             /\ \A p \in Pids : At(p, "right") =>
                  \A q \in Pids : Running(q) /\ q # p /\ Under(q, Append(path[p], "l")) =>
                    \E j \in Len(path[p]) + 1 .. Len(path[q]) : path[q][j] = "b"

\* Fairness: a process that can go on does.
Fairness == \A p \in Pids : WF_vars(Step(p))
FairSpec == Spec /\ Fairness

\* Every line comes to its end, background programs too, and the shell prompts: nobody
\* keeps the write end of a pipe that a program reads from, waits for a child that is
\* not there, or stays a zombie; unless init itself could not fork and exited, which is
\* panic("init exiting").
LineEnds == <>[](zombie[init] \/ (AtPrompt /\ Live = {init, sh}))
=============================================================================
