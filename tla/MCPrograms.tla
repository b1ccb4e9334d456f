----------------------------- MODULE MCPrograms -----------------------------
(***************************************************************************)
(* Programs on small instances.                                            *)
(***************************************************************************)
EXTENDS Programs, TLC

CONSTANTS c1, c2, c3

\* Two descriptors for epoll's three clients.
MCFds == [k \in {"select", "poll", "epoll"} |-> IF k = "epoll" THEN {4, 5} ELSE 4 .. 6]

\* An empty line among the others.
MCEchoLines == [a |-> <<"x", "", "z">>, b |-> <<"p", "q">>]

\* Lines of every kind: without words, built in, with and without a program, with
\* a file to open and without.
Line(words, op, file) == [words |-> words, op |-> op, file |-> file]
MCShellLines ==
  {Line(<<>>, "none", ""), Line(<<>>, ">", "out"), Line(<<"cd", "/tmp">>, "none", ""),
   Line(<<"cd", "/nowhere">>, ">", "out"), Line(<<"export", "PWD=x">>, "none", ""),
   Line(<<"export", "PWD">>, "none", ""), Line(<<"export", "A=x">>, "none", ""),
   Line(<<"echo", "$?">>, "none", ""), Line(<<"echo", "x">>, "<", "absent"),
   Line(<<"ls">>, "none", ""), Line(<<"ls">>, ">>", "out"), Line(<<"false">>, "<", "in"),
   Line(<<"false">>, "<", "absent"), Line(<<"loop">>, "none", ""),
   Line(<<"absent">>, "none", "")}
MCOpens == {<<"<", "in">>, <<">", "out">>, <<">>", "out">>}
MCCodes == "ls" :> 0 @@ "false" :> 1 @@ "loop" :> -1

\* main numbers its threads from 1.
MCThreads == 1 .. 3
=============================================================================
