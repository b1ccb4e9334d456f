----------------------------- MODULE MCServers ------------------------------
(***************************************************************************)
(* Servers on small instances.                                             *)
(***************************************************************************)
EXTENDS Servers, TLC

CONSTANTS c1, c2, c3, w1, w2

\* A client that reads after each question and one that asks everything first;
\* one read of the server returns as much as half a packet or two of them.
Q(x, y, op) == [x |-> x, y |-> y, op |-> op]
MCAsks == [a |-> <<Q(7, 2, "/"), Q(12, 0, "%")>>,
           b |-> <<Q(20, 7, "%"), Q(2, 3, "="), Q(4, 0, "/")>>]

\* A dictionary with an entry twice and a line that is none.
MCLines == <<<<"a", "A">>, <<"junk">>, <<"b", "B">>, <<"a", "AA">>>>
\* Two users with words of their own, one of whom may go on with an empty line,
\* and one who connects and says nothing: with two workers both can be held by
\* silent clients, or one, and then the other must do the work.  One client makes
\* two attempts, so that a count of failures can be carried over.
MCWords == c1 :> <<{"a", ""}>> @@ c2 :> <<{"b"}>> @@ c3 :> <<>>
MCRetries == c1 :> 2 @@ c2 :> 1 @@ c3 :> 1
MCConns == 1 .. 3
MCFds == 4 .. 6

\* A whole request for the home page or for a directory, one for a file that is not
\* there, and one cut off in its first line.
MCRequests == c1 :> {<<"GET /", "Host", "", "">>, <<"GET /a", "Host", "", "">>}
              @@ c2 :> {<<"GET /2.png", "Host">>} @@ c3 :> {<<"GE">>}
MCUrl == "GET /" :> "/" @@ "GET /2.png" :> "/2.png" @@ "GET /a" :> "/a"
MCSuffix == "/" :> "" @@ "/2.png" :> ".png" @@ "/a" :> ""
MCFiles == "/index.html" :> "home" @@ "/err.html" :> "err"
MCStale == {<<>>, <<"x", "">>}
=============================================================================
