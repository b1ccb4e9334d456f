------------------------------- MODULE Shell --------------------------------
(***************************************************************************)
(* The shell of process_control/myshell and the one of file_sys/duplicate, *)
(* which adds redirection: one line, one child, one wait.  A child that    *)
(* cannot open the file of its redirection returns to main's loop instead  *)
(* of ending: a second shell reads on, and the first waits.                *)
(***************************************************************************)
EXTENDS Integers, Sequences, SequencesExt

CONSTANTS
  Versions,     \* the shells: a subset of {"plain", "redirecting"}
  Inputs,       \* what stdin may be: a subset of {"terminal", "pipe"}
  Lines,        \* lines: [words, op, file]; op is "none", "<", ">" or ">>"
  MaxLines,     \* bound: lines of the input
  Opens,        \* the <<op, file>> that open succeeds for
  Codes,        \* Codes[w]: the exit status of the program w, or Killed
  Home, Dirs    \* where it starts, and the directories that exist

Killed == -1   \* a program that a signal ends

VARIABLES
  version,      \* the shell that runs
  input,        \* what stdin is
  script,       \* the lines read so far by anybody, in the order they came
  shells,       \* the processes in the loop: each waits for the next, the last runs
  ran,          \* ran[i]: how often line i of script has been executed
  started,      \* the last program started: its line and redirection, or <<>>
  failed,       \* has an open failed?
  eof           \* has a shell met the end of the input?

vars == <<version, input, script, shells, ran, started, failed, eof>>

\* lastcode, redir and redirfilename; the working directory; where PWD's
\* text is: in the first environment, in myenv, or lost with it; and the lines
\* read from a pipe, which fgets's buffer holds to the end and fork copies.
Init ==
  /\ version \in Versions /\ input \in Inputs
  /\ script = <<>> /\ ran = <<>> /\ started = <<>> /\ failed = FALSE /\ eof = FALSE
  /\ shells = <<[lastcode |-> 0, redir |-> <<"none", "">>, cwd |-> Home, where |-> "environ", at |-> 0]>>

Top == shells[Len(shells)]
SetTop(s) == [shells EXCEPT ![Len(shells)] = s]

\* The shell that runs ends with a signal: to the one that waits that is 0.
Ended == IF Len(shells) = 1 THEN <<>>
         ELSE [Front(shells) EXCEPT ![Len(shells) - 1].lastcode = 0]

-----------------------------------------------------------------------------
\* Mutant: main does not reset what the last line left.
Check_redirKeeping(s, l) == IF l.op = "none" THEN s ELSE [s EXCEPT !.redir = <<l.op, l.file>>]

\* Check_redir, after main has reset redir and redirfilename.
Check_redir(s, l) == [s EXCEPT !.redir = IF l.op = "none" THEN <<"none", "">> ELSE <<l.op, l.file>>]

\* Mutant: PWD takes what was typed, whatever chdir says.
CdUnchecked(s, dir) == [s EXCEPT !.cwd = dir]

\* chdir, and the working directory there is then goes into PWD's text.
Cd(s, dir) == [s EXCEPT !.cwd = IF dir \in Dirs THEN dir ELSE @]

\* strcpy into myenv, putenv(myenv): there is one myenv for all variables, so that
\* an export of another one takes PWD's text away; and so does the name alone,
\* which putenv takes out of the environment.
Export(s, assignment) ==
  [s EXCEPT !.where = CASE assignment = "PWD=x" -> "myenv"
                        [] assignment = "PWD" \/ (assignment # "PWD=x" /\ @ = "myenv") -> "lost"
                        [] OTHER -> @]

\* Splitcommand: to the plain shell a redirection is two words more.  Of a line
\* without words it makes argc 1 and argv[0] a null pointer.
Splitcommand(l) == IF version = "plain" /\ l.op # "none" THEN l.words \o <<l.op, l.file>> ELSE l.words

BuiltIn(words) == Len(words) = 2 /\ words[1] \in {"cd", "echo", "export"}

\* Checkcommand, when it is: "cd" without a PWD to write to is a segmentation fault.
Checkcommand(s, words) ==
  /\ UNCHANGED <<started, failed>>
  /\ shells' = CASE words[1] = "cd" /\ s.where = "lost" -> Ended
                 [] words[1] = "cd" /\ s.where # "lost" -> SetTop(Cd(s, words[2]))
                 [] words[1] = "export" -> SetTop(Export(s, words[2]))
                 [] words[1] = "echo" /\ words[2] = "$?" -> SetTop([s EXCEPT !.lastcode = 0])
                 [] words[1] = "echo" /\ words[2] # "$?" -> SetTop(s)

\* waitpid: the exit status, 11 when there was no such program, and 0 of one
\* that a signal ended.
Waited(s, program) ==
  [s EXCEPT !.lastcode = IF program \notin DOMAIN Codes THEN 11
                         ELSE IF Codes[program] = Killed THEN 0 ELSE Codes[program]]

\* fork fails: the line is given up.
NoChild(s) == shells' = SetTop(s) /\ UNCHANGED <<started, failed>>

\* The plain shell: fork, execvp, wait.
ExecutePlain(s, l) ==
  \/ NoChild(s)
  \/ /\ started' = <<l, s.redir>> /\ UNCHANGED failed
     /\ shells' = SetTop(Waited(s, Splitcommand(l)[1]))

\* The other one's child redirects first; without its file it goes on as a shell.
ExecuteNormally(s, l) ==
  IF s.redir[1] # "none" /\ s.redir \notin Opens
  THEN \/ NoChild(s)
       \/ shells' = Append(SetTop(s), s) /\ failed' = TRUE /\ UNCHANGED started
  ELSE ExecutePlain(s, l)

\* Interact: getpwd, then fgets.  A terminal gives each line once; of a pipe,
\* each shell reads its own copy.
Position == IF input = "terminal" THEN Len(script) + 1 ELSE Top.at + 1

\* One turn of main's loop: argc is never 0, so that a line without words goes on
\* to Checkcommand, whose strcmp with "ls" is a segmentation fault.
Turn(s, l, executed) ==
  LET words == Splitcommand(l) IN
  \/ words = <<>> /\ shells' = Ended /\ UNCHANGED <<started, failed>>
  \/ BuiltIn(words) /\ Checkcommand(s, words)
  \/ words # <<>> /\ ~BuiltIn(words) /\ executed

RunLine(i, l) ==
  LET s == [Top EXCEPT !.at = i] IN
  /\ ran' = IF i > Len(ran) THEN Append(ran, 1) ELSE [ran EXCEPT ![i] = @ + 1]
  /\ \/ version = "plain" /\ Turn(s, l, ExecutePlain(s, l))
     \/ /\ version = "redirecting"
        /\ LET r == Check_redir(s, l) IN Turn(r, l, ExecuteNormally(r, l))

Interact ==
  /\ shells # <<>> /\ UNCHANGED <<version, input, eof>>
  /\ \/ Position <= Len(script) /\ RunLine(Position, script[Position]) /\ UNCHANGED script
     \/ /\ Position > Len(script) /\ Position <= MaxLines /\ (input = "pipe" => ~eof)
        /\ \E l \in Lines : script' = Append(script, l) /\ RunLine(Position, l)

\* The input ends, a pipe for every reader: the assertion on fgets's result fails.
InteractEof ==
  /\ shells # <<>> /\ Position > Len(script)
  /\ shells' = Ended /\ eof' = TRUE
  /\ UNCHANGED <<version, input, script, ran, started, failed>>

Next == Interact \/ InteractEof

Spec == Init /\ [][Next]_vars /\ WF_vars(Next)

-----------------------------------------------------------------------------
TypeOK ==
  /\ version \in Versions /\ input \in Inputs /\ eof \in BOOLEAN /\ Len(script) <= MaxLines /\ Len(ran) = Len(script)
  /\ \A i \in DOMAIN shells : /\ shells[i].lastcode \in Int /\ shells[i].cwd \in Dirs
                              /\ shells[i].where \in {"environ", "myenv", "lost"}

\* A program runs with the redirection of its own line, whatever lines and
\* failed opens came before it.
OwnRedirection ==
  started # <<>> => started[2] = IF version = "plain" \/ started[1].op = "none" THEN <<"none", "">>
                                 ELSE <<started[1].op, started[1].file>>

\* A line is executed once, whichever shell reads it; only after a failed open,
\* and only from a pipe, does a second shell execute what the first will too.
LinesRunOnce ==
  \A i \in DOMAIN ran : ran[i] > 1 => failed /\ input = "pipe"

\* Line j gives PWD a value.
GivesPwd(j) ==
  LET words == Splitcommand(script[j]) IN
  BuiltIn(words) /\ words[1] = "export" /\ words[2] = "PWD=x"

\* Line j takes PWD away: the name alone, or another export after PWD's.
TakesPwd(j) ==
  LET words == Splitcommand(script[j]) IN
  /\ BuiltIn(words) /\ words[1] = "export" /\ words[2] # "PWD=x"
  /\ words[2] = "PWD" \/ \E i \in 1 .. j - 1 : GivesPwd(i)

\* Line n can end a shell: it has no words, or is a "cd" after PWD was taken away.
Fatal(n) ==
  LET words == Splitcommand(script[n]) IN
  words = <<>> \/ (BuiltIn(words) /\ words[1] = "cd" /\ \E j \in 1 .. n - 1 : TakesPwd(j))

\* As long as its input has not ended, only such a line ends the shell that the
\* user has started.
OnlyFatalLines == shells = <<>> /\ ~eof => \E n \in DOMAIN script : Fatal(n)
=============================================================================
