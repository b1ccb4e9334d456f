---------------------------- MODULE BufferedFile ----------------------------
(***************************************************************************)
(* The output library of file_sys/buffer/myfile: one stream over one file, *)
(* opened and closed again and again.                                      *)
(***************************************************************************)
EXTENDS Integers, Sequences

CONSTANTS
  Chars,        \* the other characters than the newline
  MaxMessage,   \* bound: the length of what a program writes at once
  Size,         \* SIZE, the length of outbuffer
  MaxText       \* bound: characters in the file

FLUSH_NOW == 1
FLUSH_LINE == 2
FLUSH_ALL == 4
Newline == "n"
Messages == UNION {[1 .. n -> Chars \cup {Newline}] : n \in 1 .. MaxMessage}

VARIABLES
  file,         \* the content of the file
  elsewhere,    \* what was written to a descriptor that is not the file's
  fp,           \* the _FILE: [open, writes, flag, outbuffer]
  given         \* what the file should hold when the stream has been closed

vars == <<file, elsewhere, fp, given>>

NoFile == [open |-> FALSE, writes |-> FALSE, flag |-> FLUSH_LINE, outbuffer |-> <<>>]

Init == file = <<>> /\ elsewhere = <<>> /\ fp = NoFile /\ given = <<>>

\* "r", "w" or "a"; a stream starts line-buffered.
_fopen ==
  /\ ~fp.open
  /\ \E flag \in {"r", "w", "a"} :
       /\ fp' = [NoFile EXCEPT !.open = TRUE, !.writes = flag # "r"]
       /\ file' = IF flag = "w" THEN <<>> ELSE file
       /\ given' = file'
  /\ UNCHANGED elsewhere

\* The program sets the field that "decides how the buffer is flushed".
SetFlag ==
  /\ fp.open /\ fp.outbuffer = <<>>
  /\ \E flag \in {FLUSH_NOW, FLUSH_LINE, FLUSH_ALL} : fp' = [fp EXCEPT !.flag = flag]
  /\ UNCHANGED <<file, elsewhere, given>>

\* write(fileno): it fails on a stream for reading, and nobody looks.
Written(text) == IF fp.writes THEN file \o text ELSE file

\* Only a newline at the very end counts.
IsDue(text) ==
  CASE fp.flag = FLUSH_NOW -> TRUE
    [] fp.flag = FLUSH_LINE -> text[Len(text)] = Newline
    [] fp.flag = FLUSH_ALL -> Len(text) >= Size

\* Nothing checks that the message fits; here it does.
_fwrite ==
  /\ fp.open
  /\ \E message \in Messages :
       LET text == fp.outbuffer \o message IN
       /\ Len(text) <= Size /\ Len(given) + Len(message) <= MaxText
       /\ given' = IF fp.writes THEN given \o message ELSE given
       /\ IF IsDue(text) THEN file' = Written(text) /\ fp' = [fp EXCEPT !.outbuffer = <<>>]
          ELSE fp' = [fp EXCEPT !.outbuffer = text] /\ UNCHANGED file
  /\ UNCHANGED elsewhere

\* write(fp->flag, ...): the flag, not fileno, is the descriptor.
_fflush ==
  /\ fp.open /\ fp.outbuffer # <<>>
  /\ elsewhere' = elsewhere \o fp.outbuffer
  /\ fp' = [fp EXCEPT !.outbuffer = <<>>]
  /\ UNCHANGED <<file, given>>

_fclose ==
  /\ fp.open
  /\ elsewhere' = elsewhere \o fp.outbuffer
  /\ fp' = NoFile
  /\ UNCHANGED <<file, given>>

Next == _fopen \/ SetFlag \/ _fwrite \/ _fflush \/ _fclose

Spec == Init /\ [][Next]_vars

-----------------------------------------------------------------------------
\* fileno is the stream's descriptor and flag only decides when the buffer is
\* flushed: what was given to _fwrite is in the file once _fclose has returned.
AllReachesTheFile == ~fp.open => file = given
=============================================================================
