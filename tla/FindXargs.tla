----------------------------- MODULE FindXargs -----------------------------
(***************************************************************************)
(* The pipeline `find . target | xargs command` of Lab_util: find.c walks  *)
(* a directory tree and prints the paths it finds, a character at a time;  *)
(* xargs.c puts lines together from what read() happens to return, splits  *)
(* them into arguments, and runs a process for each line.                  *)
(*                                                                         *)
(* When exec() fails, the child of xargs is a second xargs that goes on    *)
(* with a copy of the buffer, while its parent waits for it: xargs is a    *)
(* stack of processes, of which the top one runs.                          *)
(*                                                                         *)
(* The array token of xargs is as long as the buffer that find makes its   *)
(* paths in, and find goes into no directory whose paths could be longer:  *)
(* every line fits, and that bound is not part of the model.  The array    *)
(* args has a bound that nothing in the two programs keeps.                *)
(***************************************************************************)
EXTENDS Integers, SequencesExt

CONSTANTS
  Node,      \* files and directories; 1 is where find starts
  Kind,      \* what each is: "file", "dir", "skip" (a free entry, ".", ".." or one that
             \* stat() fails for), "long" (a directory with too long a path)
  Entries,   \* the entries of each directory; what is none has none
  Words,     \* each path, in the pieces between its blanks
  Target,    \* the nodes whose last name is the one looked for
  TooLong,   \* the words of the message about too long a path
  NOFILE,    \* open files per process
  PipeSize,  \* characters that fit into a pipe
  BufSize,   \* MAX_BUFFER_SIZE, what xargs asks read() for
  MAXARG,    \* places in xargs' array args
  MaxFail    \* BOUND: how often fork() or exec() fails

VARIABLES
  visit,     \* the argument of the call of find() that begins, 0 if none does
  open,      \* the directories being read, the innermost last: <<directory, next entry>>
  out,       \* what find has still to write
  pipe,
  found,     \* find has exited
  xargs,     \* the processes of xargs, the running one last
  argc,      \* of xargs: argc - 1 places of args are taken by its own arguments
  overrun,   \* xargs has stored beyond the end of args
  ran,       \* history: the argument lists of the commands run
  failed     \* history: the lines for which fork() or exec() failed

find   == <<visit, open, out, found>>
reader == <<xargs, overrun, ran, failed>>
vars   == <<find, pipe, reader, argc>>

\* A process of xargs: what is left of buf, the arguments of the line, the last one so far.
NewLine(buf) == [buf |-> buf, args |-> <<>>, token |-> <<>>]

Init ==
  /\ visit = 1
  /\ open = <<>>
  /\ out = <<>>
  /\ pipe = <<>>
  /\ found = FALSE
  /\ xargs = <<NewLine(<<>>)>>
  /\ argc \in Nat
  /\ overrun = FALSE
  /\ ran = <<>>
  /\ failed = <<>>

-----------------------------------------------------------------------------
(* find                                                                    *)

\* The path, with a blank between any two of its words.
Line(words) ==
  LET from[i \in 1 .. Len(words)] ==
        words[i] \o (IF i = Len(words) THEN <<"\n">> ELSE <<" ">> \o from[i + 1])
  IN from[1]

\* open() fails for want of a descriptor: 0, 1, 2 and one for each directory are in use.
FindCannotOpen ==
  /\ visit # 0
  /\ 3 + Len(open) >= NOFILE
  /\ visit' = 0
  /\ UNCHANGED <<open, out, found, pipe, reader>>

FindFile ==
  /\ visit # 0 /\ 3 + Len(open) < NOFILE
  /\ Kind[visit] = "file"
  /\ out' = IF visit \in Target THEN Line(Words[visit]) ELSE <<>>
  /\ visit' = 0
  /\ UNCHANGED <<open, found, pipe, reader>>

FindTooLong ==
  /\ visit # 0 /\ 3 + Len(open) < NOFILE
  /\ Kind[visit] = "long"
  /\ out' = Line(TooLong)
  /\ visit' = 0
  /\ UNCHANGED <<open, found, pipe, reader>>

FindDir ==
  /\ visit # 0 /\ 3 + Len(open) < NOFILE
  /\ Kind[visit] = "dir"
  /\ open' = Append(open, <<visit, 1>>)
  /\ visit' = 0
  /\ UNCHANGED <<out, found, pipe, reader>>

\* The next entry of the innermost directory.
FindEntry ==
  /\ visit = 0 /\ out = <<>> /\ open # <<>>
  /\ LET d == Last(open)[1]  n == Last(open)[2] IN
       /\ n <= Len(Entries[d])
       /\ visit' = IF Kind[Entries[d][n]] = "skip" THEN 0 ELSE Entries[d][n]
       /\ open' = [open EXCEPT ![Len(open)] = <<d, n + 1>>]
  /\ UNCHANGED <<out, found, pipe, reader>>

FindClose ==
  /\ visit = 0 /\ out = <<>> /\ open # <<>>
  /\ Last(open)[2] > Len(Entries[Last(open)[1]])
  /\ open' = Front(open)
  /\ UNCHANGED <<visit, out, found, pipe, reader>>

\* printf() writes a character at a time, and waits while the pipe is full.
FindWrite ==
  /\ out # <<>>
  /\ Len(pipe) < PipeSize
  /\ pipe' = Append(pipe, Head(out))
  /\ out' = Tail(out)
  /\ UNCHANGED <<visit, open, found, reader>>

FindExit ==
  /\ visit = 0 /\ out = <<>> /\ open = <<>>
  /\ ~found
  /\ found' = TRUE
  /\ UNCHANGED <<visit, open, out, pipe, reader>>

Find ==
  \/ FindCannotOpen \/ FindFile \/ FindTooLong \/ FindDir \/ FindEntry \/ FindClose
  \/ FindWrite \/ FindExit

-----------------------------------------------------------------------------
(* xargs                                                                   *)

Running == xargs # <<>> /\ ~overrun

\* The running process becomes x.
Becomes(x) == xargs' = Append(Front(xargs), x)

\* read() returns what there is, up to BufSize.
XargsRead ==
  /\ Running /\ Last(xargs).buf = <<>>
  /\ pipe # <<>>
  /\ LET n == IF Len(pipe) < BufSize THEN Len(pipe) ELSE BufSize IN
       /\ Becomes([Last(xargs) EXCEPT !.buf = SubSeq(pipe, 1, n)])
       /\ pipe' = SubSeq(pipe, n + 1, Len(pipe))
  /\ UNCHANGED <<find, overrun, ran, failed>>

\* End of file: exit(0), and the wait() of the process below returns.
XargsExit ==
  /\ Running /\ Last(xargs).buf = <<>>
  /\ pipe = <<>> /\ found
  /\ xargs' = Front(xargs)
  /\ UNCHANGED <<find, pipe, overrun, ran, failed>>

\* The next character in buf is c.
Sees(c) == Running /\ Last(xargs).buf # <<>> /\ c = Head(Last(xargs).buf)

\* A word goes into args at a blank, and at the end of a line a word and a null pointer.
Fits(c) == argc - 1 + Len(Last(xargs).args) + (IF c = "\n" THEN 2 ELSE 1) <= MAXARG

\* The running process takes character c from buf.
Takes(c) == Sees(c) /\ UNCHANGED <<find, pipe, overrun>>

\* What is stored beyond args overwrites the stack: what xargs does then is undefined.
XargsOverruns ==
  /\ \E c \in {" ", "\n"} : Sees(c) /\ ~Fits(c)
  /\ overrun' = TRUE
  /\ UNCHANGED <<find, pipe, xargs, ran, failed>>

Rest == Tail(Last(xargs).buf)
Argv == Append(Last(xargs).args, Last(xargs).token)

NewLineKeepsArgs ==
  /\ Takes("\n") /\ Fits("\n")
  /\ ran' = Append(ran, Argv)
  /\ Becomes([Last(xargs) EXCEPT !.buf = Rest, !.token = <<>>])
  /\ UNCHANGED failed

\* The end of a line: fork, exec and wait, and a new line begins.
XargsRun ==
  /\ Takes("\n") /\ Fits("\n")
  /\ ran' = Append(ran, Argv)
  /\ Becomes(NewLine(Rest))
  /\ UNCHANGED failed

\* fork() fails, unnoticed.
XargsForkFails ==
  /\ Takes("\n") /\ Fits("\n")
  /\ Len(failed) < MaxFail
  /\ failed' = Append(failed, Argv)
  /\ Becomes(NewLine(Rest))
  /\ UNCHANGED ran

\* exec() fails: the child goes on where the parent is, and the parent waits for it.
XargsExecFails ==
  /\ Takes("\n") /\ Fits("\n")
  /\ Len(failed) < MaxFail
  /\ failed' = Append(failed, Argv)
  /\ xargs' = Front(xargs) \o <<NewLine(Rest), NewLine(Rest)>>
  /\ UNCHANGED ran

XargsBlank ==
  /\ Takes(" ") /\ Fits(" ")
  /\ Becomes([buf |-> Rest, args |-> Argv, token |-> <<>>])
  /\ UNCHANGED <<ran, failed>>

XargsChar ==
  /\ Running
  /\ \E c \in Range(Last(xargs).buf) \ {" ", "\n"} :
       /\ Takes(c)
       /\ Becomes([Last(xargs) EXCEPT !.buf = Rest, !.token = Append(@, c)])
  /\ UNCHANGED <<ran, failed>>

Xargs ==
  \/ XargsRead \/ XargsExit \/ XargsRun \/ XargsForkFails \/ XargsExecFails
  \/ XargsBlank \/ XargsChar \/ XargsOverruns

Next == (Find \/ Xargs) /\ UNCHANGED argc

Done == found /\ xargs = <<>>

-----------------------------------------------------------------------------
\* What find() prints, as the argument lists of its lines, <<n, d, k>>: with d directories
\* open, when it is called for n (k = 0), or goes on with entry k of directory n.
Lines[c \in Node \X Nat \X Nat] ==
  LET n == c[1]  d == c[2]  k == c[3] IN
  IF k > 0
  THEN IF k > Len(Entries[n]) THEN <<>>
       ELSE Lines[<<Entries[n][k], d, 0>>] \o Lines[<<n, d, k + 1>>]
  ELSE IF 3 + d >= NOFILE THEN <<>>
       ELSE CASE Kind[n] = "file" -> IF n \in Target THEN <<Words[n]>> ELSE <<>>
              [] Kind[n] = "long" -> <<TooLong>>
              [] Kind[n] = "dir"  -> Lines[<<n, d + 1, 1>>]
              [] Kind[n] = "skip" -> <<>>

Expected == Lines[<<1, 0, 0>>]

\* Wherever read() cuts the stream, each line find prints becomes the arguments of one
\* command, once and in order.  Where fork() or exec() fails, lines may run more than once,
\* but none is made up, and none is lost but those it failed for.  xargs stores beyond its
\* array only if a line has so many words that they, its own arguments and the null pointer
\* are more than MAXARG (find.c:53-65; xargs.c:10, 23-46).
LinesRun ==
  /\ failed = <<>> => IsPrefix(ran, Expected) /\ (Done => ran = Expected)
  /\ Range(ran) \subseteq Range(Expected)
  /\ Done => Range(Expected) \subseteq Range(ran) \cup Range(failed)
  /\ overrun => \E words \in Range(Expected) : argc - 1 + Len(words) >= MAXARG
=============================================================================
