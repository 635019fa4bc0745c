-------------------------------- MODULE Util --------------------------------
(***************************************************************************)
(* The programs of the utilities lab, as the shell runs them: one command  *)
(* line is given, primes, pingpong, or find with its output into xargs.    *)
(* primes is the module Primes, extended here; the others are instances.   *)
(***************************************************************************)
EXTENDS Primes

CONSTANTS
  Node, Kind, Entries, Words, Target, TooLong,   \* of FindXargs, with
  FindFiles, XargsBuf, MaxFail, MAXARG,          \* NOFILE for find, and BufSize
  Argc                                           \* what argc of xargs may be

\* Arguments: the words between blanks.
ArgLists == Seq(Seq(STRING \ {" ", "\n"})) \ {<<>>}

ASSUME UtilAssumption ==
  /\ 1 \in Node /\ 0 \notin Node
  /\ Kind \in [Node -> {"file", "dir", "skip", "long"}]
  /\ Kind[1] # "skip"   \* it is no entry of a directory
  /\ Entries \in [Node -> Seq(Node)]
  /\ \A n \in Target : Words[n] \in ArgLists
  /\ TooLong \in ArgLists
  /\ FindFiles \in Nat /\ XargsBuf \in Nat \ {0} /\ MaxFail \in Nat
  /\ MAXARG \in Nat /\ Argc \subseteq 2 .. MAXARG   \* there is a command, and exec() has a bound

VARIABLES
  command,                       \* what the shell runs
  ppc, pfiles, ppipe, pprinted,  \* of Pingpong
  visit, open, out, fpipe, found, xargs, argc, overrun, ran, failed   \* of FindXargs

PP == INSTANCE Pingpong
        WITH pc <- ppc, files <- pfiles, pipe <- ppipe, printed <- pprinted
FX == INSTANCE FindXargs
        WITH pipe <- fpipe, NOFILE <- FindFiles, PipeSize <- XargsBuf + 2, BufSize <- XargsBuf

ppVars   == <<ppc, pfiles, ppipe, pprinted>>
fxVars   == <<visit, open, out, fpipe, found, xargs, overrun, ran, failed>>
utilVars == <<vars, command, argc, ppVars, fxVars>>

UtilInit ==
  /\ command \in {"primes", "pingpong", "find | xargs"}
  /\ argc \in IF command = "find | xargs" THEN Argc ELSE {1}
  /\ Init
  /\ PP!Init
  /\ FX!Init

UtilNext ==
  /\ UNCHANGED <<command, argc>>
  /\ \/ command = "primes" /\ Next /\ UNCHANGED <<ppVars, fxVars>>
     \/ command = "pingpong" /\ PP!Next /\ UNCHANGED <<vars, fxVars>>
     \/ command = "find | xargs" /\ FX!Next /\ UNCHANGED <<vars, ppVars>>

\* Some process that can go on does; that no process is overtaken for ever is not needed.
UtilSpec == UtilInit /\ [][UtilNext]_utilVars /\ WF_utilVars(UtilNext)

-----------------------------------------------------------------------------
\* xargs runs the commands that find's lines say (find.c:53-65; xargs.c:23-46).
LinesRun == command = "find | xargs" => FX!LinesRun

\* Every command line ends, whatever calls of fork() and exec() fail: nobody waits in read(),
\* write() or wait() for ever, primes exits, pingpong does after both its lines if it has a
\* child, and xargs at the end of its input, unless a line has too many words for it
\* (primes.c:35-44; pingpong.c:33-47; xargs.c:23-49).
EveryCommandEnds ==
  <>(CASE command = "primes"       -> pc[0] = "exited"
       [] command = "pingpong"     -> PP!Done
       [] command = "find | xargs" -> FX!Done \/ overrun)
=============================================================================
