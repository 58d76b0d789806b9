------------------------------- MODULE LogPipe -------------------------------
(***************************************************************************)
(* The log: the gateway forks a child before anything else, its threads    *)
(* write lines into a FIFO under fifolock, and the child, log_process,      *)
(* copies them into gateway.log until it meets the END line.               *)
(*                                                                         *)
(* A line is named by who says it and by its number.  Every line ends with *)
(* a newline but the last of MAIN, END.  fgets returns up to a newline or  *)
(* to the end of the stream, so an entry of the log is a sequence of lines *)
(* - of one line, if all is well.  The two processes may die at any time,  *)
(* of an error the code answers with exit(EXIT_FAILURE), or killed.        *)
(***************************************************************************)
EXTENDS Integers, Sequences

CONSTANTS
  Writer,             \* the threads of the gateway
  Lines,              \* how many lines a thread says at most
  Capacity            \* how many lines the pipe holds

ASSUME LogPipeAssumption ==
  /\ "MAIN" \notin Writer /\ "nobody" \notin Writer
  /\ Lines \in Nat
  /\ Capacity \in Nat \ {0}

MAIN == "MAIN"
START == <<MAIN, 1>>
END == <<MAIN, 2>>

VARIABLES
  pc,                 \* where MAIN and the threads are
  child,              \* where the child is
  said,               \* how many lines each has written into the FIFO
  fifolock,           \* who holds it
  fifo,               \* is there a file FIFONAME
  writeEnd,           \* has the gateway the FIFO open
  pipe,               \* the lines in the FIFO
  log,                \* what the child has written, entry by entry; once it is
                      \* dead, what is left of that on disk
  onDisk              \* how many of the entries have left its buffer

fileVars == <<log, onDisk>>
vars == <<pc, child, said, fifolock, fifo, writeEnd, pipe, fileVars>>

(* A FIFO may be there from an earlier run: only a normal end unlinks it.   *)
Init ==
  /\ pc = [p \in Writer \cup {MAIN} |-> IF p = MAIN THEN "mkfifo" ELSE "unborn"]
  /\ child = "fopen"
  /\ said = [p \in Writer \cup {MAIN} |-> 0]
  /\ fifolock = "nobody"
  /\ fifo \in BOOLEAN
  /\ writeEnd = FALSE
  /\ pipe = << >>
  /\ log = << >>
  /\ onDisk = 0

Alive == pc[MAIN] \notin {"exit", "dead"}
HasReadEnd == child \in {"fgets", "spinning"}

Goto(p, from, to) == pc[p] = from /\ pc' = [pc EXCEPT ![p] = to]

-----------------------------------------------------------------------------
(* log_this, called by the threads with their lines, and by MAIN.          *)

Logging(p) == pc[p] \in {"log", "START", "END"}

AfterLine(p) ==
  pc' = [pc EXCEPT ![p] = CASE pc[p] = "START" -> "pthread_create"
                            [] pc[p] = "END" -> "fclose"
                            [] OTHER -> "run"]

TakeFifoLock(p) ==
  /\ Alive
  /\ Logging(p)
  /\ fifolock = "nobody"
  /\ fifolock' = p
  /\ UNCHANGED <<pc, child, said, fifo, writeEnd, pipe, fileVars>>

(* Mutant: a full pipe is no reason to wait. *)
PutOrDrop(p) ==
  /\ pipe' = IF Len(pipe) < Capacity THEN Append(pipe, <<p, said[p] + 1>>) ELSE pipe
  /\ said' = [said EXCEPT ![p] = @ + 1]
  /\ fifolock' = "nobody"
  /\ AfterLine(p)

(* Mutant: fifolock is not released. *)
PutWithoutUnlock(p) ==
  /\ Len(pipe) < Capacity
  /\ pipe' = Append(pipe, <<p, said[p] + 1>>)
  /\ said' = [said EXCEPT ![p] = @ + 1]
  /\ UNCHANGED fifolock
  /\ AfterLine(p)

(* fputs, fflush and the unlocking; a full pipe makes the holder wait.      *)
PutLine(p) ==
  /\ Len(pipe) < Capacity
  /\ pipe' = Append(pipe, <<p, said[p] + 1>>)
  /\ said' = [said EXCEPT ![p] = @ + 1]
  /\ fifolock' = "nobody"
  /\ AfterLine(p)

(* Mutant: SIGPIPE is ignored and the write tried again. *)
RetryForEver == FALSE /\ UNCHANGED vars

(* Nobody handles SIGPIPE: writing without a reader ends the gateway.       *)
BrokenPipe ==
  /\ pc' = [pc EXCEPT ![MAIN] = "dead"]
  /\ writeEnd' = FALSE
  /\ UNCHANGED <<child, said, fifolock, fifo, pipe, fileVars>>

log_this(p) ==
  \/ TakeFifoLock(p)
  \/ /\ Alive /\ fifolock = p
     /\ IF HasReadEnd
        THEN PutLine(p) /\ UNCHANGED <<child, fifo, writeEnd, fileVars>>
        ELSE BrokenPipe

-----------------------------------------------------------------------------
(* The threads: they say what they have to say, and end.                   *)

thread(w) ==
  /\ Alive
  /\ \/ said[w] < Lines /\ Goto(w, "run", "log")
     \/ Goto(w, "run", "ended")
  /\ UNCHANGED <<child, said, fifolock, fifo, writeEnd, pipe, fileVars>>

(* main_process, as far as the log is concerned, and the end of main.      *)

CHECK_MKFIFO ==
  /\ Goto(MAIN, "mkfifo", "fopen")
  /\ fifo' = TRUE
  /\ UNCHANGED <<child, said, fifolock, writeEnd, pipe, fileVars>>

CreateThreads ==
  /\ pc[MAIN] = "pthread_create"
  /\ pc' = [p \in DOMAIN pc |-> IF p = MAIN THEN "pthread_join" ELSE "run"]
  /\ UNCHANGED <<child, said, fifolock, fifo, writeEnd, pipe, fileVars>>

(* Mutant: one thread is not waited for. *)
JoinAllButOne ==
  /\ \E w \in Writer : \A v \in Writer \ {w} : pc[v] = "ended"
  /\ Goto(MAIN, "pthread_join", "END")
  /\ UNCHANGED <<child, said, fifolock, fifo, writeEnd, pipe, fileVars>>

JoinThreads ==
  /\ \A w \in Writer : pc[w] = "ended"
  /\ Goto(MAIN, "pthread_join", "END")
  /\ UNCHANGED <<child, said, fifolock, fifo, writeEnd, pipe, fileVars>>

(* Mutant: the FIFO is unlinked and stays open. *)
UnlinkOnly ==
  /\ Goto(MAIN, "fclose", "wait")
  /\ fifo' = FALSE
  /\ UNCHANGED <<child, said, fifolock, writeEnd, pipe, fileVars>>

CloseFifo ==
  /\ Goto(MAIN, "fclose", "wait")
  /\ writeEnd' = FALSE
  /\ fifo' = FALSE
  /\ UNCHANGED <<child, said, fifolock, pipe, fileVars>>

WaitForChild ==
  /\ child \in {"exit", "dead"}
  /\ Goto(MAIN, "wait", "exit")
  /\ UNCHANGED <<child, said, fifolock, fifo, writeEnd, pipe, fileVars>>

main == CHECK_MKFIFO \/ CreateThreads \/ JoinThreads \/ CloseFifo \/ WaitForChild

-----------------------------------------------------------------------------
(* fopen of a FIFO waits for the other side, so that both return together. *)
OpenFifo ==
  /\ child = "opening"
  /\ Goto(MAIN, "fopen", "START")
  /\ writeEnd' = TRUE
  /\ child' = "fgets"
  /\ UNCHANGED <<said, fifolock, fifo, pipe, fileVars>>

(* log_process.  Without a FIFO fopen fails at once, and fgets is given a   *)
(* null stream.                                                            *)
ChildOpens ==
  /\ child = "fopen"
  /\ child' = IF fifo THEN "opening" ELSE "dead"
  /\ UNCHANGED <<pc, said, fifolock, fifo, writeEnd, pipe, fileVars>>

(* What fgets returns: the lines up to the first newline, or what is left   *)
(* at the end of the stream; Waits as long as there is neither.             *)
Newlines == {k \in 1 .. Len(pipe) : pipe[k] # END}
fgets ==
  IF Newlines # {} THEN SubSeq(pipe, 1, CHOOSE k \in Newlines : \A j \in Newlines : k <= j)
                   ELSE pipe
Waits == Newlines = {} /\ writeEnd

(* Mutant: exit without closing the log. *)
NoFclose(entry) ==
  /\ log' = Append(log, entry)
  /\ onDisk' \in onDisk .. Len(log')
  /\ child' = IF entry = <<END>> THEN "exit" ELSE "fgets"

(* fprintf, and the test for the END line, which flushes and ends.          *)
WriteEntry(entry) ==
  /\ log' = Append(log, entry)
  /\ IF entry = <<END>>
     THEN child' = "exit" /\ onDisk' = Len(log')
     ELSE UNCHANGED child /\ onDisk' \in onDisk .. Len(log')

ReadLine ==
  /\ child = "fgets"
  /\ ~Waits /\ fgets # << >>
  /\ pipe' = SubSeq(pipe, Len(fgets) + 1, Len(pipe))
  /\ WriteEntry(fgets)
  /\ UNCHANGED <<pc, said, fifolock, fifo, writeEnd>>

(* At the end of the stream fgets leaves recbuf alone: the same comparison  *)
(* for ever.                                                               *)
EndOfStream ==
  /\ child = "fgets"
  /\ ~Waits /\ fgets = << >>
  /\ child' = "spinning"
  /\ UNCHANGED <<pc, said, fifolock, fifo, writeEnd, pipe, fileVars>>

log_process == ChildOpens \/ ReadLine \/ EndOfStream

-----------------------------------------------------------------------------
GatewayDies ==
  /\ Alive
  /\ pc' = [pc EXCEPT ![MAIN] = "dead"]
  /\ writeEnd' = FALSE
  /\ UNCHANGED <<child, said, fifolock, fifo, pipe, fileVars>>

(* With the process its buffer goes, and with the last reader of the FIFO   *)
(* what nobody has read: only what is on disk stays.                        *)
ChildDies ==
  /\ child \notin {"exit", "dead"}
  /\ child' = "dead"
  /\ log' = SubSeq(log, 1, onDisk)
  /\ pipe' = << >>
  /\ UNCHANGED <<pc, said, fifolock, fifo, writeEnd, onDisk>>

(* Nothing is left to happen, or one side waits for the other for ever.     *)
Stopped ==
  /\ pc[MAIN] \in {"exit", "dead", "fopen"}
  /\ child \in {"exit", "dead", "opening", "spinning"}
  /\ UNCHANGED vars

Next ==
  \/ main
  \/ OpenFifo
  \/ log_process
  \/ \E w \in Writer : thread(w)
  \/ \E p \in Writer \cup {MAIN} : log_this(p)
  \/ GatewayDies
  \/ ChildDies
  \/ Stopped

Spec == Init /\ [][Next]_vars

(* Both processes run, and nobody is passed over at the mutex for ever.     *)
Fairness ==
  /\ WF_vars(main) /\ WF_vars(OpenFifo) /\ WF_vars(log_process)
  /\ \A w \in Writer : WF_vars(thread(w))
  /\ \A p \in Writer \cup {MAIN} : SF_vars(log_this(p))

FairSpec == Spec /\ Fairness
==============================================================================
