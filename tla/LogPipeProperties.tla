-------------------------- MODULE LogPipeProperties --------------------------
(***************************************************************************)
(* What the log promises: every line, once, in order, and an end.          *)
(***************************************************************************)
EXTENDS LogPipe

Speaker == Writer \cup {MAIN}
MainPc == {"mkfifo", "fopen", "START", "pthread_create", "pthread_join", "END",
           "fclose", "wait", "exit", "dead"}
WriterPc == {"unborn", "run", "log", "ended"}
Line == Speaker \X (1 .. Lines + 2)

(* Every variable holds a value of its type, and only who is in log_this    *)
(* holds fifolock.                                                          *)
TypeOK ==
  /\ pc \in [Speaker -> MainPc \cup WriterPc]
  /\ pc[MAIN] \in MainPc
  /\ \A w \in Writer : pc[w] \in WriterPc
  /\ child \in {"fopen", "opening", "fgets", "spinning", "exit", "dead"}
  /\ said \in [Speaker -> 0 .. Lines + 2]
  /\ fifolock \in Speaker \cup {"nobody"}
  /\ Alive /\ fifolock # "nobody" => Logging(fifolock)
  /\ fifo \in BOOLEAN /\ writeEnd \in BOOLEAN
  /\ pipe \in Seq(Line) /\ Len(pipe) <= Capacity
  /\ log \in Seq(Seq(Line))
  /\ onDisk \in 0 .. Len(log)

(* What has been written, as entries: those of the log, then those the      *)
(* lines in the FIFO should become.                                         *)
Entries == Len(log) + Len(pipe)
EntriesOf(l, q) ==
  [i \in 1 .. Len(l) + Len(q) |-> IF i <= Len(l) THEN l[i] ELSE <<q[i - Len(l)]>>]
Written == EntriesOf(log, pipe)
Entry(p, k) == << <<p, k>> >>

(* As long as the child has not died, what a thread has said is in the log  *)
(* or in the FIFO, each line once, in an entry of its own, in order,        *)
(* whatever the others say, however full the FIFO is, and also when the     *)
(* gateway dies.  The death of the child costs the end of the log only:     *)
(* before each line that is on disk are all earlier ones of its thread.     *)
NoLineIsLost ==
  /\ \A i \in 1 .. Entries :
       \E p \in Speaker : \E k \in 1 .. said[p] : Written[i] = Entry(p, k)
  /\ child # "dead" =>
       \A p \in Speaker : \A k \in 1 .. said[p] :
         \E i \in 1 .. Entries : Written[i] = Entry(p, k)
  /\ \A i \in 1 .. Entries : \A p \in Speaker : \A k \in 1 .. said[p] :
       Written[i] = Entry(p, k) =>
         \A j \in 1 .. k - 1 : \E h \in 1 .. i - 1 : Written[h] = Entry(p, j)
  /\ \A i, j \in 1 .. Entries : i < j /\ Written[i][1][1] = Written[j][1][1]
       => Written[i][1][2] < Written[j][1][2]

(* When log_process has ended, the file holds all that was ever said, from  *)
(* START to END, and nothing is left in the FIFO, although END has no       *)
(* newline and is recognised only alone, at the end of the stream.          *)
LogIsComplete ==
  child = "exit" =>
    /\ pipe = << >> /\ onDisk = Len(log)
    /\ log[1] = <<START>> /\ log[Len(log)] = <<END>>
    /\ said[MAIN] = 2

(* The loop on the end of the stream is reached only if the gateway died    *)
(* without saying END.                                                      *)
SpinsOnlyAfterDeath ==
  child = "spinning" => pc[MAIN] = "dead" /\ said[MAIN] < 2

(* The gateway ends, or its log process died before the FIFO was open: then *)
(* fopen waits for a reader that never comes.  In particular a full FIFO    *)
(* whose reader has died holds nobody.                                      *)
StuckOnlyAtOpen ==
  <>(pc[MAIN] \in {"exit", "dead"}) \/ <>[](pc[MAIN] = "fopen" /\ child = "dead")

(* As long as the gateway lives, its log process comes to an end.           *)
LogProcessEnds ==
  <>(child \in {"exit", "dead"}) \/ <>(pc[MAIN] = "dead")
==============================================================================
