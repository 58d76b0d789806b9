---------------------------- MODULE LogPipe_proofs ----------------------------
(***************************************************************************)
(* Proofs about the log, for any number of threads and lines and for a     *)
(* FIFO of any size.                                                       *)
(*                                                                         *)
(* LInv is the inductive invariant: SaidInv relates what has been said to  *)
(* where MAIN is, so that START comes before everything and END after it;  *)
(* OpenInv says which side has the FIFO open when; EndsInv carries that    *)
(* over to the entries written; ChildInv says what the child has met.      *)
(***************************************************************************)
EXTENDS LogPipeProperties, SequenceTheorems, TLAPS

(* The entries of a log and a FIFO, place by place.                         *)
LEMMA EntriesAt ==
  ASSUME NEW S, NEW l \in Seq(Seq(S)), NEW q \in Seq(S)
  PROVE  /\ \A i \in 1 .. Len(l) : EntriesOf(l, q)[i] = l[i]
         /\ \A k \in 1 .. Len(q) : EntriesOf(l, q)[Len(l) + k] = <<q[k]>>
  <1>1. Len(l) \in Nat /\ Len(q) \in Nat
    OBVIOUS
  <1>2. ASSUME NEW i \in 1 .. Len(l) PROVE EntriesOf(l, q)[i] = l[i]
    BY <1>1 DEF EntriesOf
  <1>3. ASSUME NEW k \in 1 .. Len(q) PROVE EntriesOf(l, q)[Len(l) + k] = <<q[k]>>
    <2>1. /\ Len(l) + k \in 1 .. Len(l) + Len(q) /\ ~(Len(l) + k <= Len(l))
          /\ Len(l) + k - Len(l) = k
      BY <1>1
    <2> HIDE DEF EntriesOf
    <2>2. EntriesOf(l, q)[Len(l) + k] = <<q[Len(l) + k - Len(l)]>>
      BY <2>1 DEF EntriesOf
    <2> QED
      BY <2>1, <2>2
  <1> QED
    BY <1>2, <1>3

(* A line more in the FIFO is an entry more.                                *)
LEMMA EntriesAppended ==
  ASSUME NEW S, NEW l \in Seq(Seq(S)), NEW q \in Seq(S), NEW e \in S
  PROVE  /\ Len(Append(q, e)) = Len(q) + 1
         /\ \A i \in 1 .. Len(l) + Len(q) :
              EntriesOf(l, Append(q, e))[i] = EntriesOf(l, q)[i]
         /\ EntriesOf(l, Append(q, e))[Len(l) + Len(q) + 1] = <<e>>
  <1> DEFINE r == Append(q, e)
  <1>1. /\ r \in Seq(S) /\ Len(r) = Len(q) + 1 /\ Len(l) \in Nat /\ Len(q) \in Nat
        /\ \A k \in 1 .. Len(q) : r[k] = q[k]
        /\ r[Len(q) + 1] = e
    BY AppendProperties
  <1> HIDE DEF r
  <1>2. /\ \A i \in 1 .. Len(l) : EntriesOf(l, r)[i] = l[i]
        /\ \A k \in 1 .. Len(r) : EntriesOf(l, r)[Len(l) + k] = <<r[k]>>
        /\ \A i \in 1 .. Len(l) : EntriesOf(l, q)[i] = l[i]
        /\ \A k \in 1 .. Len(q) : EntriesOf(l, q)[Len(l) + k] = <<q[k]>>
    BY <1>1, EntriesAt
  <1>3. ASSUME NEW i \in 1 .. Len(l) + Len(q)
        PROVE  EntriesOf(l, r)[i] = EntriesOf(l, q)[i]
    <2>1. CASE i <= Len(l)
      BY <1>1, <1>2, <2>1
    <2>2. CASE i > Len(l)
      <3>1. PICK k \in 1 .. Len(q) : i = Len(l) + k
        <4>1. i - Len(l) \in 1 .. Len(q) /\ i = Len(l) + (i - Len(l))
          BY <1>1, <2>2
        <4> QED
          BY <4>1
      <3>2. k \in 1 .. Len(r)
        BY <1>1
      <3> QED
        BY <1>1, <1>2, <3>1, <3>2
    <2> QED
      BY <1>1, <2>1, <2>2
  <1>4. EntriesOf(l, r)[Len(l) + Len(q) + 1] = <<e>>
    <2>1. Len(q) + 1 \in 1 .. Len(r) /\ Len(l) + Len(q) + 1 = Len(l) + (Len(q) + 1)
      BY <1>1
    <2> QED
      BY <1>1, <1>2, <2>1
  <1> QED
    BY <1>1, <1>3, <1>4 DEF r

(* The FIFO is one line shorter after fgets.                                *)
LEMMA TailLength ==
  ASSUME NEW c \in Nat, c >= 1
  PROVE  (IF 2 <= c THEN c - 2 + 1 ELSE 0) = c - 1
  OBVIOUS

(* A line copied from the FIFO to the log stays the entry it was.           *)
LEMMA EntriesMoved ==
  ASSUME NEW S, NEW l \in Seq(Seq(S)), NEW q \in Seq(S), q # << >>
  PROVE  /\ Append(l, <<q[1]>>) \in Seq(Seq(S)) /\ SubSeq(q, 2, Len(q)) \in Seq(S)
         /\ Len(Append(l, <<q[1]>>)) = Len(l) + 1
         /\ Len(SubSeq(q, 2, Len(q))) = Len(q) - 1
         /\ EntriesOf(Append(l, <<q[1]>>), SubSeq(q, 2, Len(q))) = EntriesOf(l, q)
  <1> DEFINE m == Append(l, <<q[1]>>)
             r == SubSeq(q, 2, Len(q))
  <1>0. /\ Len(l) \in Nat /\ Len(q) \in Nat /\ Len(q) >= 1 /\ <<q[1]>> \in Seq(S)
        /\ \A i \in 2 .. Len(q) : q[i] \in S
    OBVIOUS
  <1>1. /\ m \in Seq(Seq(S)) /\ Len(m) = Len(l) + 1
        /\ \A i \in 1 .. Len(l) : m[i] = l[i]
        /\ m[Len(l) + 1] = <<q[1]>>
    BY <1>0, AppendProperties
  <1>2. /\ r \in Seq(S) /\ Len(r) = Len(q) - 1
        /\ \A k \in 1 .. Len(q) - 1 : r[k] = q[k + 1]
    <2>1. /\ r \in Seq(S)
          /\ Len(r) = IF 2 <= Len(q) THEN Len(q) - 2 + 1 ELSE 0
          /\ \A i \in 1 .. Len(q) - 2 + 1 : r[i] = q[2 + i - 1]
      BY <1>0, SubSeqProperties
    <2> HIDE DEF m, r
    <2>2. Len(r) = Len(q) - 1
      <3> QED
        BY ONLY <1>0, <2>1, TailLength
    <2>3. \A k \in 1 .. Len(q) - 1 : k \in 1 .. Len(q) - 2 + 1 /\ 2 + k - 1 = k + 1
      BY <1>0
    <2> QED
      BY <2>1, <2>2, <2>3
  <1> HIDE DEF m, r
  <1>3. /\ \A i \in 1 .. Len(m) : EntriesOf(m, r)[i] = m[i]
        /\ \A k \in 1 .. Len(r) : EntriesOf(m, r)[Len(m) + k] = <<r[k]>>
        /\ \A i \in 1 .. Len(l) : EntriesOf(l, q)[i] = l[i]
        /\ \A k \in 1 .. Len(q) : EntriesOf(l, q)[Len(l) + k] = <<q[k]>>
    <2>1. m \in Seq(Seq(S)) /\ r \in Seq(S)
      BY <1>1, <1>2
    <2>2. /\ \A i \in 1 .. Len(m) : EntriesOf(m, r)[i] = m[i]
          /\ \A k \in 1 .. Len(r) : EntriesOf(m, r)[Len(m) + k] = <<r[k]>>
      BY ONLY <2>1, EntriesAt
    <2> QED
      BY <2>2, EntriesAt
  <1>4. ASSUME NEW i \in 1 .. Len(l) + Len(q)
        PROVE  EntriesOf(m, r)[i] = EntriesOf(l, q)[i]
    <2>1. CASE i <= Len(l)
      <3>1. i \in 1 .. Len(l) /\ i \in 1 .. Len(m)
        BY <1>0, <1>1, <2>1
      <3> QED
        BY <1>1, <1>3, <3>1
    <2>2. CASE i = Len(l) + 1
      <3>1. Len(l) + 1 \in 1 .. Len(m) /\ 1 \in 1 .. Len(q)
        BY <1>0, <1>1
      <3> QED
        BY <1>1, <1>3, <2>2, <3>1
    <2>3. CASE i > Len(l) + 1
      <3>1. PICK k \in 1 .. Len(q) - 1 : i = Len(l) + (k + 1)
        <4>1. /\ i - Len(l) - 1 \in 1 .. Len(q) - 1
              /\ i = Len(l) + ((i - Len(l) - 1) + 1)
          BY <1>0, <2>3
        <4> QED
          BY <4>1
      <3>2. /\ k \in 1 .. Len(r) /\ k + 1 \in 1 .. Len(q) /\ i = Len(m) + k
        BY <1>0, <1>1, <1>2, <3>1
      <3> QED
        BY <1>2, <1>3, <3>1, <3>2
    <2> QED
      BY <1>0, <2>1, <2>2, <2>3
  <1>5. /\ EntriesOf(l, q) = [i \in 1 .. Len(l) + Len(q) |-> EntriesOf(l, q)[i]]
        /\ EntriesOf(m, r) = [i \in 1 .. Len(l) + Len(q) |-> EntriesOf(m, r)[i]]
    <2>1. Len(m) + Len(r) = Len(l) + Len(q)
      BY <1>0, <1>1, <1>2
    <2> QED
      BY <2>1 DEF EntriesOf
  <1>6. EntriesOf(m, r) = EntriesOf(l, q)
    BY <1>4, <1>5
  <1> QED
    BY <1>1, <1>2, <1>6 DEF m, r

SaidInv ==
  /\ pc[MAIN] \in {"mkfifo", "fopen", "START"} => said[MAIN] = 0
  /\ pc[MAIN] \in {"pthread_create", "pthread_join", "END"} => said[MAIN] = 1
  /\ pc[MAIN] \in {"fclose", "wait", "exit"} => said[MAIN] = 2
  /\ said[MAIN] <= 2
  /\ \A w \in Writer : /\ said[w] <= Lines
                       /\ pc[w] = "log" => said[w] < Lines
                       /\ said[MAIN] = 0 => said[w] = 0
  /\ pc[MAIN] \in {"mkfifo", "fopen", "START", "pthread_create"}
       => \A w \in Writer : pc[w] = "unborn"
  /\ pc[MAIN] \in {"END", "fclose", "wait", "exit"}
       => \A w \in Writer : pc[w] = "ended"

OpenInv ==
  /\ pc[MAIN] \in {"mkfifo", "fopen"} => child \in {"fopen", "opening", "dead"}
  /\ pc[MAIN] \in {"START", "pthread_create", "pthread_join", "END", "fclose"}
       => writeEnd
  /\ child \in {"spinning", "exit"} => ~writeEnd
  /\ pc[MAIN] = "exit" => child \in {"exit", "dead"}

EndsInv ==
  /\ Entries > 0 => Written[1] = <<START>>
  /\ child # "dead" /\ said[MAIN] = 2 => Entries > 0 /\ Written[Entries] = <<END>>

ChildInv ==
  /\ child \in {"fopen", "opening", "fgets"}
       => \A i \in 1 .. Len(log) : log[i] # <<END>>
  /\ child = "spinning" => pc[MAIN] = "dead" /\ said[MAIN] < 2
  /\ child = "exit" =>
       /\ pipe = << >> /\ onDisk = Len(log)
       /\ said[MAIN] = 2

LInv ==
  /\ TypeOK
  /\ SaidInv
  /\ OpenInv
  /\ NoLineIsLost
  /\ EndsInv
  /\ ChildInv

(* What LInv says of the entries written depends on log, pipe and said, and *)
(* on the child that dies for good.                                         *)
LEMMA WrittenUnchanged ==
  ASSUME LInv, UNCHANGED <<log, pipe, said>>, child = "dead" => child' = "dead"
  PROVE  NoLineIsLost' /\ EndsInv'
  <1>1. Written' = Written /\ Entries' = Entries
    BY DEF Written, Entries
  <1> QED
    BY <1>1 DEF LInv, NoLineIsLost, EndsInv

(* Before the fork nothing has been written and nobody has the FIFO open.   *)
LEMMA InitHolds == Init => LInv
  <1> SUFFICES ASSUME Init PROVE LInv
    OBVIOUS
  <1>0. /\ << >> \in Seq(Line) /\ << >> \in Seq(Seq(Line))
        /\ Len(<< >>) = 0
        /\ Lines \in Nat /\ Capacity \in Nat /\ MAIN \notin Writer
    BY LogPipeAssumption DEF MAIN
  <1>1. TypeOK
    <2>1. /\ pc \in [Speaker -> MainPc \cup WriterPc]
          /\ pc[MAIN] \in MainPc /\ \A w \in Writer : pc[w] \in WriterPc
      BY <1>0 DEF Init, Speaker, MainPc, WriterPc
    <2>3. said \in [Speaker -> 0 .. Lines + 2]
      BY <1>0 DEF Init, Speaker
    <2>2. pipe \in Seq(Line) /\ log \in Seq(Seq(Line)) /\ Len(pipe) = 0 /\ Len(log) = 0
      BY <1>0 DEF Init
    <2>4. Len(pipe) <= Capacity /\ onDisk \in 0 .. Len(log)
      BY <1>0, <2>2 DEF Init
    <2> QED
      BY <2>1, <2>2, <2>3, <2>4 DEF Init, TypeOK
  <1>2. SaidInv
    BY <1>0 DEF Init, SaidInv
  <1>3. OpenInv
    BY <1>0 DEF Init, OpenInv
  <1>4. Entries = 0
    BY <1>0 DEF Init, Entries
  <1>5. NoLineIsLost
    BY <1>0, <1>4 DEF Init, NoLineIsLost, Written, Entries, Speaker
  <1>6. EndsInv /\ ChildInv
    BY <1>0, <1>4 DEF Init, EndsInv, ChildInv
  <1> QED
    BY <1>1, <1>2, <1>3, <1>5, <1>6 DEF LInv

(* The steps that write nothing.  TypeOK, SaidInv, OpenInv and ChildInv are *)
(* about finite places and counters; WrittenUnchanged does the rest.        *)
LEMMA LockPreserves ==
  ASSUME LInv, NEW p \in Speaker, TakeFifoLock(p)
  PROVE  LInv'
  <1>1. NoLineIsLost' /\ EndsInv'
    BY WrittenUnchanged DEF TakeFifoLock, fileVars
  <1>2. TypeOK'
    BY DEF LInv, TypeOK, TakeFifoLock, fileVars, Logging, Alive
  <1>3. SaidInv' /\ OpenInv' /\ ChildInv'
    BY DEF LInv, SaidInv, OpenInv, ChildInv, TakeFifoLock, fileVars
  <1> QED
    BY <1>1, <1>2, <1>3 DEF LInv

(* A thread that goes on to its next log_event, or returns, preserves LInv. *)
LEMMA ThreadPreserves ==
  ASSUME LInv, NEW w \in Writer, thread(w)
  PROVE  LInv'
  <1> USE LogPipeAssumption DEF MAIN
  <1>1. NoLineIsLost' /\ EndsInv'
    BY WrittenUnchanged DEF thread, fileVars
  <1>2. /\ pc[w] = "run" /\ pc'[w] \in {"log", "ended"}
        /\ pc'[w] = "log" => said[w] < Lines
        /\ \A q \in Speaker \ {w} : pc'[q] = pc[q]
        /\ pc' \in [Speaker -> MainPc \cup WriterPc]
    BY DEF LInv, TypeOK, thread, Goto, Speaker, WriterPc
  <1>3. w # MAIN /\ w \in Speaker /\ MAIN \in Speaker
    BY DEF Speaker
  <1>4. fifolock # w
    BY <1>2, <1>3 DEF LInv, TypeOK, thread, Logging
  <1>5. TypeOK'
    BY <1>2, <1>3, <1>4 DEF LInv, TypeOK, thread, fileVars, Logging, Alive, WriterPc, Speaker
  <1>6. SaidInv'
    BY <1>2, <1>3 DEF LInv, SaidInv, thread, Speaker
  <1>7. OpenInv' /\ ChildInv'
    BY <1>2, <1>3 DEF LInv, OpenInv, ChildInv, thread, fileVars
  <1> QED
    BY <1>1, <1>5, <1>6, <1>7 DEF LInv

(* MAIN moves on; no thread does.                                           *)
LEMMA MainPreserves ==
  ASSUME LInv,
         CHECK_MKFIFO \/ JoinThreads \/ CloseFifo \/ WaitForChild \/ OpenFifo
           \/ GatewayDies
  PROVE  LInv'
  <1> USE LogPipeAssumption DEF MAIN
  <1> DEFINE Steps == CHECK_MKFIFO \/ JoinThreads \/ CloseFifo \/ WaitForChild
                        \/ OpenFifo \/ GatewayDies
  <1>1. NoLineIsLost' /\ EndsInv'
    BY WrittenUnchanged DEF CHECK_MKFIFO, JoinThreads, CloseFifo, WaitForChild,
       OpenFifo, GatewayDies, fileVars
  <1>2. /\ pc' \in [Speaker -> MainPc \cup WriterPc]
        /\ pc'[MAIN] \in MainPc /\ \A w \in Writer : w \in Speaker /\ pc'[w] = pc[w]
    BY DEF LInv, TypeOK, CHECK_MKFIFO, JoinThreads, CloseFifo, WaitForChild,
       OpenFifo, GatewayDies, Goto, Speaker, MainPc
  <1>3. UNCHANGED <<said, fifolock, pipe, log, onDisk>>
    BY DEF CHECK_MKFIFO, JoinThreads, CloseFifo, WaitForChild, OpenFifo, GatewayDies,
       fileVars
  <1>4. fifo' \in BOOLEAN /\ writeEnd' \in BOOLEAN
        /\ child' \in {child, "fgets"}
    BY DEF LInv, TypeOK, CHECK_MKFIFO, JoinThreads, CloseFifo, WaitForChild,
       OpenFifo, GatewayDies
  <1>5. Alive' /\ fifolock # "nobody" => Logging(fifolock)'
    <2> SUFFICES ASSUME Alive', fifolock # "nobody" PROVE Logging(fifolock)'
      OBVIOUS
    <2>1. Alive
      BY DEF Alive, LInv, TypeOK, CHECK_MKFIFO, JoinThreads, CloseFifo, WaitForChild,
         OpenFifo, GatewayDies, Goto, Speaker
    <2>2. fifolock \in Speaker /\ Logging(fifolock)
      BY <2>1 DEF LInv, TypeOK
    <2>3. pc[MAIN] \notin {"log", "START", "END"}
      BY DEF Alive, LInv, TypeOK, CHECK_MKFIFO, JoinThreads, CloseFifo, WaitForChild,
         OpenFifo, GatewayDies, Goto, Speaker
    <2> QED
      BY <1>2, <1>3, <2>2, <2>3 DEF Logging, Speaker
  <1>6. TypeOK'
    BY <1>2, <1>3, <1>4, <1>5 DEF LInv, TypeOK
  <1>7. SaidInv'
    BY <1>2, <1>3 DEF LInv, TypeOK, SaidInv, CHECK_MKFIFO, JoinThreads, CloseFifo,
       WaitForChild, OpenFifo, GatewayDies, Goto, Speaker
  <1>8. OpenInv'
    BY <1>2, <1>3 DEF LInv, TypeOK, OpenInv, CHECK_MKFIFO, JoinThreads, CloseFifo,
       WaitForChild, OpenFifo, GatewayDies, Goto, Speaker
  <1>9. ChildInv'
    BY <1>2, <1>3 DEF LInv, TypeOK, ChildInv, CHECK_MKFIFO, JoinThreads, CloseFifo,
       WaitForChild, OpenFifo, GatewayDies, Goto, Speaker
  <1> QED
    BY <1>1, <1>6, <1>7, <1>8, <1>9 DEF LInv

(* main starting its threads (pthread_create) preserves LInv.               *)
LEMMA CreatePreserves ==
  ASSUME LInv, CreateThreads
  PROVE  LInv'
  <1> USE LogPipeAssumption DEF MAIN
  <1>1. NoLineIsLost' /\ EndsInv'
    BY WrittenUnchanged DEF CreateThreads, fileVars
  <1>2. /\ pc' \in [Speaker -> MainPc \cup WriterPc]
        /\ pc'[MAIN] = "pthread_join" /\ \A w \in Writer : pc'[w] = "run"
        /\ MAIN \in Speaker
    BY DEF LInv, TypeOK, CreateThreads, Speaker, MainPc, WriterPc
  <1>3. fifolock = "nobody"
    BY <1>2 DEF LInv, TypeOK, SaidInv, CreateThreads, Alive, Logging, Speaker
  <1>4. TypeOK'
    BY <1>2, <1>3 DEF LInv, TypeOK, CreateThreads, fileVars, MainPc, WriterPc
  <1>5. SaidInv' /\ OpenInv' /\ ChildInv'
    BY <1>2 DEF LInv, SaidInv, OpenInv, ChildInv, CreateThreads, fileVars
  <1> QED
    BY <1>1, <1>4, <1>5 DEF LInv

(* END is the last thing written and nowhere else.                          *)
LEMMA EndIsLast ==
  ASSUME LInv, child # "dead", NEW i \in 1 .. Entries, Written[i] = <<END>>
  PROVE  said[MAIN] = 2 /\ i = Entries
  <1>0. PICK p \in Speaker : \E k \in 1 .. said[p] : Written[i] = Entry(p, k)
    BY DEF LInv, NoLineIsLost
  <1>1. PICK k \in 1 .. said[p] : Written[i] = Entry(p, k)
    BY <1>0
  <1>2. p = MAIN /\ k = 2
    BY <1>1 DEF Entry, END
  <1>3. said[MAIN] \in Nat /\ Entries \in Nat
    BY LogPipeAssumption DEF LInv, TypeOK, Speaker, Entries
  <1>4. said[MAIN] = 2
    BY <1>1, <1>2, <1>3 DEF LInv, SaidInv
  <1>5. Written[Entries] = <<END>> /\ Entries \in 1 .. Entries
    BY <1>3, <1>4 DEF LInv, EndsInv
  <1>6. <<END>>[1][1] = MAIN /\ <<END>>[1][2] = 2
    BY DEF END
  <1>7. ~(i < Entries)
    BY <1>5, <1>6 DEF LInv, NoLineIsLost
  <1> QED
    BY <1>3, <1>4, <1>7

(* A sequence of one line.                                                  *)
LEMMA Singleton ==
  ASSUME NEW S, NEW s \in Seq(S), Len(s) = 1
  PROVE  s = <<s[1]>>
  OBVIOUS

(* fgets returns one line, and END only when it is all there is.            *)
LEMMA OneLineAtATime ==
  ASSUME LInv, child # "dead", pipe # << >>
  PROVE  /\ fgets = <<pipe[1]>>
         /\ pipe[1] = END => Newlines = {} /\ Len(pipe) = 1
  <1>1. pipe \in Seq(Line) /\ Len(pipe) \in Nat \ {0} /\ Len(log) \in Nat
    BY DEF LInv, TypeOK
  <1>2. \A k \in 1 .. Len(pipe) : /\ Len(log) + k \in 1 .. Entries
                                 /\ Written[Len(log) + k] = <<pipe[k]>>
    <2>1. pipe \in Seq(Line) /\ log \in Seq(Seq(Line))
      BY DEF LInv, TypeOK
    <2>2. \A k \in 1 .. Len(pipe) : Written[Len(log) + k] = <<pipe[k]>>
      BY <2>1, EntriesAt DEF Written
    <2> QED
      BY <1>1, <2>2 DEF Entries
  <1>3. \A k \in 1 .. Len(pipe) : pipe[k] = END => k = Len(pipe)
    BY <1>1, <1>2, EndIsLast DEF Entries
  <1>4. CASE Newlines = {}
    <2>1. Len(pipe) = 1
      <3>1. pipe[1] = END
        BY <1>1, <1>4 DEF Newlines
      <3>2. 1 \in 1 .. Len(pipe)
        BY <1>1
      <3> QED
        BY <1>3, <3>1, <3>2
    <2>2. pipe = <<pipe[1]>>
      BY <1>1, <2>1
    <2> QED
      BY <1>4, <2>1, <2>2 DEF fgets
  <1>5. CASE Newlines # {}
    <2>1. pipe[1] # END
      BY <1>1, <1>3, <1>5 DEF Newlines
    <2>2. 1 \in Newlines /\ \A j \in Newlines : 1 <= j /\ j \in Nat
      BY <1>1, <2>1 DEF Newlines
    <2>3. (CHOOSE k \in Newlines : \A j \in Newlines : k <= j) = 1
      BY <2>2
    <2>4. SubSeq(pipe, 1, 1) = <<pipe[1]>>
      <3>1. \A i \in 1 .. 1 : pipe[i] \in Line
        BY <1>1
      <3>2. /\ SubSeq(pipe, 1, 1) \in Seq(Line) /\ Len(SubSeq(pipe, 1, 1)) = 1
            /\ SubSeq(pipe, 1, 1)[1] = pipe[1]
        BY <3>1, SubSeqProperties
      <3> QED
        BY <3>2, Singleton
    <2> QED
      BY <1>5, <2>1, <2>3, <2>4 DEF fgets
  <1> QED
    BY <1>4, <1>5

(* The child opens, or meets the end of the stream.                         *)
LEMMA ChildPreserves ==
  ASSUME LInv, ChildOpens \/ EndOfStream
  PROVE  LInv'
  <1>1. NoLineIsLost' /\ EndsInv'
    BY WrittenUnchanged DEF ChildOpens, EndOfStream, fileVars
  <1>2. TypeOK'
    BY DEF LInv, TypeOK, ChildOpens, EndOfStream, fileVars, Logging, Alive
  <1>3. EndOfStream => pipe = << >> /\ ~writeEnd
    BY OneLineAtATime DEF EndOfStream, Waits, Newlines
  <1>4. SaidInv' /\ OpenInv'
    BY <1>3 DEF LInv, TypeOK, SaidInv, OpenInv, ChildOpens, EndOfStream, fileVars
  <1>5. EndOfStream => said[MAIN] < 2
    <2> SUFFICES ASSUME EndOfStream, said[MAIN] = 2 PROVE FALSE
      BY LogPipeAssumption DEF LInv, TypeOK, SaidInv, Speaker
    <2>1. Entries = Len(log) /\ Entries \in 1 .. Len(log) /\ Written[Entries] = <<END>>
      BY <1>3 DEF LInv, TypeOK, EndsInv, Entries, EndOfStream
    <2>2. log[Entries] = <<END>>
      BY <2>1, EntriesAt DEF LInv, TypeOK, Written
    <2> QED
      BY <2>1, <2>2 DEF LInv, ChildInv, EndOfStream
  <1>6. EndOfStream => pc[MAIN] \in {"wait", "dead"}
    BY <1>3 DEF LInv, TypeOK, OpenInv, EndOfStream, MainPc
  <1>7. ChildInv'
    BY <1>5, <1>6 DEF LInv, SaidInv, ChildInv, ChildOpens, EndOfStream, fileVars
  <1> QED
    BY <1>1, <1>2, <1>4, <1>7 DEF LInv

(* What is on disk is a beginning of what was written.                      *)
LEMMA EntriesOnDisk ==
  ASSUME NEW S, NEW l \in Seq(Seq(S)), NEW n \in 0 .. Len(l), NEW q \in Seq(S)
  PROVE  /\ SubSeq(l, 1, n) \in Seq(Seq(S)) /\ Len(SubSeq(l, 1, n)) = n
         /\ \A i \in 1 .. n :
              EntriesOf(SubSeq(l, 1, n), << >>)[i] = EntriesOf(l, q)[i]
  <1> DEFINE m == SubSeq(l, 1, n)
  <1>1. Len(l) \in Nat /\ n \in Nat /\ \A i \in 1 .. n : i \in 1 .. Len(l) /\ l[i] \in Seq(S)
    OBVIOUS
  <1>2. m \in Seq(Seq(S)) /\ Len(m) = n /\ \A i \in 1 .. n : m[i] = l[i]
    <2>1. /\ m \in Seq(Seq(S))
          /\ Len(m) = IF 1 <= n THEN n - 1 + 1 ELSE 0
          /\ \A i \in 1 .. n - 1 + 1 : m[i] = l[1 + i - 1]
      BY <1>1, SubSeqProperties
    <2> HIDE DEF m
    <2> QED
      BY <1>1, <2>1
  <1> HIDE DEF m
  <1>3. << >> \in Seq(S)
    OBVIOUS
  <1>4. /\ \A i \in 1 .. Len(m) : EntriesOf(m, << >>)[i] = m[i]
        /\ \A i \in 1 .. Len(l) : EntriesOf(l, q)[i] = l[i]
    BY <1>2, <1>3, EntriesAt
  <1> QED
    BY <1>1, <1>2, <1>4 DEF m

(* The death of the child leaves what was on disk, a beginning of what had  *)
(* been written, and whoever spoke in it had said all that before.          *)
LEMMA DeathPreserves ==
  ASSUME LInv, ChildDies
  PROVE  LInv'
  <1> USE LogPipeAssumption DEF MAIN
  <1>1. /\ pipe \in Seq(Line) /\ log \in Seq(Seq(Line)) /\ onDisk \in 0 .. Len(log)
        /\ Len(log) \in Nat /\ Len(pipe) \in Nat /\ Entries \in Nat
    BY DEF LInv, TypeOK, Entries
  <1>2. /\ log' = SubSeq(log, 1, onDisk) /\ pipe' = << >> /\ child' = "dead"
        /\ UNCHANGED <<pc, said, fifolock, fifo, writeEnd, onDisk>>
    BY DEF ChildDies
  <1>3. /\ log' \in Seq(Seq(Line)) /\ Len(log') = onDisk
        /\ \A i \in 1 .. onDisk : Written'[i] = Written[i]
    BY <1>1, <1>2, EntriesOnDisk DEF Written
  <1>4. Entries' = onDisk /\ \A i \in 1 .. Entries' : i \in 1 .. Entries
    <2>1. pipe' \in Seq(Line) /\ Len(pipe') = 0
      BY <1>2
    <2> QED
      BY <1>1, <1>3, <2>1 DEF Entries
  <1>5. \A i \in 1 .. Entries' : Written'[i] = Written[i]
    BY <1>3, <1>4
  <1>6. NoLineIsLost'
    <2>1. \A i \in 1 .. Entries' :
            \E p \in Speaker : \E k \in 1 .. said'[p] : Written'[i] = Entry(p, k)
      BY <1>2, <1>4, <1>5 DEF LInv, NoLineIsLost
    <2>2. ASSUME NEW i \in 1 .. Entries', NEW p \in Speaker, NEW k \in 1 .. said'[p],
                 Written'[i] = Entry(p, k), NEW j \in 1 .. k - 1
          PROVE  \E h \in 1 .. i - 1 : Written'[h] = Entry(p, j)
      <3>1. i \in 1 .. Entries /\ k \in 1 .. said[p] /\ Written[i] = Entry(p, k)
        BY <1>2, <1>4, <1>5, <2>2
      <3>2. PICK h \in 1 .. i - 1 : Written[h] = Entry(p, j)
        BY <3>1 DEF LInv, NoLineIsLost
      <3>3. h \in 1 .. Entries'
        BY <1>1, <1>4, <3>2
      <3> QED
        BY <1>5, <3>2, <3>3
    <2>3. \A i, j \in 1 .. Entries' : i < j /\ Written'[i][1][1] = Written'[j][1][1]
            => Written'[i][1][2] < Written'[j][1][2]
      BY <1>4, <1>5 DEF LInv, NoLineIsLost
    <2> QED
      BY <1>2, <2>1, <2>2, <2>3 DEF NoLineIsLost
  <1>7. EndsInv'
    <2>0. Entries' \in Nat
      BY <1>1, <1>4
    <2>1. Entries' > 0 => 1 \in 1 .. Entries' /\ Entries > 0
      <3>1. ASSUME Entries' > 0 PROVE 1 \in 1 .. Entries'
        BY <2>0, <3>1
      <3>2. ASSUME Entries' > 0 PROVE Entries > 0
        <4>1. 1 \in 1 .. Entries
          BY <1>4, <3>1, <3>2
        <4> QED
          BY <1>1, <4>1
      <3> QED
        BY <3>1, <3>2
    <2> QED
      BY <1>2, <1>5, <2>1 DEF LInv, EndsInv
  <1>8. TypeOK'
    <2>1. pipe' \in Seq(Line) /\ Len(pipe') <= Capacity /\ onDisk' \in 0 .. Len(log')
      BY <1>1, <1>2, <1>3
    <2> QED
      BY <1>2, <1>3, <2>1 DEF LInv, TypeOK, Logging, Alive
  <1>9. SaidInv' /\ OpenInv' /\ ChildInv'
    BY <1>2 DEF LInv, TypeOK, SaidInv, OpenInv, ChildInv, MainPc, ChildDies
  <1> QED
    BY <1>6, <1>7, <1>8, <1>9 DEF LInv

(* The gateway dying of SIGPIPE preserves LInv.                             *)
LEMMA BrokenPipePreserves ==
  ASSUME LInv, BrokenPipe
  PROVE  LInv'
  <1> USE LogPipeAssumption DEF MAIN
  <1>1. NoLineIsLost' /\ EndsInv'
    BY WrittenUnchanged DEF BrokenPipe, fileVars
  <1>2. /\ pc' \in [Speaker -> MainPc \cup WriterPc]
        /\ pc'[MAIN] = "dead" /\ \A w \in Writer : w \in Speaker /\ pc'[w] = pc[w]
    BY DEF LInv, TypeOK, BrokenPipe, Speaker, MainPc
  <1>3. TypeOK'
    BY <1>2 DEF LInv, TypeOK, BrokenPipe, fileVars, MainPc, Alive
  <1>4. SaidInv' /\ OpenInv' /\ ChildInv'
    BY <1>2 DEF LInv, SaidInv, OpenInv, ChildInv, BrokenPipe, fileVars
  <1> QED
    BY <1>1, <1>3, <1>4 DEF LInv

(* The holder of fifolock adds its next line.                               *)
LEMMA PutPreserves ==
  ASSUME LInv, NEW p \in Speaker, Alive, fifolock = p, HasReadEnd, PutLine(p),
         UNCHANGED <<child, fifo, writeEnd, fileVars>>
  PROVE  LInv'
  <1> USE LogPipeAssumption DEF MAIN
  <1>1. /\ pipe \in Seq(Line) /\ Len(pipe) \in Nat /\ Len(log) \in Nat
        /\ Entries \in Nat /\ said \in [Speaker -> Nat] /\ MAIN \in Speaker
        /\ said \in [Speaker -> 0 .. Lines + 2] /\ Lines \in Nat /\ p # "nobody"
    BY DEF LInv, TypeOK, Entries, Speaker
  <1>2. /\ child = "fgets" /\ pc[MAIN] \notin {"exit", "dead"}
        /\ p \in Writer => pc[p] = "log"
        /\ p = MAIN => pc[p] \in {"START", "END"}
    BY <1>1 DEF LInv, TypeOK, ChildInv, HasReadEnd, Alive, Logging, MainPc, WriterPc
  <1>3. /\ said[MAIN] < 2
        /\ p \in Writer => said[MAIN] = 1 /\ said[p] < Lines
        /\ pc[MAIN] = "START" => p = MAIN /\ said[MAIN] = 0
        /\ pc[MAIN] = "END" => p = MAIN /\ said[MAIN] = 1
    BY <1>1, <1>2 DEF LInv, TypeOK, SaidInv, MainPc, Speaker
  <1>4. /\ said'[p] = said[p] + 1
        /\ \A q \in Speaker \ {p} : said'[q] = said[q]
        /\ said' \in [Speaker -> Nat]
    BY <1>1 DEF PutLine
  <1>5. /\ <<p, said[p] + 1>> \in Line
        /\ said' \in [Speaker -> 0 .. Lines + 2]
    BY <1>1, <1>3, <1>4 DEF Line, Speaker, PutLine
  <1>6. /\ pipe' \in Seq(Line) /\ Len(pipe') = Len(pipe) + 1
        /\ \A k \in 1 .. Len(pipe) : pipe'[k] = pipe[k]
        /\ pipe'[Len(pipe) + 1] = <<p, said[p] + 1>>
    BY <1>1, <1>5, AppendProperties DEF PutLine
  <1>7. /\ Entries' = Entries + 1
        /\ \A i \in 1 .. Entries : Written'[i] = Written[i]
        /\ Written'[Entries + 1] = Entry(p, said[p] + 1)
    <2>1. log' = log /\ pipe' = Append(pipe, <<p, said[p] + 1>>)
      BY DEF PutLine, fileVars
    <2>2. Entries' = Entries + 1 /\ Entries = Len(log) + Len(pipe)
      BY <1>1, <1>6, <2>1 DEF Entries
    <2>3. log \in Seq(Seq(Line))
      BY DEF LInv, TypeOK
    <2>4. /\ \A i \in 1 .. Len(log) + Len(pipe) : Written'[i] = Written[i]
          /\ Written'[Len(log) + Len(pipe) + 1] = << <<p, said[p] + 1>> >>
      <3> DEFINE line == <<p, said[p] + 1>>
      <3> HIDE DEF line
      <3>1. /\ \A i \in 1 .. Len(log) + Len(pipe) :
                 EntriesOf(log, Append(pipe, line))[i] = EntriesOf(log, pipe)[i]
            /\ EntriesOf(log, Append(pipe, line))[Len(log) + Len(pipe) + 1] = <<line>>
        <4>1. line \in Line /\ pipe \in Seq(Line)
          BY <1>1, <1>5 DEF line
        <4> QED
          BY ONLY <2>3, <4>1, EntriesAppended
      <3>2. Written' = EntriesOf(log, Append(pipe, line))
        BY <2>1 DEF Written, line
      <3> QED
        BY <3>1, <3>2 DEF Written, line
    <2> QED
      BY <2>2, <2>4 DEF Entry
  <1>8. NoLineIsLost'
    <2>1. \A i \in 1 .. Entries' :
            \E q \in Speaker : \E k \in 1 .. said'[q] : Written'[i] = Entry(q, k)
      <3> SUFFICES ASSUME NEW i \in 1 .. Entries'
                   PROVE \E q \in Speaker : \E k \in 1 .. said'[q] : Written'[i] = Entry(q, k)
        OBVIOUS
      <3>1. CASE i = Entries + 1
        BY <1>1, <1>4, <1>7, <3>1
      <3>2. CASE i \in 1 .. Entries
        <4>1. PICK q \in Speaker : \E k \in 1 .. said[q] : Written[i] = Entry(q, k)
          BY <3>2 DEF LInv, NoLineIsLost
        <4>2. said[q] <= said'[q] /\ said[q] \in Nat /\ said'[q] \in Nat
          BY <1>1, <1>4
        <4> QED
          BY <1>7, <3>2, <4>1, <4>2
      <3> QED
        BY <1>1, <1>7, <3>1, <3>2
    <2>2. \A q \in Speaker : \A k \in 1 .. said'[q] :
            \E i \in 1 .. Entries' : Written'[i] = Entry(q, k)
      <3> SUFFICES ASSUME NEW q \in Speaker, NEW k \in 1 .. said'[q]
                   PROVE \E i \in 1 .. Entries' : Written'[i] = Entry(q, k)
        OBVIOUS
      <3>1. CASE q = p /\ k = said[p] + 1
        BY <1>1, <1>7, <3>1
      <3>2. CASE k \in 1 .. said[q]
        <4>1. PICK i \in 1 .. Entries : Written[i] = Entry(q, k)
          BY <1>2, <3>2 DEF LInv, NoLineIsLost
        <4> QED
          BY <1>1, <1>7, <4>1
      <3> QED
        BY <1>1, <1>4, <3>1, <3>2
    <2>3. \A i, j \in 1 .. Entries' : i < j /\ Written'[i][1][1] = Written'[j][1][1]
            => Written'[i][1][2] < Written'[j][1][2]
      <3> SUFFICES ASSUME NEW i \in 1 .. Entries', NEW j \in 1 .. Entries', i < j,
                          Written'[i][1][1] = Written'[j][1][1]
                   PROVE Written'[i][1][2] < Written'[j][1][2]
        OBVIOUS
      <3>1. CASE j = Entries + 1
        <4>1. i \in 1 .. Entries
          BY <1>1, <3>1
        <4>2. PICK q \in Speaker : \E k \in 1 .. said[q] : Written[i] = Entry(q, k)
          BY <4>1 DEF LInv, NoLineIsLost
        <4>3. PICK k \in 1 .. said[q] : Written[i] = Entry(q, k)
          BY <4>2
        <4>4. q = p
          BY <1>7, <3>1, <4>1, <4>3 DEF Entry
        <4>5. Written'[i][1][2] = k /\ Written'[j][1][2] = said[p] + 1
          BY <1>7, <3>1, <4>1, <4>3 DEF Entry
        <4> QED
          BY <1>1, <4>4, <4>5
      <3>2. CASE i \in 1 .. Entries /\ j \in 1 .. Entries
        BY <1>7, <3>2 DEF LInv, NoLineIsLost
      <3>3. i \in 1 .. Entries /\ (j \in 1 .. Entries \/ j = Entries + 1)
        <4>1. Entries' = Entries + 1 /\ Entries \in Nat
          BY <1>1, <1>7
        <4> QED
          BY <4>1
      <3> QED
        BY <3>1, <3>2, <3>3
    <2>4. ASSUME NEW i \in 1 .. Entries', NEW q \in Speaker, NEW k \in 1 .. said'[q],
                 Written'[i] = Entry(q, k), NEW j \in 1 .. k - 1
          PROVE  \E h \in 1 .. i - 1 : Written'[h] = Entry(q, j)
      <3>0. k \in Nat /\ j \in Nat /\ i \in Nat
        BY <1>1, <1>4
      <3>1. CASE i = Entries + 1
        <4>1. q = p /\ k = said[p] + 1
          BY <1>7, <2>4, <3>1 DEF Entry
        <4>2. j \in 1 .. said[q]
          BY <1>1, <3>0, <4>1
        <4>3. PICK h \in 1 .. Entries : Written[h] = Entry(q, j)
          BY <1>2, <4>2 DEF LInv, NoLineIsLost
        <4> QED
          BY <1>1, <1>7, <3>1, <4>3
      <3>2. CASE i \in 1 .. Entries
        <4>1. Written[i] = Entry(q, k)
          BY <1>7, <2>4, <3>2
        <4>2. k \in 1 .. said[q]
          <5>1. PICK r \in Speaker : \E n \in 1 .. said[r] : Written[i] = Entry(r, n)
            BY <3>2 DEF LInv, NoLineIsLost
          <5> QED
            BY <4>1, <5>1 DEF Entry
        <4>3. PICK h \in 1 .. i - 1 : Written[h] = Entry(q, j)
          BY <3>2, <4>1, <4>2 DEF LInv, NoLineIsLost
        <4>4. h \in 1 .. Entries
          BY <1>1, <3>2
        <4> QED
          BY <1>7, <4>3, <4>4
      <3> QED
        BY <1>1, <1>7, <3>1, <3>2
    <2> QED
      BY <2>1, <2>2, <2>3, <2>4 DEF NoLineIsLost
  <1>9. EndsInv'
    <2>1. CASE Entries = 0
      <3>1. said[MAIN] = 0 /\ p = MAIN
        BY <1>1, <1>2, <1>3, <2>1 DEF LInv, NoLineIsLost, Speaker
      <3> QED
        BY <1>4, <1>7, <2>1, <3>1 DEF EndsInv, Entry, START
    <2>2. CASE Entries > 0
      <3>1. Written'[1] = <<START>>
        BY <1>1, <1>7, <2>2 DEF LInv, EndsInv
      <3>2. said'[MAIN] = 2 => Written'[Entries'] = <<END>>
        BY <1>1, <1>3, <1>4, <1>7 DEF Entry, END
      <3> QED
        BY <1>1, <1>7, <3>1, <3>2 DEF EndsInv
    <2> QED
      BY <1>1, <2>1, <2>2
  <1>10. /\ pc' \in [Speaker -> MainPc \cup WriterPc]
         /\ p = MAIN => pc'[MAIN] = IF pc[MAIN] = "START" THEN "pthread_create" ELSE "fclose"
         /\ p \in Writer => pc'[p] = "run"
         /\ \A q \in Speaker \ {p} : pc'[q] = pc[q]
    BY <1>1, <1>2 DEF LInv, TypeOK, PutLine, AfterLine, MainPc, WriterPc, Speaker
  <1>11. TypeOK'
    <2>1. /\ pc' \in [Speaker -> MainPc \cup WriterPc]
          /\ fifolock' = "nobody" /\ Len(pipe') <= Capacity /\ pipe' \in Seq(Line)
      <3>1. Len(pipe) < Capacity /\ fifolock' = "nobody"
        BY DEF PutLine
      <3> QED
        BY <1>1, <1>6, <1>10, <3>1, LogPipeAssumption
    <2>2. pc'[MAIN] \in MainPc
      <3>1. pc[MAIN] \in MainPc
        BY DEF LInv, TypeOK
      <3> QED
        BY <1>1, <1>10, <3>1 DEF MainPc
    <2>3. \A w \in Writer : pc'[w] \in WriterPc
      <3>1. \A w \in Writer : pc[w] \in WriterPc /\ w \in Speaker
        BY DEF LInv, TypeOK, Speaker
      <3> QED
        BY <1>10, <3>1 DEF WriterPc
    <2> QED
      BY <1>5, <2>1, <2>2, <2>3 DEF LInv, TypeOK, fileVars
  <1>12. SaidInv'
    <2>1. CASE p = MAIN
      <3>1. /\ \A w \in Writer : w # MAIN /\ said'[w] = said[w] /\ pc'[w] = pc[w]
            /\ pc[MAIN] \in {"START", "END"}
        BY <1>2, <1>4, <1>10, <2>1 DEF Speaker
      <3>2. \/ pc[MAIN] = "START" /\ pc'[MAIN] = "pthread_create" /\ said'[MAIN] = 1
            \/ pc[MAIN] = "END" /\ pc'[MAIN] = "fclose" /\ said'[MAIN] = 2
        BY <1>3, <1>4, <1>10, <2>1, <3>1
      <3> QED
        BY <3>1, <3>2 DEF LInv, SaidInv
    <2>2. CASE p \in Writer
      <3>1. /\ said'[MAIN] = said[MAIN] /\ pc'[MAIN] = pc[MAIN]
            /\ said'[p] = said[p] + 1 /\ pc'[p] = "run" /\ pc[p] = "log"
            /\ \A w \in Writer \ {p} : said'[w] = said[w] /\ pc'[w] = pc[w]
        BY <1>1, <1>2, <1>4, <1>10, <2>2 DEF Speaker
      <3>2. /\ said[MAIN] = 1 /\ said[p] < Lines
            /\ said[p] \in Nat /\ Lines \in Nat
        BY <1>1, <1>3, <2>2
      <3> QED
        BY <2>2, <3>1, <3>2 DEF LInv, SaidInv
    <2> QED
      BY <2>1, <2>2 DEF Speaker
  <1>13. OpenInv' /\ ChildInv'
    BY <1>1, <1>2, <1>10 DEF LInv, OpenInv, ChildInv, fileVars, Speaker
  <1> QED
    BY <1>8, <1>9, <1>11, <1>12, <1>13 DEF LInv

(* The child copies a line: what has been written stays the same.           *)
LEMMA ReadPreserves ==
  ASSUME LInv, ReadLine
  PROVE  LInv'
  <1> USE LogPipeAssumption DEF MAIN
  <1>1. /\ pipe \in Seq(Line) /\ Len(pipe) \in Nat /\ Len(log) \in Nat
        /\ log \in Seq(Seq(Line))
    BY DEF LInv, TypeOK
  <1>2. pipe # << >>
    BY DEF ReadLine, fgets, Newlines
  <1>3. /\ fgets = <<pipe[1]>>
        /\ pipe[1] = END => Len(pipe) = 1 /\ ~writeEnd
    BY <1>2, OneLineAtATime DEF ReadLine, Waits
  <1>4. <<pipe[1]>> \in Seq(Line) /\ Len(<<pipe[1]>>) = 1
    BY <1>1, <1>2
  <1>5. pipe' = SubSeq(pipe, 2, Len(pipe)) /\ log' = Append(log, <<pipe[1]>>)
    BY <1>3, <1>4 DEF ReadLine, WriteEntry
  <1>6. /\ log' \in Seq(Seq(Line)) /\ pipe' \in Seq(Line)
        /\ Len(log') = Len(log) + 1 /\ Len(pipe') = Len(pipe) - 1
        /\ Written' = Written
    BY <1>1, <1>2, <1>5, EntriesMoved DEF Written
  <1>7. Entries' = Entries /\ Entries \in Nat
    BY <1>1, <1>6 DEF Entries
  <1>9. UNCHANGED <<pc, said, fifolock, fifo, writeEnd>> /\ child = "fgets"
    BY DEF ReadLine
  <1>10. NoLineIsLost' /\ EndsInv'
    BY <1>6, <1>7, <1>9 DEF LInv, NoLineIsLost, EndsInv
  <1>11. /\ onDisk' \in 0 .. Len(log')
         /\ child' = IF pipe[1] = END THEN "exit" ELSE "fgets"
         /\ pipe[1] = END => onDisk' = Len(log')
    BY <1>1, <1>3, <1>6, <1>9 DEF LInv, TypeOK, ReadLine, WriteEntry
  <1>12. TypeOK'
    BY <1>1, <1>6, <1>9, <1>11 DEF LInv, TypeOK, Logging, Alive
  <1>13. SaidInv'
    BY <1>9 DEF LInv, SaidInv
  <1>14. OpenInv'
    BY <1>3, <1>9, <1>11 DEF LInv, OpenInv
  <1>15. pipe[1] = END => said[MAIN] = 2
    <2>1. Len(log) + 1 \in 1 .. Entries /\ 1 \in 1 .. Len(pipe)
      BY <1>1, <1>2 DEF Entries
    <2>2. Written[Len(log) + 1] = <<pipe[1]>>
      BY <1>1, <2>1, EntriesAt DEF Written
    <2> QED
      BY <1>9, <2>1, <2>2, EndIsLast
  <1>16. ChildInv'
    <2>1. CASE pipe[1] = END
      <3>0. Len(pipe') = 0
        BY <1>3, <1>6, <2>1
      <3>1. pipe' = << >>
        BY <1>6, <3>0
      <3> QED
        BY <1>9, <1>11, <1>15, <2>1, <3>1 DEF ChildInv
    <2>2. CASE pipe[1] # END
      <3>1. \A i \in 1 .. Len(log') : log'[i] # <<END>>
        <4>1. /\ \A i \in 1 .. Len(log) : log'[i] = log[i]
              /\ log'[Len(log) + 1] = <<pipe[1]>>
          BY <1>1, <1>4, <1>5, AppendProperties
        <4>2. \A i \in 1 .. Len(log') : i \in 1 .. Len(log) \/ i = Len(log) + 1
          BY <1>1, <1>6
        <4>3. <<pipe[1]>> # <<END>>
          BY <2>2
        <4> QED
          BY <1>9, <4>1, <4>2, <4>3 DEF LInv, ChildInv
      <3> QED
        BY <1>11, <2>2, <3>1 DEF ChildInv
    <2> QED
      BY <2>1, <2>2
  <1> QED
    BY <1>10, <1>12, <1>13, <1>14, <1>16 DEF LInv

(* Every step of the two processes preserves LInv.                          *)
LEMMA NextPreservesLInv == LInv /\ [Next]_vars => LInv'
  <1> SUFFICES ASSUME LInv, [Next]_vars PROVE LInv'
    OBVIOUS
  <1>1. CASE main
    BY <1>1, MainPreserves, CreatePreserves DEF main
  <1>2. CASE OpenFifo \/ GatewayDies
    BY <1>2, MainPreserves
  <1>3. CASE log_process
    BY <1>3, ChildPreserves, ReadPreserves DEF log_process
  <1>4. ASSUME NEW w \in Writer, thread(w) PROVE LInv'
    BY <1>4, ThreadPreserves
  <1>5. ASSUME NEW p \in Writer \cup {MAIN}, log_this(p) PROVE LInv'
    BY <1>5, LockPreserves, PutPreserves, BrokenPipePreserves DEF log_this, Speaker
  <1>6. CASE ChildDies
    BY <1>6, DeathPreserves
  <1>7. CASE UNCHANGED vars
    <2>1. NoLineIsLost' /\ EndsInv'
      BY <1>7, WrittenUnchanged DEF vars, fileVars
    <2>2. TypeOK'
      BY <1>7 DEF LInv, TypeOK, vars, fileVars, Logging, Alive
    <2> QED
      BY <1>7, <2>1, <2>2 DEF LInv, SaidInv, OpenInv, ChildInv, vars, fileVars
  <1> QED
    BY <1>1, <1>2, <1>3, <1>4, <1>5, <1>6, <1>7 DEF Next, Stopped

(* LInv holds in every state the two processes can reach.                   *)
LEMMA InvariantHolds == Spec => []LInv
  <1> QED
    BY InitHolds, NextPreservesLInv, PTL DEF Spec

(* Every variable keeps its type, and fifolock is held by who is in         *)
(* log_this, for any number of threads, lines and room in the FIFO.         *)
THEOREM TypeCorrect == Spec => []TypeOK
  <1>1. LInv => TypeOK
    BY DEF LInv
  <1> QED
    BY <1>1, InvariantHolds, PTL

(* No line is lost, doubled, torn from its entry or overtaken, unless the   *)
(* child dies, and then only the end of the log is lost.                    *)
THEOREM NothingIsLost == Spec => []NoLineIsLost
  <1>1. LInv => NoLineIsLost
    BY DEF LInv
  <1> QED
    BY <1>1, InvariantHolds, PTL

(* log_process ends with the complete log on disk.                          *)
THEOREM TheLogIsComplete == Spec => []LogIsComplete
  <1>1. LInv => LogIsComplete
    <2> SUFFICES ASSUME LInv, child = "exit"
                 PROVE  /\ pipe = << >> /\ onDisk = Len(log)
                        /\ log[1] = <<START>> /\ log[Len(log)] = <<END>>
                        /\ said[MAIN] = 2
      BY DEF LogIsComplete
    <2>1. pipe = << >> /\ onDisk = Len(log) /\ said[MAIN] = 2
      BY DEF LInv, ChildInv
    <2>2. Entries = Len(log) /\ Len(log) \in Nat
      BY <2>1 DEF LInv, TypeOK, Entries
    <2>3. Len(log) > 0 /\ Written[1] = <<START>> /\ Written[Len(log)] = <<END>>
      BY <2>1, <2>2 DEF LInv, EndsInv
    <2>4. 1 \in 1 .. Entries /\ Len(log) \in 1 .. Entries /\ 1 <= Len(log)
      BY <2>2, <2>3
    <2>5. Written[1] = log[1] /\ Written[Len(log)] = log[Len(log)]
      <3>1. log \in Seq(Seq(Line)) /\ pipe \in Seq(Line)
        BY DEF LInv, TypeOK
      <3>2. \A k \in 1 .. Len(log) : EntriesOf(log, pipe)[k] = log[k]
        BY ONLY <3>1, EntriesAt
      <3> QED
        BY <2>2, <2>4, <3>2 DEF Written
    <2> QED
      BY <2>1, <2>3, <2>5
  <1> QED
    BY <1>1, InvariantHolds, PTL

(* The child spins at the end of the stream only when the gateway died      *)
(* before END.                                                              *)
THEOREM SpinningMeansDeath == Spec => []SpinsOnlyAfterDeath
  <1>1. LInv => SpinsOnlyAfterDeath
    BY DEF LInv, ChildInv, SpinsOnlyAfterDeath
  <1> QED
    BY <1>1, InvariantHolds, PTL
==============================================================================
