---------------------------- MODULE Gateway_proofs ----------------------------
(***************************************************************************)
(* Proofs about the main process, for any number of measurements.          *)
(*                                                                         *)
(* IInv is the inductive invariant: the list is an interval of nodes       *)
(* (ListInv), what is freed lies before it (FreedInv), the flags in the    *)
(* nodes say how far each manager is (DeliveryInv), the call of            *)
(* sbuffer_read in progress has skipped only what its manager has seen     *)
(* (ScanInv), and the threads' places say which of them may be where       *)
(* (ControlInv).  One lemma per action shows that its step preserves IInv. *)
(*                                                                         *)
(* After a freed node has been accessed, memory is not "sound" and nothing *)
(* is claimed of the data any more: DeliveryInv and the properties about   *)
(* data are conditional on Sound.  ListInv and FreedInv hold all the same. *)
(***************************************************************************)
EXTENDS GatewayProperties, TLAPS

(* How many measurements m has read, and whether MAIN still waits for the   *)
(* threads: afterwards sbuffer_free has left tail where it was.             *)
K(m) == Len(delivered[m])
Joining == pc["MAIN"] = "join"

(* The list is the interval head .. allocated, linked in order. *)
ListInv ==
  /\ Joining => (head = Null <=> tail = Null)
  /\ head # Null => head <= tail /\ tail = allocated
  /\ \A n \in Node : head # Null /\ head <= n =>
       next[n] = IF n < allocated THEN n + 1 ELSE Null
  /\ \A n \in Node : n > allocated => next[n] = Null

(* Everything before head has been freed and nothing behind it.             *)
FreedInv ==
  /\ \A n \in freed : n <= allocated
  /\ head = Null => \A n \in Node : n <= allocated => n \in freed
  /\ head # Null => \A n \in Node : (n < head => n \in freed)
                                 /\ (n > head => n \notin freed)
  /\ head \in freed => terminated_by_CONNMGR
  /\ ~Sound => terminated_by_CONNMGR /\ (head \in freed \/ ~Joining)

DeliveryInv ==
  Sound =>
    /\ \A m \in Managers :
         /\ K(m) <= allocated
         /\ \A i \in 1 .. K(m) : delivered[m][i] = i
         /\ \A n \in Node : n <= allocated => (m \in seen[n] <=> n <= K(m))
         /\ head # Null => head <= K(m) + 1
         /\ head = Null /\ Joining => K(m) = allocated
    /\ head # Null => \E m \in Managers : K(m) <= head

(* The head has not been seen by both managers. *)
HeadWanted == \E m \in Managers : K(m) < head

ScanInv ==
  /\ reader = NoOne => cur = Null /\ ~retired
  /\ reader # NoOne => head # Null /\ head <= cur /\ cur <= allocated
  /\ reader # NoOne /\ head \in freed => cur = head
  /\ Sound => (cur > head \/ retired => HeadWanted)
  /\ retired => cur = head
  /\ \A m \in Managers : Sound /\ reader = m => cur <= K(m) + 1

ControlInv ==
  /\ \A m \in Managers :
       /\ reader = m <=> pc[m] = "scan"
       /\ arg[m] => terminated_by_CONNMGR
       /\ Sound /\ pc[m] \in {"unlock", "read"}
            => K(m) < allocated \/ terminated_by_CONNMGR
       /\ Sound /\ pc[m] \in {"enter", "scan"} => K(m) < allocated \/ arg[m]
  /\ pc["CONNMGR"] \notin {"signal", "done"} => ~terminated_by_CONNMGR
  /\ ~Joining => \A t \in Threads \ {"MAIN"} : pc[t] = "done"
  /\ pc["SQLMGR"] = "insert" => K("SQLMGR") > 0

IInv ==
  /\ TypeOK
  /\ ListInv
  /\ FreedInv
  /\ DeliveryInv
  /\ ScanInv
  /\ ControlInv

(* A step that leaves the buffer alone and sets no flag back preserves what *)
(* IInv says of the buffer: the flag and MAIN's place are all it reads of   *)
(* the rest of the process.                                                 *)
LEMMA BufferUnchanged ==
  ASSUME IInv, UNCHANGED bufferVars, pc'["MAIN"] = pc["MAIN"],
         terminated_by_CONNMGR => terminated_by_CONNMGR'
  PROVE  BufferTypeOK' /\ ListInv' /\ FreedInv' /\ DeliveryInv' /\ ScanInv'
  <1>1. BufferTypeOK'
    BY DEF IInv, TypeOK, BufferTypeOK, bufferVars
  <1>2. ListInv' /\ FreedInv' /\ DeliveryInv' /\ ScanInv'
    BY DEF IInv, bufferVars, ListInv, FreedInv, DeliveryInv, ScanInv, Joining, K,
           HeadWanted, Sound
  <1> QED
    BY <1>1, <1>2

(* The initial states of main_process, sbuffer_init included, satisfy IInv. *)
LEMMA InitHolds == Init => IInv
  <1> SUFFICES ASSUME Init PROVE IInv
    OBVIOUS
  <1>0. << >> \in Seq(Node \cup {Null})
    OBVIOUS
  <1>1. BufferTypeOK
    <2>1. delivered \in [Managers -> Seq(Node \cup {Null})]
      BY <1>0 DEF Init, sbuffer_init
    <2>2. seen \in [Node -> SUBSET Managers] /\ next \in [Node -> Node \cup {Null}] /\ arg \in [Managers -> BOOLEAN]
      BY DEF Init, sbuffer_init
    <2>3. allocated \in 0 .. MaxData
      BY MaxDataAssumption DEF Init, sbuffer_init
    <2> QED
      BY <2>1, <2>2, <2>3 DEF Init, sbuffer_init, BufferTypeOK
  <1>2. PcTypeOK
    BY DEF Init, PcTypeOK, Threads, Managers,
       ConnMgrPc, ManagerPc, SqlMgrPc, MainPc, InitConnectionPc, DbWaitPc
  <1>3. ControlTypeOK
    <2>1. stored \in Seq(Node \cup {Null})
      BY <1>0 DEF Init
    <2>2. opens \in 0 .. MaxOpens - 1
      BY DEF Init, MaxOpens
    <2>3. quit \in [Managers -> BOOLEAN]
      BY DEF Init
    <2> QED
      BY <2>1, <2>2, <2>3 DEF Init, ControlTypeOK
  <1>4. ListInv /\ FreedInv /\ DeliveryInv /\ ScanInv
    BY MaxDataAssumption DEF Init, sbuffer_init, Node, Null, NoOne, Managers, ListInv, FreedInv,
       DeliveryInv, ScanInv, Joining, K, HeadWanted, Sound
  <1>5. ControlInv
    BY DEF Init, sbuffer_init, ControlInv, Managers, Threads, NoOne, Joining
  <1> QED
    BY <1>1, <1>2, <1>3, <1>4, <1>5 DEF IInv, TypeOK

(* The wait for the database (connmgr.c:71-90, datamgr.c:129-143,           *)
(* sensor_db.c:19-33) preserves IInv in each of the three threads.          *)
LEMMA WaitForDatabaseStep ==
  ASSUME IInv, NEW t \in Threads \ {"MAIN"}, WaitForDatabase(t)
  PROVE  IInv'
  <1>1. PcTypeOK'
    BY DEF IInv, TypeOK, PcTypeOK, WaitForDatabase, DbTest, DbSleep, DbCheck, Goto,
       Threads, Managers, ConnMgrPc, ManagerPc, SqlMgrPc, MainPc, DbWaitPc
  <1>2. ControlTypeOK'
    BY DEF IInv, TypeOK, ControlTypeOK, WaitForDatabase, DbTest, DbSleep, DbCheck, Goto,
       flagVars, dbVars, Threads, Managers
  <1>3. BufferTypeOK' /\ ListInv' /\ FreedInv' /\ DeliveryInv' /\ ScanInv'
    BY BufferUnchanged DEF WaitForDatabase, DbTest, DbSleep, DbCheck, Goto, flagVars,
       IInv, TypeOK, PcTypeOK, Threads, Managers
  <1>4. ControlInv'
    BY DEF IInv, TypeOK, PcTypeOK, ControlInv, WaitForDatabase, DbTest, DbSleep, DbCheck, Goto,
       bufferVars, flagVars, dbVars, Threads, Managers, Joining, K, Sound, NoOne
  <1> QED
    BY <1>1, <1>2, <1>3, <1>4 DEF IInv, TypeOK

(* Steps of CONNMGR that leave the buffer alone. *)
ConnMgrControl == Bind \/ Announce \/ CloseServer \/ SetTerminated \/ SignalTerminated

(* They preserve IInv: terminated_by_CONNMGR is set once, on the way out.   *)
LEMMA ConnMgrControlStep ==
  ASSUME IInv, ConnMgrControl
  PROVE  IInv'
  <1> USE DEF ConnMgrControl, Bind, Announce, CloseServer, SetTerminated,
              SignalTerminated, Goto, flagVars, dbVars
  <1>1. PcTypeOK'
    BY DEF IInv, TypeOK, PcTypeOK, Threads, Managers, ConnMgrPc, DbWaitPc
  <1>2. ControlTypeOK'
    BY DEF IInv, TypeOK, ControlTypeOK, Broadcast
  <1>3. BufferTypeOK' /\ ListInv' /\ FreedInv' /\ DeliveryInv' /\ ScanInv'
    BY BufferUnchanged DEF IInv, TypeOK, PcTypeOK, Threads
  <1>4. ControlInv'
    BY DEF IInv, TypeOK, PcTypeOK, ControlInv, bufferVars, Threads, Managers,
           Joining, K, Sound
  <1> QED
    BY <1>1, <1>2, <1>3, <1>4 DEF IInv, TypeOK

(* Steps of a manager's loop that leave the buffer alone. *)
ManagerControl(m) ==
  LoopTest(m) \/ Lock(m) \/ TestFlag(m) \/ Sleep(m) \/ Wake(m) \/ Unlock(m)

(* They preserve IInv: none of them is within a call of sbuffer_read.       *)
LEMMA ManagerControlStep ==
  ASSUME IInv, NEW m \in Managers, ManagerControl(m)
  PROVE  IInv'
  <1> USE DEF ManagerControl, LoopTest, Lock, TestFlag, Sleep, Wake, Unlock, Goto,
              flagVars, dbVars
  <1>1. PcTypeOK'
    BY DEF IInv, TypeOK, PcTypeOK, Threads, Managers, ConnMgrPc, ManagerPc, SqlMgrPc,
           MainPc, DbWaitPc
  <1>2. ControlTypeOK'
    BY DEF IInv, TypeOK, ControlTypeOK, Threads, Managers
  <1>3. BufferTypeOK' /\ ListInv' /\ FreedInv' /\ DeliveryInv' /\ ScanInv'
    BY BufferUnchanged DEF IInv, TypeOK, PcTypeOK, Threads, Managers
  <1>4. ControlInv'
    BY DEF IInv, TypeOK, PcTypeOK, ControlInv, bufferVars, Threads, Managers,
           Joining, K, Sound
  <1> QED
    BY <1>1, <1>2, <1>3, <1>4 DEF IInv, TypeOK

(* The steps of SQLMGR in init_connection and insert_sensor preserve IInv:  *)
(* the row inserted is the one sbuffer_read has just delivered.             *)
LEMMA SqlMgrStep ==
  ASSUME IInv, init_connection \/ insert_sensor
  PROVE  IInv'
  <1> USE DEF init_connection, OpenDatabase, OpenFailed, SetConn, BroadcastConn,
              CreateTable, Republish, insert_sensor, Goto, flagVars, dbVars
  <1>1. PcTypeOK'
    BY DEF IInv, TypeOK, PcTypeOK, Threads, Managers, ConnMgrPc, ManagerPc, SqlMgrPc,
           MainPc, DbWaitPc, InitConnectionPc
  <1>2. ControlTypeOK'
    <2>1. CASE init_connection
      <3>1. opens' \in 0 .. MaxOpens - 1
        BY <2>1 DEF IInv, TypeOK, ControlTypeOK, MaxOpens
      <3>2. UNCHANGED <<stored, lost, quit>>
        BY <2>1
      <3> QED
        BY <2>1, <3>1, <3>2 DEF IInv, TypeOK, ControlTypeOK, Broadcast
    <2>2. CASE insert_sensor
      <3> DEFINE row == delivered["SQLMGR"][Len(delivered["SQLMGR"])]
      <3>1. row \in Node \cup {Null}
        BY <2>2 DEF IInv, TypeOK, BufferTypeOK, ControlInv, Managers, K
      <3>2. Append(stored, row) \in Seq(Node \cup {Null})
        BY <3>1 DEF IInv, TypeOK, ControlTypeOK
      <3> QED
        BY <2>2, <3>1, <3>2 DEF IInv, TypeOK, ControlTypeOK
    <2> QED
      BY <2>1, <2>2
  <1>3. BufferTypeOK' /\ ListInv' /\ FreedInv' /\ DeliveryInv' /\ ScanInv'
    BY BufferUnchanged DEF IInv, TypeOK, PcTypeOK, Threads, Managers
  <1>4. ControlInv'
    BY DEF IInv, TypeOK, PcTypeOK, ControlInv, bufferVars, Threads, Managers,
           Joining, K, Sound
  <1> QED
    BY <1>1, <1>2, <1>3, <1>4 DEF IInv, TypeOK

(* A return of pthread_cond_wait without a broadcast preserves IInv.        *)
LEMMA SpuriousWakeupStep ==
  ASSUME IInv, SpuriousWakeup
  PROVE  IInv'
  <1>1. PcTypeOK' /\ ControlTypeOK' /\ ControlInv'
    BY DEF SpuriousWakeup, IInv, TypeOK, PcTypeOK, ControlTypeOK, ControlInv,
           flagVars, dbVars, bufferVars, Joining, K, Sound
  <1>2. BufferTypeOK' /\ ListInv' /\ FreedInv' /\ DeliveryInv' /\ ScanInv'
    BY BufferUnchanged DEF SpuriousWakeup, flagVars
  <1> QED
    BY <1>1, <1>2 DEF IInv, TypeOK

(* getinfo preserves IInv: it tells the truth about a list without freed    *)
(* nodes, and on one with a freed head only the shutdown can have come this *)
(* far.                                                                     *)
LEMMA TestDataStep ==
  ASSUME IInv, NEW m \in Managers, TestData(m)
  PROVE  IInv'
  <1> USE DEF TestData, getinfo, Goto, listVars, callVars, flagVars, dbVars
  <1>1. PcTypeOK' /\ ControlTypeOK'
    BY DEF IInv, TypeOK, PcTypeOK, ControlTypeOK, Threads, Managers, ConnMgrPc,
           ManagerPc, SqlMgrPc, MainPc
  <1>2. BufferTypeOK' /\ ListInv'
    BY DEF IInv, TypeOK, PcTypeOK, BufferTypeOK, ListInv, Joining, Threads, Managers
  <1>3. Linked \cap freed # {} => head \in freed
    BY DEF IInv, TypeOK, BufferTypeOK, ListInv, FreedInv, Linked, Node, Null
  <1>4. FreedInv'
    BY <1>3 DEF IInv, TypeOK, PcTypeOK, FreedInv, Joining, Sound, Threads, Managers
  <1>5. DeliveryInv' /\ ScanInv'
    BY DEF IInv, TypeOK, PcTypeOK, DeliveryInv, ScanInv, Joining, Sound, K, HeadWanted,
           Threads, Managers
  <1>6. Sound /\ HasNewData(m) => K(m) < allocated
    BY DEF IInv, TypeOK, BufferTypeOK, ListInv, DeliveryInv, HasNewData, Linked, Node, Null, K
  <1>7. ControlInv'
    BY <1>6 DEF IInv, TypeOK, PcTypeOK, ControlInv, Threads, Managers, Joining, K, Sound
  <1> QED
    BY <1>1, <1>2, <1>4, <1>5, <1>7 DEF IInv, TypeOK

(* Evaluating the argument of sbuffer_read preserves IInv: a TRUE stays     *)
(* true.                                                                    *)
LEMMA ReadArgumentStep ==
  ASSUME IInv, NEW m \in Managers, ReadArgument(m)
  PROVE  IInv'
  <1> USE DEF ReadArgument, sbuffer_read_argument, Goto, listVars, callVars, flagVars, dbVars
  <1>1. PcTypeOK' /\ ControlTypeOK'
    BY DEF IInv, TypeOK, PcTypeOK, ControlTypeOK, Threads, Managers, ConnMgrPc,
           ManagerPc, SqlMgrPc, MainPc
  <1>2. BufferTypeOK' /\ ListInv' /\ FreedInv' /\ DeliveryInv' /\ ScanInv'
    BY DEF IInv, TypeOK, PcTypeOK, ControlTypeOK, BufferTypeOK, ListInv, FreedInv,
           DeliveryInv, ScanInv, Joining, Sound, K, HeadWanted, Threads, Managers
  <1>3. ControlInv'
    BY DEF IInv, TypeOK, PcTypeOK, BufferTypeOK, ControlInv, Threads, Managers, Joining,
           K, Sound
  <1> QED
    BY <1>1, <1>2, <1>3 DEF IInv, TypeOK

(* The entry of sbuffer_read preserves IInv: the call starts at the head.   *)
LEMMA EnterReadStep ==
  ASSUME IInv, NEW m \in Managers, EnterRead(m)
  PROVE  IInv'
  <1> USE DEF EnterRead, sbuffer_read, Return, Goto, listVars, flagVars, dbVars
  <1>1. PcTypeOK' /\ ControlTypeOK'
    BY DEF IInv, TypeOK, PcTypeOK, ControlTypeOK, Threads, Managers, ConnMgrPc,
           ManagerPc, SqlMgrPc, MainPc
  <1>2. BufferTypeOK'
    BY DEF IInv, TypeOK, BufferTypeOK, Null, NoOne
  <1>3. ListInv' /\ FreedInv' /\ DeliveryInv'
    BY DEF IInv, TypeOK, PcTypeOK, ListInv, FreedInv, DeliveryInv, Joining, Sound, K,
           Threads, Managers
  <1>4. ScanInv'
    BY DEF IInv, TypeOK, PcTypeOK, BufferTypeOK, ScanInv, ListInv, DeliveryInv, Sound, K,
           HeadWanted, Managers, NoOne, Node, Null
  <1>5. ControlInv'
    BY DEF IInv, TypeOK, PcTypeOK, BufferTypeOK, ControlInv, Threads, Managers, Joining,
           K, Sound, NoOne
  <1> QED
    BY <1>1, <1>2, <1>3, <1>4, <1>5 DEF IInv, TypeOK

(* sbuffer_insert by CONNMGR preserves IInv: the new node is linked behind  *)
(* the tail, or is the whole list, and nobody has seen it.                  *)
LEMMA ReceiveStep ==
  ASSUME IInv, Receive
  PROVE  IInv'
  <1> USE DEF Receive, sbuffer_insert, Goto, flagVars, dbVars
  <1>1. PcTypeOK' /\ ControlTypeOK'
    BY DEF IInv, TypeOK, PcTypeOK, ControlTypeOK, Threads, Managers, ConnMgrPc, DbWaitPc
  <1>2. Joining /\ Joining' /\ ~terminated_by_CONNMGR /\ Sound /\ head \notin freed
    BY DEF IInv, TypeOK, PcTypeOK, ControlInv, FreedInv, Joining, Threads, Managers, MainPc
  <1>3. allocated \in Nat /\ allocated + 1 \in Node
    BY MaxDataAssumption DEF IInv, TypeOK, BufferTypeOK, Node
  <1>a. /\ allocated' = allocated + 1 /\ tail' = allocated + 1
        /\ head = Null => tail = Null /\ head' = allocated + 1
        /\ head # Null => tail = allocated /\ tail # Null /\ head' = head
        /\ UNCHANGED <<freed, reader, cur, retired, arg, delivered, memory>>
    BY <1>2, <1>3 DEF IInv, ListInv, Null, TypeOK, BufferTypeOK, Node
  <1>b. /\ head' \in Node /\ head' # Null /\ tail' \in Node /\ tail' # Null
        /\ head' <= allocated'
    <2>1. head \in Node \cup {Null} /\ (head # Null => head <= allocated)
      BY <1>a DEF IInv, TypeOK, BufferTypeOK, ListInv
    <2> HIDE DEF Receive
    <2>2. CASE head = Null
      BY <1>3, <1>a, <2>2 DEF Node, Null
    <2>3. CASE head # Null
      BY <1>3, <1>a, <2>1, <2>3 DEF Node, Null
    <2> QED
      BY <2>2, <2>3
  <1>4. BufferTypeOK'
    <2>1. next' \in [Node -> Node \cup {Null}] /\ seen' \in [Node -> SUBSET Managers]
      BY <1>3 DEF IInv, TypeOK, BufferTypeOK
    <2>2. allocated' \in 0 .. MaxData
      BY <1>3, <1>a, MaxDataAssumption DEF Node
    <2> QED
      BY <1>3, <1>a, <2>1, <2>2 DEF IInv, TypeOK, BufferTypeOK
  <1>5. ListInv'
    <2>1. \A n \in Node : next'[n] = IF n = allocated + 1 THEN Null
                                      ELSE IF n = tail THEN allocated + 1 ELSE next[n]
      BY <1>3
    <2>2. \A n \in Node : head' <= n =>
            next'[n] = IF n < allocated + 1 THEN n + 1 ELSE Null
      <3> SUFFICES ASSUME NEW n \in Node, head' <= n
                   PROVE  next'[n] = IF n < allocated + 1 THEN n + 1 ELSE Null
        OBVIOUS
      <3>1. n \in Nat /\ allocated \in Nat
        BY <1>3 DEF Node
      <3>2. CASE head = Null
        <4>1. n # tail
          BY <1>a, <3>2 DEF Node, Null
        <4> QED
          BY <1>a, <2>1, <3>1, <3>2, <4>1 DEF IInv, ListInv
      <3>3. CASE head # Null
        BY <1>a, <2>1, <3>1, <3>3 DEF IInv, ListInv
      <3> QED
        BY <3>2, <3>3
    <2>3. \A n \in Node : n > allocated + 1 => next'[n] = Null
      <3> SUFFICES ASSUME NEW n \in Node, n > allocated + 1 PROVE next'[n] = Null
        OBVIOUS
      <3>1. n \in Nat /\ n # 0 /\ allocated \in Nat
        BY <1>3 DEF Node
      <3>2. n # tail
        <4>1. CASE head = Null
          BY <1>a, <3>1, <4>1 DEF Null
        <4>2. CASE head # Null
          BY <1>a, <3>1, <4>2
        <4> QED
          BY <4>1, <4>2
      <3> QED
        BY <2>1, <3>1, <3>2 DEF IInv, ListInv
    <2> QED
      BY <1>a, <1>b, <2>2, <2>3 DEF ListInv
  <1>6. FreedInv'
    <2>1. \A n \in freed : n \in Node /\ n <= allocated
      BY DEF IInv, TypeOK, BufferTypeOK, FreedInv
    <2>2. CASE head = Null
      BY <1>2, <1>3, <1>a, <2>1, <2>2 DEF IInv, FreedInv, Node, Null, Sound
    <2>3. CASE head # Null
      BY <1>2, <1>3, <1>a, <2>1, <2>3 DEF IInv, FreedInv, Node, Null, Sound
    <2> QED
      BY <2>2, <2>3
  <1>7. DeliveryInv'
    <2>1. \A n \in Node : seen'[n] = IF n = allocated + 1 THEN {} ELSE seen[n]
      BY <1>3 DEF IInv, TypeOK, BufferTypeOK
    <2>2. \A m \in Managers : K(m) \in Nat /\ K(m)' = K(m) /\ K(m) <= allocated
      BY <1>2, <1>a DEF IInv, TypeOK, BufferTypeOK, DeliveryInv, K
    <2>3. \A m \in Managers, n \in Node : n <= allocated' => (m \in seen'[n] <=> n <= K(m))
      BY <1>2, <1>3, <1>a, <2>1, <2>2 DEF IInv, DeliveryInv, Node
    <2>4. \A m \in Managers : head' # Null => head' <= K(m) + 1
      <3> SUFFICES ASSUME NEW m \in Managers PROVE head' <= K(m) + 1
        OBVIOUS
      <3>1. CASE head = Null
        <4>1. K(m) = allocated
          BY <1>2, <3>1 DEF IInv, DeliveryInv
        <4> QED
          BY <1>3, <1>a, <3>1, <4>1
      <3>2. CASE head # Null
        BY <1>2, <1>a, <3>2 DEF IInv, DeliveryInv
      <3> QED
        BY <3>1, <3>2
    <2>5. head' # Null => \E m \in Managers : K(m) <= head'
      BY <1>2, <1>3, <1>a, <2>2 DEF IInv, DeliveryInv, Null, Managers
    <2> QED
      BY <1>2, <1>3, <1>a, <1>b, <2>2, <2>3, <2>4, <2>5 DEF IInv, DeliveryInv, Sound, K
  <1>8. ScanInv'
    <2>1. reader' = NoOne
      BY <1>a
    <2>2. cur' = Null /\ ~retired'
      BY <1>a DEF IInv, ScanInv
    <2>3. ~(cur' > head')
      BY <1>b, <2>2 DEF Node, Null
    <2> QED
      BY <2>1, <2>2, <2>3 DEF ScanInv, Managers, NoOne
  <1>9. ControlInv'
    BY <1>2, <1>3 DEF IInv, TypeOK, PcTypeOK, BufferTypeOK, ControlInv, Threads, Managers, K, Sound
  <1> QED
    BY <1>1, <1>4, <1>5, <1>6, <1>7, <1>8, <1>9 DEF IInv, TypeOK

(* MAIN's sbuffer_free after the joins preserves IInv: no call is in        *)
(* progress and every node left is freed.                                   *)
LEMMA MainProcessStep ==
  ASSUME IInv, main_process
  PROVE  IInv'
  <1> USE DEF main_process, sbuffer_free, Goto, callVars, flagVars, dbVars
  <1>1. PcTypeOK' /\ ControlTypeOK'
    BY DEF IInv, TypeOK, PcTypeOK, ControlTypeOK, Threads, Managers, MainPc
  <1>2. BufferTypeOK'
    BY DEF IInv, TypeOK, BufferTypeOK, Linked, Null
  <1>3. ~Joining' /\ ListInv'
    BY DEF IInv, TypeOK, PcTypeOK, ListInv, Joining, Threads, Managers, Null
  <1>4. reader = NoOne
    BY DEF IInv, TypeOK, BufferTypeOK, ControlInv, Threads, Managers
  <1>5. FreedInv'
    BY <1>3 DEF IInv, TypeOK, BufferTypeOK, FreedInv, ListInv, Joining, Sound, Linked, Node, Null
  <1>6. DeliveryInv' /\ ScanInv'
    BY <1>3, <1>4 DEF IInv, TypeOK, BufferTypeOK, DeliveryInv, ScanInv, Sound, K, HeadWanted, Null
  <1>7. ControlInv'
    BY <1>3 DEF IInv, TypeOK, PcTypeOK, ControlInv, Joining, Threads, Managers, Sound, K
  <1> QED
    BY <1>1, <1>2, <1>3, <1>5, <1>6, <1>7 DEF IInv, TypeOK

-----------------------------------------------------------------------------
(* sbuffer_read's walk.                                                     *)

(* Within a call on a list that is not damaged: current_node is in the      *)
(* list, and if both managers have seen it, it is the head.                 *)
LEMMA WalkFacts ==
  ASSUME IInv, NEW m \in Managers, pc[m] = "scan", cur \notin freed
  PROVE  /\ Sound /\ Joining /\ reader = m
         /\ head \in Node /\ head # Null /\ cur \in Node /\ head <= cur
         /\ cur <= allocated /\ allocated \in Node
         /\ tail = allocated /\ head \notin freed
         /\ K(m) \in Nat /\ (m \in seen[cur] <=> cur <= K(m))
         /\ seen[cur] = Managers /\ ~retired => cur = head
         /\ next[cur] = IF cur < allocated THEN cur + 1 ELSE Null
         /\ K(m) < allocated \/ arg[m]
  <1>1. reader = m /\ Joining
    BY DEF IInv, ControlInv, TypeOK, PcTypeOK, Joining, Managers, Threads, MainPc
  <1>2. /\ head \in Node /\ head # Null /\ cur \in Node /\ head <= cur
        /\ cur <= allocated /\ allocated \in Node /\ tail = allocated
    BY <1>1, MaxDataAssumption DEF IInv, TypeOK, BufferTypeOK, ListInv, ScanInv, Managers,
                                   NoOne, Node, Null
  <1>3. head \notin freed
    BY <1>1 DEF IInv, ScanInv, Managers, NoOne
  <1>4. Sound
    BY <1>1, <1>3 DEF IInv, FreedInv
  <1>5. \A x \in Managers : K(x) \in Nat /\ (x \in seen[cur] <=> cur <= K(x))
    BY <1>2, <1>4 DEF IInv, DeliveryInv, TypeOK, BufferTypeOK, K
  <1>6. ASSUME seen[cur] = Managers, ~retired
        PROVE  cur = head
    <2>1. SUFFICES ASSUME cur > head PROVE FALSE
      BY <1>2 DEF Node
    <2>2. PICK x \in Managers : K(x) < head
      BY <1>4, <2>1 DEF IInv, ScanInv, HeadWanted
    <2> QED
      BY <1>2, <1>5, <1>6, <2>1, <2>2 DEF Node
  <1>7. next[cur] = IF cur < allocated THEN cur + 1 ELSE Null
    BY <1>2 DEF IInv, ListInv
  <1>8. K(m) < allocated \/ arg[m]
    BY <1>4 DEF IInv, ControlInv
  <1> QED
    BY <1>1, <1>2, <1>3, <1>4, <1>5, <1>6, <1>7, <1>8

(* A step of sbuffer_read moves its thread to a place of its own.           *)
LEMMA ScanListTypes ==
  ASSUME IInv, NEW m \in Managers, ScanList(m)
  PROVE  PcTypeOK' /\ ControlTypeOK'
  BY DEF ScanList, Goto, flagVars, dbVars, IInv, TypeOK, PcTypeOK, ControlTypeOK, Threads,
         Managers, ConnMgrPc, ManagerPc, SqlMgrPc, MainPc

(* The node read is the next one in m's order.                              *)
LEMMA TakesInOrder ==
  ASSUME IInv, NEW m \in Managers, pc[m] = "scan", ReadTakes(m)
  PROVE  cur = K(m) + 1
  <1>1. cur \notin freed /\ m \notin seen[cur]
    BY DEF ReadTakes
  <1>2. cur > K(m)
    BY <1>1, WalkFacts DEF Node
  <1>3. cur <= K(m) + 1
    BY <1>1, WalkFacts DEF IInv, ScanInv
  <1> QED
    BY <1>1, <1>2, <1>3, WalkFacts DEF Node

(* Taking a node (sbuffer.c:144-166) preserves IInv.                        *)
LEMMA ReadTakesStep ==
  ASSUME IInv, NEW m \in Managers, ScanList(m), ReadTakes(m)
  PROVE  IInv'
  <1>0. pc[m] = "scan" /\ cur \notin freed
    BY DEF ScanList, ReadTakes
  <1>1. cur = K(m) + 1
    BY <1>0, TakesInOrder
  <1>2. /\ UNCHANGED <<head, tail, next, allocated, freed, memory>>
        /\ UNCHANGED <<terminated_by_CONNMGR, sleeping, lock>>
        /\ reader' = NoOne /\ cur' = Null /\ ~retired'
        /\ arg' = [arg EXCEPT ![m] = FALSE]
        /\ Joining'
    BY <1>0, WalkFacts DEF ScanList, ReadTakes, Return, Goto, flagVars, IInv, TypeOK, PcTypeOK,
       Threads, Managers, Joining
  <1>3. /\ delivered' \in [Managers -> Seq(Node \cup {Null})]
        /\ K(m)' = K(m) + 1 /\ delivered'[m][cur] = cur
        /\ \A i \in 1 .. K(m) : delivered'[m][i] = delivered[m][i]
        /\ \A x \in Managers \ {m} : delivered'[x] = delivered[x]
    BY <1>0, <1>1, WalkFacts DEF ReadTakes, IInv, TypeOK, BufferTypeOK, K
  <1>4. /\ seen' \in [Node -> SUBSET Managers]
        /\ \A n \in Node : seen'[n] = IF n = cur THEN seen[n] \cup {m} ELSE seen[n]
    BY <1>0, WalkFacts DEF ReadTakes, IInv, TypeOK, BufferTypeOK
  <1>5. BufferTypeOK'
    <2>1. arg' \in [Managers -> BOOLEAN]
      BY <1>2 DEF IInv, TypeOK, BufferTypeOK
    <2>2. retired' \in BOOLEAN
      BY DEF ReadTakes, Return
    <2> QED
      BY <1>2, <1>3, <1>4, <2>1, <2>2 DEF IInv, TypeOK, BufferTypeOK
  <1>6. ListInv'
    BY <1>0, <1>2, WalkFacts DEF IInv, ListInv
  <1>7. FreedInv'
    BY <1>0, <1>2, WalkFacts DEF IInv, FreedInv, Sound
  <1>8. DeliveryInv'
    <2>1. \A x \in Managers \ {m} : K(x)' = K(x) /\ K(x) \in Nat
      BY <1>3 DEF K, IInv, TypeOK, BufferTypeOK
    <2>2. \A x \in Managers : K(x)' <= allocated' /\ head' <= K(x)' + 1
      <3> SUFFICES ASSUME NEW x \in Managers
                   PROVE  K(x)' <= allocated' /\ head' <= K(x)' + 1
        OBVIOUS
      <3>1. K(x) <= allocated /\ head <= K(x) + 1
        BY <1>0, WalkFacts DEF IInv, DeliveryInv
      <3>2. CASE x = m
        BY <1>0, <1>1, <1>2, <1>3, <3>1, <3>2, WalkFacts DEF Node
      <3>3. CASE x # m
        BY <1>2, <2>1, <3>1, <3>3
      <3> QED
        BY <3>2, <3>3
    <2>3. \A x \in Managers : \A i \in 1 .. K(x)' : delivered'[x][i] = i
      <3> SUFFICES ASSUME NEW x \in Managers, NEW i \in 1 .. K(x)'
                   PROVE  delivered'[x][i] = i
        OBVIOUS
      <3>1. \A j \in 1 .. K(x) : delivered[x][j] = j
        BY <1>0, WalkFacts DEF IInv, DeliveryInv
      <3>2. CASE x # m
        BY <1>3, <2>1, <3>1, <3>2
      <3>3. CASE x = m
        <4>1. K(m) \in Nat /\ K(m)' = K(m) + 1 /\ cur = K(m) + 1
          BY <1>0, <1>1, <1>3, WalkFacts
        <4>2. i \in 1 .. K(m) \/ i = cur
          BY <3>3, <4>1
        <4> QED
          BY <1>3, <3>1, <3>3, <4>2
      <3> QED
        BY <3>2, <3>3
    <2>4. \A x \in Managers, n \in Node : n <= allocated' => (x \in seen'[n] <=> n <= K(x)')
      <3> SUFFICES ASSUME NEW x \in Managers, NEW n \in Node, n <= allocated
                   PROVE  x \in seen'[n] <=> n <= K(x)'
        BY <1>2
      <3>1. x \in seen[n] <=> n <= K(x)
        BY <1>0, WalkFacts DEF IInv, DeliveryInv
      <3>2. CASE x = m
        BY <1>0, <1>1, <1>3, <1>4, <3>1, <3>2, WalkFacts DEF Node
      <3>3. CASE x # m
        BY <1>4, <2>1, <3>1, <3>3
      <3> QED
        BY <3>2, <3>3
    <2>5. \E x \in Managers : K(x)' <= head'
      <3>1. CASE cur = head
        BY <1>0, <1>1, <1>2, <1>3, <3>1, WalkFacts DEF Node
      <3>2. CASE cur > head
        <4>1. PICK x \in Managers : K(x) < head
          BY <1>0, <3>2, WalkFacts DEF IInv, ScanInv, HeadWanted
        <4>2. x # m
          BY <1>0, <1>1, <3>2, <4>1, WalkFacts DEF Node
        <4> QED
          BY <1>0, <1>2, <2>1, <4>1, <4>2, WalkFacts DEF Node
      <3> QED
        BY <1>0, <3>1, <3>2, WalkFacts DEF Node
    <2> QED
      BY <1>0, <1>2, <2>2, <2>3, <2>4, <2>5, WalkFacts DEF DeliveryInv, K
  <1>9. ScanInv'
    <2>1. ~(cur' > head')
      BY <1>0, <1>2, WalkFacts DEF Node, Null
    <2> QED
      BY <1>2, <2>1 DEF ScanInv, Managers, NoOne
  <1>10. ControlInv'
    <2>1. /\ pc'[m] \in {"insert", "loop"} /\ (pc'[m] = "insert" => m = "SQLMGR")
          /\ \A t \in Threads \ {m} : pc'[t] = pc[t]
      BY <1>2 DEF ScanList, Goto, IInv, TypeOK, PcTypeOK, Threads, Managers, NoOne
    <2>2. \A x \in Managers \ {m} : K(x)' = K(x) /\ arg'[x] = arg[x]
      BY <1>2, <1>3 DEF K, IInv, TypeOK, BufferTypeOK
    <2>3. K(m)' > 0
      BY <1>0, <1>3, WalkFacts
    <2>4. ~arg'[m]
      BY <1>2, <1>5 DEF BufferTypeOK, IInv, TypeOK
    <2>5. \A x \in Managers \ {m} : reader # x
      BY <1>0, WalkFacts
    <2>6. ASSUME NEW x \in Managers
          PROVE
             /\ reader' = x <=> pc'[x] = "scan"
             /\ arg'[x] => terminated_by_CONNMGR'
             /\ Sound' /\ pc'[x] \in {"unlock", "read"}
                  => K(x)' < allocated' \/ terminated_by_CONNMGR'
             /\ Sound' /\ pc'[x] \in {"enter", "scan"} => K(x)' < allocated' \/ arg'[x]
      <3>1. CASE x = m
        BY <1>2, <2>1, <2>4, <3>1 DEF Managers, NoOne
      <3>2. CASE x # m
        BY <1>2, <2>1, <2>2, <2>5, <3>2 DEF IInv, ControlInv, Managers, Threads, NoOne, Sound
      <3> QED
        BY <3>1, <3>2
    <2> QED
      BY <1>2, <2>1, <2>2, <2>3, <2>6 DEF IInv, ControlInv, Managers, Threads, Joining, K
  <1> QED
    BY <1>5, <1>6, <1>7, <1>8, <1>9, <1>10, ScanListTypes DEF IInv, TypeOK

(* Following next (sbuffer.c:168-170) preserves IInv: a node m has seen     *)
(* lies before the first one it has not.                                    *)
LEMMA ReadAdvancesStep ==
  ASSUME IInv, NEW m \in Managers, ScanList(m), ReadAdvances(m)
  PROVE  IInv'
  <1>0. pc[m] = "scan" /\ cur \notin freed
    BY DEF ScanList, ReadAdvances
  <1>1. /\ UNCHANGED <<head, tail, next, seen, allocated, freed, delivered, memory>>
        /\ UNCHANGED terminated_by_CONNMGR
        /\ Joining'
    BY <1>0, WalkFacts DEF ScanList, ReadAdvances, Goto, listVars, flagVars, IInv, TypeOK,
       PcTypeOK, Threads, Managers, Joining
  <1>2. ListInv' /\ FreedInv' /\ DeliveryInv'
    BY <1>0, <1>1, WalkFacts DEF IInv, ListInv, FreedInv, DeliveryInv, Sound, K
  <1>3. m \in seen[cur] /\ cur <= K(m)
    BY <1>0, WalkFacts DEF ReadAdvances
  <1>4. CASE cur = allocated
    <2>1. arg[m]
      BY <1>0, <1>3, <1>4, WalkFacts DEF Node
    <2>2. /\ reader' = NoOne /\ cur' = Null /\ ~retired'
          /\ arg' = [arg EXCEPT ![m] = FALSE] /\ retired' \in BOOLEAN
      <3>1. next[cur] = Null
        BY <1>0, <1>4, WalkFacts DEF Node
      <3> QED
        BY <3>1 DEF ReadAdvances, Return
    <2>3. BufferTypeOK'
      <3>1. arg' \in [Managers -> BOOLEAN]
        BY <2>2 DEF IInv, TypeOK, BufferTypeOK
      <3> QED
        BY <1>1, <2>2, <3>1 DEF IInv, TypeOK, BufferTypeOK
    <2>4. ScanInv'
      <3>1. ~(cur' > head')
        BY <1>0, <1>1, <2>2, WalkFacts DEF Node, Null
      <3> QED
        BY <2>2, <3>1 DEF ScanInv, Managers, NoOne
    <2>5. ControlInv'
      <3>1. pc'[m] = "loop" /\ \A t \in Threads \ {m} : pc'[t] = pc[t]
        BY <1>1, <2>2 DEF ScanList, Goto, IInv, TypeOK, PcTypeOK, Threads, Managers, NoOne
      <3>2. ~arg'[m] /\ \A x \in Managers \ {m} : arg'[x] = arg[x]
        BY <2>2 DEF IInv, TypeOK, BufferTypeOK
      <3>3. reader = m
        BY <1>0, WalkFacts
      <3> QED
        BY <1>1, <2>2, <3>1, <3>2, <3>3 DEF IInv, ControlInv, Managers, Threads, NoOne,
           Sound, K, Joining
    <2> QED
      BY <1>2, <2>3, <2>4, <2>5, ScanListTypes DEF IInv, TypeOK
  <1>5. CASE cur # allocated
    <2>1. /\ cur' = cur + 1 /\ ~retired' /\ retired' \in BOOLEAN /\ UNCHANGED <<reader, arg>>
          /\ cur < allocated
      <3>1. cur < allocated
        BY <1>0, <1>5, WalkFacts DEF Node
      <3>2. next[cur] = cur + 1 /\ cur + 1 # Null
        BY <1>0, <3>1, WalkFacts DEF Node, Null
      <3> QED
        BY <3>1, <3>2 DEF ReadAdvances
    <2>2. BufferTypeOK'
      <3>1. cur' \in Node
        <4>1. cur \in 1 .. MaxData /\ allocated \in 1 .. MaxData
          BY <1>0, WalkFacts DEF Node
        <4> QED
          BY <2>1, <4>1, MaxDataAssumption DEF Node
      <3> QED
        BY <1>1, <2>1, <3>1 DEF IInv, TypeOK, BufferTypeOK
    <2>3. HeadWanted
      <3>1. CASE cur > head \/ retired
        BY <1>0, <3>1, WalkFacts DEF IInv, ScanInv
      <3>2. CASE cur = head /\ ~retired
        <4>1. PICK x \in Managers : x \notin seen[cur]
          BY <1>0, <3>2, WalkFacts DEF ReadAdvances, IInv, TypeOK, BufferTypeOK
        <4>2. K(x) < head
          BY <1>0, <3>2, <4>1, WalkFacts DEF IInv, DeliveryInv, TypeOK, BufferTypeOK, K, Node
        <4> QED
          BY <4>2 DEF HeadWanted
      <3> QED
        BY <1>0, <3>1, <3>2, WalkFacts DEF Node
    <2>4. ScanInv'
      <3>1. HeadWanted'
        BY <1>1, <2>3 DEF HeadWanted, K
      <3>2. head' <= cur' /\ cur' <= allocated' /\ cur' <= K(m)' + 1 /\ head' # Null
        BY <1>0, <1>1, <1>3, <2>1, WalkFacts DEF Node, K
      <3> QED
        BY <1>0, <1>1, <2>1, <3>1, <3>2, WalkFacts DEF ScanInv, Managers, NoOne
    <2>5. ControlInv'
      <3>1. pc' = pc
        BY <1>0, <2>1, WalkFacts DEF ScanList, Goto, IInv, TypeOK, PcTypeOK, Threads, Managers
      <3> QED
        BY <1>1, <2>1, <3>1 DEF IInv, ControlInv, Sound, K, Joining
    <2> QED
      BY <1>2, <2>2, <2>4, <2>5, ScanListTypes DEF IInv, TypeOK
  <1> QED
    BY <1>4, <1>5

(* Retiring a node (sbuffer.c:120-142) preserves IInv: on a sound list      *)
(* current_node is the head that is unlinked, and the second free of the    *)
(* shutdown hits the new head only.                                         *)
LEMMA ReadRetiresStep ==
  ASSUME IInv, NEW m \in Managers, ScanList(m), ReadRetires(m)
  PROVE  IInv'
  <1>0. pc[m] = "scan" /\ cur \notin freed /\ ~retired /\ seen[cur] = Managers
    BY DEF ScanList, ReadRetires
  <1>1. /\ UNCHANGED <<next, seen, allocated, delivered, memory>>
        /\ UNCHANGED terminated_by_CONNMGR
        /\ Joining' /\ Sound'
    BY <1>0, WalkFacts DEF ScanList, ReadRetires, Goto, flagVars, IInv, TypeOK,
       PcTypeOK, Threads, Managers, Joining, Sound
  <1>2. cur = head
    BY <1>0, WalkFacts
  <1>3. \A x \in Managers : K(x)' = K(x) /\ K(x) \in Nat /\ head <= K(x) /\ K(x) <= allocated
    BY <1>0, <1>1, <1>2, WalkFacts DEF IInv, DeliveryInv, TypeOK, BufferTypeOK, K
  <1>4. \E x \in Managers : K(x) <= head
    BY <1>0, WalkFacts DEF IInv, DeliveryInv
  <1>5. CASE head = tail
    <2>1. arg[m]
      BY <1>0, <1>3, <1>5, WalkFacts DEF Node
    <2>2. /\ reader' = NoOne /\ cur' = Null /\ ~retired' /\ retired' \in BOOLEAN
          /\ arg' = [arg EXCEPT ![m] = FALSE]
          /\ head' = Null /\ tail' = Null /\ freed' = freed \cup {allocated}
      BY <1>0, <1>2, <1>5, <2>1, WalkFacts DEF ReadRetires, Return
    <2>3. BufferTypeOK'
      <3>1. arg' \in [Managers -> BOOLEAN]
        BY <2>2 DEF IInv, TypeOK, BufferTypeOK
      <3>2. freed' \subseteq Node
        BY <1>0, <2>2, WalkFacts DEF IInv, TypeOK, BufferTypeOK
      <3> QED
        BY <1>1, <2>2, <3>1, <3>2 DEF IInv, TypeOK, BufferTypeOK
    <2>4. ListInv'
      BY <1>0, <1>1, <2>2, WalkFacts DEF IInv, ListInv
    <2>5. FreedInv'
      <3>1. \A n \in freed : n <= allocated
        BY DEF IInv, FreedInv
      <3>2. \A n \in Node : n < allocated => n \in freed
        BY <1>0, <1>5, WalkFacts DEF IInv, FreedInv
      <3>3. \A n \in Node : n <= allocated => n \in freed'
        BY <1>0, <2>2, <3>2, WalkFacts DEF Node
      <3>4. \A n \in freed' : n <= allocated
        BY <1>0, <2>2, <3>1, WalkFacts DEF Node
      <3>5. Null \notin freed'
        BY <2>3 DEF BufferTypeOK, Node, Null
      <3> QED
        BY <1>1, <2>2, <3>3, <3>4, <3>5 DEF FreedInv
    <2>6. DeliveryInv'
      <3>1. \A x \in Managers : K(x)' = allocated
        BY <1>0, <1>3, <1>5, WalkFacts DEF Node
      <3> QED
        BY <1>0, <1>1, <1>3, <2>2, <3>1, WalkFacts DEF IInv, DeliveryInv, K
    <2>7. ScanInv'
      <3>1. ~(cur' > head')
        BY <2>2 DEF Null
      <3> QED
        BY <2>2, <3>1 DEF ScanInv, Managers, NoOne
    <2>8. ControlInv'
      <3>1. pc'[m] = "loop" /\ \A t \in Threads \ {m} : pc'[t] = pc[t]
        BY <1>1, <2>2 DEF ScanList, Goto, IInv, TypeOK, PcTypeOK, Threads, Managers, NoOne
      <3>2. ~arg'[m] /\ \A x \in Managers \ {m} : arg'[x] = arg[x]
        BY <2>2 DEF IInv, TypeOK, BufferTypeOK
      <3>3. reader = m /\ Sound
        BY <1>0, WalkFacts
      <3> QED
        BY <1>1, <2>2, <3>1, <3>2, <3>3 DEF IInv, ControlInv, Managers, Threads, NoOne,
           K, Joining
    <2> QED
      BY <2>3, <2>4, <2>5, <2>6, <2>7, <2>8, ScanListTypes DEF IInv, TypeOK
  <1>6. CASE head # tail
    <2>1. /\ head' = head + 1 /\ head < allocated /\ tail' = tail
          /\ freed' = freed \cup {head} \cup (IF arg[m] THEN {head + 1} ELSE {})
          /\ IF arg[m]
             THEN /\ reader' = NoOne /\ cur' = Null /\ ~retired' /\ retired' \in BOOLEAN
                  /\ arg' = [arg EXCEPT ![m] = FALSE]
             ELSE cur' = head + 1 /\ retired' /\ retired' \in BOOLEAN
                  /\ UNCHANGED <<reader, arg>>
      <3>1. head < allocated
        BY <1>0, <1>2, <1>6, WalkFacts DEF Node
      <3>2. next[head] = head + 1
        BY <1>0, <1>2, <3>1, WalkFacts
      <3> QED
        BY <1>2, <1>6, <3>1, <3>2 DEF ReadRetires, Return
    <2>2. head' \in Node /\ head' # Null /\ head \in Nat /\ head \in Node
      <3>1. head \in 1 .. MaxData /\ allocated \in 1 .. MaxData
        BY <1>0, WalkFacts DEF Node
      <3> QED
        BY <2>1, <3>1, MaxDataAssumption DEF Node, Null
    <2>3. BufferTypeOK'
      <3>1. arg' \in [Managers -> BOOLEAN] /\ retired' \in BOOLEAN /\ cur' \in Node \cup {Null}
            /\ reader' \in Managers \cup {NoOne}
        BY <2>1, <2>2 DEF IInv, TypeOK, BufferTypeOK
      <3>2. freed' \subseteq Node
        BY <2>1, <2>2 DEF IInv, TypeOK, BufferTypeOK
      <3> QED
        BY <1>1, <2>1, <2>2, <3>1, <3>2 DEF IInv, TypeOK, BufferTypeOK
    <2>4. ListInv'
      BY <1>0, <1>1, <2>1, <2>2, WalkFacts DEF IInv, ListInv, Node
    <2>5. arg[m] => terminated_by_CONNMGR
      BY DEF IInv, ControlInv
    <2>6. FreedInv'
      <3>1. \A n \in freed : n \in Node /\ n <= allocated
        BY DEF IInv, FreedInv, TypeOK, BufferTypeOK
      <3>2. \A n \in Node : (n < head => n \in freed) /\ (n > head => n \notin freed)
        BY <1>0, WalkFacts DEF IInv, FreedInv
      <3>3. \A n \in Node : (n < head' => n \in freed') /\ (n > head' => n \notin freed')
        BY <2>1, <2>2, <3>2 DEF Node
      <3>4. \A n \in freed' : n <= allocated
        BY <1>0, <2>1, <2>2, <3>1, WalkFacts DEF Node
      <3>5. head' \in freed' => arg[m]
        BY <2>1, <2>2, <3>2
      <3> QED
        BY <1>1, <2>2, <2>5, <3>3, <3>4, <3>5 DEF FreedInv
    <2>7. DeliveryInv'
      <3>1. \A x \in Managers : head' <= K(x)' + 1
        BY <1>3, <2>1, <2>2
      <3>2. \E x \in Managers : K(x)' <= head'
        BY <1>3, <1>4, <2>1, <2>2
      <3>3. Sound
        BY <1>0, WalkFacts
      <3> QED
        BY <1>1, <2>2, <3>1, <3>2, <3>3 DEF IInv, DeliveryInv, K
    <2>8. HeadWanted'
      BY <1>3, <1>4, <2>1, <2>2 DEF HeadWanted
    <2>9. reader = m /\ Sound
      BY <1>0, WalkFacts
    <2>10. CASE arg[m]
      <3>1. ScanInv'
        <4>1. ~(cur' > head')
          BY <2>1, <2>2, <2>10 DEF Null, Node
        <4> QED
          BY <2>1, <2>10, <4>1 DEF ScanInv, Managers, NoOne
      <3>2. ControlInv'
        <4>1. pc'[m] = "loop" /\ \A t \in Threads \ {m} : pc'[t] = pc[t]
          BY <1>1, <2>1, <2>10 DEF ScanList, Goto, IInv, TypeOK, PcTypeOK, Threads, Managers, NoOne
        <4>2. ~arg'[m] /\ \A x \in Managers \ {m} : arg'[x] = arg[x]
          BY <2>1, <2>10 DEF IInv, TypeOK, BufferTypeOK
        <4> QED
          BY <1>1, <2>1, <2>9, <2>10, <4>1, <4>2 DEF IInv, ControlInv, Managers, Threads,
             NoOne, K, Joining
      <3> QED
        BY <2>3, <2>4, <2>6, <2>7, <3>1, <3>2, ScanListTypes DEF IInv, TypeOK
    <2>11. CASE ~arg[m]
      <3>1. ScanInv'
        <4>1. head' = cur' /\ cur' <= allocated' /\ cur' <= K(m)' + 1
          <5>1. cur' = head + 1
            BY <2>1, <2>11
          <5>2. allocated \in Nat
            BY MaxDataAssumption DEF IInv, TypeOK, BufferTypeOK
          <5> QED
            BY <1>1, <1>3, <2>1, <2>2, <5>1, <5>2
        <4>2. head' <= cur'
          BY <2>2, <4>1 DEF Node
        <4>3. \A x \in Managers : reader' = x => x = m
          BY <2>1, <2>9, <2>11
        <4> QED
          BY <2>1, <2>2, <2>8, <2>9, <2>11, <4>1, <4>2, <4>3 DEF ScanInv, Managers, NoOne
      <3>2. ControlInv'
        <4>1. pc' = pc
          BY <1>0, <2>1, <2>9, <2>11 DEF ScanList, Goto, IInv, TypeOK, PcTypeOK, Threads, Managers
        <4> QED
          BY <1>1, <2>1, <2>9, <2>11, <4>1 DEF IInv, ControlInv, Sound, K, Joining
      <3> QED
        BY <2>3, <2>4, <2>6, <2>7, <3>1, <3>2, ScanListTypes DEF IInv, TypeOK
    <2> QED
      BY <2>10, <2>11
  <1> QED
    BY <1>5, <1>6

(* An access to a freed node preserves IInv: it needs the shutdown's flag.  *)
LEMMA ReadTouchesFreedStep ==
  ASSUME IInv, NEW m \in Managers, ScanList(m), ReadTouchesFreed(m)
  PROVE  IInv'
  <1>0. pc[m] = "scan" /\ reader = m /\ cur \in freed
    BY DEF ScanList, ReadTouchesFreed
  <1>1. /\ UNCHANGED <<head, tail, next, seen, allocated, freed>>
        /\ UNCHANGED terminated_by_CONNMGR
        /\ ~Sound' /\ memory' \in {"corrupt", "aborted"}
        /\ Joining' = Joining
    BY DEF ScanList, ReadTouchesFreed, Goto, listVars, flagVars, IInv, TypeOK,
       PcTypeOK, Threads, Managers, Joining, Sound
  <1>2. head \in freed
    <2>1. head # Null /\ head <= cur /\ head \in Node /\ cur \in Node
      BY <1>0 DEF IInv, ScanInv, TypeOK, BufferTypeOK, Managers, NoOne
    <2>2. ~(cur > head)
      BY <1>0, <2>1 DEF IInv, FreedInv
    <2>3. cur = head
      BY <2>1, <2>2 DEF Node
    <2> QED
      BY <1>0, <2>3
  <1>3. ListInv' /\ FreedInv' /\ DeliveryInv'
    BY <1>1, <1>2 DEF IInv, ListInv, FreedInv, DeliveryInv
  <1>4. /\ \/ UNCHANGED <<reader, cur, retired, arg>>
           \/ /\ reader' = NoOne /\ cur' = Null /\ retired' = FALSE
              /\ arg' = [arg EXCEPT ![m] = FALSE]
        /\ \/ UNCHANGED delivered
           \/ \E d \in {cur, Null} : delivered' = [delivered EXCEPT ![m] = Append(@, d)]
    BY DEF ReadTouchesFreed, Return, callVars
  <1>5. /\ arg' \in [Managers -> BOOLEAN]
        /\ \A x \in Managers : arg'[x] => arg[x]
    BY <1>4 DEF IInv, TypeOK, BufferTypeOK
  <1>6. /\ delivered' \in [Managers -> Seq(Node \cup {Null})]
        /\ \A x \in Managers : K(x)' \in Nat /\ K(x)' >= K(x)
        /\ delivered' # delivered => K(m)' > 0
    <2>1. CASE UNCHANGED delivered
      BY <2>1 DEF IInv, TypeOK, BufferTypeOK, K
    <2>2. ASSUME NEW d \in {cur, Null}, delivered' = [delivered EXCEPT ![m] = Append(@, d)]
          PROVE  <1>6!:
      <3>1. d \in Node \cup {Null}
        BY <2>2 DEF IInv, TypeOK, BufferTypeOK
      <3>2. /\ Append(delivered[m], d) \in Seq(Node \cup {Null})
            /\ Len(Append(delivered[m], d)) = K(m) + 1 /\ K(m) \in Nat
        BY <3>1 DEF IInv, TypeOK, BufferTypeOK, K
      <3> QED
        BY <2>2, <3>2 DEF IInv, TypeOK, BufferTypeOK, K
    <2> QED
      BY <1>4, <2>1, <2>2
  <1>7. BufferTypeOK'
    BY <1>1, <1>4, <1>5, <1>6 DEF IInv, TypeOK, BufferTypeOK
  <1>8. ScanInv'
    BY <1>1, <1>4 DEF IInv, ScanInv, Sound, Managers, NoOne
  <1>9. ControlInv'
    <2>1. /\ \A t \in Threads \ {m} : pc'[t] = pc[t]
          /\ pc'[m] = IF reader' = m THEN "scan"
                      ELSE IF m = "SQLMGR" /\ delivered' # delivered THEN "insert"
                      ELSE "loop"
      BY DEF ScanList, Goto, IInv, TypeOK, PcTypeOK, Threads, Managers
    <2>2. \A x \in Managers : reader' = x <=> pc'[x] = "scan"
      BY <1>0, <1>4, <2>1 DEF IInv, ControlInv, Managers, Threads, NoOne
    <2>3. pc'["SQLMGR"] = "insert" => K("SQLMGR")' > 0
      BY <1>4, <1>6, <2>1 DEF IInv, ControlInv, TypeOK, BufferTypeOK, Managers, Threads, K
    <2> QED
      BY <1>0, <1>1, <1>5, <2>1, <2>2, <2>3 DEF IInv, ControlInv, Managers, Threads, Joining
  <1> QED
    BY <1>3, <1>7, <1>8, <1>9, ScanListTypes DEF IInv, TypeOK

-----------------------------------------------------------------------------
(* Every step of the loop of sbuffer_read preserves IInv.                   *)
LEMMA ScanListStep ==
  ASSUME IInv, NEW m \in Managers, ScanList(m)
  PROVE  IInv'
  BY ReadRetiresStep, ReadTakesStep, ReadAdvancesStep, ReadTouchesFreedStep
     DEF ScanList, sbuffer_read_loop

(* Every step of a manager's loop preserves IInv.                           *)
LEMMA ManagerLoopStep ==
  ASSUME IInv, NEW m \in Managers, ManagerLoop(m)
  PROVE  IInv'
  BY ManagerControlStep, TestDataStep, ReadArgumentStep, EnterReadStep, ScanListStep
     DEF ManagerLoop, ManagerControl

(* So does a stuttering step.                                               *)
LEMMA UnchangedStep == IInv /\ UNCHANGED vars => IInv'
  <1> SUFFICES ASSUME IInv, UNCHANGED vars PROVE IInv'
    OBVIOUS
  <1> USE DEF vars, gatewayVars, bufferVars, flagVars, dbVars
  <1>1. TypeOK'
    BY DEF IInv, TypeOK, BufferTypeOK, PcTypeOK, ControlTypeOK
  <1>2. ListInv' /\ FreedInv' /\ DeliveryInv' /\ ScanInv' /\ ControlInv'
    BY DEF IInv, ListInv, FreedInv, DeliveryInv, ScanInv, ControlInv, HeadWanted, K, Sound,
           Joining
  <1> QED
    BY <1>1, <1>2 DEF IInv

(* Every step of the process preserves the inductive invariant. *)
THEOREM NextPreservesIInv == IInv /\ [Next]_vars => IInv'
  <1> SUFFICES ASSUME IInv, [Next]_vars PROVE IInv'
    OBVIOUS
  <1>1. CASE Run(connmgr_thread)
    BY <1>1, ConnMgrControlStep, WaitForDatabaseStep, ReceiveStep
       DEF Run, connmgr_thread, ConnMgrControl, Threads
  <1>2. CASE Run(datamgr_thread)
    BY <1>2, WaitForDatabaseStep, ManagerLoopStep DEF Run, datamgr_thread, Threads, Managers
  <1>3. CASE Run(sql_mgr)
    BY <1>3, SqlMgrStep, WaitForDatabaseStep, ManagerLoopStep DEF Run, sql_mgr, Threads, Managers
  <1>4. CASE Run(main_process)
    BY <1>4, MainProcessStep DEF Run
  <1>5. CASE SpuriousWakeup
    BY <1>5, SpuriousWakeupStep
  <1>6. CASE Ended \/ UNCHANGED vars
    BY <1>6, UnchangedStep DEF Ended
  <1> QED
    BY <1>1, <1>2, <1>3, <1>4, <1>5, <1>6 DEF Next

(* IInv holds in every state the process can reach.                         *)
THEOREM IInvHolds == Spec => []IInv
  BY InitHolds, NextPreservesIInv, PTL DEF Spec

(* Every variable of the buffer and of the threads keeps its type: no walk  *)
(* of the list is left with a pointer to nothing.                           *)
THEOREM TypeCorrect == Spec => []TypeOK
  <1>1. IInv => TypeOK
    BY DEF IInv
  <1> QED
    BY <1>1, IInvHolds, PTL

(* Both managers receive every measurement once, in order, for any number   *)
(* of measurements.                                                         *)
THEOREM DeliveryIsInOrder == Spec => []InOrderDelivery
  <1>1. IInv => InOrderDelivery
    BY DEF IInv, DeliveryInv, InOrderDelivery, K
  <1> QED
    BY <1>1, IInvHolds, PTL

-----------------------------------------------------------------------------
(* The opening of the database.  Until it is decided everybody waits; once  *)
(* it is decided the decision stands.                                       *)
Decided == conn \/ terminated_by_INIT_CONNECTION

Serving == {"poll", "announce", "ending"}

DatabaseInv ==
  /\ pc["SQLMGR"] \in {"open", "publish", "fail_flag"} => ~Decided
  /\ pc["SQLMGR"] = "fail_conn" => terminated_by_INIT_CONNECTION
  /\ \A t \in Threads \ {"MAIN"} : pc[t] = "db_check" => Decided
  /\ pc["CONNMGR"] \in Serving => conn /\ ~terminated_by_INIT_CONNECTION
  /\ allocated > 0 => conn /\ ~terminated_by_INIT_CONNECTION
  /\ pc["CONNMGR"] = "signal" => terminated_by_CONNMGR
  /\ pc["CONNMGR"] = "done" =>
       terminated_by_CONNMGR \/ terminated_by_INIT_CONNECTION
  /\ \A m \in Managers :
       /\ pc[m] \notin DbWaitPc \cup InitConnectionPc => Decided
       /\ terminated_by_INIT_CONNECTION =>
            pc[m] \in DbWaitPc \cup InitConnectionPc \cup {"loop", "done"}
       /\ terminated_by_INIT_CONNECTION /\ pc[m] = "loop" => quit[m]

(* At the start nothing is decided and everybody waits.                     *)
LEMMA DatabaseInvInit == Init => DatabaseInv
  BY DEF Init, sbuffer_init, DatabaseInv, Decided, Serving, Threads, Managers, DbWaitPc,
         InitConnectionPc

(* A manager that is past the wait for the database stays past it: a step   *)
(* within its loop that leaves the decision alone preserves DatabaseInv.    *)
LEMMA DatabaseInvFrame ==
  ASSUME IInv, DatabaseInv, NEW m \in Managers,
         pc[m] \in ManagerPc \ (DbWaitPc \cup {"loop", "done"}),
         NEW p \in ManagerPc \cup {"insert"}, p # "db_check",
         pc' = [pc EXCEPT ![m] = p],
         UNCHANGED <<conn, terminated_by_INIT_CONNECTION, terminated_by_CONNMGR, allocated>>
  PROVE  DatabaseInv'
  <1>1. ~terminated_by_INIT_CONNECTION /\ Decided
    BY DEF DatabaseInv, ManagerPc, DbWaitPc, InitConnectionPc
  <1>2. pc'["CONNMGR"] = pc["CONNMGR"] /\ p \notin InitConnectionPc
        /\ \A t \in Threads \ {m} : pc'[t] = pc[t]
    BY DEF IInv, TypeOK, PcTypeOK, Threads, Managers, ManagerPc, DbWaitPc, InitConnectionPc
  <1>3. pc'[m] = p
    BY DEF IInv, TypeOK, PcTypeOK, Threads
  <1> QED
    BY <1>1, <1>2, <1>3 DEF DatabaseInv, Decided, Threads, Managers, InitConnectionPc

(* Every step of the process preserves DatabaseInv.                         *)
LEMMA DatabaseInvStep == IInv /\ DatabaseInv /\ [Next]_vars => DatabaseInv'
  <1> SUFFICES ASSUME IInv, DatabaseInv, [Next]_vars PROVE DatabaseInv'
    OBVIOUS
  <1> USE DEF flagVars, dbVars, Goto
  <1>1. ASSUME NEW t \in Threads \ {"MAIN"}, WaitForDatabase(t) PROVE DatabaseInv'
    <2>1. UNCHANGED <<allocated, conn, terminated_by_INIT_CONNECTION, terminated_by_CONNMGR>>
      BY <1>1 DEF WaitForDatabase, DbTest, DbSleep, DbCheck, bufferVars
    <2>2. CASE t = "CONNMGR"
      BY <1>1, <2>1, <2>2 DEF WaitForDatabase, DbTest, DbSleep, DbCheck, DatabaseInv, Decided,
         Serving, IInv, TypeOK, PcTypeOK, Threads, Managers, DbWaitPc, InitConnectionPc
    <2>3. CASE t \in Managers
      BY <1>1, <2>1, <2>3 DEF WaitForDatabase, DbTest, DbSleep, DbCheck, DatabaseInv, Decided,
         Serving, IInv, TypeOK, PcTypeOK, ControlTypeOK, Threads, Managers, DbWaitPc,
         InitConnectionPc
    <2> QED
      BY <2>2, <2>3 DEF Threads
  <1>2. ASSUME NEW m \in Managers, LoopTest(m) PROVE DatabaseInv'
    BY <1>2 DEF LoopTest, bufferVars, DatabaseInv, Decided, IInv, TypeOK, PcTypeOK,
       ControlTypeOK, Threads, Managers, DbWaitPc, InitConnectionPc
  <1>3. ASSUME NEW m \in Managers, ManagerLoop(m), ~LoopTest(m) PROVE DatabaseInv'
    <2>1. /\ pc[m] \in ManagerPc \ (DbWaitPc \cup {"loop", "done"})
          /\ \E p \in ManagerPc \cup {"insert"} :
               p # "db_check" /\ pc' = [pc EXCEPT ![m] = p]
      BY <1>3 DEF ManagerLoop, Lock, TestData, TestFlag, Sleep, Wake, Unlock, ReadArgument,
         EnterRead, ScanList, ManagerPc, DbWaitPc
    <2>2. UNCHANGED <<conn, terminated_by_INIT_CONNECTION, terminated_by_CONNMGR, allocated>>
      BY <1>3 DEF ManagerLoop, Lock, TestData, TestFlag, Sleep, Wake, Unlock, ReadArgument,
         EnterRead, ScanList, bufferVars, listVars, getinfo, sbuffer_read_argument,
         sbuffer_read, sbuffer_read_loop, ReadRetires, ReadTakes, ReadAdvances,
         ReadTouchesFreed
    <2> QED
      BY <2>1, <2>2, DatabaseInvFrame
  <1>4. CASE init_connection
    BY <1>4 DEF init_connection, OpenDatabase, OpenFailed, SetConn, BroadcastConn, CreateTable,
       Republish, bufferVars, DatabaseInv, Decided, Serving, IInv, TypeOK, PcTypeOK, Threads,
       Managers, ConnMgrPc, ManagerPc, DbWaitPc, InitConnectionPc
  <1>5. CASE insert_sensor
    BY <1>5 DEF insert_sensor, bufferVars, DatabaseInv, Decided, IInv, TypeOK, PcTypeOK,
       Threads, Managers, DbWaitPc, InitConnectionPc
  <1>6. CASE ConnMgrControl \/ Receive
    BY <1>6 DEF ConnMgrControl, Bind, Receive, Announce, CloseServer, SetTerminated,
       SignalTerminated, sbuffer_insert, bufferVars, DatabaseInv, Decided, Serving, IInv,
       TypeOK, PcTypeOK, Threads, Managers
  <1>7. CASE main_process
    BY <1>7 DEF main_process, sbuffer_free, DatabaseInv, Decided, IInv, TypeOK, PcTypeOK,
       Threads, Managers
  <1>8. CASE SpuriousWakeup \/ Ended \/ UNCHANGED vars
    BY <1>8 DEF SpuriousWakeup, Ended, vars, gatewayVars, bufferVars, DatabaseInv, Decided
  <1> QED
    BY <1>1, <1>2, <1>3, <1>4, <1>5, <1>6, <1>7, <1>8 DEF Next, Run, connmgr_thread,
       datamgr_thread, sql_mgr, ConnMgrControl, Threads, Managers

(* DatabaseInv holds in every state the process can reach.                  *)
THEOREM DatabaseInvHolds == Spec => []DatabaseInv
  BY DatabaseInvInit, DatabaseInvStep, IInvHolds, PTL DEF Spec

(* A database that failed to open is never served, whatever the threads see *)
(* of the flag and the handle while they are being set.                     *)
THEOREM FailedDatabaseIsNotServed == Spec => []NoServiceWithoutDatabase
  <1>1. IInv /\ DatabaseInv => NoServiceWithoutDatabase
    BY DEF IInv, TypeOK, PcTypeOK, BufferTypeOK, DatabaseInv, Serving, Decided,
       NoServiceWithoutDatabase, ConnMgrPc
  <1> QED
    BY <1>1, IInvHolds, DatabaseInvHolds, PTL

-----------------------------------------------------------------------------
(* Before the shutdown nothing reachable or unread is ever freed.           *)
THEOREM NothingDanglesWhileRunning == Spec => []NoDanglingWhileRunning
  <1>1. ASSUME IInv, DatabaseInv, ~terminated_by_CONNMGR
        PROVE  /\ Sound /\ Dangling = {} /\ cur \notin freed
               /\ \A n \in freed, m \in Managers : n <= Len(delivered[m])
    <2>1. Sound /\ head \notin freed
      BY <1>1 DEF IInv, FreedInv
    <2>2. Dangling = {}
      BY <1>1, <2>1 DEF IInv, TypeOK, BufferTypeOK, FreedInv, Dangling, Linked, Node, Null
    <2>3. cur \notin freed
      <3>1. CASE reader = NoOne
        BY <1>1, <3>1 DEF IInv, ScanInv, TypeOK, BufferTypeOK, Node, Null
      <3>2. CASE reader # NoOne
        BY <1>1, <2>1, <3>2 DEF IInv, ScanInv, FreedInv, TypeOK, BufferTypeOK, Node, Null
      <3> QED
        BY <3>1, <3>2
    <2>4. ASSUME NEW n \in freed, NEW m \in Managers
          PROVE  n <= Len(delivered[m])
      <3>1. n \in Nat /\ n <= allocated /\ n \in Node /\ n # head
        BY <1>1, <2>1 DEF IInv, FreedInv, TypeOK, BufferTypeOK, Node
      <3>2. K(m) \in Nat
        BY <1>1 DEF IInv, TypeOK, BufferTypeOK, K
      <3>3. CASE head = Null
        <4>1. Joining
          <5>1. SUFFICES ASSUME ~Joining PROVE FALSE
            OBVIOUS
          <5>2. pc["CONNMGR"] = "done"
            BY <1>1, <5>1 DEF IInv, ControlInv, Threads, Managers
          <5>3. ~(allocated > 0)
            BY <1>1, <5>2 DEF DatabaseInv
          <5> QED
            BY <1>1, <3>1, <5>3 DEF IInv, TypeOK, BufferTypeOK, Node
        <4> QED
          BY <1>1, <2>1, <3>1, <3>3, <4>1 DEF IInv, DeliveryInv, K
      <3>4. CASE head # Null
        <4>1. head \in Nat /\ n < head
          BY <1>1, <3>1, <3>4 DEF IInv, FreedInv, TypeOK, BufferTypeOK, Node, Null
        <4>2. head <= K(m) + 1
          BY <1>1, <2>1, <3>4 DEF IInv, DeliveryInv
        <4> QED
          BY <3>1, <3>2, <4>1, <4>2 DEF K
      <3> QED
        BY <3>3, <3>4
    <2> QED
      BY <2>1, <2>2, <2>3, <2>4
  <1> QED
    BY <1>1, IInvHolds, DatabaseInvHolds, PTL DEF NoDanglingWhileRunning

(* A node is in the list until it is freed.                                 *)
THEOREM NothingLeaks == Spec => []NoLeak
  <1>1. ASSUME IInv, NEW n \in 1 .. allocated
        PROVE  n \in Linked \cup freed
    <2>1. n \in Node /\ n <= allocated /\ n \in Nat /\ allocated \in Nat
      BY <1>1, MaxDataAssumption DEF IInv, TypeOK, BufferTypeOK, Node
    <2>2. CASE head = Null
      BY <1>1, <2>1, <2>2 DEF IInv, FreedInv
    <2>3. CASE head # Null
      <3>1. head \in Nat /\ tail = allocated
        BY <1>1, <2>3 DEF IInv, ListInv, TypeOK, BufferTypeOK, Node, Null
      <3> QED
        BY <1>1, <2>1, <2>3, <3>1 DEF IInv, FreedInv, Linked
    <2> QED
      BY <2>2, <2>3
  <1>2. IInv => NoLeak
    BY <1>1 DEF NoLeak
  <1> QED
    BY <1>2, IInvHolds, PTL

(* A call of sbuffer_read that getinfo has announced data for delivers it,  *)
(* although both locks were released in between.                            *)
THEOREM CheckedReadsDeliver == Spec => CheckedReadDelivers
  <1> DEFINE Delivers(m) ==
        /\ pc[m] \in {"enter", "scan"}
        /\ pc'[m] \notin {"enter", "scan"}
        /\ ~terminated_by_CONNMGR
        => Len(delivered'[m]) = Len(delivered[m]) + 1
  <1>1. ASSUME IInv, [Next]_vars, NEW m \in Managers,
               pc[m] \in {"enter", "scan"}, pc'[m] \notin {"enter", "scan"},
               ~terminated_by_CONNMGR
        PROVE  Len(delivered'[m]) = Len(delivered[m]) + 1
    <2>1. Sound /\ Joining /\ head \notin freed /\ ~arg[m]
      BY <1>1 DEF IInv, FreedInv, ControlInv, TypeOK, PcTypeOK, Joining, Threads, Managers, MainPc
    <2>2. K(m) < allocated
      BY <1>1, <2>1 DEF IInv, ControlInv
    <2>3. EnterRead(m) \/ ScanList(m)
      BY <1>1 DEF Next, Run, connmgr_thread, datamgr_thread, sql_mgr, main_process, Ended,
         SpuriousWakeup, WaitForDatabase, DbTest, DbSleep, DbCheck, Bind, Receive, Announce,
         CloseServer, SetTerminated, SignalTerminated, ManagerLoop, LoopTest, Lock, TestData,
         TestFlag, Sleep, Wake, Unlock, ReadArgument, EnterRead, ScanList, init_connection,
         OpenDatabase, OpenFailed, SetConn, BroadcastConn, CreateTable, Republish,
         insert_sensor, Goto, vars, gatewayVars, IInv, TypeOK, PcTypeOK, Threads, Managers
    <2>4. CASE EnterRead(m)
      <3>1. K(m) # allocated
        BY <1>1, <2>2 DEF IInv, TypeOK, BufferTypeOK, K
      <3>2. head # Null
        BY <1>1, <2>1, <3>1 DEF IInv, DeliveryInv
      <3>3. pc'[m] = "scan"
        BY <1>1, <2>4, <3>2 DEF EnterRead, sbuffer_read, Goto, IInv, TypeOK, PcTypeOK, Threads
      <3> QED
        BY <1>1, <3>3
    <2>5. CASE ScanList(m)
      <3>1. pc[m] = "scan" /\ cur \notin freed
        <4>1. pc[m] = "scan"
          BY <2>5 DEF ScanList
        <4>2. reader = m /\ head # Null /\ head <= cur
          BY <1>1, <4>1 DEF IInv, ControlInv, ScanInv, Managers, NoOne
        <4> QED
          BY <1>1, <2>1, <4>1, <4>2 DEF IInv, FreedInv, TypeOK, BufferTypeOK, Node, Null
      <3>2. ~(reader' = m)
        BY <1>1, <2>5, <3>1 DEF ScanList, Goto, IInv, TypeOK, PcTypeOK, Threads
      <3>3. ASSUME ReadAdvances(m) PROVE FALSE
        <4>1. m \in seen[cur] /\ next[cur] = Null
          BY <1>1, <3>1, <3>2, <3>3, WalkFacts DEF ReadAdvances
        <4>2. cur <= K(m) /\ ~(cur < allocated)
          BY <1>1, <3>1, <4>1, WalkFacts DEF Node, Null
        <4> QED
          BY <1>1, <2>2, <3>1, <4>2, WalkFacts DEF Node
      <3>4. ASSUME ReadRetires(m) PROVE FALSE
        BY <1>1, <2>1, <3>1, <3>2, <3>4, WalkFacts DEF ReadRetires
      <3>5. ReadTakes(m)
        BY <2>5, <3>1, <3>3, <3>4 DEF ScanList, sbuffer_read_loop, ReadTouchesFreed
      <3> QED
        BY <1>1, <3>5 DEF ReadTakes, IInv, TypeOK, BufferTypeOK
    <2> QED
      BY <2>3, <2>4, <2>5
  <1>2. IInv /\ [Next]_vars => [\A m \in Managers : Delivers(m)]_vars
    BY <1>1
  <1> QED
    BY <1>2, IInvHolds, PTL DEF Spec, CheckedReadDelivers
==============================================================================
