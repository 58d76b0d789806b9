----------------------------- MODULE Feed_proofs -----------------------------
(***************************************************************************)
(* The buffer with its users implements MeasurementFeed, for any number of *)
(* measurements, and two more invariants of the gateway that follow from   *)
(* IInv of Gateway_proofs.                                                 *)
(*                                                                         *)
(* As long as the feed is sound (Intact), what has been freed is the       *)
(* interval before head, so that retiring a node reclaims exactly the next *)
(* measurement.  Only a step after the close can leave it otherwise, and   *)
(* any such step is a Break (Breaks).                                      *)
(***************************************************************************)
EXTENDS Gateway_proofs, FiniteSetTheorems

Intact == Sound /\ Dangling = {}

(* The steps of Next one by one.                                            *)
Control(t) ==
  \/ WaitForDatabase(t)
  \/ t = "CONNMGR" /\ (Bind \/ Announce \/ CloseServer \/ SignalTerminated)
  \/ t \in Managers /\ (LoopTest(t) \/ Lock(t) \/ TestFlag(t) \/ Sleep(t) \/ Wake(t)
                          \/ Unlock(t) \/ ReadArgument(t) \/ EnterRead(t))
  \/ t = "SQLMGR" /\ (init_connection \/ insert_sensor)

(* What the feed is a picture of.                                           *)
Pictured == <<head, tail, freed, allocated, delivered, memory, terminated_by_CONNMGR>>

(* Interval arithmetic of the freed nodes, for a head h and a last node a.  *)
LEMMA FreedCount ==
  ASSUME NEW f \in SUBSET Node, NEW h \in Node \cup {Null}, NEW a \in 0 .. MaxData,
         \A n \in f : n <= a,
         h = Null => \A n \in Node : n <= a => n \in f,
         h # Null => /\ h <= a /\ h \notin f
                     /\ \A n \in Node : (n < h => n \in f) /\ (n > h => n \notin f)
  PROVE  Cardinality(f) = IF h = Null THEN a ELSE h - 1
  <1>0. MaxData \in Nat /\ Null = 0 /\ a \in Nat
    BY MaxDataAssumption DEF Null
  <1>1. CASE h = Null
    <2>1. ASSUME NEW n PROVE n \in f <=> n \in 1 .. a
      <3>1. n \in f => n \in 1 .. a
        BY <1>0 DEF Node
      <3>2. n \in 1 .. a => n \in f
        BY <1>0, <1>1 DEF Node
      <3> QED
        BY <3>1, <3>2
    <2>2. f = 1 .. a
      BY <2>1
    <2>3. Cardinality(1 .. a) = a
      BY <1>0, FS_Interval
    <2> QED
      BY <1>1, <2>2, <2>3
  <1>2. CASE h # Null
    <2>0. h \in Nat /\ h >= 1 /\ h <= MaxData
      BY <1>0, <1>2 DEF Node
    <2>1. ASSUME NEW n PROVE n \in f <=> n \in 1 .. h - 1
      <3>1. n \in f => n \in 1 .. h - 1
        <4> SUFFICES ASSUME n \in f PROVE n \in 1 .. h - 1
          OBVIOUS
        <4>1. n \in Node /\ n # h /\ ~(n > h)
          BY <1>2
        <4> QED
          BY <1>0, <2>0, <4>1 DEF Node
      <3>2. n \in 1 .. h - 1 => n \in f
        BY <1>0, <1>2, <2>0 DEF Node
      <3> QED
        BY <3>1, <3>2
    <2>2. f = 1 .. h - 1
      BY <2>1
    <2>3. Cardinality(1 .. h - 1) = h - 1
      BY <2>0, FS_Interval
    <2> QED
      BY <1>2, <2>2, <2>3
  <1> QED
    BY <1>1, <1>2

(* There are finitely many nodes, so what was freed can be counted.         *)
LEMMA FreedIsFinite ==
  ASSUME NEW f \in SUBSET Node
  PROVE  Cardinality(f) \in Nat
  <1>1. IsFiniteSet(Node)
    BY MaxDataAssumption, FS_Interval DEF Node
  <1>2. IsFiniteSet(f)
    BY <1>1, FS_Subset
  <1> QED
    BY <1>2, FS_CardinalityType

(* While the feed is sound the head is still allocated, and as many nodes   *)
(* have been freed as lie before it.                                        *)
LEMMA IntactFacts ==
  IInv /\ Intact => /\ head \notin freed
                    /\ Cardinality(freed) = IF head = Null THEN allocated ELSE head - 1
  <1> SUFFICES ASSUME IInv, Intact
               PROVE  /\ head \notin freed
                      /\ Cardinality(freed) = IF head = Null THEN allocated ELSE head - 1
    OBVIOUS
  <1>1. /\ freed \in SUBSET Node /\ head \in Node \cup {Null} /\ allocated \in 0 .. MaxData
        /\ Null \notin Node
    BY DEF IInv, TypeOK, BufferTypeOK, Node, Null
  <1>2. head # Null => head <= allocated /\ head \in Linked
    BY <1>1 DEF IInv, ListInv, Linked, Node
  <1>3. head \notin freed
    BY <1>1, <1>2 DEF Intact, Dangling
  <1> QED
    BY <1>1, <1>2, <1>3, FreedCount DEF Intact, IInv, FreedInv

(* The feed breaks only after the flag was set: memory was damaged, or the  *)
(* head was freed by the shutdown branch of sbuffer_read.                   *)
LEMMA BrokenFacts ==
  IInv /\ ~Intact => terminated_by_CONNMGR /\ (~Sound \/ head \in freed)
  <1> SUFFICES ASSUME IInv, ~Intact
               PROVE  terminated_by_CONNMGR /\ (~Sound \/ head \in freed)
    OBVIOUS
  <1>1. CASE ~Sound
    BY <1>1 DEF IInv, FreedInv
  <1>2. CASE Sound
    <2>1. PICK n \in Linked : n \in freed
      BY <1>2 DEF Intact, Dangling
    <2>2. n \in Node /\ head # Null /\ head <= n /\ head \in Node
      BY <2>1 DEF IInv, TypeOK, BufferTypeOK, Linked
    <2>3. ~(n > head)
      BY <2>1, <2>2 DEF IInv, FreedInv
    <2>4. n = head
      BY <2>2, <2>3 DEF Node
    <2> QED
      BY <2>1, <2>2, <2>4 DEF IInv, FreedInv
  <1> QED
    BY <1>1, <1>2
-----------------------------------------------------------------------------
(* At most the head waits to be retired: behind it a node is missing the    *)
(* flag of the manager that has read no further than the head.              *)
THEOREM RetiredNodesDoNotPileUp == Spec => []AtMostOneRetired
  <1>1. ASSUME IInv, Sound
        PROVE  Cardinality({n \in Linked : seen[n] = Managers}) <= 1
    <2> DEFINE R == {n \in Linked : seen[n] = Managers}
    <2>1. R \subseteq {head}
      <3> SUFFICES ASSUME NEW n \in R PROVE n = head
        OBVIOUS
      <3>1. /\ n \in Node /\ head # Null /\ head \in Node /\ head <= n
            /\ n <= allocated /\ seen[n] = Managers
        BY <1>1 DEF IInv, TypeOK, BufferTypeOK, ListInv, Linked
      <3>2. PICK m \in Managers : K(m) <= head
        BY <1>1, <3>1 DEF IInv, DeliveryInv
      <3>3. n <= K(m) /\ K(m) \in Nat
        BY <1>1, <3>1 DEF IInv, TypeOK, BufferTypeOK, DeliveryInv, K
      <3> QED
        BY <3>1, <3>2, <3>3 DEF Node
    <2>2. IsFiniteSet({head}) /\ Cardinality({head}) = 1
      BY FS_Singleton
    <2>3. Cardinality(R) \in Nat /\ Cardinality(R) <= Cardinality({head})
      BY <2>1, <2>2, FS_Subset, FS_CardinalityType
    <2> QED
      BY <2>2, <2>3
  <1>2. IInv => AtMostOneRetired
    BY <1>1 DEF AtMostOneRetired
  <1> QED
    BY <1>2, IInvHolds, PTL

-----------------------------------------------------------------------------
(* What SQLMGR has done with the data it read.  A node is its measurement's *)
(* number and its read is the number's place (DeliveryInv), so rows, losses *)
(* and reads can be compared.                                               *)
Pending == pc["SQLMGR"] = "insert"

AccountInv ==
  Sound =>
    /\ \A i, j \in 1 .. Len(stored) : i < j => stored[i] < stored[j]
    /\ \A k \in 1 .. Len(stored) :
         stored[k] \in 1 .. K("SQLMGR") /\ (Pending => stored[k] < K("SQLMGR"))
    /\ \A i \in 1 .. K("SQLMGR") :
         \/ \E k \in 1 .. Len(stored) : stored[k] = i
         \/ i \in lost
         \/ i = K("SQLMGR") /\ Pending

(* Nothing is read and nothing accounted for at the start.                  *)
LEMMA AccountInit == Init => AccountInv
  BY DEF Init, sbuffer_init, AccountInv, K, Managers

(* A step that neither reads, stores nor loses preserves AccountInv.        *)
LEMMA AccountFrame ==
  ASSUME AccountInv, Sound' => Sound, UNCHANGED <<stored, lost>>,
         Sound' => delivered'["SQLMGR"] = delivered["SQLMGR"],
         Sound' => Pending' = Pending
  PROVE  AccountInv'
  BY DEF AccountInv, K

(* SQLMGR reads one more than everything it has accounted for.              *)
LEMMA AccountRead ==
  ASSUME IInv, AccountInv, ScanList("SQLMGR"), ReadTakes("SQLMGR")
  PROVE  AccountInv'
  <1>1. /\ pc["SQLMGR"] = "scan" /\ cur \notin freed /\ reader' = NoOne
        /\ UNCHANGED <<stored, lost, memory>>
    BY DEF ScanList, ReadTakes, Return, dbVars
  <1>2. delivered \in [Managers -> Seq(Node \cup {Null})] /\ "SQLMGR" \in Managers
    BY DEF IInv, TypeOK, BufferTypeOK, Managers
  <1>3. /\ delivered'["SQLMGR"] = Append(delivered["SQLMGR"], cur)
        /\ cur \in Node /\ K("SQLMGR") \in Nat /\ Sound
    BY <1>1, <1>2, WalkFacts DEF ReadTakes
  <1>4. Len(delivered'["SQLMGR"]) = Len(delivered["SQLMGR"]) + 1
    BY <1>2, <1>3
  <1>5. Pending' /\ ~Pending
    BY <1>1, <1>2, <1>4 DEF ScanList, Goto, Pending, IInv, TypeOK, PcTypeOK, Threads, Managers,
                            NoOne
  <1> DEFINE k1 == Len(delivered["SQLMGR"])
  <1>6. k1 \in Nat /\ Len(delivered'["SQLMGR"]) = k1 + 1
    BY <1>3, <1>4 DEF K
  <1> HIDE DEF k1
  <1>7. /\ \A i, j \in 1 .. Len(stored) : i < j => stored[i] < stored[j]
        /\ \A k \in 1 .. Len(stored) : stored[k] \in 1 .. k1
        /\ \A i \in 1 .. k1 : (\E k \in 1 .. Len(stored) : stored[k] = i) \/ i \in lost
    BY <1>3, <1>5 DEF AccountInv, K, k1
  <1>8. \A k \in 1 .. Len(stored) : stored[k] \in 1 .. k1 + 1 /\ stored[k] < k1 + 1
    BY <1>6, <1>7
  <1>9. ASSUME NEW i \in 1 .. k1 + 1, i # k1 + 1
        PROVE  i \in 1 .. k1
    BY <1>6, <1>9
  <1> QED
    BY <1>1, <1>5, <1>6, <1>7, <1>8, <1>9 DEF AccountInv, K

(* insert_sensor (sensor_db.c:88-108) accounts for the read just made.      *)
LEMMA AccountInsert ==
  ASSUME IInv, AccountInv, insert_sensor
  PROVE  AccountInv'
  <1> SUFFICES ASSUME Sound' PROVE AccountInv'
    BY DEF AccountInv
  <1> DEFINE k1 == Len(delivered["SQLMGR"])
             n == Len(stored)
  <1>1. /\ UNCHANGED <<delivered, memory>> /\ Sound /\ Pending /\ ~Pending'
    BY DEF insert_sensor, bufferVars, Sound, Pending, Goto, IInv, TypeOK, PcTypeOK, Threads,
           Managers
  <1>2. /\ stored \in Seq(Node \cup {Null}) /\ n \in Nat
        /\ delivered \in [Managers -> Seq(Node \cup {Null})] /\ "SQLMGR" \in Managers
    BY DEF IInv, TypeOK, BufferTypeOK, ControlTypeOK, Managers
  <1>3. k1 \in Nat /\ k1 > 0
    BY <1>1, <1>2 DEF IInv, ControlInv, K, Pending
  <1>4. delivered["SQLMGR"][k1] = k1
    BY <1>1, <1>2, <1>3 DEF IInv, DeliveryInv, K
  <1>5. /\ \A i, j \in 1 .. n : i < j => stored[i] < stored[j]
        /\ \A k \in 1 .. n : stored[k] \in 1 .. k1 /\ stored[k] < k1
        /\ \A i \in 1 .. k1 : (\E k \in 1 .. n : stored[k] = i) \/ i \in lost \/ i = k1
    BY <1>1 DEF AccountInv, K
  <1>6. \/ stored' = Append(stored, k1) /\ lost' = lost
        \/ stored' = stored /\ lost' = lost \cup {k1}
    BY <1>4 DEF insert_sensor
  <1> HIDE DEF k1
  <1>7. CASE stored' = stored /\ lost' = lost \cup {k1}
    BY <1>1, <1>5, <1>7 DEF AccountInv, K, k1
  <1>8. CASE stored' = Append(stored, k1) /\ lost' = lost
    <2>1. /\ Len(stored') = n + 1 /\ stored'[n + 1] = k1
          /\ \A i \in 1 .. n : stored'[i] = stored[i]
      BY <1>2, <1>8
    <2> HIDE DEF n
    <2>2. \A i \in 1 .. n + 1 : i \in 1 .. n \/ i = n + 1
      BY <1>2
    <2>3. ASSUME NEW i \in 1 .. n + 1, NEW j \in 1 .. n + 1, i < j
          PROVE  stored'[i] < stored'[j]
      <3>1. i \in 1 .. n
        BY <1>2, <2>3
      <3> QED
        BY <1>5, <2>1, <2>2, <2>3, <3>1
    <2>4. ASSUME NEW k \in 1 .. n + 1
          PROVE  stored'[k] \in 1 .. k1
      BY <1>3, <1>5, <2>1, <2>2
    <2>5. ASSUME NEW i \in 1 .. k1
          PROVE  (\E k \in 1 .. n + 1 : stored'[k] = i) \/ i \in lost
      <3>1. n + 1 \in 1 .. n + 1 /\ \A k \in 1 .. n : k \in 1 .. n + 1
        BY <1>2
      <3> QED
        BY <1>5, <2>1, <3>1
    <2>6. Len(delivered'["SQLMGR"]) = k1
      BY <1>1 DEF k1
    <2> QED
      BY <1>1, <1>8, <2>1, <2>3, <2>4, <2>5, <2>6 DEF AccountInv, K
  <1> QED
    BY <1>6, <1>7, <1>8

(* Every step of the process preserves AccountInv.                          *)
LEMMA AccountStep == IInv /\ AccountInv /\ [Next]_vars => AccountInv'
  <1> SUFFICES ASSUME IInv, AccountInv, [Next]_vars PROVE AccountInv'
    OBVIOUS
  <1> USE DEF flagVars, dbVars, Goto, Sound, Pending
  <1>1. ASSUME NEW t \in Threads \ {"MAIN"}, WaitForDatabase(t) PROVE AccountInv'
    BY <1>1, AccountFrame DEF WaitForDatabase, DbTest, DbSleep, DbCheck, bufferVars,
       IInv, TypeOK, PcTypeOK, Threads, Managers
  <1>2. CASE connmgr_thread /\ ~WaitForDatabase("CONNMGR")
    BY <1>2, AccountFrame DEF connmgr_thread, Bind, Receive, Announce, CloseServer,
       SetTerminated, SignalTerminated, sbuffer_insert, bufferVars, IInv, TypeOK, PcTypeOK,
       Threads, Managers
  <1>3. ASSUME NEW m \in Managers, ManagerLoop(m), ~ScanList(m) PROVE AccountInv'
    BY <1>3, AccountFrame DEF ManagerLoop, LoopTest, Lock, TestData, getinfo, TestFlag, Sleep,
       Wake, Unlock, ReadArgument, sbuffer_read_argument, EnterRead, sbuffer_read, bufferVars,
       listVars, callVars, IInv, TypeOK, PcTypeOK, Threads, Managers
  <1>4. ASSUME NEW m \in Managers, ScanList(m) PROVE AccountInv'
    <2>0. UNCHANGED <<stored, lost>> /\ pc[m] = "scan"
      BY <1>4 DEF ScanList
    <2>1. CASE ReadTakes(m)
      <3>1. CASE m = "SQLMGR"
        BY <1>4, <2>1, <3>1, AccountRead
      <3>2. CASE m # "SQLMGR"
        BY <1>4, <2>0, <2>1, <3>2, AccountFrame DEF ScanList, ReadTakes, IInv, TypeOK, PcTypeOK,
           BufferTypeOK, Threads, Managers
      <3> QED
        BY <3>1, <3>2
    <2>2. CASE ReadRetires(m) \/ ReadAdvances(m)
      BY <1>4, <2>0, <2>2, AccountFrame DEF ScanList, ReadRetires, ReadAdvances, listVars, IInv,
         TypeOK, PcTypeOK, Threads, Managers
    <2>3. CASE ReadTouchesFreed(m)
      BY <1>4, <2>0, <2>3 DEF ReadTouchesFreed, AccountInv
    <2> QED
      BY <1>4, <2>1, <2>2, <2>3 DEF ScanList, sbuffer_read_loop
  <1>5. CASE init_connection
    BY <1>5, AccountFrame DEF init_connection, OpenDatabase, OpenFailed, SetConn, BroadcastConn,
       CreateTable, Republish, bufferVars, IInv, TypeOK, PcTypeOK, Threads
  <1>6. CASE insert_sensor
    BY <1>6, AccountInsert
  <1>7. CASE main_process
    BY <1>7, AccountFrame DEF main_process, sbuffer_free, IInv, TypeOK, PcTypeOK, Threads
  <1>8. CASE SpuriousWakeup \/ Ended \/ UNCHANGED vars
    BY <1>8, AccountFrame DEF SpuriousWakeup, Ended, vars, gatewayVars, bufferVars
  <1> QED
    BY <1>1, <1>2, <1>3, <1>4, <1>5, <1>6, <1>7, <1>8 DEF Next, Run, datamgr_thread,
       sql_mgr, Threads, Managers

(* Whatever SQLMGR has read is in the table, in order, or reported lost.    *)
THEOREM EveryReadIsStoredOrLost == Spec => []EveryReadIsAccounted
  <1>1. Spec => []AccountInv
    BY AccountInit, AccountStep, IInvHolds, PTL DEF Spec
  <1>2. ASSUME IInv, AccountInv PROVE EveryReadIsAccounted
    <2>1. Sound => \A i \in 1 .. K("SQLMGR") : delivered["SQLMGR"][i] = i
      BY <1>2 DEF IInv, DeliveryInv, Managers
    <2> QED
      BY <1>2, <2>1 DEF AccountInv, EveryReadIsAccounted, K, Pending
  <1> QED
    BY <1>1, <1>2, IInvHolds, PTL
-----------------------------------------------------------------------------
(* The same of the state a step leads to.                                   *)
LEMMA IntactFactsNext ==
  (IInv /\ Intact => /\ head \notin freed
                     /\ Cardinality(freed) = IF head = Null THEN allocated ELSE head - 1)'
  BY IntactFacts, PTL

(* And so of what breaks the feed.                                          *)
LEMMA BrokenFactsNext ==
  (IInv /\ ~Intact => terminated_by_CONNMGR /\ (~Sound \/ head \in freed))'
  BY BrokenFacts, PTL

(* The picture is taken of nothing else.                                    *)
LEMMA Frame ==
  ASSUME UNCHANGED Pictured
  PROVE  UNCHANGED Feed!feedVars
  BY DEF Pictured, Feed!feedVars, Sound, Dangling, Linked

(* A step after the close that leaves the feed broken is a Break.           *)
LEMMA Breaks ==
  ASSUME IInv', terminated_by_CONNMGR, ~Intact',
         UNCHANGED <<allocated, terminated_by_CONNMGR>>
  PROVE  Feed!Break
  <1>1. \A m \in Managers : Len(delivered'[m]) \in Nat
    BY DEF IInv, TypeOK, BufferTypeOK
  <1>2. Cardinality(freed') \in Nat
    BY FreedIsFinite DEF IInv, TypeOK, BufferTypeOK
  <1> QED
    BY <1>1, <1>2 DEF Feed!Break, Intact

(* sbuffer_init is a feed with nothing published.                           *)
LEMMA FeedInit == Init => Feed!Init
  <1>1. Cardinality({}) = 0
    BY FS_EmptySet
  <1> QED
    BY <1>1 DEF Init, sbuffer_init, Feed!Init, Sound, Dangling, Linked

(* A step of the control leaves the picture alone.                          *)
LEMMA ControlPictured ==
  ASSUME NEW t \in Threads, Control(t)
  PROVE  UNCHANGED Pictured
  BY DEF Control, WaitForDatabase, DbTest, DbSleep, DbCheck, Bind, Announce, CloseServer,
     SignalTerminated, LoopTest, Lock, TestFlag, Sleep, Wake, Unlock, ReadArgument,
     sbuffer_read_argument, EnterRead, sbuffer_read, init_connection, OpenDatabase, OpenFailed,
     SetConn, BroadcastConn, CreateTable, Republish, insert_sensor, bufferVars, listVars,
     flagVars, Pictured

(* sbuffer_insert publishes.                                                *)
LEMMA ReceivePublishes ==
  ASSUME IInv, IInv', Receive
  PROVE  Feed!Publish
  <1>1. /\ ~terminated_by_CONNMGR /\ ~terminated_by_CONNMGR'
        /\ allocated < MaxData /\ allocated' = allocated + 1
        /\ UNCHANGED <<delivered, freed, terminated_by_CONNMGR>>
    BY DEF Receive, sbuffer_insert, flagVars, IInv, ControlInv
  <1>2. Intact /\ Intact'
    BY <1>1, BrokenFacts, BrokenFactsNext
  <1> QED
    BY <1>1, <1>2 DEF Feed!Publish, Intact

(* A read that delivers consumes.                                           *)
LEMMA TakeConsumes ==
  ASSUME IInv, NEW m \in Managers, ScanList(m), ReadTakes(m)
  PROVE  Feed!Consume(m)
  <1>1. pc[m] = "scan" /\ cur \notin freed
    BY DEF ScanList, ReadTakes
  <1>2. cur = K(m) + 1 /\ cur <= allocated /\ K(m) \in Nat
    BY <1>1, TakesInOrder, WalkFacts
  <1>3. Intact
    BY <1>1, BrokenFacts, WalkFacts
  <1>4. /\ UNCHANGED <<head, tail, freed, memory, allocated, terminated_by_CONNMGR>>
        /\ delivered' = [delivered EXCEPT ![m] = Append(@, cur)]
    BY DEF ScanList, ReadTakes, flagVars
  <1>5. Intact'
    BY <1>3, <1>4 DEF Intact, Sound, Dangling, Linked
  <1>6. /\ Len(delivered'[m]) = Len(delivered[m]) + 1
        /\ \A x \in Managers \ {m} : delivered'[x] = delivered[x]
    BY <1>4 DEF IInv, TypeOK, BufferTypeOK
  <1>7. K(m) < allocated
    BY <1>2 DEF IInv, TypeOK, BufferTypeOK
  <1> DEFINE cursor == [x \in Managers |-> Len(delivered[x])]
  <1>8. cursor' = [cursor EXCEPT ![m] = cursor[m] + 1] /\ cursor[m] < allocated
    BY <1>6, <1>7 DEF K
  <1>9. (Sound /\ Dangling = {}) /\ (Sound /\ Dangling = {})'
    BY <1>3, <1>5 DEF Intact
  <1> QED
    BY <1>4, <1>8, <1>9 DEF Feed!Consume

(* A node retired is the memory of the next measurement reclaimed - unless  *)
(* the shutdown branch frees the new head as well.                          *)
LEMMA RetireReclaims ==
  ASSUME IInv, IInv', NEW m \in Managers, ScanList(m), ReadRetires(m)
  PROVE  Feed!Reclaim \/ Feed!Break
  <1>1. pc[m] = "scan" /\ cur \notin freed /\ seen[cur] = Managers /\ ~retired
    BY DEF ScanList, ReadRetires
  <1>2. /\ UNCHANGED <<allocated, delivered, terminated_by_CONNMGR>>
        /\ head' = IF head = tail THEN Null ELSE next[head]
    BY DEF ScanList, ReadRetires, flagVars
  <1>3. /\ cur = head /\ head \in Node /\ head # Null /\ tail = allocated
        /\ head <= allocated /\ allocated \in Node /\ Sound
        /\ next[head] = IF head < allocated THEN head + 1 ELSE Null
    BY <1>1, WalkFacts
  <1>4. CASE Intact'
    <2>1. Intact
      BY <1>1, BrokenFacts, WalkFacts
    <2>2. Cardinality(freed) = head - 1
      BY <1>3, <2>1, IntactFacts
    <2>3. Cardinality(freed') = IF head' = Null THEN allocated ELSE head' - 1
      BY <1>2, <1>4, IntactFactsNext
    <2>4. Cardinality(freed') = Cardinality(freed) + 1
      <3>1. CASE head = tail
        BY <1>2, <1>3, <2>2, <2>3, <3>1 DEF Node
      <3>2. CASE head # tail
        BY <1>2, <1>3, <2>2, <2>3, <3>2 DEF Node, Null
      <3> QED
        BY <3>1, <3>2
    <2>5. \A x \in Managers : head <= K(x) /\ K(x) \in Nat
      BY <1>1, <1>3 DEF IInv, TypeOK, BufferTypeOK, DeliveryInv, K
    <2>6. \A x \in Managers : Cardinality(freed) < K(x)
      BY <1>3, <2>2, <2>5 DEF Node
    <2> QED
      BY <1>2, <1>4, <2>1, <2>4, <2>6 DEF Feed!Reclaim, Intact, K
  <1>5. CASE ~Intact'
    BY <1>2, <1>5, Breaks, BrokenFactsNext
  <1> QED
    BY <1>4, <1>5

(* A call that follows a pointer to a freed node breaks the feed.           *)
LEMMA TouchBreaks ==
  ASSUME IInv, IInv', NEW m \in Managers, ScanList(m), ReadTouchesFreed(m)
  PROVE  Feed!Break
  <1>1. /\ reader = m /\ cur \in freed /\ ~Sound'
        /\ UNCHANGED <<allocated, terminated_by_CONNMGR>>
    BY DEF ScanList, ReadTouchesFreed, listVars, flagVars, Sound
  <1>2. terminated_by_CONNMGR
    BY <1>1, BrokenFactsNext DEF Intact
  <1> QED
    BY <1>1, <1>2, Breaks DEF Intact

(* getinfo only looks, and on a list with a freed node breaks the feed.     *)
LEMMA TestDataPictured ==
  ASSUME IInv, IInv', NEW m \in Managers, TestData(m)
  PROVE  Feed!Break \/ UNCHANGED Feed!feedVars
  <1>1. CASE Linked \cap freed = {}
    BY <1>1, Frame DEF TestData, getinfo, listVars, flagVars, Pictured
  <1>2. CASE Linked \cap freed # {}
    <2>1. ~Intact' /\ UNCHANGED <<allocated, terminated_by_CONNMGR>>
      BY <1>2 DEF TestData, getinfo, listVars, flagVars, Intact, Sound
    <2> QED
      BY <2>1, Breaks, BrokenFactsNext
  <1> QED
    BY <1>1, <1>2

(* sbuffer_free disposes of what is left - nothing, if the database never   *)
(* opened, when the feed is not even closed - or frees a node again.        *)
LEMMA MainProcessPictured ==
  ASSUME IInv, IInv', DatabaseInv, main_process
  PROVE  Feed!Dispose \/ Feed!Break \/ UNCHANGED Feed!feedVars
  <1>1. /\ UNCHANGED <<allocated, delivered, tail, terminated_by_CONNMGR>>
        /\ head' = Null /\ freed' = freed \cup Linked
        /\ Linked \cap freed = {} => memory' = memory
        /\ pc["CONNMGR"] = "done"
    BY DEF main_process, sbuffer_free, flagVars, Threads, Managers
  <1>2. CASE ~Intact'
    BY <1>1, <1>2, Breaks, BrokenFactsNext
  <1>3. CASE Intact' /\ terminated_by_CONNMGR
    <2>1. Intact
      BY <1>3 DEF main_process, sbuffer_free, Intact, Sound, Dangling
    <2>2. Cardinality(freed') = allocated
      BY <1>1, <1>3, IntactFactsNext
    <2> QED
      BY <1>1, <1>3, <2>1, <2>2 DEF Feed!Dispose, Intact
  <1>4. CASE Intact' /\ ~terminated_by_CONNMGR
    <2>1. Intact
      BY <1>4, BrokenFacts
    <2>2. terminated_by_INIT_CONNECTION
      BY <1>1, <1>4 DEF DatabaseInv
    <2>3. allocated = 0
      BY <2>2 DEF DatabaseInv, IInv, TypeOK, BufferTypeOK
    <2>4. Linked = {}
      BY <2>3 DEF IInv, TypeOK, BufferTypeOK, ListInv, Linked, Node, Null
    <2>5. freed' = freed
      BY <1>1, <2>4
    <2> QED
      BY <1>1, <1>4, <2>1, <2>5 DEF Feed!feedVars, Intact
  <1> QED
    BY <1>2, <1>3, <1>4

(* Every step of the process is a step of the feed or leaves it alone.      *)
LEMMA FeedStep == IInv /\ IInv' /\ DatabaseInv /\ [Next]_vars => [Feed!Next]_Feed!feedVars
  <1> SUFFICES ASSUME IInv, IInv', DatabaseInv, [Next]_vars
               PROVE  Feed!Next \/ UNCHANGED Feed!feedVars
    OBVIOUS
  <1>1. ASSUME NEW t \in Threads, Control(t) PROVE UNCHANGED Feed!feedVars
    BY <1>1, ControlPictured, Frame
  <1>2. CASE Receive
    BY <1>2, ReceivePublishes DEF Feed!Next
  <1>3. CASE SetTerminated
    <2>1. ~terminated_by_CONNMGR /\ terminated_by_CONNMGR' = TRUE
          /\ UNCHANGED bufferVars
      BY <1>3 DEF SetTerminated, IInv, ControlInv
    <2> QED
      BY <2>1 DEF Feed!Next, Feed!Close, bufferVars, Sound, Dangling, Linked
  <1>4. ASSUME NEW m \in Managers, TestData(m)
        PROVE  Feed!Next \/ UNCHANGED Feed!feedVars
    BY <1>4, TestDataPictured DEF Feed!Next
  <1>5. ASSUME NEW m \in Managers, ScanList(m)
        PROVE  Feed!Next \/ UNCHANGED Feed!feedVars
    <2>1. CASE ReadTakes(m)
      BY <1>5, <2>1, TakeConsumes DEF Feed!Next
    <2>2. CASE ReadRetires(m)
      BY <1>5, <2>2, RetireReclaims DEF Feed!Next
    <2>3. CASE ReadAdvances(m)
      BY <1>5, <2>3, Frame DEF ScanList, ReadAdvances, listVars, flagVars, Pictured
    <2>4. CASE ReadTouchesFreed(m)
      BY <1>5, <2>4, TouchBreaks DEF Feed!Next
    <2> QED
      BY <1>5, <2>1, <2>2, <2>3, <2>4 DEF ScanList, sbuffer_read_loop
  <1>6. CASE main_process
    BY <1>6, MainProcessPictured DEF Feed!Next
  <1>7. CASE SpuriousWakeup \/ Ended \/ UNCHANGED vars
    BY <1>7, Frame DEF SpuriousWakeup, Ended, vars, gatewayVars, bufferVars, flagVars, Pictured
  <1>8. CASE connmgr_thread
    BY <1>1, <1>2, <1>3, <1>8 DEF connmgr_thread, Control, Threads
  <1>9. ASSUME NEW m \in Managers, ManagerLoop(m)
        PROVE  Feed!Next \/ UNCHANGED Feed!feedVars
    BY <1>1, <1>4, <1>5, <1>9 DEF ManagerLoop, Control, Threads
  <1>10. CASE datamgr_thread
    BY <1>1, <1>9, <1>10 DEF datamgr_thread, Control, Threads, Managers
  <1>11. CASE sql_mgr
    BY <1>1, <1>9, <1>11 DEF sql_mgr, Control, Threads, Managers
  <1> QED
    BY <1>6, <1>7, <1>8, <1>10, <1>11 DEF Next, Run

(* The shared buffer with its three users, written against a list, a lock   *)
(* and has_seen flags, implements the feed of numbered measurements.        *)
THEOREM BufferImplementsFeed == Spec => ImplementsFeed
  <1>1. IInv /\ DatabaseInv /\ [Next]_vars => [Feed!Next]_Feed!feedVars
    BY FeedStep, NextPreservesIInv
  <1> QED
    BY <1>1, FeedInit, IInvHolds, DatabaseInvHolds, PTL DEF Spec, ImplementsFeed, Feed!Spec
==============================================================================
