-------------------------- MODULE GatewayProperties --------------------------
(***************************************************************************)
(* What the gateway's main process promises about the data it receives,    *)
(* the memory of its buffer and its own termination.                       *)
(***************************************************************************)
EXTENDS Gateway, FiniteSets

(* Every variable holds a value of its type: no walk of the list leaves it  *)
(* with a pointer to nothing, no counter passes its limit.                  *)
BufferTypeOK ==
  /\ head \in Node \cup {Null}
  /\ tail \in Node \cup {Null}
  /\ next \in [Node -> Node \cup {Null}]
  /\ seen \in [Node -> SUBSET Managers]
  /\ allocated \in 0 .. MaxData
  /\ freed \subseteq Node
  /\ reader \in Managers \cup {NoOne}
  /\ cur \in Node \cup {Null}
  /\ retired \in BOOLEAN
  /\ arg \in [Managers -> BOOLEAN]
  /\ delivered \in [Managers -> Seq(Node \cup {Null})]
  /\ memory \in {"sound", "corrupt", "aborted"}

PcTypeOK ==
  /\ pc \in [Threads -> ConnMgrPc \cup SqlMgrPc \cup MainPc]
  /\ pc["CONNMGR"] \in ConnMgrPc
  /\ pc["DATAMGR"] \in ManagerPc
  /\ pc["SQLMGR"] \in SqlMgrPc
  /\ pc["MAIN"] \in MainPc

ControlTypeOK ==
  /\ lock \in Threads \cup {NoOne}
  /\ sleeping \subseteq Threads
  /\ terminated_by_CONNMGR \in BOOLEAN
  /\ terminated_by_INIT_CONNECTION \in BOOLEAN
  /\ conn \in BOOLEAN
  /\ quit \in [Managers -> BOOLEAN]
  /\ opens \in 0 .. MaxOpens - 1
  /\ stored \in Seq(Node \cup {Null})
  /\ lost \subseteq Node \cup {Null}

TypeOK == BufferTypeOK /\ PcTypeOK /\ ControlTypeOK

Sound == memory = "sound"
Dangling == Linked \cap freed

(* sbuffer_read hands each manager the measurements in the order they were  *)
(* received, none twice and none skipped, however the managers' calls and   *)
(* the retirement of nodes interleave.                                      *)
InOrderDelivery ==
  Sound => \A m \in Managers :
             /\ Len(delivered[m]) <= allocated
             /\ \A i \in 1 .. Len(delivered[m]) : delivered[m][i] = i

(* Until CONNMGR ends, sbuffer_read frees no node that the list, or the     *)
(* call in progress, can still reach, and none a manager has not read.      *)
NoDanglingWhileRunning ==
  ~terminated_by_CONNMGR =>
    /\ Sound
    /\ Dangling = {}
    /\ cur \notin freed
    /\ \A n \in freed, m \in Managers : n <= Len(delivered[m])

(* Every node is reachable from head until it is freed: unlinking a node    *)
(* always goes with freeing it, the single-node case of sbuffer_read, where *)
(* only the shutdown branch frees it, included.                             *)
NoLeak == Sound => \A n \in 1 .. allocated : n \in Linked \cup freed

(* Nodes are retired as fast as they are read: at most one node both        *)
(* managers have seen waits in the list for the next call.                  *)
AtMostOneRetired ==
  Sound => Cardinality({n \in Linked : seen[n] = Managers}) <= 1

(* Nobody serves a database that failed to open: CONNMGR does not poll and  *)
(* no manager loops, although the three read the flag and the handle while  *)
(* init_connection sets them one after the other without the lock.          *)
NoServiceWithoutDatabase ==
  terminated_by_INIT_CONNECTION =>
    /\ allocated = 0
    /\ pc["CONNMGR"] \in DbWaitPc \cup {"bind", "refuse", "signal", "done"}
    /\ \A m \in Managers : pc[m] = "loop" => quit[m]

(* A row is in the table, or reported lost, for everything SQLMGR read but  *)
(* the data it is about to insert; the table keeps the order of arrival.    *)
EveryReadIsAccounted ==
  LET read == delivered["SQLMGR"] IN
  Sound =>
    /\ \A i, j \in 1 .. Len(stored) : i < j => stored[i] < stored[j]
    /\ \A i \in 1 .. Len(read) :
         \/ \E k \in 1 .. Len(stored) : stored[k] = read[i]
         \/ read[i] \in lost
         \/ i = Len(read) /\ pc["SQLMGR"] = "insert"

(* getinfo answered that there is data, the lock was released, and then     *)
(* sbuffer_read was called: unless the shutdown has begun the data is still *)
(* there, and the call does not come back empty-handed.                     *)
CheckedReadDelivers ==
  [][\A m \in Managers :
       /\ pc[m] \in {"enter", "scan"}
       /\ pc'[m] \notin {"enter", "scan"}
       /\ ~terminated_by_CONNMGR
       => Len(delivered'[m]) = Len(delivered[m]) + 1]_vars

(* The buffer and its three users implement the feed of MeasurementFeed:    *)
(* closed is CONNMGR's flag, a cursor counts a manager's successful reads,  *)
(* and the feed is sound as long as the list holds no freed node.           *)
Feed == INSTANCE MeasurementFeed WITH
          Reader    <- Managers,
          Limit     <- MaxData,
          published <- allocated,
          cursor    <- [m \in Managers |-> Len(delivered[m])],
          reclaimed <- Cardinality(freed),
          closed    <- terminated_by_CONNMGR,
          sound     <- Sound /\ Dangling = {}

ImplementsFeed == Feed!Spec

(* A manager that tests its wait's condition after a measurement was        *)
(* inserted goes on to read it, or the shutdown begins.                     *)
NewDataIsRead ==
  \A m \in Managers, n \in Node :
    (pc[m] = "getinfo" /\ n <= allocated)
      ~> (Len(delivered[m]) >= n \/ terminated_by_CONNMGR)

(* A manager that is anywhere in its loop but in the wait, or committed to  *)
(* it, when CONNMGR has ended finishes, whatever is left in the buffer.     *)
AwakeManagerStops ==
  \A m \in Managers :
    (/\ pc["CONNMGR"] = "done"
     /\ terminated_by_CONNMGR
     /\ pc[m] \in ManagerPc \ (DbWaitPc \cup {"sleep"})
     /\ m \notin sleeping)
      ~> (pc[m] = "done" \/ ~Sound)

(* The condition variable is all a thread can get stuck on: again and again *)
(* it has ended or is asleep, or, CONNMGR, waits in poll.  No lock is held   *)
(* for ever, no loop spins.                                                 *)
StuckOnlyAsleep ==
  \A t \in Threads \ {"MAIN"} :
    []<>(pc[t] \in {"done", "poll"} \/ t \in sleeping \/ ~Sound)

-----------------------------------------------------------------------------
(* Claims of the repository's documents that the code does not keep.       *)

(* "programs exits when the database connection fails" and "my program     *)
(* terminates when all TCP connections terminate" (Code Review Checklist,   *)
(* page 2): the opening having failed or the server closed, it ends.        *)
ExitsWhenOver ==
  (terminated_by_INIT_CONNECTION \/ pc["CONNMGR"] = "ending") ~> ProcessEnded

(* "all sensor data send by the sensor nodes is avaliable in the SQLite     *)
(* database" (ibid.): at exit, if no INSERT failed.                         *)
AllDataIsStored ==
  pc["MAIN"] = "exit" /\ Sound /\ lost = {} => Len(stored) = allocated

(* "All allocated resources are freed" once: no call follows a pointer to a *)
(* freed node or frees it again.                                            *)
NoUseAfterFree == Sound
==============================================================================
