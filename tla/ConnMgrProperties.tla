-------------------------- MODULE ConnMgrProperties --------------------------
(***************************************************************************)
(* What connmgr_thread promises the sensors it serves.                     *)
(***************************************************************************)
EXTENDS ConnMgr, FiniteSets

(* Each sensor takes a descriptor, so there are finitely many.              *)
ASSUME FinitelyManySensors == IsFiniteSet(Sensor)

Place == 0 .. Total - 1
Held == [from : Sensor \cup {Server}, at : Place, got : 0 .. Total]

(* Every variable holds a value of its type: no index is past the list, and *)
(* no stream is read beyond what has arrived.                               *)
TypeOK ==
  /\ step \in {"poll", "service", "value", "ts", "closed"}
  /\ i \in 0 .. Len(connections)
  /\ connections \in Seq(Sensor)
  /\ last_mod \in [Sensor \cup {Server} -> 0 .. Expired]
  /\ waited \in 0 .. TIMEOUT
  /\ sensor_data \in [id : Held, value : Held, ts : Held]
  /\ inserted \in [from : Sensor \cup {Server}, id : Sensor \cup {Server, Unknown},
                   whole : BOOLEAN]
  /\ backlog \in Seq(Sensor)
  /\ peer \in [Sensor -> {"away", "open", "closed"}]
  /\ arrived \in [Sensor -> 0 .. Window]
  /\ offset \in [Sensor -> Place]
  /\ short \subseteq Sensor
  /\ evicted \in [Sensor -> {"no", "timed_out", "hanged_up"}]

(* While a round serves index i, the entry of poll_list at i is the one     *)
(* built for the connection at i, although evictions shift the indices and  *)
(* accepting adds one: the connection accepted in this very round finds the *)
(* spare entry, and no index is past the array.                             *)
PollResultBelongs ==
  step \in {"service", "value", "ts"} /\ i > 0 =>
    /\ i \in DOMAIN poll_list
    /\ \/ poll_list[i].fd = connections[i]
       \/ poll_list[i] = Spare /\ i = Len(connections)

(* What is inserted for a sensor is a measurement of that sensor, whole,    *)
(* unless a receive of its own stream has returned less than it was asked   *)
(* for - nothing then brings the stream into step again - or the stream     *)
(* ended in the middle of the measurement, which is then its last and bears *)
(* the right id.  What happens to one stream disturbs no other, although    *)
(* one struct serves them all.                                              *)
TornOnlyIfCut ==
  [][ \A s \in Sensor : inserted'.from = s /\ s \notin short' =>
        /\ inserted'.id = s
        /\ \/ inserted'.whole
           \/ peer[s] = "closed" /\ arrived'[s] = 0 /\ offset'[s] # 0 ]_inserted

(* A silent connection is not kept for ever by the others: poll sleeps up   *)
(* to TIMEOUT between two evictions, so the last of n is gone after n + 1   *)
(* times TIMEOUT, if the thread itself loses no time.                       *)
SilenceIsBounded ==
  \A s \in Accepted :
    last_mod[s] <= (Cardinality(Sensor) + 1) * TIMEOUT

(* The thread waits without a limit in one place: in tcp_receive, for the   *)
(* rest of a measurement whose sensor is silent and has not closed.         *)
HeldUp ==
  /\ step \in {"value", "ts"}
  /\ peer[connections[i]] = "open"
  /\ arrived[connections[i]] = 0

(* Nothing else holds it: it comes back to poll again and again, or ends,   *)
(* whatever the sensors do and even if every accept fails.                  *)
StuckOnlyInReceive == []<>(step \in {"poll", "closed"}) \/ <>[]HeldUp

(* A measurement of s is being received. *)
Receiving(s) == step \in {"value", "ts"} /\ s = connections[i]

(* No connection is kept for ever, the silent ones going by the timeout,    *)
(* unless one sensor holds up the thread, or the sensor is heard of for     *)
(* ever: it goes on sending, as sensor_node.c does by default, or its       *)
(* receives fail without end.  A sensor that goes on sending does not keep  *)
(* the others.                                                              *)
EveryConnectionEnds ==
  \/ <>[]HeldUp
  \/ \A s \in Sensor : []<>(s \notin Accepted) \/ []<>Receiving(s)

(* The server closes at last, unless one sensor holds up the thread, one    *)
(* that nobody can accept keeps it busy, or one is heard of for ever.       *)
ServerCloses ==
  \/ []<>(step = "closed")
  \/ <>[]HeldUp
  \/ <>[](backlog # << >>)
  \/ \E s \in Sensor : []<>Receiving(s)

(* The server closes on a silence of more than TIMEOUT, when it serves      *)
(* nobody and poll saw nobody connecting.  A sensor that connects after that *)
(* poll and before the closing is dropped.                                  *)
ClosesOnlyOnSilence ==
  [][ step # "closed" /\ step' = "closed" =>
        /\ connections = << >>
        /\ last_mod[Server] > TIMEOUT
        /\ ~poll_list[0].in ]_step

(* The rounds serve sensors as SensorService says: in the order of their    *)
(* arrival, each until it leaves, and what is taken bears the id of the     *)
(* sensor it is taken from as long as the stream of that sensor is in step, *)
(* whatever the struct held before and whatever has become of the others.   *)
Service ==
  INSTANCE SensorService WITH
    waiting <- backlog,
    served <- Accepted,
    gone <- {s \in Sensor : evicted[s] # "no"},
    torn <- short,
    Nobody <- Server,
    source <- inserted.from,
    id <- inserted.id,
    open <- step # "closed"
ImplementsService == Service!Spec

-----------------------------------------------------------------------------
(* A claim of the repository's documents that the code does not keep.      *)

(* "all sensor data send by the sensor nodes is avaliable in the SQLite     *)
(* database" (Code Review Checklist, page 2): of a sensor that closed its   *)
(* connection after a whole measurement, everything has been received when  *)
(* the connection is removed for that reason.                               *)
HangedUpIsDrained ==
  [][ \A s \in Sensor :
        evicted[s] = "no" /\ evicted'[s] = "hanged_up" =>
          arrived[s] = 0 \/ (offset[s] + arrived[s]) % Total # 0 ]_evicted
==============================================================================
