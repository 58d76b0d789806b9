---------------------------- MODULE ConnMgr_proofs ----------------------------
(***************************************************************************)
(* Proofs about the server loop, for any set of sensors, any sizes of the  *)
(* members of a measurement, any window and any TIMEOUT.                   *)
(*                                                                         *)
(* CInv is the inductive invariant: a sensor is in one place (PlaceInv),   *)
(* poll_list is indexed as the list is, and what it says of a connection   *)
(* not yet served in this round is still true (PollInv), and a stream none *)
(* of whose receives was cut short is at the start of a measurement when   *)
(* the thread comes to it, or at its end (StreamInv).                      *)
(***************************************************************************)
EXTENDS ConnMgrProperties, SequenceTheorems, FiniteSetTheorems, TLAPS

(* A sensor waits in the backlog once, or is served once, or has been       *)
(* evicted.                                                                 *)
PlaceInv ==
  /\ \A a, b \in 1 .. Len(connections) : connections[a] = connections[b] => a = b
  /\ \A a, b \in 1 .. Len(backlog) : backlog[a] = backlog[b] => a = b
  /\ \A a \in 1 .. Len(connections), b \in 1 .. Len(backlog) : connections[a] # backlog[b]
  /\ \A a \in 1 .. Len(connections) : /\ evicted[connections[a]] = "no"
                                      /\ peer[connections[a]] # "away"
  /\ \A b \in 1 .. Len(backlog) : evicted[backlog[b]] = "no" /\ peer[backlog[b]] # "away"
  /\ \A s \in Sensor : peer[s] = "away" => evicted[s] = "no"

InRound == step \in {"service", "value", "ts"}
NotYet(k) == k > i \/ (k = i /\ step = "service")

(* n is how many connections there were when poll_list was built.           *)
BuiltFor(n) ==
  /\ n = Len(connections) \/ (i > 0 /\ n + 1 = Len(connections))
  /\ DOMAIN poll_list = 0 .. n + 1
  /\ poll_list[n + 1] = Spare
  /\ \A k \in 1 .. n : poll_list[k].fd = connections[k]
  /\ \A k \in 1 .. n :
       NotYet(k) /\ poll_list[k].in /\ ~poll_list[k].hup
         => arrived[connections[k]] > 0

PollInv ==
  /\ InRound => \E n \in Nat : BuiltFor(n)
  /\ step = "service" /\ i = 0 /\ poll_list[0].in => backlog # << >>
  /\ step \in {"value", "ts"} => i > 0

(* Nothing more comes from s. *)
Ended(s) == peer[s] = "closed" /\ arrived[s] = 0

Settled(s) == offset[s] = 0 \/ Ended(s)

(* A measurement of s is being received: its id, and perhaps its value.     *)
Underway(s) ==
  /\ IsWhole(sensor_data, "id", s)
  /\ \/ step = "value" /\ offset[s] = IdSize
     \/ step = "ts" /\ offset[s] = IdSize /\ Ended(s)
     \/ /\ step = "ts" /\ offset[s] = IdSize + ValueSize
        /\ IsWhole(sensor_data, "value", s)

Midst(s) == step \in {"value", "ts"} /\ connections[i] = s

StreamInv ==
  \A s \in Sensor \ short : IF Midst(s) THEN Underway(s) ELSE Settled(s)

(* What was inserted before is not the measurement under way.               *)
InsertedInv == step \in {"value", "ts"} => inserted = Nothing

CInv ==
  /\ TypeOK
  /\ PlaceInv
  /\ PollInv
  /\ StreamInv
  /\ InsertedInv

-----------------------------------------------------------------------------
(* What is left of a list with one element removed.                         *)
LEMMA RemoveAtFacts ==
  ASSUME NEW S, NEW q \in Seq(S), NEW k \in 1 .. Len(q)
  PROVE  /\ RemoveAt(q, k) \in Seq(S)
         /\ Len(RemoveAt(q, k)) = Len(q) - 1
         /\ \A j \in 1 .. Len(q) - 1 :
              RemoveAt(q, k)[j] = IF j < k THEN q[j] ELSE q[j + 1]
  <1> DEFINE a == SubSeq(q, 1, k - 1)
             b == SubSeq(q, k + 1, Len(q))
  <1>1. /\ a \in Seq(S) /\ Len(a) = k - 1
        /\ \A j \in 1 .. k - 1 : a[j] = q[j]
    OBVIOUS
  <1>2. /\ b \in Seq(S) /\ Len(b) = Len(q) - k
        /\ \A j \in 1 .. Len(q) - k : b[j] = q[j + k]
    OBVIOUS
  <1>3. RemoveAt(q, k) = a \o b
    BY DEF RemoveAt
  <1> HIDE DEF a, b
  <1>4. /\ a \o b \in Seq(S) /\ Len(a \o b) = Len(a) + Len(b)
        /\ \A j \in 1 .. Len(a) + Len(b) :
             (a \o b)[j] = IF j <= Len(a) THEN a[j] ELSE b[j - Len(a)]
    BY <1>1, <1>2, ConcatProperties
  <1>5. Len(q) \in Nat /\ k \in Nat /\ k >= 1 /\ k <= Len(q)
    OBVIOUS
  <1>6. ASSUME NEW j \in 1 .. Len(q) - 1
        PROVE  (a \o b)[j] = IF j < k THEN q[j] ELSE q[j + 1]
    <2>1. j \in 1 .. Len(a) + Len(b)
      BY <1>1, <1>2, <1>5
    <2>2. CASE j < k
      BY <1>1, <1>4, <1>5, <2>1, <2>2
    <2>3. CASE ~(j < k)
      <3>1. j - Len(a) \in 1 .. Len(q) - k /\ j - Len(a) + k = j + 1 /\ ~(j <= Len(a))
        BY <1>1, <1>5, <2>3
      <3> QED
        BY <1>2, <1>4, <2>1, <2>3, <3>1
    <2> QED
      BY <2>2, <2>3
  <1> QED
    BY <1>1, <1>2, <1>3, <1>4, <1>5, <1>6

(* The sizes are numbers, and a measurement has its three members in order. *)
LEMMA Sizes ==
  /\ IdSize \in Nat \ {0} /\ ValueSize \in Nat \ {0} /\ TsSize \in Nat \ {0}
  /\ Window \in Nat /\ Total \in Nat /\ Total = IdSize + ValueSize + TsSize
  /\ 0 \in Place /\ 0 \in 0 .. Total /\ 0 \in 0 .. Window
  /\ Size.id = IdSize /\ Size.value = ValueSize /\ Size.ts = TsSize
  /\ Start.id = 0 /\ Start.value = IdSize /\ Start.ts = IdSize + ValueSize
  /\ DOMAIN Size = {"id", "value", "ts"}
  BY ConnMgrAssumption DEF Total, Place, Size, Start

(* A place some pieces further on is a place.                               *)
LEMMA FurtherIs ==
  ASSUME NEW place \in Place, NEW got \in 0 .. Total
  PROVE  /\ Further(place, got) \in Place
         /\ place + got < Total => Further(place, got) = place + got
         /\ place + got = Total => Further(place, got) = 0
  BY Sizes DEF Further, Place

(* An empty list, an empty backlog and silent streams satisfy CInv.         *)
LEMMA InitHolds == Init => CInv
  <1> SUFFICES ASSUME Init PROVE CInv
    OBVIOUS
  <1>1. TypeOK
    <2>1. << >> \in Seq(Sensor) /\ Len(<< >>) = 0
      OBVIOUS
    <2>2. Older \in Held /\ Nothing.from = Server
      BY Sizes DEF Older, Stretch, Held, Nothing
    <2>3. last_mod \in [Sensor \cup {Server} -> 0 .. Expired]
      <3>1. PICK age \in 0 .. Expired :
                last_mod = [c \in Sensor \cup {Server} |-> IF c = Server THEN age ELSE 0]
        BY DEF Init
      <3>2. 0 \in 0 .. Expired
        BY ConnMgrAssumption
      <3> QED
        BY <3>1, <3>2
    <2>4. /\ arrived \in [Sensor -> 0 .. Window] /\ offset \in [Sensor -> Place]
          /\ short \subseteq Sensor
      BY Sizes DEF Init
    <2>5. inserted \in [from : Sensor \cup {Server}, id : Sensor \cup {Server, Unknown},
                       whole : BOOLEAN]
      BY DEF Init, Nothing
    <2>6. waited \in 0 .. TIMEOUT /\ i \in 0 .. Len(connections)
      BY ConnMgrAssumption DEF Init
    <2>7. sensor_data \in [id : Held, value : Held, ts : Held]
      BY <2>2 DEF Init, AllOlder
    <2>8. /\ peer \in [Sensor -> {"away", "open", "closed"}]
          /\ evicted \in [Sensor -> {"no", "timed_out", "hanged_up"}]
          /\ step = "poll" /\ connections \in Seq(Sensor) /\ backlog \in Seq(Sensor)
      BY <2>1 DEF Init
    <2> QED
      BY <2>3, <2>4, <2>5, <2>6, <2>7, <2>8 DEF TypeOK
  <1>2. PlaceInv /\ PollInv /\ InsertedInv
    BY DEF Init, PlaceInv, PollInv, InRound, InsertedInv
  <1>3. StreamInv
    BY DEF Init, StreamInv, Midst, Settled
  <1> QED
    BY <1>1, <1>2, <1>3 DEF CInv

-----------------------------------------------------------------------------
(* Steps of the sensors and of time leave what poll has reported and what   *)
(* was received alone: pieces only arrive, and only from a sensor that is   *)
(* open.                                                                    *)
LEMMA SensorFrame ==
  ASSUME CInv,
         UNCHANGED <<step, i, poll_list, connections, sensor_data, offset, short, inserted>>,
         arrived' \in [Sensor -> 0 .. Window],
         \A s \in Sensor : arrived[s] > 0 => arrived'[s] > 0,
         \A s \in Sensor : peer[s] = "closed" => peer'[s] = "closed" /\ arrived'[s] = arrived[s],
         backlog # << >> => backlog' # << >>
  PROVE  PollInv' /\ StreamInv' /\ InsertedInv'
  <1>1. connections \in Seq(Sensor)
    BY DEF CInv, TypeOK
  <1>2. ASSUME NEW n \in Nat, BuiltFor(n) PROVE BuiltFor(n)'
    <2>1. ASSUME NEW k \in 1 .. n
          PROVE  k \in 1 .. Len(connections)
      <3>1. Len(connections) \in Nat /\ (n = Len(connections) \/ n + 1 = Len(connections))
        BY <1>1, <1>2 DEF BuiltFor
      <3> QED
        BY <3>1
    <2>2. \A k \in 1 .. n : connections[k] \in Sensor
      BY <1>1, <2>1
    <2>3. \A k \in 1 .. n : arrived[connections[k]] > 0 => arrived'[connections[k]] > 0
      BY <2>2
    <2> QED
      BY <1>2, <2>3 DEF BuiltFor, NotYet
  <1>3. PollInv'
    BY <1>2 DEF CInv, PollInv, InRound
  <1>4. ASSUME NEW s \in Sensor \ short PROVE (IF Midst(s) THEN Underway(s) ELSE Settled(s))'
    <2>1. Midst(s)' = Midst(s)
      BY DEF Midst
    <2>2. Underway(s) => Underway(s)'
      BY DEF Underway, IsWhole, Ended
    <2>3. Settled(s) => Settled(s)'
      BY DEF Settled, Ended
    <2> QED
      BY <2>1, <2>2, <2>3 DEF CInv, StreamInv
  <1>5. InsertedInv'
    BY DEF CInv, InsertedInv
  <1> QED
    BY <1>3, <1>4, <1>5 DEF StreamInv

(* sensor_node.c: connecting, sending, closing.                             *)
LEMMA ConnectStep ==
  ASSUME CInv, NEW s \in Sensor, Connect(s)
  PROVE  CInv'
  <1> USE DEF Connect, listVars, streamVars
  <1>0. /\ backlog \in Seq(Sensor) /\ connections \in Seq(Sensor)
        /\ peer \in [Sensor -> {"away", "open", "closed"}]
        /\ arrived \in [Sensor -> 0 .. Window]
    BY DEF CInv, TypeOK
  <1>1. /\ backlog' \in Seq(Sensor) /\ Len(backlog') = Len(backlog) + 1
        /\ backlog'[Len(backlog) + 1] = s
        /\ \A b \in 1 .. Len(backlog) : backlog'[b] = backlog[b]
        /\ backlog' # << >>
    BY <1>0
  <1>2. PollInv' /\ StreamInv' /\ InsertedInv'
    BY <1>0, <1>1, SensorFrame
  <1>3. TypeOK'
    BY <1>0, <1>1 DEF CInv, TypeOK
  <1>4. PlaceInv'
    <2>1. \A a \in 1 .. Len(connections) : connections[a] # s /\ connections[a] \in Sensor
      BY <1>0 DEF CInv, PlaceInv
    <2>2. \A b \in 1 .. Len(backlog) : backlog[b] # s /\ backlog[b] \in Sensor
      BY <1>0 DEF CInv, PlaceInv
    <2>3. \A b \in 1 .. Len(backlog') : b \in 1 .. Len(backlog) \/ b = Len(backlog) + 1
      <3>1. Len(backlog) \in Nat
        BY <1>0
      <3> QED
        BY <1>1, <3>1
    <2>4. evicted[s] = "no"
      BY DEF CInv, PlaceInv
    <2>5. /\ UNCHANGED <<connections, evicted>>
          /\ peer'[s] = "open" /\ \A x \in Sensor \ {s} : peer'[x] = peer[x]
      BY <1>0
    <2>6. \A b, c \in 1 .. Len(backlog') : backlog'[b] = backlog'[c] => b = c
      BY <1>1, <2>2, <2>3 DEF CInv, PlaceInv
    <2>7. \A a \in 1 .. Len(connections), b \in 1 .. Len(backlog') :
            connections[a] # backlog'[b]
      BY <1>1, <2>1, <2>3 DEF CInv, PlaceInv
    <2>8. \A b \in 1 .. Len(backlog') : evicted[backlog'[b]] = "no" /\ peer'[backlog'[b]] # "away"
      BY <1>1, <2>2, <2>3, <2>4, <2>5 DEF CInv, PlaceInv
    <2>9. \A a \in 1 .. Len(connections) : /\ evicted[connections[a]] = "no"
                                            /\ peer'[connections[a]] # "away"
      BY <2>1, <2>5 DEF CInv, PlaceInv
    <2>10. \A x \in Sensor : peer'[x] = "away" => evicted[x] = "no"
      BY <2>4, <2>5 DEF CInv, PlaceInv
    <2> QED
      BY <2>5, <2>6, <2>7, <2>8, <2>9, <2>10 DEF CInv, PlaceInv
  <1> QED
    BY <1>2, <1>3, <1>4 DEF CInv

(* sensor_node.c sends one more piece: nothing that was read changes.       *)
LEMMA SendPieceStep ==
  ASSUME CInv, NEW s \in Sensor, SendPiece(s)
  PROVE  CInv'
  <1> USE DEF SendPiece, listVars
  <1>0. Window \in Nat /\ arrived \in [Sensor -> 0 .. Window]
    BY Sizes DEF CInv, TypeOK
  <1>1. /\ arrived' \in [Sensor -> 0 .. Window]
        /\ \A x \in Sensor : arrived[x] > 0 => arrived'[x] > 0
        /\ \A x \in Sensor : peer[x] = "closed" => peer'[x] = "closed" /\ arrived'[x] = arrived[x]
    BY <1>0
  <1>2. PollInv' /\ StreamInv' /\ InsertedInv'
    BY <1>1, SensorFrame
  <1>3. TypeOK'
    BY <1>1 DEF CInv, TypeOK
  <1>4. PlaceInv'
    BY DEF CInv, PlaceInv
  <1> QED
    BY <1>2, <1>3, <1>4 DEF CInv

(* A sensor closes or dies: nothing arrives after that.                     *)
LEMMA DisconnectStep ==
  ASSUME CInv, NEW s \in Sensor, Disconnect(s)
  PROVE  CInv'
  <1> USE DEF Disconnect, listVars, streamVars
  <1>0. /\ peer \in [Sensor -> {"away", "open", "closed"}]
        /\ connections \in Seq(Sensor) /\ backlog \in Seq(Sensor)
        /\ arrived \in [Sensor -> 0 .. Window]
    BY DEF CInv, TypeOK
  <1>1. /\ peer' \in [Sensor -> {"away", "open", "closed"}]
        /\ \A x \in Sensor : peer'[x] = IF x = s THEN "closed" ELSE peer[x]
    BY <1>0
  <1>2. PollInv' /\ StreamInv' /\ InsertedInv'
    BY <1>0, <1>1, SensorFrame
  <1>3. TypeOK'
    BY <1>1 DEF CInv, TypeOK
  <1>4. PlaceInv'
    BY <1>0, <1>1 DEF CInv, PlaceInv
  <1> QED
    BY <1>2, <1>3, <1>4 DEF CInv

(* A second passes.                                                         *)
LEMMA TickStep ==
  ASSUME CInv, Tick
  PROVE  CInv'
  <1> USE DEF Tick, streamVars
  <1>0. /\ last_mod \in [Sensor \cup {Server} -> 0 .. Expired] /\ waited \in 0 .. TIMEOUT
        /\ Expired \in Nat /\ TIMEOUT \in Nat
        /\ arrived \in [Sensor -> 0 .. Window]
    BY ConnMgrAssumption DEF CInv, TypeOK
  <1>1. last_mod' \in [Sensor \cup {Server} -> 0 .. Expired]
    <2>1. \A age \in 0 .. Expired : Aged(age) \in 0 .. Expired
      BY <1>0 DEF Aged
    <2> QED
      BY <1>0, <2>1
  <1>2. waited' \in 0 .. TIMEOUT
    BY <1>0
  <1>3. PollInv' /\ StreamInv' /\ InsertedInv'
    BY <1>0, SensorFrame
  <1>4. TypeOK'
    BY <1>1, <1>2 DEF CInv, TypeOK
  <1>5. PlaceInv'
    BY DEF CInv, PlaceInv
  <1> QED
    BY <1>3, <1>4, <1>5 DEF CInv

-----------------------------------------------------------------------------
(* The rounds of connmgr_thread.  First what its steps have in common.      *)

(* What TypeOK says of the list, the backlog and the clocks, spelled out.   *)
LEMMA Shapes ==
  ASSUME CInv
  PROVE  /\ connections \in Seq(Sensor) /\ Len(connections) \in Nat
         /\ \A k \in 1 .. Len(connections) : connections[k] \in Sensor
         /\ backlog \in Seq(Sensor) /\ Len(backlog) \in Nat
         /\ \A k \in 1 .. Len(backlog) : backlog[k] \in Sensor
         /\ i \in Nat /\ i <= Len(connections)
         /\ last_mod \in [Sensor \cup {Server} -> 0 .. Expired]
         /\ evicted \in [Sensor -> {"no", "timed_out", "hanged_up"}]
         /\ 0 \in 0 .. Expired /\ 0 \in 0 .. TIMEOUT /\ TIMEOUT \in Nat
  <1>1. /\ connections \in Seq(Sensor) /\ backlog \in Seq(Sensor) /\ i \in 0 .. Len(connections)
        /\ last_mod \in [Sensor \cup {Server} -> 0 .. Expired]
        /\ evicted \in [Sensor -> {"no", "timed_out", "hanged_up"}]
    BY DEF CInv, TypeOK
  <1>2. /\ Len(connections) \in Nat /\ connections \in [1 .. Len(connections) -> Sensor]
        /\ Len(backlog) \in Nat /\ backlog \in [1 .. Len(backlog) -> Sensor]
    BY <1>1, LenProperties
  <1>3. 0 \in 0 .. Expired /\ 0 \in 0 .. TIMEOUT /\ TIMEOUT \in Nat
    BY ConnMgrAssumption
  <1>4. /\ \A k \in 1 .. Len(connections) : connections[k] \in Sensor
        /\ \A k \in 1 .. Len(backlog) : backlog[k] \in Sensor
    BY <1>2
  <1>5. i \in Nat /\ i <= Len(connections)
    <2>1. i \in 0 .. Len(connections)
      BY <1>1
    <2>2. Len(connections) \in Nat
      BY <1>2
    <2> QED
      BY <2>1, <2>2
  <1> QED
    BY <1>1, <1>2, <1>3, <1>4, <1>5

(* What has been inserted by a step that inserts nothing.                   *)
LEMMA NothingIs ==
  /\ Nothing \in [from : Sensor \cup {Server}, id : Sensor \cup {Server, Unknown},
                  whole : BOOLEAN]
  /\ Nothing.from = Server /\ Nothing.id = Server /\ Server \notin Sensor
  BY ConnMgrAssumption DEF Nothing, Server

(* A step outside a measurement touches no stream.                          *)
LEMMA StreamFrame ==
  ASSUME CInv, UNCHANGED <<peer, streamVars>>,
         step \notin {"value", "ts"}, step' \notin {"value", "ts"}
  PROVE  StreamInv' /\ InsertedInv'
  <1>1. ASSUME NEW s \in Sensor \ short PROVE Settled(s)'
    BY DEF CInv, StreamInv, Midst, Settled, Ended, streamVars
  <1> QED
    BY <1>1 DEF StreamInv, Midst, InsertedInv, streamVars

(* i++ keeps the index within the list and the poll set.                    *)
LEMMA NextIndexStep ==
  ASSUME CInv, InRound, i > 0 \/ step = "service", NextIndex(Len(connections)),
         UNCHANGED connections,
         \A k \in 1 .. Len(connections) :
           k > i => arrived'[connections[k]] = arrived[connections[k]]
  PROVE  /\ PollInv' /\ i' \in 0 .. Len(connections)
         /\ step' \in {"service", "poll"}
  <1>0. Len(connections) \in Nat /\ i \in Nat /\ i <= Len(connections)
    BY Shapes
  <1>1. CASE i + 1 <= Len(connections)
    <2>1. step' = "service" /\ i' = i + 1 /\ poll_list' = poll_list
      BY <1>1 DEF NextIndex
    <2>2. PICK n \in Nat : BuiltFor(n)
      BY DEF CInv, PollInv
    <2>3. BuiltFor(n)'
      <3>1. \A k \in 1 .. n : NotYet(k)' => NotYet(k) /\ k > i /\ k \in 1 .. Len(connections)
        BY <1>0, <2>1, <2>2 DEF NotYet, BuiltFor
      <3> QED
        BY <1>0, <2>1, <2>2, <3>1 DEF BuiltFor
    <2> QED
      BY <1>0, <1>1, <2>1, <2>2, <2>3 DEF PollInv
  <1>2. CASE ~(i + 1 <= Len(connections))
    BY <1>0, <1>2 DEF NextIndex, EndRound, PollInv, InRound
  <1> QED
    BY <1>1, <1>2

(* A receive in the middle of a measurement leaves the rest of the round.   *)
LEMMA RestOfRound ==
  ASSUME CInv, InRound, i > 0, UNCHANGED <<i, poll_list, connections>>,
         step' \in {"value", "ts"},
         \A k \in 1 .. Len(connections) :
           k > i => arrived'[connections[k]] = arrived[connections[k]]
  PROVE  PollInv'
  <1>0. Len(connections) \in Nat /\ i \in Nat
    BY Shapes
  <1>1. PICK n \in Nat : BuiltFor(n)
    BY DEF CInv, PollInv
  <1>2. \A k \in 1 .. n : NotYet(k)' => NotYet(k) /\ k > i /\ k \in 1 .. Len(connections)
    BY <1>0, <1>1 DEF NotYet, BuiltFor
  <1>3. BuiltFor(n)'
    BY <1>1, <1>2 DEF BuiltFor
  <1> QED
    BY <1>3 DEF PollInv

(* A connection is in one place of the list only.                           *)
LEMMA ServedOnce ==
  ASSUME CInv, i > 0
  PROVE  /\ i \in 1 .. Len(connections) /\ connections[i] \in Sensor
         /\ \A k \in 1 .. Len(connections) : k > i => connections[k] # connections[i]
  <1>1. Len(connections) \in Nat /\ i \in Nat /\ i <= Len(connections)
    BY Shapes
  <1>2. i \in 1 .. Len(connections)
    BY <1>1
  <1>3. connections[i] \in Sensor
    BY <1>2, Shapes
  <1>4. \A k \in 1 .. Len(connections) : connections[k] = connections[i] => k = i
    BY <1>2 DEF CInv, PlaceInv
  <1> QED
    BY <1>1, <1>2, <1>3, <1>4

-----------------------------------------------------------------------------
(* What poll reports of the server and of a connection.                     *)
LEMMA PollListServer ==
  ASSUME Len(connections) \in Nat
  PROVE  PollList[0].in = (backlog # << >>)
  BY DEF PollList, Entry

(* An entry that is readable and not hung up is that of a connection with   *)
(* something to receive.                                                    *)
LEMMA PollListConnection ==
  ASSUME Len(connections) \in Nat, NEW k \in 1 .. Len(connections)
  PROVE  /\ PollList[k].fd = connections[k]
         /\ PollList[k].in /\ ~PollList[k].hup
              => arrived[connections[k]] > 0
  BY DEF PollList, Entry, Readable

(* poll: what it reports of a connection is true when it returns.           *)
LEMMA PollStep ==
  ASSUME CInv, Poll
  PROVE  CInv'
  <1>0. /\ connections \in Seq(Sensor) /\ Len(connections) \in Nat
        /\ step = "poll" /\ step' = "service" /\ i' = 0 /\ waited' = 0
        /\ poll_list' = PollList
        /\ inserted' = Nothing
        /\ UNCHANGED <<backlog, listVars, peer, streamVars>>
    BY Shapes DEF Poll
  <1> DEFINE n == Len(connections)
  <1>1. /\ DOMAIN poll_list' = 0 .. n + 1
        /\ poll_list'[n + 1] = Spare
        /\ poll_list'[0].in => backlog # << >>
    <2>1. DOMAIN poll_list' = 0 .. n + 1
      BY <1>0 DEF PollList
    <2>2. n + 1 \in 0 .. n + 1 /\ n + 1 # 0 /\ n + 1 \notin 1 .. n
      BY <1>0
    <2>3. poll_list'[n + 1] = Spare
      BY <1>0, <2>2 DEF PollList
    <2> QED
      BY <1>0, <2>1, <2>3, PollListServer
  <1>2. ASSUME NEW k \in 1 .. n
        PROVE  /\ poll_list'[k].fd = connections[k]
               /\ poll_list'[k].in /\ ~poll_list'[k].hup
                    => arrived[connections[k]] > 0
    BY <1>0, PollListConnection
  <1>3. BuiltFor(n)'
    BY <1>0, <1>1, <1>2 DEF BuiltFor, listVars, streamVars
  <1>4. PollInv'
    BY <1>0, <1>1, <1>3 DEF PollInv
  <1>5. StreamInv' /\ InsertedInv'
    BY <1>0, StreamFrame
  <1>6. TypeOK'
    <2>1. i' \in 0 .. Len(connections) /\ waited' \in 0 .. TIMEOUT
      BY <1>0, Shapes
    <2> QED
      BY <1>0, <2>1, NothingIs DEF CInv, TypeOK, listVars, streamVars
  <1>7. PlaceInv'
    BY <1>0 DEF CInv, PlaceInv, listVars
  <1> QED
    BY <1>4, <1>5, <1>6, <1>7 DEF CInv

(* The server's turn: the new connection goes behind the others, where the  *)
(* poll set has its spare entry.                                            *)
LEMMA ServeServerStep ==
  ASSUME CInv, ServeServer
  PROVE  CInv'
  <1>0. /\ connections \in Seq(Sensor) /\ Len(connections) \in Nat
        /\ backlog \in Seq(Sensor)
        /\ last_mod \in [Sensor \cup {Server} -> 0 .. Expired] /\ Server \in Sensor \cup {Server}
        /\ 0 \in 0 .. Expired /\ TIMEOUT \in Nat
    BY Shapes
  <1>1. /\ step = "service" /\ i = 0 /\ inserted' = Nothing
        /\ UNCHANGED <<waited, evicted, peer, streamVars>>
    BY DEF ServeServer
  <1>2. CASE /\ poll_list[0].in
             /\ connections' = Append(connections, Head(backlog))
             /\ backlog' = Tail(backlog)
             /\ IdleCheck(Len(connections) + 1, 0)
    <2>1. backlog # << >>
      BY <1>1, <1>2 DEF CInv, PollInv
    <2>2. /\ step' = "service" /\ i' = 1 /\ poll_list' = poll_list
          /\ last_mod' = [last_mod EXCEPT ![Server] = 0]
      BY <1>0, <1>1, <1>2 DEF IdleCheck, NextIndex
    <2> DEFINE n == Len(connections)
               a == Head(backlog)
    <2>3. /\ Len(backlog) \in Nat /\ Len(backlog) >= 1 /\ a = backlog[1] /\ a \in Sensor
          /\ backlog' \in Seq(Sensor) /\ Len(backlog') = Len(backlog) - 1
          /\ \A b \in 1 .. Len(backlog) - 1 : backlog'[b] = backlog[b + 1]
      BY <1>0, <1>2, <2>1
    <2>4. /\ connections' \in Seq(Sensor) /\ Len(connections') = n + 1
          /\ connections'[n + 1] = a
          /\ \A k \in 1 .. n : connections'[k] = connections[k]
      BY <1>0, <1>2, <2>3
    <2>5. PICK m \in Nat : BuiltFor(m)
      BY <1>1 DEF CInv, PollInv, InRound
    <2>6. PollInv'
      <3>1. m = n
        BY <1>1, <2>5 DEF BuiltFor
      <3>2. \A k \in 1 .. m : NotYet(k)
        BY <1>1 DEF NotYet
      <3>3. Len(connections') = m + 1 /\ \A k \in 1 .. m : connections'[k] = connections[k]
        BY <2>4, <3>1
      <3>4. BuiltFor(m)'
        BY <1>1, <2>2, <2>5, <3>2, <3>3 DEF BuiltFor, streamVars
      <3> QED
        BY <2>2, <3>4 DEF PollInv
    <2>7. TypeOK'
      <3>1. last_mod' \in [Sensor \cup {Server} -> 0 .. Expired]
        BY <1>0, <2>2
      <3>2. i' \in 0 .. Len(connections')
        BY <1>0, <2>2, <2>4
      <3> QED
        BY <1>1, <2>2, <2>3, <2>4, <3>1, <3>2, NothingIs DEF CInv, TypeOK, streamVars
    <2>8. PlaceInv'
      <3>1. \A k \in 1 .. Len(connections') : k \in 1 .. n \/ k = n + 1
        BY <1>0, <2>4
      <3>2. \A b \in 1 .. Len(backlog') :
              b \in 1 .. Len(backlog) - 1 /\ b \in 1 .. Len(backlog)
              /\ b + 1 \in 1 .. Len(backlog) /\ b + 1 # 1 /\ 1 \in 1 .. Len(backlog)
        BY <2>3
      <3>3. 1 \in 1 .. Len(backlog)
        BY <2>3
      <3>4. \A k, j \in 1 .. Len(connections') : connections'[k] = connections'[j] => k = j
        BY <2>3, <2>4, <3>1, <3>3 DEF CInv, PlaceInv
      <3>5. \A b, c \in 1 .. Len(backlog') : backlog'[b] = backlog'[c] => b = c
        <4> SUFFICES ASSUME NEW b \in 1 .. Len(backlog'), NEW c \in 1 .. Len(backlog'),
                            backlog'[b] = backlog'[c]
                     PROVE  b = c
          OBVIOUS
        <4>1. \A k, l \in 1 .. Len(backlog) : backlog[k] = backlog[l] => k = l
          BY DEF CInv, PlaceInv
        <4>2. /\ b + 1 \in 1 .. Len(backlog) /\ c + 1 \in 1 .. Len(backlog)
              /\ backlog[b + 1] = backlog[c + 1] /\ b \in Nat /\ c \in Nat
          BY <2>3, <3>2
        <4>3. b + 1 = c + 1
          BY <4>1, <4>2
        <4> QED
          BY <4>2, <4>3
      <3>6. \A k \in 1 .. Len(connections'), b \in 1 .. Len(backlog') : connections'[k] # backlog'[b]
        <4> SUFFICES ASSUME NEW k \in 1 .. Len(connections'), NEW b \in 1 .. Len(backlog')
                     PROVE  connections'[k] # backlog'[b]
          OBVIOUS
        <4>1. backlog'[b] = backlog[b + 1] /\ b + 1 \in 1 .. Len(backlog) /\ b + 1 # 1
          BY <2>3, <3>2
        <4>2. CASE k \in 1 .. n
          BY <2>4, <4>1, <4>2 DEF CInv, PlaceInv
        <4>3. CASE k = n + 1
          BY <2>3, <2>4, <3>3, <4>1, <4>3 DEF CInv, PlaceInv
        <4> QED
          BY <3>1, <4>2, <4>3
      <3>7. \A k \in 1 .. Len(connections') : /\ evicted[connections'[k]] = "no"
                                              /\ peer[connections'[k]] # "away"
        BY <2>3, <2>4, <3>1, <3>3 DEF CInv, PlaceInv
      <3>8. \A b \in 1 .. Len(backlog') : evicted[backlog'[b]] = "no" /\ peer[backlog'[b]] # "away"
        <4>1. \A b \in 1 .. Len(backlog') : /\ backlog'[b] = backlog[b + 1]
                                             /\ b + 1 \in 1 .. Len(backlog)
          BY <2>3, <3>2
        <4> QED
          BY <4>1 DEF CInv, PlaceInv
      <3> QED
        BY <1>1, <3>4, <3>5, <3>6, <3>7, <3>8 DEF CInv, PlaceInv
    <2> QED
      BY <1>1, <2>2, <2>6, <2>7, <2>8, StreamFrame DEF CInv
  <1>3. CASE /\ UNCHANGED <<connections, backlog>>
             /\ \E age \in {0, last_mod[Server]} : IdleCheck(Len(connections), age)
    <2>1. PICK age \in {0, last_mod[Server]} : IdleCheck(Len(connections), age)
      BY <1>3
    <2>2. last_mod' \in [Sensor \cup {Server} -> 0 .. Expired]
      BY <1>0, <2>1 DEF IdleCheck
    <2>3. \/ step' = "closed" /\ i' = 0
          \/ NextIndex(Len(connections))
      BY <2>1 DEF IdleCheck
    <2>4. /\ PollInv' /\ i' \in 0 .. Len(connections)
          /\ step' \in {"service", "poll", "closed"}
      <3>1. CASE step' = "closed" /\ i' = 0
        BY <1>0, <3>1 DEF PollInv, InRound
      <3>2. CASE NextIndex(Len(connections))
        BY <1>1, <1>3, <3>2, NextIndexStep DEF InRound, streamVars
      <3> QED
        BY <2>3, <3>1, <3>2
    <2>5. TypeOK'
      BY <1>1, <1>3, <2>2, <2>4, NothingIs DEF CInv, TypeOK, streamVars
    <2>6. PlaceInv'
      BY <1>1, <1>3 DEF CInv, PlaceInv
    <2> QED
      BY <1>1, <2>4, <2>5, <2>6, StreamFrame DEF CInv
  <1> QED
    BY <1>2, <1>3 DEF ServeServer

(* Eviction, for silence or for a hang-up: the indices behind the sensor    *)
(* shift, and the round ends.                                               *)
LEMMA EvictStep ==
  ASSUME CInv, NEW s \in Sensor, EvictTimedOut(s) \/ EvictHangedUp(s)
  PROVE  CInv'
  <1>0. /\ connections \in Seq(Sensor) /\ Len(connections) \in Nat
        /\ backlog \in Seq(Sensor)
        /\ last_mod \in [Sensor \cup {Server} -> 0 .. Expired] /\ 0 \in 0 .. Expired
        /\ evicted \in [Sensor -> {"no", "timed_out", "hanged_up"}]
    BY Shapes
  <1>1. PICK why \in {"timed_out", "hanged_up"} :
          /\ Serving(s) /\ Evict(s, why)
          /\ UNCHANGED <<waited, backlog, peer, sensor_data>>
    BY DEF EvictTimedOut, EvictHangedUp
  <1>2. /\ connections' = RemoveAt(connections, i)
        /\ evicted' = [evicted EXCEPT ![s] = why]
        /\ last_mod' = [last_mod EXCEPT ![Server] = 0, ![s] = 0]
        /\ arrived' = [arrived EXCEPT ![s] = 0] /\ offset' = [offset EXCEPT ![s] = 0]
        /\ short' = short \ {s} /\ inserted' = Nothing
        /\ step = "service" /\ step' = "poll" /\ i' = 0
        /\ i \in 1 .. Len(connections) /\ connections[i] = s
    BY <1>0, <1>1, ServedOnce DEF Serving, Evict, Discard, EndRound
  <1> DEFINE n == Len(connections)
  <1>3. /\ connections' \in Seq(Sensor) /\ Len(connections') = n - 1
        /\ \A j \in 1 .. n - 1 :
             connections'[j] = IF j < i THEN connections[j] ELSE connections[j + 1]
    BY <1>0, <1>2, RemoveAtFacts
  <1>4. ASSUME NEW j \in 1 .. Len(connections')
        PROVE  \E k \in 1 .. n : /\ connections'[j] = connections[k] /\ k # i
                                 /\ k = IF j < i THEN j ELSE j + 1
    <2>1. n \in Nat /\ i \in 1 .. n /\ j \in 1 .. n - 1
      BY <1>0, <1>2, <1>3
    <2>2. CASE j < i
      BY <1>3, <2>1, <2>2
    <2>3. CASE ~(j < i)
      BY <1>3, <2>1, <2>3
    <2> QED
      BY <2>2, <2>3
  <1>5. PlaceInv'
    <2>1. \A a, b \in 1 .. Len(connections') : connections'[a] = connections'[b] => a = b
      <3> SUFFICES ASSUME NEW a \in 1 .. Len(connections'), NEW b \in 1 .. Len(connections'),
                          connections'[a] = connections'[b]
                   PROVE  a = b
        OBVIOUS
      <3>1. PICK k \in 1 .. n : /\ connections'[a] = connections[k]
                                /\ k = IF a < i THEN a ELSE a + 1
        BY <1>4
      <3>2. PICK l \in 1 .. n : /\ connections'[b] = connections[l]
                                /\ l = IF b < i THEN b ELSE b + 1
        BY <1>4
      <3>3. k = l
        BY <3>1, <3>2 DEF CInv, PlaceInv
      <3>4. a \in Nat /\ b \in Nat /\ i \in Nat
        BY <1>0, <1>2, <1>3
      <3> QED
        BY <3>1, <3>2, <3>3, <3>4
    <2>2. ASSUME NEW a \in 1 .. Len(connections')
          PROVE  /\ connections'[a] # s /\ evicted'[connections'[a]] = "no"
                 /\ peer[connections'[a]] # "away"
                 /\ \A b \in 1 .. Len(backlog) : connections'[a] # backlog[b]
      <3>1. PICK k \in 1 .. n : connections'[a] = connections[k] /\ k # i
        BY <1>4
      <3>2. connections[k] # s /\ connections[k] \in Sensor
        BY <1>2, <3>1, Shapes DEF CInv, PlaceInv
      <3> QED
        BY <1>0, <1>2, <3>1, <3>2 DEF CInv, PlaceInv
    <2>3. \A b \in 1 .. Len(backlog) : backlog[b] # s /\ backlog[b] \in Sensor
      BY <1>2, Shapes DEF CInv, PlaceInv
    <2>4. peer[s] # "away"
      BY <1>2 DEF CInv, PlaceInv
    <2> QED
      BY <1>0, <1>1, <1>2, <2>1, <2>2, <2>3, <2>4 DEF CInv, PlaceInv
  <1>6. TypeOK'
    <2>1. last_mod' \in [Sensor \cup {Server} -> 0 .. Expired]
      BY <1>0, <1>2
    <2>2. evicted' \in [Sensor -> {"no", "timed_out", "hanged_up"}]
      BY <1>0, <1>2
    <2>3. i' \in 0 .. Len(connections')
      BY <1>0, <1>2, <1>3
    <2>4. /\ arrived' \in [Sensor -> 0 .. Window] /\ offset' \in [Sensor -> Place]
          /\ short' \subseteq Sensor
      BY <1>2, Sizes DEF CInv, TypeOK
    <2> QED
      BY <1>1, <1>2, <1>3, <2>1, <2>2, <2>3, <2>4, NothingIs DEF CInv, TypeOK
  <1>7. PollInv'
    BY <1>2 DEF PollInv, InRound
  <1>8. StreamInv' /\ InsertedInv'
    <2>1. offset'[s] = 0 /\ \A x \in Sensor \ {s} : offset'[x] = offset[x] /\ arrived'[x] = arrived[x]
      BY <1>2 DEF CInv, TypeOK
    <2>2. ASSUME NEW x \in Sensor \ short' PROVE Settled(x)'
      <3>1. CASE x = s
        BY <2>1, <3>1 DEF Settled
      <3>2. CASE x # s
        <4>1. Settled(x) /\ peer' = peer
          BY <1>1, <1>2, <3>2 DEF CInv, StreamInv, Midst
        <4> QED
          BY <2>1, <3>2, <4>1 DEF Settled, Ended
      <3> QED
        BY <3>1, <3>2
    <2> QED
      BY <1>2, <2>2 DEF StreamInv, InsertedInv, Midst
  <1> QED
    BY <1>5, <1>6, <1>7, <1>8 DEF CInv

(* A connection poll reported nothing of is passed over.                    *)
LEMMA PassOverStep ==
  ASSUME CInv, NEW s \in Sensor, PassOver(s)
  PROVE  CInv'
  <1>1. /\ step = "service" /\ NextIndex(Len(connections))
        /\ inserted' = Nothing
        /\ UNCHANGED <<waited, backlog, listVars, peer, streamVars>>
    BY DEF PassOver, Serving
  <1>2. PollInv' /\ i' \in 0 .. Len(connections) /\ step' \in {"service", "poll"}
    BY <1>1, NextIndexStep DEF InRound, listVars, streamVars
  <1>3. TypeOK'
    BY <1>1, <1>2, NothingIs DEF CInv, TypeOK, listVars, streamVars
  <1>4. PlaceInv'
    BY <1>1 DEF CInv, PlaceInv, listVars
  <1> QED
    BY <1>1, <1>2, <1>3, <1>4, StreamFrame DEF CInv
-----------------------------------------------------------------------------
(* The receives.                                                            *)

(* What a receive does to the streams and to the struct, with what it       *)
(* returns at most the size of the member: it keeps the types, concerns one *)
(* stream, and either fills the member, gets less, or finds the end.        *)
LEMMA ReceiveOutcome ==
  ASSUME CInv, NEW s \in Sensor, NEW member \in {"id", "value", "ts"},
         NEW buf_size \in -1 .. Total, buf_size <= Size[member],
         tcp_receive(s, member, buf_size)
  PROVE  /\ arrived' \in [Sensor -> 0 .. Window] /\ offset' \in [Sensor -> Place]
         /\ Filled(s, member, buf_size) \in [id : Held, value : Held, ts : Held]
         /\ short \subseteq short' /\ short' \subseteq short \cup {s}
         /\ \A x \in Sensor : x # s => arrived'[x] = arrived[x] /\ offset'[x] = offset[x]
         /\ \/ s \in short'
            \/ /\ Ended(s) /\ UNCHANGED <<arrived, offset>>
               /\ Filled(s, member, buf_size) = sensor_data
            \/ /\ arrived[s] > 0
               /\ offset'[s] = Further(offset[s], Size[member])
               /\ Filled(s, member, buf_size) =
                    [sensor_data EXCEPT ![member] = Stretch(s, offset[s], Size[member])]
  <1> DEFINE filled == Filled(s, member, buf_size)
  <1>1. /\ arrived \in [Sensor -> 0 .. Window] /\ offset \in [Sensor -> Place]
        /\ sensor_data \in [id : Held, value : Held, ts : Held]
        /\ short \subseteq Sensor /\ arrived[s] \in Nat /\ arrived[s] <= Window
    BY Sizes DEF CInv, TypeOK
  <1> HIDE DEF filled
  <1>2. Size[member] \in Nat \ {0} /\ Window \in Nat
    BY Sizes
  <1>3. CASE /\ buf_size \in 1 .. arrived[s]
             /\ arrived' = [arrived EXCEPT ![s] = @ - buf_size]
             /\ offset' = [offset EXCEPT ![s] = Further(@, buf_size)]
             /\ short' = IF buf_size < Size[member] THEN short \cup {s} ELSE short
    <2>1. buf_size \in Nat /\ buf_size > 0 /\ buf_size \in 0 .. Total
          /\ arrived[s] - buf_size \in 0 .. Window
      BY <1>1, <1>2, <1>3, Sizes
    <2>2. Further(offset[s], buf_size) \in Place
      BY <1>1, <2>1, FurtherIs
    <2>3. /\ arrived' \in [Sensor -> 0 .. Window] /\ offset' \in [Sensor -> Place]
          /\ arrived'[s] = arrived[s] - buf_size /\ offset'[s] = Further(offset[s], buf_size)
          /\ \A x \in Sensor : x # s => arrived'[x] = arrived[x] /\ offset'[x] = offset[x]
      BY <1>1, <1>3, <2>1, <2>2
    <2>4. filled = [sensor_data EXCEPT ![member] = Stretch(s, offset[s], buf_size)]
      BY <2>1 DEF Filled, filled
    <2>5. Stretch(s, offset[s], buf_size) \in Held
      BY <1>1, <2>1 DEF Stretch, Held
    <2>6. filled \in [id : Held, value : Held, ts : Held]
      BY <1>1, <2>4, <2>5
    <2>7. CASE buf_size < Size[member]
      BY <1>3, <2>3, <2>6, <2>7 DEF filled
    <2>8. CASE buf_size = Size[member]
      <3>1. arrived[s] > 0
        BY <1>1, <1>3, <2>1
      <3> QED
        BY <1>3, <2>3, <2>4, <2>6, <2>8, <3>1 DEF filled
    <2> QED
      BY <1>2, <2>1, <2>7, <2>8
  <1>4. CASE /\ buf_size = 0
             /\ arrived[s] = 0 /\ peer[s] = "closed"
             /\ UNCHANGED <<arrived, offset, short>>
    <2>1. filled = sensor_data
      BY <1>4 DEF Filled, filled
    <2> QED
      BY <1>1, <1>4, <2>1 DEF Ended, filled
  <1>5. CASE /\ buf_size = -1
             /\ short' = short \cup {s}
             /\ UNCHANGED <<arrived, offset>>
    <2>1. filled = sensor_data
      BY <1>5 DEF Filled, filled
    <2> QED
      BY <1>1, <1>5, <2>1 DEF filled
  <1> QED
    BY <1>3, <1>4, <1>5 DEF tcp_receive, filled

(* The streams nothing was taken from stay as they are.                     *)
LEMMA OtherStreams ==
  ASSUME CInv, NEW s \in Sensor, NEW x \in Sensor \ short, x # s,
         step = "service" \/ connections[i] = s,
         arrived'[x] = arrived[x], offset'[x] = offset[x],
         UNCHANGED peer
  PROVE  Settled(x)'
  BY DEF CInv, StreamInv, Midst, Settled, Ended

(* The id: poll saw something and no hang-up, so there is something, and    *)
(* the measurement starts where the last one ended.                         *)
LEMMA ReceiveIdStep ==
  ASSUME CInv, NEW s \in Sensor, NEW buf_size \in -1 .. Total, buf_size <= IdSize,
         ReceiveId(s, buf_size)
  PROVE  CInv'
  <1>1. /\ step = "service" /\ step' = "value" /\ i > 0 /\ connections[i] = s
        /\ ~poll_list[i].hup /\ poll_list[i].in
        /\ tcp_receive(s, "id", buf_size) /\ sensor_data' = Filled(s, "id", buf_size)
        /\ last_mod' = [last_mod EXCEPT ![s] = 0] /\ inserted' = Nothing
        /\ UNCHANGED <<i, poll_list, waited, backlog, connections, evicted, peer>>
    BY DEF ReceiveId, Serving
  <1>2. i \in 1 .. Len(connections) /\ Len(connections) \in Nat /\ i \in Nat
        /\ \A k \in 1 .. Len(connections) : k > i => connections[k] # s /\ connections[k] \in Sensor
    BY <1>1, ServedOnce, Shapes
  <1>3. arrived[s] > 0
    <2>1. PICK n \in Nat : BuiltFor(n)
      BY <1>1 DEF CInv, PollInv, InRound
    <2>2. ~poll_list[n + 1].in
      BY <2>1 DEF BuiltFor, Spare, Entry
    <2>3. i \in 1 .. n
      BY <1>1, <1>2, <2>1, <2>2 DEF BuiltFor
    <2> QED
      BY <1>1, <2>1, <2>3 DEF BuiltFor, NotYet
  <1>4. /\ arrived' \in [Sensor -> 0 .. Window] /\ offset' \in [Sensor -> Place]
        /\ sensor_data' \in [id : Held, value : Held, ts : Held]
        /\ short \subseteq short' /\ short' \subseteq short \cup {s}
        /\ \A x \in Sensor : x # s => arrived'[x] = arrived[x] /\ offset'[x] = offset[x]
        /\ \/ s \in short'
           \/ Ended(s)
           \/ /\ offset'[s] = Further(offset[s], IdSize)
              /\ sensor_data' = [sensor_data EXCEPT !["id"] = Stretch(s, offset[s], IdSize)]
    BY <1>1, Sizes, ReceiveOutcome
  <1>5. TypeOK'
    <2>1. last_mod' \in [Sensor \cup {Server} -> 0 .. Expired]
      BY <1>1, Shapes
    <2> QED
      BY <1>1, <1>4, <2>1, NothingIs DEF CInv, TypeOK
  <1>6. PlaceInv'
    BY <1>1 DEF CInv, PlaceInv
  <1>7. PollInv'
    <2>1. \A k \in 1 .. Len(connections) :
            k > i => arrived'[connections[k]] = arrived[connections[k]]
      BY <1>2, <1>4
    <2> QED
      BY <1>1, <2>1, RestOfRound DEF InRound
  <1>8. ASSUME s \notin short' PROVE Underway(s)'
    <2>1. ~Ended(s) /\ s \notin short
      BY <1>3, <1>4, <1>8 DEF Ended
    <2>2. offset[s] = 0
      BY <1>1, <2>1 DEF CInv, StreamInv, Midst, Settled
    <2>3. 0 + IdSize < Total /\ IdSize \in 0 .. Total
      BY Sizes
    <2>4. offset'[s] = IdSize
      BY <1>4, <1>8, <2>1, <2>2, <2>3, Sizes, FurtherIs
    <2>5. sensor_data'["id"] = Stretch(s, Start["id"], Size["id"])
      BY <1>4, <1>8, <2>1, <2>2, Sizes DEF CInv, TypeOK
    <2> QED
      BY <1>1, <2>4, <2>5 DEF Underway, IsWhole
  <1>9. StreamInv'
    <2>1. \A x \in Sensor \ short' : x # s => Settled(x)'
      BY <1>1, <1>4, OtherStreams
    <2> QED
      BY <1>1, <1>8, <2>1 DEF StreamInv, Midst
  <1>10. InsertedInv'
    BY <1>1 DEF InsertedInv
  <1> QED
    BY <1>5, <1>6, <1>7, <1>9, <1>10 DEF CInv

(* The value follows the id, or the stream has ended and the struct keeps   *)
(* the old value.                                                           *)
LEMMA ReceiveValueStep ==
  ASSUME CInv, NEW s \in Sensor, NEW buf_size \in -1 .. Total, buf_size <= ValueSize,
         ReceiveValue(s, buf_size)
  PROVE  CInv'
  <1>1. /\ step = "value" /\ step' = "ts" /\ connections[i] = s
        /\ tcp_receive(s, "value", buf_size) /\ sensor_data' = Filled(s, "value", buf_size)
        /\ inserted' = Nothing
        /\ UNCHANGED <<i, poll_list, waited, backlog, listVars, peer>>
    BY DEF ReceiveValue
  <1>2. /\ i > 0
        /\ \A k \in 1 .. Len(connections) : k > i => connections[k] # s /\ connections[k] \in Sensor
    BY <1>1, ServedOnce, Shapes DEF CInv, PollInv
  <1>3. /\ arrived' \in [Sensor -> 0 .. Window] /\ offset' \in [Sensor -> Place]
        /\ sensor_data' \in [id : Held, value : Held, ts : Held]
        /\ short \subseteq short' /\ short' \subseteq short \cup {s}
        /\ \A x \in Sensor : x # s => arrived'[x] = arrived[x] /\ offset'[x] = offset[x]
        /\ \/ s \in short'
           \/ Ended(s) /\ UNCHANGED <<arrived, offset, sensor_data>>
           \/ /\ offset'[s] = Further(offset[s], ValueSize)
              /\ sensor_data' = [sensor_data EXCEPT !["value"] =
                                   Stretch(s, offset[s], ValueSize)]
    BY <1>1, Sizes, ReceiveOutcome
  <1>4. TypeOK'
    BY <1>1, <1>3, NothingIs DEF CInv, TypeOK, listVars
  <1>5. PlaceInv'
    BY <1>1 DEF CInv, PlaceInv, listVars
  <1>6. PollInv'
    <2>1. \A k \in 1 .. Len(connections) :
            k > i => arrived'[connections[k]] = arrived[connections[k]]
      BY <1>2, <1>3
    <2> QED
      BY <1>1, <1>2, <2>1, RestOfRound DEF InRound, listVars
  <1>7. ASSUME s \notin short' PROVE Underway(s)'
    <2>1. IsWhole(sensor_data, "id", s) /\ offset[s] = IdSize
      BY <1>1, <1>3, <1>7 DEF CInv, StreamInv, Midst, Underway
    <2>2. CASE Ended(s) /\ UNCHANGED <<arrived, offset, sensor_data>>
      BY <1>1, <2>1, <2>2 DEF Underway, IsWhole, Ended
    <2>3. CASE /\ offset'[s] = Further(offset[s], ValueSize)
               /\ sensor_data' = [sensor_data EXCEPT !["value"] =
                                    Stretch(s, offset[s], ValueSize)]
      <3>1. /\ sensor_data'["id"] = sensor_data["id"]
            /\ sensor_data'["value"] = Stretch(s, IdSize, ValueSize)
        BY <2>1, <2>3 DEF CInv, TypeOK
      <3>2. IdSize + ValueSize < Total /\ IdSize \in Place /\ ValueSize \in 0 .. Total
        BY Sizes DEF Place
      <3>3. offset'[s] = IdSize + ValueSize
        BY <2>1, <2>3, <3>2, FurtherIs
      <3> QED
        BY <1>1, <2>1, <3>1, <3>3, Sizes DEF Underway, IsWhole
    <2> QED
      BY <1>3, <1>7, <2>2, <2>3
  <1>8. StreamInv'
    <2>1. \A x \in Sensor \ short' : x # s => Settled(x)'
      BY <1>1, <1>3, OtherStreams
    <2> QED
      BY <1>1, <1>7, <2>1 DEF StreamInv, Midst, listVars
  <1>9. InsertedInv'
    BY <1>1 DEF InsertedInv
  <1> QED
    BY <1>4, <1>5, <1>6, <1>8, <1>9 DEF CInv

(* What the timestamp and sbuffer_insert leave of a stream in step: a whole *)
(* measurement with the stream at the start of the next, or the last one,   *)
(* cut by the end of the stream, with the id in its place.                  *)
LEMMA ReceiveTsOutcome ==
  ASSUME CInv, NEW s \in Sensor, NEW buf_size \in -1 .. Total, buf_size <= TsSize,
         ReceiveTs(s, buf_size), s \notin short'
  PROVE  /\ inserted'.id = s
         /\ \/ inserted'.whole /\ offset'[s] = 0
            \/ Ended(s) /\ arrived'[s] = arrived[s] /\ offset'[s] # 0
  <1> DEFINE filled == Filled(s, "ts", buf_size)
  <1>1. /\ step = "ts" /\ connections[i] = s
        /\ tcp_receive(s, "ts", buf_size)
        /\ inserted' = Measurement(s, filled)
    BY DEF ReceiveTs
  <1>2. /\ short \subseteq short'
        /\ \/ Ended(s) /\ UNCHANGED <<arrived, offset>> /\ filled = sensor_data
           \/ /\ arrived[s] > 0
              /\ offset'[s] = Further(offset[s], TsSize)
              /\ filled = [sensor_data EXCEPT !["ts"] = Stretch(s, offset[s], TsSize)]
    BY <1>1, Sizes, ReceiveOutcome
  <1>3. Underway(s)
    BY <1>1, <1>2 DEF CInv, StreamInv, Midst
  <1> HIDE DEF filled
  <1>4. IsWhole(sensor_data, "id", s) /\ filled["id"] = sensor_data["id"]
        /\ filled["value"] = sensor_data["value"]
    BY <1>2, <1>3 DEF Underway, CInv, TypeOK
  <1>5. inserted'.id = s
    BY <1>1, <1>4 DEF Measurement, IsWhole
  <1>6. CASE Ended(s) /\ UNCHANGED <<arrived, offset>>
    BY <1>1, <1>3, <1>5, <1>6, Sizes DEF Underway
  <1>7. CASE /\ arrived[s] > 0
             /\ offset'[s] = Further(offset[s], TsSize)
             /\ filled = [sensor_data EXCEPT !["ts"] = Stretch(s, offset[s], TsSize)]
    <2>1. offset[s] = IdSize + ValueSize /\ IsWhole(sensor_data, "value", s)
      BY <1>1, <1>3, <1>7 DEF Underway, Ended
    <2>2. filled["ts"] = Stretch(s, IdSize + ValueSize, TsSize)
      BY <1>7, <2>1 DEF CInv, TypeOK
    <2>3. /\ IdSize + ValueSize \in Place /\ TsSize \in 0 .. Total
          /\ IdSize + ValueSize + TsSize = Total
      BY Sizes DEF Place
    <2>4. offset'[s] = 0
      BY <1>7, <2>1, <2>3, FurtherIs
    <2>5. \A member \in {"id", "value", "ts"} : IsWhole(filled, member, s)
      BY <1>4, <2>1, <2>2, Sizes DEF IsWhole
    <2>6. inserted'.whole
      BY <1>1, <2>5, Sizes DEF Measurement
    <2> QED
      BY <1>5, <2>4, <2>6
  <1> QED
    BY <1>2, <1>6, <1>7

(* The timestamp and sbuffer_insert end the measurement.                    *)
LEMMA ReceiveTsStep ==
  ASSUME CInv, NEW s \in Sensor, NEW buf_size \in -1 .. Total, buf_size <= TsSize,
         ReceiveTs(s, buf_size)
  PROVE  CInv'
  <1>1. /\ step = "ts" /\ connections[i] = s
        /\ tcp_receive(s, "ts", buf_size) /\ sensor_data' = AllOlder
        /\ inserted' = Measurement(s, Filled(s, "ts", buf_size))
        /\ NextIndex(Len(connections))
        /\ UNCHANGED <<waited, backlog, listVars, peer>>
    BY DEF ReceiveTs
  <1>2. /\ i > 0
        /\ \A k \in 1 .. Len(connections) : k > i => connections[k] # s /\ connections[k] \in Sensor
    BY <1>1, ServedOnce, Shapes DEF CInv, PollInv
  <1>3. /\ arrived' \in [Sensor -> 0 .. Window] /\ offset' \in [Sensor -> Place]
        /\ short \subseteq short' /\ short' \subseteq short \cup {s}
        /\ \A x \in Sensor : x # s => arrived'[x] = arrived[x] /\ offset'[x] = offset[x]
    BY <1>1, Sizes, ReceiveOutcome
  <1>4. /\ inserted' \in [from : Sensor \cup {Server}, id : Sensor \cup {Server, Unknown},
                           whole : BOOLEAN]
        /\ sensor_data' \in [id : Held, value : Held, ts : Held]
    <2>1. Older \in Held
      BY Sizes DEF Older, Stretch, Held
    <2> QED
      BY <1>1, <2>1 DEF Measurement, AllOlder
  <1>5. PollInv' /\ i' \in 0 .. Len(connections) /\ step' \in {"service", "poll"}
    <2>1. \A k \in 1 .. Len(connections) :
            k > i => arrived'[connections[k]] = arrived[connections[k]]
      BY <1>2, <1>3
    <2> QED
      BY <1>1, <1>2, <2>1, NextIndexStep DEF InRound, listVars
  <1>6. TypeOK'
    BY <1>1, <1>3, <1>4, <1>5 DEF CInv, TypeOK, listVars
  <1>7. PlaceInv'
    BY <1>1 DEF CInv, PlaceInv, listVars
  <1>8. ASSUME s \notin short' PROVE Settled(s)'
    <2>1. offset'[s] = 0 \/ (Ended(s) /\ arrived'[s] = arrived[s])
      BY <1>8, ReceiveTsOutcome
    <2> QED
      BY <1>1, <2>1 DEF Settled, Ended
  <1>9. StreamInv'
    <2>1. \A x \in Sensor \ short' : x # s => Settled(x)'
      BY <1>1, <1>3, OtherStreams
    <2> QED
      BY <1>5, <1>8, <2>1 DEF StreamInv, Midst
  <1>10. InsertedInv'
    BY <1>5 DEF InsertedInv
  <1> QED
    BY <1>5, <1>6, <1>7, <1>9, <1>10 DEF CInv

(* What recv may return.                                                    *)
LEMMA Results == 0 .. Total \subseteq -1 .. Total /\ -1 \in -1 .. Total
  BY Sizes

(* The three together, whatever it returns.                                 *)
LEMMA ReceiveStep ==
  ASSUME CInv, NEW s \in Sensor, NEW buf_size \in -1 .. Total, Receive(s, buf_size)
  PROVE  CInv'
  BY ReceiveIdStep, ReceiveValueStep, ReceiveTsStep DEF Receive

-----------------------------------------------------------------------------
(* Every step of the thread, the sensors and the clock preserves CInv.      *)
THEOREM NextPreservesCInv == CInv /\ [Next]_vars => CInv'
  <1> SUFFICES ASSUME CInv, [Next]_vars PROVE CInv'
    OBVIOUS
  <1>1. CASE connmgr_round
    BY <1>1, Results, PollStep, ServeServerStep, EvictStep, PassOverStep,
       ReceiveStep DEF connmgr_round
  <1>2. CASE \E s \in Sensor : sensor_node(s)
    BY <1>2, ConnectStep, SendPieceStep, DisconnectStep DEF sensor_node
  <1>3. CASE Tick
    BY <1>3, TickStep
  <1>4. CASE Closed \/ UNCHANGED vars
    <2> USE DEF Closed, vars, listVars, streamVars
    <2>1. TypeOK'
      BY <1>4 DEF CInv, TypeOK
    <2>2. PlaceInv'
      BY <1>4 DEF CInv, PlaceInv
    <2>3. arrived' \in [Sensor -> 0 .. Window]
      BY <1>4 DEF CInv, TypeOK
    <2>4. PollInv' /\ StreamInv' /\ InsertedInv'
      BY <1>4, <2>3, SensorFrame
    <2> QED
      BY <2>1, <2>2, <2>4 DEF CInv
  <1>5. CASE recv_fails
    BY <1>5, Results, ReceiveStep DEF recv_fails
  <1> QED
    BY <1>1, <1>2, <1>3, <1>4, <1>5 DEF Next

(* CInv holds in every state the server loop can reach.                     *)
THEOREM CInvHolds == Spec => []CInv
  BY InitHolds, NextPreservesCInv, PTL DEF Spec

(* Every variable keeps its type; in particular no stream is read beyond    *)
(* what has arrived.                                                        *)
THEOREM TypeCorrect == Spec => []TypeOK
  <1>1. CInv => TypeOK
    BY DEF CInv
  <1> QED
    BY <1>1, CInvHolds, PTL

(* What poll reported at an index is used for the connection it was         *)
(* reported of, for any number of sensors coming and going.                 *)
THEOREM PollResultsBelong == Spec => []PollResultBelongs
  <1>1. ASSUME CInv, step \in {"service", "value", "ts"}, i > 0
        PROVE  /\ i \in DOMAIN poll_list
               /\ \/ poll_list[i].fd = connections[i]
                  \/ poll_list[i] = Spare /\ i = Len(connections)
    <2>1. Len(connections) \in Nat /\ i \in Nat /\ i <= Len(connections)
      BY <1>1, Shapes
    <2>2. PICK n \in Nat : BuiltFor(n)
      BY <1>1 DEF CInv, PollInv, InRound
    <2>3. i \in 1 .. n \/ (i = n + 1 /\ i = Len(connections))
      BY <1>1, <2>1, <2>2 DEF BuiltFor
    <2> QED
      BY <2>1, <2>2, <2>3 DEF BuiltFor
  <1>2. CInv => PollResultBelongs
    BY <1>1 DEF PollResultBelongs
  <1> QED
    BY <1>2, CInvHolds, PTL

(* What is inserted for a sensor is whole and its own, unless one of its     *)
(* receives was cut short or its stream ended there: whatever the sizes,    *)
(* the number of sensors, and what has become of the other streams.         *)
THEOREM OnlyCutStreamsTear == Spec => TornOnlyIfCut
  <1> DEFINE Sound == \A s \in Sensor : inserted'.from = s /\ s \notin short' =>
                        /\ inserted'.id = s
                        /\ \/ inserted'.whole
                           \/ peer[s] = "closed" /\ arrived'[s] = 0 /\ offset'[s] # 0
  <1>1. ASSUME CInv, NEW x \in Sensor, NEW buf_size \in -1 .. Total, Receive(x, buf_size)
        PROVE  Sound
    <2>1. CASE inserted' = Nothing
      BY <2>1, NothingIs
    <2>2. CASE buf_size <= TsSize /\ ReceiveTs(x, buf_size)
      <3>1. inserted'.from = x
        BY <2>2 DEF ReceiveTs, Measurement
      <3>2. x \notin short' => /\ inserted'.id = x
                               /\ \/ inserted'.whole /\ offset'[x] = 0
                                  \/ Ended(x) /\ arrived'[x] = arrived[x] /\ offset'[x] # 0
        BY <1>1, <2>2, ReceiveTsOutcome
      <3> QED
        BY <3>1, <3>2 DEF Ended
    <2> QED
      BY <1>1, <2>1, <2>2 DEF Receive, ReceiveId, ReceiveValue
  <1>2. ASSUME NEW x \in Sensor, EvictTimedOut(x) \/ EvictHangedUp(x) \/ PassOver(x)
        PROVE  inserted' = Nothing
    BY <1>2 DEF EvictTimedOut, EvictHangedUp, Evict, Discard, PassOver
  <1>3. Poll \/ ServeServer => inserted' = Nothing
    BY DEF Poll, ServeServer
  <1>4. (\E x \in Sensor : sensor_node(x)) \/ Tick \/ Closed \/ UNCHANGED vars
          => UNCHANGED inserted
    BY DEF sensor_node, Connect, SendPiece, Disconnect, Tick, Closed, vars
  <1>5. inserted' = Nothing => Sound
    BY NothingIs
  <1>6. CInv /\ [Next]_vars => [Sound]_inserted
    <2> HIDE DEF Sound
    <2> QED
      BY <1>1, <1>2, <1>3, <1>4, <1>5, Results DEF Next, connmgr_round, recv_fails
  <1>7. TornOnlyIfCut <=> [][Sound]_inserted
    BY DEF TornOnlyIfCut
  <1> HIDE DEF Sound
  <1> QED
    BY <1>6, <1>7, CInvHolds, PTL DEF Spec

(* The server closes on silence, and on nobody it knows of.                 *)
THEOREM SilenceCloses == Spec => ClosesOnlyOnSilence
  <1>1. ASSUME CInv, [Next]_vars, step # "closed", step' = "closed"
        PROVE  connections = << >> /\ last_mod[Server] > TIMEOUT /\ ~poll_list[0].in
    <2>1. ServeServer
      BY <1>1 DEF Next, connmgr_round, recv_fails, Poll, EvictTimedOut, EvictHangedUp, Evict,
         PassOver, NextIndex, EndRound, Receive, ReceiveId, ReceiveValue, ReceiveTs, sensor_node,
         Connect, SendPiece, Disconnect, Tick, Closed, vars
    <2>2. /\ connections \in Seq(Sensor) /\ Len(connections) \in Nat /\ TIMEOUT \in Nat
      BY <1>1, Shapes
    <2>3. ~IdleCheck(Len(connections) + 1, 0) /\ ~IdleCheck(Len(connections), 0)
      BY <1>1, <2>2 DEF IdleCheck, NextIndex, EndRound
    <2>4. ~poll_list[0].in /\ IdleCheck(Len(connections), last_mod[Server])
      BY <2>1, <2>3 DEF ServeServer
    <2>5. Len(connections) = 0 /\ last_mod[Server] > TIMEOUT
      BY <1>1, <2>4 DEF IdleCheck, NextIndex, EndRound
    <2> QED
      BY <2>2, <2>4, <2>5
  <1>2. CInv /\ [Next]_vars =>
          [ step # "closed" /\ step' = "closed" =>
              connections = << >> /\ last_mod[Server] > TIMEOUT /\ ~poll_list[0].in ]_step
    BY <1>1
  <1> QED
    BY <1>2, CInvHolds, PTL DEF Spec, ClosesOnlyOnSilence

-----------------------------------------------------------------------------
(* The rounds implement SensorService.                                      *)

(* A step that changes none of these leaves the service as it is, and one   *)
(* of the thread that inserts nothing lets it rest.                         *)
LEMMA ServiceFrame ==
  ASSUME UNCHANGED <<backlog, connections, evicted, short, inserted>>,
         step' = "closed" <=> step = "closed"
  PROVE  UNCHANGED Service!vars
  BY DEF Service!vars, Accepted

(* The thread does something that is none of the sensors' business.         *)
LEMMA ServiceRests ==
  ASSUME step # "closed", step' # "closed", inserted' = Nothing,
         UNCHANGED <<backlog, connections, evicted, short>>
  PROVE  Service!Next
  <1>1. Service!TakeNothing
    BY NothingIs DEF Service!TakeNothing
  <1>2. Service!Rest
    BY <1>1 DEF Service!Rest, Accepted
  <1> QED
    BY <1>2 DEF Service!Next

(* The loop starts with nobody waiting and nobody served.                   *)
LEMMA ServiceInit == Init => Service!Init
  BY NothingIs DEF Init, Service!Init, Accepted

(* A sensor that connects arrives: it was neither waiting nor served nor    *)
(* gone.                                                                    *)
LEMMA ConnectArrives ==
  ASSUME CInv, NEW s \in Sensor, Connect(s)
  PROVE  Service!Next
  <1>1. /\ step # "closed" /\ peer[s] = "away" /\ backlog' = Append(backlog, s)
        /\ UNCHANGED <<step, connections, evicted, short, inserted>>
    BY DEF Connect, listVars, streamVars
  <1>2. /\ s \notin Accepted
        /\ \A k \in 1 .. Len(backlog) : backlog[k] # s
        /\ evicted[s] = "no"
    BY <1>1 DEF CInv, PlaceInv, Accepted
  <1>3. Service!Arrive(s)
    BY <1>1, <1>2 DEF Service!Arrive, Accepted
  <1> QED
    BY <1>1, <1>3 DEF Service!Next

(* The turn of the server socket accepts the oldest in the backlog, or      *)
(* closes, or is none of the sensors' business.                             *)
LEMMA ServerAcceptsOrCloses ==
  ASSUME CInv, ServeServer
  PROVE  Service!Next
  <1>0. Service!TakeNothing
    BY NothingIs DEF Service!TakeNothing, ServeServer
  <1>1. /\ step = "service" /\ i = 0 /\ inserted' = Nothing /\ UNCHANGED <<evicted, short>>
        /\ connections \in Seq(Sensor) /\ Len(connections) \in Nat
        /\ backlog \in Seq(Sensor) /\ TIMEOUT \in Nat
    BY Shapes DEF ServeServer, streamVars
  <1>2. CASE /\ poll_list[0].in
             /\ connections' = Append(connections, Head(backlog))
             /\ backlog' = Tail(backlog)
             /\ IdleCheck(Len(connections) + 1, 0)
    <2>1. backlog # << >> /\ step' = "service"
      BY <1>1, <1>2 DEF CInv, PollInv, IdleCheck, NextIndex
    <2>2. /\ Head(backlog) \in Sensor
          /\ Len(connections') = Len(connections) + 1
          /\ connections'[Len(connections) + 1] = Head(backlog)
          /\ \A k \in 1 .. Len(connections) : connections'[k] = connections[k]
      BY <1>1, <1>2, <2>1
    <2>3. Accepted' = Accepted \cup {Head(backlog)}
      <3>1. ASSUME NEW x \in Accepted' PROVE x \in Accepted \cup {Head(backlog)}
        <4>1. PICK k \in 1 .. Len(connections') : x = connections'[k]
          BY DEF Accepted
        <4>2. k \in 1 .. Len(connections) \/ k = Len(connections) + 1
          BY <1>1, <2>2
        <4> QED
          BY <2>2, <4>1, <4>2 DEF Accepted
      <3>2. ASSUME NEW x \in Accepted \cup {Head(backlog)} PROVE x \in Accepted'
        <4>1. /\ Len(connections) + 1 \in 1 .. Len(connections')
              /\ \A k \in 1 .. Len(connections) : k \in 1 .. Len(connections')
          BY <1>1, <2>2
        <4> QED
          BY <2>2, <4>1 DEF Accepted
      <3> QED
        BY <3>1, <3>2
    <2>4. Service!Accept
      BY <1>0, <1>1, <1>2, <2>1, <2>3 DEF Service!Accept
    <2> QED
      BY <1>1, <2>4 DEF Service!Next
  <1>3. CASE /\ UNCHANGED <<connections, backlog>>
             /\ \E age \in {0, last_mod[Server]} : IdleCheck(Len(connections), age)
    <2>1. CASE step' = "closed"
      <3>1. Len(connections) = 0
        BY <1>3, <2>1 DEF IdleCheck, NextIndex, EndRound
      <3>2. Accepted = {} /\ Accepted' = Accepted
        BY <1>3, <3>1 DEF Accepted
      <3>3. Service!Close
        BY <1>0, <1>1, <1>3, <2>1, <3>2 DEF Service!Close
      <3> QED
        BY <1>1, <3>3 DEF Service!Next
    <2>2. CASE step' # "closed"
      BY <1>1, <1>3, <2>2, ServiceRests
    <2> QED
      BY <2>1, <2>2
  <1> QED
    BY <1>2, <1>3 DEF ServeServer

(* A sensor evicted by either test leaves, and nobody else does.            *)
LEMMA EvictedLeaves ==
  ASSUME CInv, NEW s \in Sensor, EvictTimedOut(s) \/ EvictHangedUp(s)
  PROVE  Service!Next
  <1>1. PICK why \in {"timed_out", "hanged_up"} :
          /\ connections' = RemoveAt(connections, i)
          /\ evicted' = [evicted EXCEPT ![s] = why]
          /\ step = "service" /\ step' = "poll" /\ i > 0 /\ s = connections[i]
          /\ short' = short \ {s} /\ inserted' = Nothing /\ backlog' = backlog
    BY DEF EvictTimedOut, EvictHangedUp, Serving, Evict, Discard, EndRound
  <1>2. /\ connections \in Seq(Sensor) /\ Len(connections) \in Nat
        /\ evicted \in [Sensor -> {"no", "timed_out", "hanged_up"}]
        /\ i \in 1 .. Len(connections)
    BY <1>1, Shapes, ServedOnce
  <1> DEFINE n == Len(connections)
  <1>3. /\ Len(connections') = n - 1
        /\ \A j \in 1 .. n - 1 :
             connections'[j] = IF j < i THEN connections[j] ELSE connections[j + 1]
    BY <1>1, <1>2, RemoveAtFacts
  <1>4. \A k \in 1 .. n : connections[k] = s => k = i
    BY <1>1, <1>2 DEF CInv, PlaceInv
  <1>5. Accepted' = Accepted \ {s}
    <2>1. ASSUME NEW x \in Accepted' PROVE x \in Accepted \ {s}
      <3>1. PICK j \in 1 .. Len(connections') : x = connections'[j]
        BY DEF Accepted
      <3>2. j \in 1 .. n - 1 /\ j \in 1 .. n /\ j + 1 \in 1 .. n
        BY <1>2, <1>3
      <3>3. CASE j < i
        BY <1>3, <1>4, <3>1, <3>2, <3>3 DEF Accepted
      <3>4. CASE ~(j < i)
        <4>1. x = connections[j + 1] /\ j + 1 # i
          BY <1>2, <1>3, <3>1, <3>2, <3>4
        <4> QED
          BY <1>4, <3>2, <4>1 DEF Accepted
      <3> QED
        BY <3>3, <3>4
    <2>2. ASSUME NEW x \in Accepted \ {s} PROVE x \in Accepted'
      <3>1. PICK k \in 1 .. n : x = connections[k]
        BY DEF Accepted
      <3>2. k # i
        BY <1>1, <3>1
      <3>3. CASE k < i
        <4>1. k \in 1 .. n - 1
          BY <1>2, <3>3
        <4> QED
          BY <1>3, <3>1, <3>3, <4>1 DEF Accepted
      <3>4. CASE k > i
        <4>1. k - 1 \in 1 .. n - 1 /\ ~(k - 1 < i) /\ (k - 1) + 1 = k
          BY <1>2, <3>4
        <4> QED
          BY <1>3, <3>1, <4>1 DEF Accepted
      <3> QED
        BY <1>2, <3>2, <3>3, <3>4
    <2> QED
      BY <2>1, <2>2
  <1> DEFINE gone == {x \in Sensor : evicted[x] # "no"}
  <1>6. gone' = gone \cup {s}
    BY <1>1, <1>2
  <1>7. s \in Accepted
    BY <1>1, <1>2 DEF Accepted
  <1>8. Service!Leave(s)
    BY <1>1, <1>5, <1>6, <1>7, NothingIs DEF Service!Leave, Service!TakeNothing
  <1> QED
    BY <1>1, <1>8 DEF Service!Next

(* The id and the value begin a measurement of a sensor still served.       *)
LEMMA MeasurementBegins ==
  ASSUME CInv, NEW s \in Sensor, NEW buf_size \in -1 .. Total,
         \/ buf_size <= IdSize /\ ReceiveId(s, buf_size)
         \/ buf_size <= ValueSize /\ ReceiveValue(s, buf_size)
  PROVE  Service!Next
  <1>1. /\ step \in {"service", "value"} /\ step' \in {"value", "ts"} /\ i > 0 /\ s = connections[i]
        /\ inserted' = Nothing /\ UNCHANGED <<backlog, connections, evicted>>
    BY DEF ReceiveId, ReceiveValue, Serving, listVars, CInv, PollInv
  <1>2. short' = short \/ short' = short \cup {s}
    BY DEF ReceiveId, ReceiveValue, tcp_receive
  <1>3. s \in Accepted /\ Accepted' = Accepted
    BY <1>1, ServedOnce DEF Accepted
  <1>4. Service!Begin(s)
    BY <1>1, <1>2, <1>3, NothingIs DEF Service!Begin, Service!Tear, Service!TakeNothing
  <1> QED
    BY <1>1, <1>4 DEF Service!Next

(* The measurement is inserted with the id of a sensor still served, if its *)
(* stream is in step.                                                       *)
LEMMA MeasurementIsTaken ==
  ASSUME CInv, NEW s \in Sensor, NEW buf_size \in -1 .. Total, buf_size <= TsSize,
         ReceiveTs(s, buf_size)
  PROVE  Service!Next
  <1>1. /\ step = "ts" /\ connections[i] = s
        /\ inserted' = Measurement(s, Filled(s, "ts", buf_size))
        /\ NextIndex(Len(connections)) /\ tcp_receive(s, "ts", buf_size)
        /\ UNCHANGED <<backlog, connections, evicted>>
    BY DEF ReceiveTs, listVars
  <1>2. step' # "closed"
    BY <1>1 DEF NextIndex, EndRound
  <1>3. short' = short \/ short' = short \cup {s}
    BY <1>1 DEF tcp_receive
  <1>4. s \in Accepted /\ Accepted' = Accepted
    BY <1>1, ServedOnce DEF Accepted, CInv, PollInv
  <1>5. inserted.from = Server
    BY <1>1, NothingIs DEF CInv, InsertedInv
  <1>6. inserted'.from = s /\ inserted'.id \in Sensor \cup {Unknown}
    BY <1>1 DEF Measurement
  <1>7. s \notin short' => inserted'.id = s
    BY ReceiveTsOutcome
  <1>8. Service!Take(s)
    BY <1>1, <1>2, <1>3, <1>4, <1>5, <1>6, <1>7 DEF Service!Take, Service!Tear
  <1> QED
    BY <1>1, <1>8 DEF Service!Next

(* Every step of the loop, the sensors and the clock is a step of the       *)
(* service or leaves it alone.                                              *)
LEMMA ServiceStep == CInv /\ [Next]_vars => [Service!Next]_Service!vars
  <1> SUFFICES ASSUME CInv, [Next]_vars
               PROVE  Service!Next \/ UNCHANGED Service!vars
    OBVIOUS
  <1>1. CASE Tick \/ Closed \/ UNCHANGED vars
    BY <1>1, ServiceFrame DEF Tick, Closed, vars, listVars, streamVars
  <1>2. ASSUME NEW s \in Sensor, SendPiece(s) \/ Disconnect(s)
        PROVE  UNCHANGED Service!vars
    BY <1>2, ServiceFrame DEF SendPiece, Disconnect, listVars, streamVars
  <1>3. CASE Poll
    BY <1>3, ServiceRests DEF Poll, listVars, streamVars
  <1>4. ASSUME NEW s \in Sensor, PassOver(s)
        PROVE  Service!Next
    BY <1>4, ServiceRests DEF PassOver, Serving, NextIndex, EndRound, listVars, streamVars
  <1>5. ASSUME NEW s \in Sensor, NEW buf_size \in -1 .. Total, Receive(s, buf_size)
        PROVE  Service!Next
    BY <1>5, MeasurementBegins, MeasurementIsTaken DEF Receive
  <1> QED
    BY <1>1, <1>2, <1>3, <1>4, <1>5, Results, ConnectArrives, ServerAcceptsOrCloses, EvictedLeaves
       DEF Next, connmgr_round, recv_fails, sensor_node

(* Polls, rounds and receives implement arrivals, turns and measurements,   *)
(* with the torn streams those of which a receive was cut short.            *)
THEOREM RoundsImplementService == Spec => ImplementsService
  BY ServiceStep, ServiceInit, CInvHolds, PTL DEF Spec, ImplementsService, Service!Spec

(* The runs with a fast thread are runs of Spec: what is proved of Spec     *)
(* holds of them.                                                           *)
THEOREM PromptIsASpec == PromptSpec => Spec
  <1>1. [PromptNext]_vars => [Next]_vars
    BY DEF PromptNext, PromptTick, Next
  <1> QED
    BY <1>1, PTL DEF PromptSpec, Spec

-----------------------------------------------------------------------------
(* How long a silent sensor is kept                                        *)

(* What is counted: every eviction costs the others at most one sleep of    *)
(* poll, and evicts one sensor more.                                        *)
Gone == Cardinality({s \in Sensor : evicted[s] # "no"})
Allowed == (Gone + 1) * TIMEOUT
Slept == IF step = "poll" THEN waited ELSE TIMEOUT

(* While the thread sleeps, the silence of a connection is what the         *)
(* evictions allow and the sleep; in a round, that of a connection already  *)
(* served is no more than TIMEOUT.  A sensor not yet accepted has none.     *)
SilenceInv ==
  /\ step # "poll" => waited = 0
  /\ \A s \in Sensor : s \notin Accepted /\ evicted[s] = "no" => last_mod[s] = 0
  /\ \A k \in 1 .. Len(connections) : last_mod[connections[k]] <= Allowed + Slept
  /\ InRound => \A k \in 1 .. Len(connections) :
                  ~NotYet(k) => last_mod[connections[k]] <= TIMEOUT

(* Numbers of the counting.                                                 *)
LEMMA AllowedIs ==
  /\ Gone \in Nat /\ Allowed \in Nat /\ TIMEOUT \in Nat
  /\ TIMEOUT <= Allowed
  <1>1. IsFiniteSet({s \in Sensor : evicted[s] # "no"})
    BY FinitelyManySensors, FS_Subset
  <1>2. Gone \in Nat /\ TIMEOUT \in Nat
    BY <1>1, FS_CardinalityType, ConnMgrAssumption DEF Gone
  <1>3. \A n, t \in Nat : (n + 1) * t \in Nat /\ t <= (n + 1) * t
    <2> SUFFICES ASSUME NEW n \in Nat, NEW t \in Nat
                 PROVE  (n + 1) * t \in Nat /\ t <= (n + 1) * t
      OBVIOUS
    <2>1. (n + 1) * t = n * t + t /\ n * t \in Nat
      OBVIOUS
    <2> QED
      BY <2>1
  <1> QED
    BY <1>2, <1>3 DEF Allowed

(* The ages are numbers.                                                    *)
LEMMA Ages ==
  ASSUME CInv
  PROVE  /\ \A s \in Sensor : last_mod[s] \in Nat
         /\ \A k \in 1 .. Len(connections) : connections[k] \in Sensor
                                             /\ last_mod[connections[k]] \in Nat
         /\ waited \in Nat /\ waited <= TIMEOUT
         /\ Slept \in Nat /\ Slept <= TIMEOUT
  <1>1. /\ last_mod \in [Sensor \cup {Server} -> 0 .. Expired] /\ Expired \in Nat
        /\ TIMEOUT \in Nat /\ waited \in 0 .. TIMEOUT
    BY ConnMgrAssumption DEF CInv, TypeOK
  <1>2. \A s \in Sensor : last_mod[s] \in Nat
    BY <1>1
  <1> QED
    BY <1>1, <1>2, Shapes DEF Slept

(* At first nobody is served and nobody has been silent.                    *)
LEMMA SilenceInit == Init => SilenceInv
  <1> SUFFICES ASSUME Init PROVE SilenceInv
    OBVIOUS
  <1>1. Len(connections) = 0 /\ step = "poll"
    BY DEF Init
  <1>2. \A s \in Sensor : last_mod[s] = 0
    BY ConnMgrAssumption DEF Init, Server
  <1> QED
    BY <1>1, <1>2 DEF SilenceInv, InRound

(* Steps that concern neither the connections nor the place of the thread.  *)
LEMMA SilenceFrame ==
  ASSUME SilenceInv, UNCHANGED <<step, i, waited, connections, last_mod, evicted>>
  PROVE  SilenceInv'
  BY DEF SilenceInv, Accepted, InRound, NotYet, Allowed, Gone, Slept

(* A second passes while poll sleeps: one second of silence more, and of    *)
(* sleep.                                                                   *)
LEMMA SilenceTick ==
  ASSUME CInv, SilenceInv, PromptTick
  PROVE  SilenceInv'
  <1>1. /\ step = "poll" /\ step' = "poll" /\ waited' = waited + 1
        /\ UNCHANGED <<connections, evicted>>
        /\ last_mod' = [c \in Sensor \cup {Server} |->
                          IF c \in Accepted \cup {Server} THEN Aged(last_mod[c])
                                                          ELSE last_mod[c]]
    BY DEF PromptTick, Tick
  <1>2. Accepted' = Accepted /\ Allowed' = Allowed
    BY <1>1 DEF Accepted, Allowed, Gone
  <1>3. Server \notin Sensor /\ Expired \in Nat
    BY ConnMgrAssumption DEF Server
  <1>4. ASSUME NEW s \in Sensor, s \notin Accepted, evicted[s] = "no"
        PROVE  last_mod'[s] = 0
    BY <1>1, <1>3, <1>4 DEF SilenceInv
  <1>5. ASSUME NEW k \in 1 .. Len(connections)
        PROVE  last_mod'[connections[k]] <= Allowed + waited + 1
    <2>1. last_mod[connections[k]] <= Allowed + waited
      BY <1>1 DEF SilenceInv, Slept
    <2>2. connections[k] \in Sensor /\ last_mod[connections[k]] \in Nat
      BY Ages
    <2>3. \/ last_mod'[connections[k]] = last_mod[connections[k]]
          \/ last_mod'[connections[k]] = last_mod[connections[k]] + 1
      BY <1>1, <2>2 DEF Aged
    <2> QED
      BY <2>1, <2>2, <2>3, AllowedIs, Ages
  <1>6. Allowed + Slept' = Allowed + waited + 1
    BY <1>1, AllowedIs, Ages DEF Slept
  <1> QED
    BY <1>1, <1>2, <1>4, <1>5, <1>6 DEF SilenceInv, InRound

(* poll returns: whatever it slept was at most TIMEOUT.                     *)
LEMMA SilencePoll ==
  ASSUME CInv, SilenceInv, Poll
  PROVE  SilenceInv'
  <1>1. /\ step = "poll" /\ step' = "service" /\ i' = 0 /\ waited' = 0
        /\ UNCHANGED <<connections, evicted, last_mod>>
    BY DEF Poll, listVars
  <1>2. Accepted' = Accepted /\ Allowed' = Allowed /\ Slept' = TIMEOUT
    BY <1>1 DEF Accepted, Allowed, Gone, Slept
  <1>3. ASSUME NEW k \in 1 .. Len(connections)
        PROVE  last_mod[connections[k]] <= Allowed + TIMEOUT /\ NotYet(k)'
    <2>1. last_mod[connections[k]] <= Allowed + waited
      BY <1>1 DEF SilenceInv, Slept
    <2>2. last_mod[connections[k]] \in Nat /\ waited \in Nat /\ waited <= TIMEOUT
      BY Ages
    <2>3. k > 0
      BY Shapes
    <2> QED
      BY <1>1, <2>1, <2>2, <2>3, AllowedIs DEF NotYet
  <1> QED
    BY <1>1, <1>2, <1>3 DEF SilenceInv

(* The round goes on after a connection that has not been silent, or ends   *)
(* with the last.                                                           *)
LEMMA SilenceNextIndex ==
  ASSUME CInv, SilenceInv, InRound, i > 0, last_mod[connections[i]] <= TIMEOUT,
         NextIndex(Len(connections)),
         UNCHANGED <<waited, connections, last_mod, evicted>>
  PROVE  SilenceInv'
  <1>1. /\ Len(connections) \in Nat /\ i \in Nat /\ i <= Len(connections)
        /\ waited = 0 /\ TIMEOUT \in Nat
    BY Shapes DEF SilenceInv, InRound
  <1>2. Accepted' = Accepted /\ Allowed' = Allowed
    BY DEF Accepted, Allowed, Gone
  <1>3. ASSUME NEW k \in 1 .. Len(connections), k <= i
        PROVE  last_mod[connections[k]] <= TIMEOUT
    <2>1. CASE k = i
      BY <2>1
    <2>2. CASE k # i
      <3>1. ~NotYet(k)
        BY <1>1, <1>3, <2>2 DEF NotYet
      <3> QED
        BY <3>1 DEF SilenceInv
    <2> QED
      BY <2>1, <2>2
  <1>4. ASSUME NEW k \in 1 .. Len(connections)
        PROVE  last_mod[connections[k]] <= Allowed + TIMEOUT
    BY DEF SilenceInv, Slept, InRound
  <1>5. CASE i + 1 <= Len(connections)
    <2>1. step' = "service" /\ i' = i + 1
      BY <1>5 DEF NextIndex
    <2>2. ASSUME NEW k \in 1 .. Len(connections), ~NotYet(k)' PROVE k <= i
      BY <1>1, <2>1, <2>2 DEF NotYet
    <2>3. Slept' = TIMEOUT
      BY <2>1 DEF Slept
    <2> QED
      BY <1>1, <1>2, <1>3, <1>4, <2>1, <2>2, <2>3 DEF SilenceInv
  <1>6. CASE ~(i + 1 <= Len(connections))
    <2>1. step' = "poll" /\ Slept' = 0
      BY <1>1, <1>6 DEF NextIndex, EndRound, Slept
    <2>2. ASSUME NEW k \in 1 .. Len(connections)
          PROVE  last_mod[connections[k]] <= Allowed + 0
      <3>1. k <= i
        BY <1>1, <1>6
      <3> QED
        BY <1>3, <3>1, AllowedIs, Ages
    <2> QED
      BY <1>2, <2>1, <2>2 DEF SilenceInv, InRound
  <1> QED
    BY <1>5, <1>6

(* Whoever is accepted has not been silent, and is served in this round.    *)
LEMMA SilenceServer ==
  ASSUME CInv, SilenceInv, ServeServer
  PROVE  SilenceInv'
  <1>1. /\ step = "service" /\ i = 0 /\ UNCHANGED <<waited, evicted>>
        /\ connections \in Seq(Sensor) /\ Len(connections) \in Nat
        /\ backlog \in Seq(Sensor) /\ waited = 0
    BY Shapes DEF ServeServer, SilenceInv
  <1>2. PICK age : /\ IdleCheck(Len(connections'), age)
                   /\ \/ connections' = connections
                      \/ /\ backlog # << >>
                         /\ connections' = Append(connections, Head(backlog))
    <2>1. poll_list[0].in => backlog # << >>
      BY <1>1 DEF CInv, PollInv
    <2>2. CASE connections' = connections
      BY <2>2 DEF ServeServer
    <2>3. CASE connections' # connections
      <3>1. /\ poll_list[0].in
            /\ connections' = Append(connections, Head(backlog))
            /\ IdleCheck(Len(connections) + 1, 0)
        BY <2>3 DEF ServeServer
      <3>2. Head(backlog) \in Sensor
        BY <1>1, <2>1, <3>1
      <3>3. Len(Append(connections, Head(backlog))) = Len(connections) + 1
        BY <1>1, <3>2
      <3> QED
        BY <2>1, <3>1, <3>3
    <2> QED
      BY <2>2, <2>3
  <1>3. \A s \in Sensor : last_mod'[s] = last_mod[s]
    <2>1. last_mod' = [last_mod EXCEPT ![Server] = age]
      BY <1>2 DEF IdleCheck
    <2> QED
      BY <2>1, ConnMgrAssumption, Shapes DEF Server
  <1>4. /\ Len(connections') \in Nat
        /\ \A s \in Accepted : s \in Accepted'
        /\ \A k \in 1 .. Len(connections') :
             \/ k \in 1 .. Len(connections) /\ connections'[k] = connections[k]
             \/ connections'[k] \in Sensor /\ last_mod[connections'[k]] = 0
    <2>1. CASE connections' = connections
      BY <1>1, <2>1 DEF Accepted
    <2>2. CASE backlog # << >> /\ connections' = Append(connections, Head(backlog))
      <3> DEFINE h == Head(backlog)
                 n == Len(connections)
      <3>1. h \in Sensor /\ h = backlog[1] /\ 1 \in 1 .. Len(backlog)
        BY <1>1, <2>2
      <3> HIDE DEF h
      <3>2. /\ Len(connections') = n + 1
            /\ \A k \in 1 .. n : connections'[k] = connections[k]
            /\ connections'[n + 1] = h
        BY <1>1, <2>2, <3>1, AppendProperties DEF h
      <3>3. last_mod[h] = 0
        <4>1. h \notin Accepted /\ evicted[h] = "no"
          BY <3>1 DEF CInv, PlaceInv, Accepted
        <4> QED
          BY <3>1, <4>1 DEF SilenceInv
      <3>4. ASSUME NEW k \in 1 .. n + 1
            PROVE  \/ k \in 1 .. n /\ connections'[k] = connections[k]
                   \/ connections'[k] \in Sensor /\ last_mod[connections'[k]] = 0
        <4>1. k \in 1 .. n \/ k = n + 1
          BY <1>1
        <4> QED
          BY <3>1, <3>2, <3>3, <4>1
      <3>5. \A k \in 1 .. n : k \in 1 .. n + 1
        BY <1>1
      <3> QED
        BY <1>1, <3>2, <3>4, <3>5 DEF Accepted
    <2> QED
      BY <1>2, <2>1, <2>2
  <1>5. ASSUME NEW k \in 1 .. Len(connections')
        PROVE  last_mod'[connections'[k]] <= Allowed + TIMEOUT
    <2>1. CASE k \in 1 .. Len(connections) /\ connections'[k] = connections[k]
      <3>1. last_mod[connections[k]] <= Allowed + TIMEOUT /\ connections[k] \in Sensor
        BY <1>1, <2>1, Ages DEF SilenceInv, Slept
      <3> QED
        BY <1>3, <2>1, <3>1
    <2>2. CASE connections'[k] \in Sensor /\ last_mod[connections'[k]] = 0
      BY <1>3, <2>2, AllowedIs
    <2> QED
      BY <1>4, <2>1, <2>2
  <1>6. Allowed' = Allowed
    BY <1>1 DEF Allowed, Gone
  <1>7. ASSUME NEW s \in Sensor, s \notin Accepted', evicted'[s] = "no"
        PROVE  last_mod'[s] = 0
    BY <1>1, <1>3, <1>4, <1>7 DEF SilenceInv
  <1>8. CASE Len(connections') = 0
    <2>1. \A k : k \notin 1 .. Len(connections')
      BY <1>8
    <2> QED
      BY <1>1, <1>7, <2>1 DEF SilenceInv
  <1>9. CASE Len(connections') # 0
    <2>1. step' = "service" /\ i' = 1
      <3>1. NextIndex(Len(connections')) /\ i + 1 <= Len(connections')
        BY <1>1, <1>2, <1>4, <1>9 DEF IdleCheck
      <3> QED
        BY <1>1, <3>1 DEF NextIndex
    <2>2. ASSUME NEW k \in 1 .. Len(connections') PROVE NotYet(k)'
      BY <1>4, <2>1 DEF NotYet
    <2>3. Slept' = TIMEOUT
      BY <2>1 DEF Slept
    <2> QED
      BY <1>1, <1>5, <1>6, <1>7, <2>1, <2>2, <2>3 DEF SilenceInv
  <1> QED
    BY <1>8, <1>9

(* One more sensor is gone, so the others may have been silent for one      *)
(* TIMEOUT more.                                                            *)
LEMMA SilenceEvict ==
  ASSUME CInv, SilenceInv, NEW s \in Sensor, EvictTimedOut(s) \/ EvictHangedUp(s)
  PROVE  SilenceInv'
  <1>1. PICK why \in {"timed_out", "hanged_up"} :
          /\ connections' = RemoveAt(connections, i)
          /\ evicted' = [evicted EXCEPT ![s] = why]
          /\ last_mod' = [last_mod EXCEPT ![Server] = 0, ![s] = 0]
          /\ step = "service" /\ step' = "poll" /\ i > 0 /\ s = connections[i]
          /\ waited' = waited
    BY DEF EvictTimedOut, EvictHangedUp, Evict, Discard, EndRound, Serving
  <1>2. /\ connections \in Seq(Sensor) /\ Len(connections) \in Nat
        /\ evicted \in [Sensor -> {"no", "timed_out", "hanged_up"}]
        /\ waited = 0 /\ i \in 1 .. Len(connections)
    BY <1>1, Shapes, ServedOnce DEF SilenceInv
  <1>3. /\ Len(connections') = Len(connections) - 1
        /\ \A k \in 1 .. Len(connections) - 1 :
             connections'[k] = IF k < i THEN connections[k] ELSE connections[k + 1]
    BY <1>1, <1>2, RemoveAtFacts
  <1>4. \A x \in Sensor : last_mod'[x] = IF x = s THEN 0 ELSE last_mod[x]
    BY <1>1, ConnMgrAssumption, Shapes DEF Server
  <1>5. Allowed' = Allowed + TIMEOUT
    <2> DEFINE G == {x \in Sensor : evicted[x] # "no"}
    <2>1. {x \in Sensor : evicted'[x] # "no"} = G \cup {s}
      BY <1>1, <1>2
    <2>2. s \notin G
      BY <1>1, <1>2 DEF CInv, PlaceInv
    <2>3. IsFiniteSet(G)
      BY FinitelyManySensors, FS_Subset
    <2> HIDE DEF G
    <2>4. Cardinality(G \cup {s}) = Cardinality(G) + 1
      BY <2>2, <2>3, FS_AddElement
    <2>5. Gone' = Gone + 1
      BY <2>1, <2>4 DEF Gone, G
    <2>6. \A n, t \in Nat : (n + 1 + 1) * t = (n + 1) * t + t
      OBVIOUS
    <2> QED
      BY <2>5, <2>6, AllowedIs DEF Allowed
  <1>6. ASSUME NEW k \in 1 .. Len(connections')
        PROVE  last_mod'[connections'[k]] <= Allowed' + Slept'
    <2>1. PICK j \in 1 .. Len(connections) : connections'[k] = connections[j]
      <3>1. k \in 1 .. Len(connections) /\ k + 1 \in 1 .. Len(connections)
        BY <1>2, <1>3
      <3> QED
        BY <1>3, <3>1
    <2>2. last_mod[connections[j]] <= Allowed + TIMEOUT /\ connections[j] \in Sensor
      BY <1>1, Ages DEF SilenceInv, Slept
    <2>3. Slept' = 0
      BY <1>1, <1>2 DEF Slept
    <2>4. Allowed' + Slept' = Allowed + TIMEOUT
      BY <1>5, <2>3, AllowedIs
    <2> QED
      BY <1>4, <2>1, <2>2, <2>4, AllowedIs
  <1>7. ASSUME NEW x \in Sensor, x \notin Accepted', evicted'[x] = "no"
        PROVE  last_mod'[x] = 0
    <2>1. x # s /\ evicted[x] = "no"
      BY <1>1, <1>2, <1>7
    <2>2. x \notin Accepted
      <3> SUFFICES ASSUME NEW j \in 1 .. Len(connections), x = connections[j]
                   PROVE  x \in Accepted'
        BY <1>7 DEF Accepted
      <3>1. j # i
        BY <1>1, <2>1
      <3>2. CASE j < i
        <4>1. j \in 1 .. Len(connections) - 1
          BY <1>2, <3>2
        <4> QED
          BY <1>3, <3>2, <4>1 DEF Accepted
      <3>3. CASE j > i
        <4>1. PICK l \in 1 .. Len(connections) - 1 : j = l + 1 /\ ~(l < i)
          BY <1>2, <3>3
        <4> QED
          BY <1>3, <4>1 DEF Accepted
      <3> QED
        BY <1>2, <3>1, <3>2, <3>3
    <2> QED
      BY <1>4, <2>1, <2>2 DEF SilenceInv
  <1> QED
    BY <1>1, <1>6, <1>7 DEF SilenceInv, InRound

(* The measurement of a sensor ends its silence.                            *)
LEMMA SilenceReceiveId ==
  ASSUME CInv, SilenceInv, NEW s \in Sensor, NEW buf_size, ReceiveId(s, buf_size)
  PROVE  SilenceInv'
  <1>1. /\ step = "service" /\ step' = "value" /\ i > 0 /\ s = connections[i]
        /\ ~TimedOut(s) /\ last_mod' = [last_mod EXCEPT ![s] = 0]
        /\ UNCHANGED <<i, waited, connections, evicted>>
    BY DEF ReceiveId, Serving
  <1>2. /\ Accepted' = Accepted /\ Allowed' = Allowed /\ Slept' = TIMEOUT /\ Slept = TIMEOUT
        /\ waited' = 0
    BY <1>1 DEF Accepted, Allowed, Gone, Slept, SilenceInv
  <1>3. \A x \in Sensor : last_mod'[x] = IF x = s THEN 0 ELSE last_mod[x]
    BY <1>1, Shapes
  <1>4. ASSUME NEW k \in 1 .. Len(connections)
        PROVE  /\ last_mod'[connections[k]] <= Allowed + TIMEOUT
               /\ ~NotYet(k)' => last_mod'[connections[k]] <= TIMEOUT
    <2>1. connections[k] \in Sensor /\ last_mod[connections[k]] <= Allowed + TIMEOUT
      BY <1>2, Ages DEF SilenceInv
    <2>2. CASE connections[k] = s
      BY <1>3, <2>1, <2>2, AllowedIs
    <2>3. CASE connections[k] # s
      <3>1. last_mod'[connections[k]] = last_mod[connections[k]] /\ k # i
        BY <1>1, <1>3, <2>1, <2>3
      <3>2. ~NotYet(k)' => ~NotYet(k)
        BY <1>1, <3>1 DEF NotYet
      <3> QED
        BY <1>1, <2>1, <3>1, <3>2 DEF SilenceInv, InRound
    <2> QED
      BY <2>2, <2>3
  <1>5. ASSUME NEW x \in Sensor, x \notin Accepted, evicted[x] = "no"
        PROVE  last_mod'[x] = 0
    BY <1>3, <1>5 DEF SilenceInv
  <1> QED
    BY <1>1, <1>2, <1>4, <1>5 DEF SilenceInv

(* No step of a prompt thread or of a sensor lets a silence grow beyond     *)
(* that.                                                                    *)
LEMMA SilenceStep ==
  CInv /\ SilenceInv /\ [PromptNext]_vars => SilenceInv'
  <1> SUFFICES ASSUME CInv, SilenceInv, [PromptNext]_vars PROVE SilenceInv'
    OBVIOUS
  <1>1. CASE Poll
    BY <1>1, SilencePoll
  <1>2. CASE ServeServer
    BY <1>2, SilenceServer
  <1>3. ASSUME NEW s \in Sensor, EvictTimedOut(s) \/ EvictHangedUp(s) PROVE SilenceInv'
    BY <1>3, SilenceEvict
  <1>4. ASSUME NEW s \in Sensor, PassOver(s) PROVE SilenceInv'
    <2>1. /\ step = "service" /\ i > 0 /\ s = connections[i] /\ ~TimedOut(s)
          /\ NextIndex(Len(connections)) /\ UNCHANGED <<waited, connections, last_mod, evicted>>
      BY <1>4 DEF PassOver, Serving, listVars
    <2>2. last_mod[connections[i]] <= TIMEOUT
      BY <2>1, Ages, Shapes DEF TimedOut
    <2> QED
      BY <2>1, <2>2, SilenceNextIndex DEF InRound
  <1>5. ASSUME NEW s \in Sensor, NEW buf_size, ReceiveId(s, buf_size) PROVE SilenceInv'
    BY <1>5, SilenceReceiveId
  <1>6. ASSUME NEW s \in Sensor, NEW buf_size, ReceiveValue(s, buf_size) PROVE SilenceInv'
    <2>1. /\ step = "value" /\ step' = "ts"
          /\ UNCHANGED <<i, waited, connections, last_mod, evicted>>
      BY <1>6 DEF ReceiveValue, listVars
    <2> QED
      BY <2>1 DEF SilenceInv, Accepted, InRound, NotYet, Allowed, Gone, Slept
  <1>7. ASSUME NEW s \in Sensor, NEW buf_size, ReceiveTs(s, buf_size) PROVE SilenceInv'
    <2>1. /\ step = "ts" /\ NextIndex(Len(connections))
          /\ UNCHANGED <<waited, connections, last_mod, evicted>>
      BY <1>7 DEF ReceiveTs, listVars
    <2>2. i > 0 /\ i \in 1 .. Len(connections)
      BY <2>1, ServedOnce DEF CInv, PollInv
    <2>3. ~NotYet(i) /\ InRound
      BY <2>1, Shapes DEF NotYet, InRound
    <2>4. last_mod[connections[i]] <= TIMEOUT
      BY <2>2, <2>3 DEF SilenceInv
    <2> QED
      BY <2>1, <2>2, <2>3, <2>4, SilenceNextIndex
  <1>8. ASSUME NEW s \in Sensor, sensor_node(s) PROVE SilenceInv'
    BY <1>8, SilenceFrame DEF sensor_node, Connect, SendPiece, Disconnect, listVars
  <1>9. CASE PromptTick
    BY <1>9, SilenceTick
  <1>10. CASE Closed \/ UNCHANGED vars
    BY <1>10, SilenceFrame DEF Closed, vars, listVars
  <1> QED
    BY <1>1, <1>2, <1>3, <1>4, <1>5, <1>6, <1>7, <1>8, <1>9, <1>10
       DEF PromptNext, connmgr_round, recv_fails, Receive

(* The evicted do not include the one that is still served, so what the     *)
(* evictions allow is bounded by the number of sensors.                     *)
LEMMA SilenceCounted ==
  ASSUME CInv, SilenceInv
  PROVE  SilenceIsBounded
  <1> SUFFICES ASSUME NEW s \in Accepted
               PROVE  last_mod[s] <= (Cardinality(Sensor) + 1) * TIMEOUT
    BY DEF SilenceIsBounded
  <1>1. PICK k \in 1 .. Len(connections) : s = connections[k]
    BY DEF Accepted
  <1>2. last_mod[s] <= Allowed + Slept /\ last_mod[s] \in Nat /\ s \in Sensor
    BY <1>1, Ages DEF SilenceInv
  <1>3. Gone + 1 <= Cardinality(Sensor) /\ Cardinality(Sensor) \in Nat
    <2> DEFINE G == {x \in Sensor : evicted[x] # "no"}
    <2>1. G \subseteq Sensor \ {s}
      BY <1>1 DEF CInv, PlaceInv
    <2>2. IsFiniteSet(Sensor \ {s}) /\ Cardinality(Sensor \ {s}) = Cardinality(Sensor) - 1
      BY <1>2, FinitelyManySensors, FS_RemoveElement
    <2> HIDE DEF G
    <2>3. Cardinality(G) <= Cardinality(Sensor \ {s})
      BY <2>1, <2>2, FS_Subset
    <2>4. Cardinality(Sensor) \in Nat
      BY FinitelyManySensors, FS_CardinalityType
    <2>5. Gone = Cardinality(G)
      BY DEF Gone, G
    <2> QED
      BY <2>2, <2>3, <2>4, <2>5, AllowedIs
  <1>4. \A g, n, t \in Nat : g + 1 <= n => (g + 1) * t + t <= (n + 1) * t
    <2> SUFFICES ASSUME NEW g \in Nat, NEW n \in Nat, NEW t \in Nat, g + 1 <= n
                 PROVE  (g + 1) * t + t <= (n + 1) * t
      OBVIOUS
    <2>1. PICK d \in Nat : n = g + 1 + d
      <3>1. n - (g + 1) \in Nat /\ n = g + 1 + (n - (g + 1))
        OBVIOUS
      <3> QED
        BY <3>1
    <2>2. (n + 1) * t = (g + 1) * t + t + d * t /\ d * t \in Nat /\ (g + 1) * t \in Nat
      BY <2>1
    <2> QED
      BY <2>2
  <1>5. Allowed + TIMEOUT <= (Cardinality(Sensor) + 1) * TIMEOUT
    BY <1>3, <1>4, AllowedIs DEF Allowed
  <1>6. (Cardinality(Sensor) + 1) * TIMEOUT \in Nat
    BY <1>3, AllowedIs
  <1> QED
    BY <1>2, <1>5, <1>6, AllowedIs, Ages

(* If the thread itself loses no time, a silent connection is not kept for  *)
(* ever by the others, however many they are.                               *)
THEOREM SilenceEnds == PromptSpec => []SilenceIsBounded
  <1>1. PromptSpec => []CInv
    BY PromptIsASpec, CInvHolds, PTL
  <1>2. PromptSpec => []SilenceInv
    <2>1. PromptSpec => Init /\ [][PromptNext]_vars
      BY DEF PromptSpec
    <2> QED
      BY <1>1, <2>1, SilenceInit, SilenceStep, PTL
  <1>3. CInv /\ SilenceInv => SilenceIsBounded
    BY SilenceCounted
  <1> QED
    BY <1>1, <1>2, <1>3, PTL
==============================================================================
