------------------------------- MODULE ConnMgr -------------------------------
(***************************************************************************)
(* The server loop of connmgr_thread with the sensors it serves: the list  *)
(* of connections, the poll set built from it, the eviction of connections *)
(* that are silent or closed, and the reading of a measurement from a      *)
(* stream, member by member.                                               *)
(*                                                                         *)
(* The thread takes one step per connection of a round, and one per call   *)
(* of tcp_receive, because a receive waits and the sensors go on meanwhile.*)
(* A stream is counted in pieces: a measurement is IdSize pieces of id,    *)
(* then ValueSize, then TsSize, over and over, and a receive returns as    *)
(* many as there are, up to what it asked for, or nothing, or fails.  How  *)
(* far a stream has been read is kept within the measurement (offset), as  *)
(* it never ends.  A Tick is one second of time(NULL), and may pass while  *)
(* the thread is anywhere.                                                 *)
(***************************************************************************)
EXTENDS Integers, Sequences, SequencesExt

CONSTANTS
  Sensor,             \* the sensor nodes; each connects once
  IdSize, ValueSize, TsSize,  \* sizeof of the three members, in pieces
  Window,             \* how much may have arrived and not been received
  TIMEOUT,            \* seconds of silence allowed, and the limit of poll
  Expired             \* seconds are not counted further than this

ASSUME ConnMgrAssumption ==
  /\ "server" \notin Sensor
  /\ IdSize \in Nat \ {0} /\ ValueSize \in Nat \ {0} /\ TsSize \in Nat \ {0}
  /\ Window \in Nat \ {0}
  /\ TIMEOUT \in Nat \ {0}
  /\ Expired \in Nat /\ Expired > TIMEOUT

Server == "server"

(* A measurement as sensor_node.c sends it and connmgr.c receives it.       *)
Size == [id |-> IdSize, value |-> ValueSize, ts |-> TsSize]
Start == [id |-> 0, value |-> IdSize, ts |-> IdSize + ValueSize]
Total == IdSize + ValueSize + TsSize

(* What a member of the struct was filled with: got pieces of the stream of *)
(* a sensor, from a place within a measurement - fewer than its size leave  *)
(* the rest of it as it was - or nothing of the measurement under way.      *)
Stretch(s, at, got) == [from |-> s, at |-> at, got |-> got]
Older == Stretch(Server, 0, 0)
AllOlder == [id |-> Older, value |-> Older, ts |-> Older]

Unknown == "unknown"  \* an id put together from others, or an older one
Nothing == [from |-> Server, id |-> Server, whole |-> FALSE]

VARIABLES
  step,               \* where the thread is
  i,                  \* index of the round; 0 is the server
  connections,        \* the sensors accepted, in the list's order after server
  last_mod,           \* seconds since last_mod of each connection, capped
  poll_list,          \* what poll returned, by index, a spare entry at the end
  waited,             \* seconds spent in poll, capped
  sensor_data,        \* the thread's one struct: what its members hold
  inserted,           \* the measurement that the thread's last step inserted
  backlog,            \* sensors connected and not yet accepted
  peer,               \* peer[s]: "away", "open" or "closed"
  arrived,            \* pieces of the stream of s that wait to be received
  offset,             \* pieces received of it, since the last whole Total
  short,              \* the streams of which a receive got less than asked
  evicted             \* evicted[s]: "no", "timed_out" or "hanged_up"

listVars == <<connections, last_mod, evicted>>
streamVars == <<sensor_data, arrived, offset, short>>
vars == <<step, i, poll_list, waited, inserted, backlog, peer, listVars, streamVars>>

Entry(fd, in, hup) == [fd |-> fd, in |-> in, hup |-> hup]
Spare == Entry(Server, FALSE, FALSE)

Init ==
  /\ step = "poll"
  /\ i = 0
  /\ connections = << >>
  \* the wait for the database may have taken any time since last_mod was set
  /\ last_mod \in {[c \in Sensor \cup {Server} |->
                      IF c = Server THEN age ELSE 0] : age \in 0 .. Expired}
  /\ poll_list = << >>
  /\ waited = 0
  /\ sensor_data = AllOlder
  /\ inserted = Nothing
  /\ backlog = << >>
  /\ peer = [s \in Sensor |-> "away"]
  /\ arrived = [s \in Sensor |-> 0]
  /\ offset = [s \in Sensor |-> 0]
  /\ short = {}
  /\ evicted = [s \in Sensor |-> "no"]

-----------------------------------------------------------------------------
(* The sensor nodes: connect, send without end, close - after a whole       *)
(* measurement or killed anywhere.  What a sensor does after its eviction   *)
(* reaches nobody.                                                          *)

Connect(s) ==
  /\ step # "closed"
  /\ peer[s] = "away"
  /\ peer' = [peer EXCEPT ![s] = "open"]
  /\ backlog' = Append(backlog, s)
  /\ UNCHANGED <<step, i, poll_list, waited, inserted, listVars, streamVars>>

(* A piece of what s sends arrives: there is always more of it, but no room *)
(* for more than the window.                                                *)
SendPiece(s) ==
  /\ step # "closed"
  /\ peer[s] = "open"
  /\ evicted[s] = "no"
  /\ arrived[s] < Window
  /\ arrived' = [arrived EXCEPT ![s] = @ + 1]
  /\ UNCHANGED <<step, i, poll_list, waited, inserted, backlog, peer, listVars,
                 sensor_data, offset, short>>

Disconnect(s) ==
  /\ step # "closed"
  /\ peer[s] = "open"
  /\ evicted[s] = "no"
  /\ peer' = [peer EXCEPT ![s] = "closed"]
  /\ UNCHANGED <<step, i, poll_list, waited, inserted, backlog, listVars, streamVars>>

sensor_node(s) == Connect(s) \/ SendPiece(s) \/ Disconnect(s)

Aged(age) == IF age < Expired THEN age + 1 ELSE age

Accepted == {connections[k] : k \in 1 .. Len(connections)}

Tick ==
  /\ step # "closed"
  /\ last_mod' = [c \in Sensor \cup {Server} |->
                    IF c \in Accepted \cup {Server} THEN Aged(last_mod[c])
                                                   ELSE last_mod[c]]
  /\ waited' = IF step = "poll" /\ waited < TIMEOUT THEN waited + 1 ELSE waited
  /\ UNCHANGED <<step, i, poll_list, inserted, backlog, connections, evicted, peer,
                 streamVars>>

-----------------------------------------------------------------------------
(* One round of connmgr_thread.                                            *)

Readable(s) == arrived[s] > 0 \/ peer[s] = "closed"
Pending == backlog # << >> \/ \E s \in Accepted : Readable(s)

(* Mutant: POLLRDHUP is not asked for. *)
PollListWithoutHup ==
  [k \in 0 .. Len(connections) + 1 |->
     CASE k = 0 -> Entry(Server, backlog # << >>, FALSE)
       [] k \in 1 .. Len(connections) ->
            Entry(connections[k], Readable(connections[k]), FALSE)
       [] OTHER -> Spare]

(* The list is as it was when poll_list was built, with one entry to spare. *)
PollList ==
  [k \in 0 .. Len(connections) + 1 |->
     CASE k = 0 -> Entry(Server, backlog # << >>, FALSE)
       [] k \in 1 .. Len(connections) ->
            Entry(connections[k], Readable(connections[k]),
                  peer[connections[k]] = "closed")
       [] OTHER -> Spare]

(* Mutant: poll without a limit. *)
PollBlocks ==
  /\ step = "poll"
  /\ Pending
  /\ poll_list' = PollList
  /\ step' = "service"
  /\ i' = 0
  /\ waited' = 0
  /\ inserted' = Nothing
  /\ UNCHANGED <<backlog, listVars, peer, streamVars>>

(* poll returns with what is ready, or with nothing after TIMEOUT seconds.  *)
Poll ==
  /\ step = "poll"
  /\ Pending \/ waited = TIMEOUT
  /\ poll_list' = PollList
  /\ step' = "service"
  /\ i' = 0
  /\ waited' = 0
  /\ inserted' = Nothing
  /\ UNCHANGED <<backlog, listVars, peer, streamVars>>

(* The round is over, by break or at the end of the list.                   *)
EndRound ==
  /\ step' = "poll"
  /\ i' = 0
  /\ poll_list' = << >>

(* i++ against the size of the list with the server, as it is now.          *)
NextIndex(size) ==
  IF i + 1 <= size
  THEN step' = "service" /\ i' = i + 1 /\ UNCHANGED poll_list
  ELSE EndRound

(* Mutant: every round counts as activity. *)
IdleCheckResets(size, age) ==
  /\ last_mod' = [last_mod EXCEPT ![Server] = 0]
  /\ NextIndex(size)

(* With the server alone, it is closed after more than TIMEOUT seconds; the *)
(* round at i = 0 is then the last.  age is that of the server's last_mod.  *)
IdleCheck(size, age) ==
  /\ last_mod' = [last_mod EXCEPT ![Server] = age]
  /\ IF size = 0 /\ age > TIMEOUT
     THEN step' = "closed" /\ i' = 0 /\ poll_list' = << >>
     ELSE NextIndex(size)

(* Mutant: only an accept that succeeds counts as activity. *)
ServeServerIfAccepted ==
  /\ step = "service"
  /\ i = 0
  /\ \/ /\ poll_list[0].in
        /\ connections' = Append(connections, Head(backlog))
        /\ backlog' = Tail(backlog)
        /\ IdleCheck(Len(connections) + 1, 0)
     \/ /\ UNCHANGED <<connections, backlog>>
        /\ IdleCheck(Len(connections), last_mod[Server])
  /\ inserted' = Nothing
  /\ UNCHANGED <<waited, evicted, peer, streamVars>>

(* i = 0: accept the oldest of the backlog, if poll saw one; accept may fail *)
ServeServer ==
  /\ step = "service"
  /\ i = 0
  /\ IF poll_list[0].in
     THEN \/ /\ connections' = Append(connections, Head(backlog))
             /\ backlog' = Tail(backlog)
             /\ IdleCheck(Len(connections) + 1, 0)
          \/ /\ UNCHANGED <<connections, backlog>>
             /\ IdleCheck(Len(connections), 0)
     ELSE /\ UNCHANGED <<connections, backlog>>
          /\ IdleCheck(Len(connections), last_mod[Server])
  /\ inserted' = Nothing
  /\ UNCHANGED <<waited, evicted, peer, streamVars>>

Serving(s) == step = "service" /\ i > 0 /\ s = connections[i]

(* Mutant: the silence allowed is counted from the end of the next poll. *)
TimedOutLate(s) == last_mod[s] > 2 * TIMEOUT

TimedOut(s) == last_mod[s] > TIMEOUT

(* What has not been received goes with the socket, and the entry with its  *)
(* last_mod.                                                                *)
Discard(s) ==
  /\ connections' = RemoveAt(connections, i)
  /\ last_mod' = [last_mod EXCEPT ![Server] = 0, ![s] = 0]
  /\ arrived' = [arrived EXCEPT ![s] = 0]
  /\ offset' = [offset EXCEPT ![s] = 0]
  /\ short' = short \ {s}
  /\ inserted' = Nothing

(* Mutant: the round goes on with the next index. *)
EvictAndGoOn(s, why) ==
  /\ evicted' = [evicted EXCEPT ![s] = why]
  /\ Discard(s)
  /\ IF i + 1 <= Len(connections) - 1
     THEN i' = i + 1 /\ UNCHANGED <<step, poll_list>>
     ELSE EndRound

(* Close the socket, take the entry out of the list, and break. *)
Evict(s, why) ==
  /\ evicted' = [evicted EXCEPT ![s] = why]
  /\ Discard(s)
  /\ EndRound

EvictTimedOut(s) ==
  /\ Serving(s)
  /\ TimedOut(s)
  /\ Evict(s, "timed_out")
  /\ UNCHANGED <<waited, backlog, peer, sensor_data>>

EvictHangedUp(s) ==
  /\ Serving(s)
  /\ ~TimedOut(s)
  /\ poll_list[i].hup
  /\ Evict(s, "hanged_up")
  /\ UNCHANGED <<waited, backlog, peer, sensor_data>>

PassOver(s) ==
  /\ Serving(s)
  /\ ~TimedOut(s)
  /\ ~poll_list[i].hup /\ ~poll_list[i].in
  /\ NextIndex(Len(connections))
  /\ inserted' = Nothing
  /\ UNCHANGED <<waited, backlog, listVars, peer, streamVars>>

(* A place in a measurement, so many pieces further on.                     *)
Further(place, got) ==
  IF place + got < Total THEN place + got ELSE place + got - Total

(* Mutant: what was asked for is taken for what was received. *)
tcp_receive_unchecked(s, member, buf_size) ==
  /\ arrived[s] > 0 \/ peer[s] = "closed"
  /\ buf_size = Size[member]
  /\ arrived' = [arrived EXCEPT ![s] = @ - buf_size]
  /\ offset' = [offset EXCEPT ![s] = Further(@, buf_size)]
  /\ UNCHANGED short

(* Mutant: the end of the stream is waited out. *)
tcp_receive_retried(s, member, buf_size) ==
  /\ buf_size \in 1 .. arrived[s]
  /\ arrived' = [arrived EXCEPT ![s] = @ - buf_size]
  /\ offset' = [offset EXCEPT ![s] = Further(@, buf_size)]
  /\ short' = IF buf_size < Size[member] THEN short \cup {s} ELSE short

(* tcp_receive into one member of the struct, with buf_size what recv       *)
(* returns: as much as there is of what it asks for, or less; 0 when the    *)
(* stream has ended; -1 when it fails.  Otherwise it waits.                 *)
tcp_receive(s, member, buf_size) ==
  \/ /\ buf_size \in 1 .. arrived[s]
     /\ arrived' = [arrived EXCEPT ![s] = @ - buf_size]
     /\ offset' = [offset EXCEPT ![s] = Further(@, buf_size)]
     /\ short' = IF buf_size < Size[member] THEN short \cup {s} ELSE short
  \/ /\ buf_size = 0
     /\ arrived[s] = 0 /\ peer[s] = "closed"
     /\ UNCHANGED <<arrived, offset, short>>
  \/ /\ buf_size = -1
     /\ short' = short \cup {s}
     /\ UNCHANGED <<arrived, offset>>

(* The struct after it: a call that receives nothing leaves it alone.       *)
Filled(s, member, buf_size) ==
  IF buf_size > 0
  THEN [sensor_data EXCEPT ![member] = Stretch(s, offset[s], buf_size)]
  ELSE sensor_data

IsWhole(data, member, s) == data[member] = Stretch(s, Start[member], Size[member])

(* What a measurement in the buffer tells: whom it was received from, the   *)
(* id it bears, and whether it is one that this sensor has sent.            *)
Measurement(s, data) ==
  [from |-> s,
   id |-> IF IsWhole(data, "id", s) THEN s ELSE Unknown,
   whole |-> \A member \in DOMAIN Size : IsWhole(data, member, s)]

(* None of the three results is looked at.                                  *)
ReceiveId(s, buf_size) ==
  /\ Serving(s)
  /\ ~TimedOut(s)
  /\ ~poll_list[i].hup /\ poll_list[i].in
  /\ last_mod' = [last_mod EXCEPT ![s] = 0]
  /\ tcp_receive(s, "id", buf_size)
  /\ sensor_data' = Filled(s, "id", buf_size)
  /\ inserted' = Nothing
  /\ step' = "value"
  /\ UNCHANGED <<i, poll_list, waited, backlog, connections, evicted, peer>>

ReceiveValue(s, buf_size) ==
  /\ step = "value" /\ s = connections[i]
  /\ tcp_receive(s, "value", buf_size)
  /\ sensor_data' = Filled(s, "value", buf_size)
  /\ step' = "ts"
  /\ inserted' = Nothing
  /\ UNCHANGED <<i, poll_list, waited, backlog, listVars, peer>>

(* Mutant: the third receive goes where the second went. *)
ReceiveTsIntoValue(s, buf_size) ==
  /\ step = "ts" /\ s = connections[i]
  /\ tcp_receive(s, "value", buf_size)
  /\ inserted' = Measurement(s, Filled(s, "value", buf_size))
  /\ sensor_data' = AllOlder
  /\ NextIndex(Len(connections))
  /\ UNCHANGED <<waited, backlog, listVars, peer>>

(* The third member, then sbuffer_insert of whatever the struct holds; for  *)
(* the next measurement all of that is older.                               *)
ReceiveTs(s, buf_size) ==
  /\ step = "ts" /\ s = connections[i]
  /\ tcp_receive(s, "ts", buf_size)
  /\ inserted' = Measurement(s, Filled(s, "ts", buf_size))
  /\ sensor_data' = AllOlder
  /\ NextIndex(Len(connections))
  /\ UNCHANGED <<waited, backlog, listVars, peer>>

Receive(s, buf_size) ==
  \/ buf_size <= IdSize /\ ReceiveId(s, buf_size)
  \/ buf_size <= ValueSize /\ ReceiveValue(s, buf_size)
  \/ buf_size <= TsSize /\ ReceiveTs(s, buf_size)

connmgr_round ==
  \/ Poll
  \/ ServeServer
  \/ \E s \in Sensor : \/ EvictTimedOut(s)
                       \/ EvictHangedUp(s)
                       \/ PassOver(s)
                       \/ \E buf_size \in 0 .. Total : Receive(s, buf_size)

(* A receive fails: nobody is promised that one does.                       *)
recv_fails == \E s \in Sensor : Receive(s, -1)

Closed == step = "closed" /\ UNCHANGED vars

Next ==
  \/ connmgr_round
  \/ recv_fails
  \/ \E s \in Sensor : sensor_node(s)
  \/ Tick
  \/ Closed

Spec == Init /\ [][Next]_vars

(* The same with a thread that is fast and measurements that come at once:  *)
(* time passes only while poll has nothing to report.                       *)
PromptTick ==
  /\ step = "poll"
  /\ ~Pending
  /\ waited < TIMEOUT
  /\ Tick

PromptNext ==
  \/ connmgr_round
  \/ recv_fails
  \/ \E s \in Sensor : sensor_node(s)
  \/ PromptTick
  \/ Closed

PromptSpec == Init /\ [][PromptNext]_vars

(* Time passes and the thread runs.  Nothing is assumed of the sensors,     *)
(* which may send for ever, fall silent anywhere or close; nor of accept    *)
(* and recv, which may fail for ever and need not fail at all.              *)
Fairness == WF_vars(Tick) /\ WF_vars(connmgr_round)

FairSpec == Spec /\ Fairness
==============================================================================
