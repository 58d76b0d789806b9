---------------------------- MODULE SensorService ----------------------------
(***************************************************************************)
(* What connmgr_thread is for, without polls, rounds and bytes: sensors    *)
(* arrive, are accepted in the order of their arrival, have measurements    *)
(* taken while they are served, and leave; the service closes when it      *)
(* serves nobody, whoever may be waiting then.  A measurement bears the id *)
(* of the sensor it was taken from, until the stream of that sensor is     *)
(* torn: then it bears some id, known or not.                              *)
(***************************************************************************)
EXTENDS Naturals, Sequences

CONSTANTS Sensor, Nobody, Unknown

VARIABLES
  waiting,            \* the sensors that have arrived, oldest first
  served, gone,       \* the sensors accepted, and those that have left
  torn,               \* the served whose streams were torn
  source, id,         \* of the measurement just taken: from whom, and its id;
                      \* Nobody when the service is at something else
  open

vars == <<waiting, served, gone, torn, source, id, open>>

Init ==
  /\ waiting = << >>
  /\ served = {} /\ gone = {} /\ torn = {}
  /\ source = Nobody /\ id = Nobody
  /\ open = TRUE

Arrive(s) ==
  /\ s \notin served \cup gone
  /\ \A k \in 1 .. Len(waiting) : waiting[k] # s
  /\ waiting' = Append(waiting, s)
  /\ UNCHANGED <<served, gone, torn, source, id, open>>

TakeNothing == source' = Nobody /\ id' = Nobody

Rest == TakeNothing /\ UNCHANGED <<waiting, served, gone, torn, open>>

Accept ==
  /\ waiting # << >>
  /\ waiting' = Tail(waiting)
  /\ served' = served \cup {Head(waiting)}
  /\ TakeNothing
  /\ UNCHANGED <<gone, torn, open>>

(* While a measurement is taken the stream of its sensor may be torn.       *)
Tear(s) ==
  \/ UNCHANGED torn
  \/ s \in served /\ torn' = torn \cup {s}

Begin(s) ==
  /\ s \in served
  /\ Tear(s)
  /\ TakeNothing
  /\ UNCHANGED <<waiting, served, gone, open>>

Take(s) ==
  /\ s \in served
  /\ source = Nobody
  /\ Tear(s)
  /\ source' = s
  /\ id' = s \/ (s \in torn' /\ id' \in Sensor \cup {Unknown})
  /\ UNCHANGED <<waiting, served, gone, open>>

Leave(s) ==
  /\ s \in served
  /\ served' = served \ {s}
  /\ gone' = gone \cup {s}
  /\ torn' = torn \ {s}
  /\ TakeNothing
  /\ UNCHANGED <<waiting, open>>

Close ==
  /\ served = {}
  /\ open' = FALSE
  /\ TakeNothing
  /\ UNCHANGED <<waiting, served, gone, torn>>

Next ==
  /\ open
  /\ \/ Rest
     \/ Accept
     \/ Close
     \/ \E s \in Sensor : Arrive(s) \/ Begin(s) \/ Take(s) \/ Leave(s)

Spec == Init /\ [][Next]_vars
==============================================================================
