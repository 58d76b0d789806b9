---------------------------- MODULE RunningAverage ----------------------------
(***************************************************************************)
(* The sensors of DATAMGR: room_sensor.map read into a list, the sensor a  *)
(* measurement belongs to, its last temperatures and their average.        *)
(*                                                                         *)
(* The average is kept as the quotient the code computes, sum and counter. *)
(* Temperatures are integers, in a unit fine enough.                       *)
(***************************************************************************)
EXTENDS Integers, Sequences, SequencesExt, FiniteSets

CONSTANTS
  SensorMap,          \* the sensor ids of room_sensor.map, line by line
  Id,                 \* the ids measurements come with
  Temperature,
  RUN_AVG_LENGTH,
  SET_MIN_TEMP, SET_MAX_TEMP

ASSUME RunningAverageAssumption ==
  /\ SensorMap \in Seq(Id)
  /\ Temperature \subseteq Int
  /\ RUN_AVG_LENGTH \in Nat \ {0}
  /\ SET_MIN_TEMP \in Int /\ SET_MAX_TEMP \in Int
  /\ SET_MIN_TEMP <= SET_MAX_TEMP

VARIABLES
  sensors,            \* the list of sensors: id, datamgr_avg and running_avg
  logged,             \* what the last measurement made DATAMGR log
  readings,           \* by sensor, the last RUN_AVG_LENGTH temperatures
  latest              \* the sensor the last measurement belonged to

vars == <<sensors, logged, readings, latest>>

Missing == 0          \* what stands for no temperature in datamgr_avg
NotFound == -1

(* room_sensor.map, parsed: no temperature yet, and no average; 0 stands for *)
(* what malloc left in running_avg, which is not read before it is written. *)
Init ==
  /\ sensors = [k \in 1 .. Len(SensorMap) |->
                  [sensor_id |-> SensorMap[k],
                   datamgr_avg |-> [j \in 1 .. RUN_AVG_LENGTH |-> Missing],
                   sum |-> 0, counter |-> RUN_AVG_LENGTH]]
  /\ logged = {}
  /\ readings = [k \in 1 .. Len(SensorMap) |-> << >>]
  /\ latest = NotFound

(* The first sensor of the list with this id.                               *)
get_index_of_sensor_id(id) ==
  LET found == {k \in 1 .. Len(sensors) : sensors[k].sensor_id = id}
  IN  IF found = {} THEN NotFound ELSE CHOOSE k \in found : \A j \in found : k <= j

(* Mutant: the newest temperature is not counted of itself. *)
CounterWithNewest(window) ==
  RUN_AVG_LENGTH - Cardinality({k \in 1 .. RUN_AVG_LENGTH : window[k] = Missing})

(* Mutant: the newest one is left out of the count. *)
CounterOfOlder(window) ==
  RUN_AVG_LENGTH - 1
    - Cardinality({k \in 1 .. RUN_AVG_LENGTH - 1 : window[k] = Missing})

(* The places of the window that count: all but those of the older ones     *)
(* that hold 0, be it for a temperature of 0 or for none.                   *)
Counter(window) ==
  RUN_AVG_LENGTH
    - Cardinality({k \in 1 .. RUN_AVG_LENGTH - 1 : window[k] = Missing})

(* Mutant: the sum is compared. *)
ReportSum(sum, counter) ==
  {r \in {"too_hot", "too_cold"} :
     IF r = "too_hot" THEN sum > SET_MAX_TEMP ELSE sum < SET_MIN_TEMP}

(* What the average, sum / counter, makes DATAMGR log.                      *)
Report(sum, counter) ==
  {r \in {"too_hot", "too_cold"} :
     IF r = "too_hot" THEN sum > SET_MAX_TEMP * counter
                      ELSE sum < SET_MIN_TEMP * counter}

Sum(window) == FoldLeft(LAMBDA a, b : a + b, 0, window)

add_new_temp(k, temp) ==
  LET window == Append(Tail(sensors[k].datamgr_avg), temp)
  IN  /\ sensors' = [sensors EXCEPT ![k].datamgr_avg = window,
                                    ![k].sum = Sum(window),
                                    ![k].counter = Counter(window)]
      /\ logged' = Report(Sum(window), Counter(window))

(* One measurement that sbuffer_read returned.                              *)
Measurement(id, temp) ==
  LET k == get_index_of_sensor_id(id)
  IN  /\ latest' = k
      /\ IF k # NotFound
         THEN /\ add_new_temp(k, temp)
              /\ readings' = [readings EXCEPT ![k] =
                   IF Len(@) < RUN_AVG_LENGTH THEN Append(@, temp)
                                              ELSE Append(Tail(@), temp)]
         ELSE /\ logged' = {"invalid"}
              /\ UNCHANGED <<sensors, readings>>

Next == \E id \in Id, temp \in Temperature : Measurement(id, temp)

Spec == Init /\ [][Next]_vars

-----------------------------------------------------------------------------
(* Every variable holds a value of its type; in particular the average is   *)
(* never a division by zero.                                                *)
TypeOK ==
  /\ sensors \in [1 .. Len(SensorMap) ->
       [sensor_id : Id, sum : Int, counter : 1 .. RUN_AVG_LENGTH,
        datamgr_avg : [1 .. RUN_AVG_LENGTH -> Temperature \cup {Missing}]]]
  /\ logged \subseteq {"too_hot", "too_cold", "invalid"}
  /\ \A k \in DOMAIN readings : readings[k] \in Seq(Temperature)
  /\ latest \in DOMAIN sensors \cup {NotFound}

(* As long as none of the older temperatures is 0, the average is the mean  *)
(* of the last RUN_AVG_LENGTH temperatures of the sensor, or of all of them *)
(* if there are fewer.                                                      *)
MeanUnlessZero ==
  \A k \in DOMAIN sensors :
    readings[k] # << >> /\ (\A j \in 1 .. Len(readings[k]) - 1 : readings[k][j] # 0)
      => /\ sensors[k].counter = Len(readings[k])
         /\ sensors[k].sum = Sum(readings[k])

(* Zeros or not, the average lies between the last temperatures of the      *)
(* sensor; a report of too hot or too cold has a cause among them, and if   *)
(* all of them are, there is a report.                                      *)
AverageIsJustified ==
  latest # NotFound =>
    LET n == sensors[latest].counter
        recent == {readings[latest][j] : j \in 1 .. Len(readings[latest])}
    IN  /\ \E t \in recent : t * n <= sensors[latest].sum
        /\ \E t \in recent : t * n >= sensors[latest].sum
        /\ "too_hot" \in logged => \E t \in recent : t > SET_MAX_TEMP
        /\ "too_cold" \in logged => \E t \in recent : t < SET_MIN_TEMP
        /\ (\A t \in recent : t > SET_MAX_TEMP) => "too_hot" \in logged
        /\ (\A t \in recent : t < SET_MIN_TEMP) => "too_cold" \in logged
==============================================================================
