-------------------------- MODULE MCRunningAverage --------------------------
(* RunningAverage for TLC: two sensors, one of them twice in the map, and   *)
(* measurements of a third that the map does not know.                      *)
EXTENDS RunningAverage

MCSensorMap == <<"s1", "s2", "s1">>
MCId == {"s1", "s2", "s3"}
MCTemperature == {-20, 0, 20, 40}
==============================================================================
