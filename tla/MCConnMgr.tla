------------------------------ MODULE MCConnMgr ------------------------------
(* ConnMgr for TLC.  The sensors are model values and interchangeable.     *)
EXTENDS ConnMgrProperties

Interchangeable == Permutations(Sensor)

(* PromptSpec where every receive gets what it asks for: what is cut short  *)
(* matters to the streams, which connmgr_liveness follows, and not to the   *)
(* order of the rounds.                                                     *)
MCPromptSpec == Init /\ [][PromptNext /\ UNCHANGED short]_vars
==============================================================================
