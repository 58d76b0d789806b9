--------------------------- MODULE MeasurementFeed ---------------------------
(***************************************************************************)
(* What the shared buffer is for, with no list in sight: a feed of         *)
(* numbered measurements.  One publisher appends, each reader consumes     *)
(* everything in order at its own pace, and the memory of a measurement is *)
(* reclaimed, oldest first, when every reader is past it.  The promise     *)
(* ends with the publisher: once the feed is closed the readers may stop   *)
(* at any point, what they left is disposed of, and the buffer may break.  *)
(***************************************************************************)
EXTENDS Naturals

CONSTANTS Reader, Limit

VARIABLES
  published,       \* measurements 1 .. published have been appended
  cursor,          \* cursor[r]: reader r has consumed 1 .. cursor[r]
  reclaimed,       \* the memory of 1 .. reclaimed has been given back
  closed,          \* nothing more will be published
  sound            \* FALSE once memory still in use has been given back

feedVars == <<published, cursor, reclaimed, closed, sound>>

Init ==
  /\ published = 0
  /\ cursor = [r \in Reader |-> 0]
  /\ reclaimed = 0
  /\ closed = FALSE
  /\ sound = TRUE

Publish ==
  /\ ~closed
  /\ published < Limit
  /\ published' = published + 1
  /\ UNCHANGED <<cursor, reclaimed, closed, sound>>

Consume(r) ==
  /\ sound
  /\ cursor[r] < published
  /\ cursor' = [cursor EXCEPT ![r] = @ + 1]
  /\ UNCHANGED <<published, reclaimed, closed, sound>>

Reclaim ==
  /\ sound
  /\ \A r \in Reader : reclaimed < cursor[r]
  /\ reclaimed' = reclaimed + 1
  /\ UNCHANGED <<published, cursor, closed, sound>>

Close ==
  /\ ~closed
  /\ closed' = TRUE
  /\ UNCHANGED <<published, cursor, reclaimed, sound>>

Dispose ==
  /\ sound
  /\ closed
  /\ reclaimed' = published
  /\ UNCHANGED <<published, cursor, closed, sound>>

(* Memory in use was given back, and whatever follows from it. *)
Break ==
  /\ closed
  /\ sound' = FALSE
  /\ cursor' \in [Reader -> Nat]
  /\ reclaimed' \in Nat
  /\ UNCHANGED <<published, closed>>

Next ==
  \/ Publish
  \/ \E r \in Reader : Consume(r)
  \/ Reclaim
  \/ Close
  \/ Dispose
  \/ Break

Spec == Init /\ [][Next]_feedVars
==============================================================================
