------------------------------- MODULE SBuffer -------------------------------
(***************************************************************************)
(* The shared buffer of sbuffer.c: a singly linked list of measurements,   *)
(* appended to by the connection manager and read by two managers, each of *)
(* which has its own has_seen flag in every node.                          *)
(*                                                                         *)
(* Node k is the k-th node ever allocated and carries the k-th measurement *)
(* inserted, so a node stands for its data as well.  A call of             *)
(* sbuffer_read holds the write lock from sbuffer_read to its return and   *)
(* takes one step per half iteration of its loop; insertion, getinfo and   *)
(* sbuffer_free are one step each, because the lock (or, for sbuffer_free, *)
(* the joins before it) excludes every other access meanwhile.             *)
(***************************************************************************)
EXTENDS Naturals, Sequences

CONSTANT MaxData      \* how many measurements the sensors deliver in one run

ASSUME MaxDataAssumption == MaxData \in Nat

Managers == {"DATAMGR", "SQLMGR"}
Node == 1 .. MaxData
Null == 0
NoOne == "none"

VARIABLES
  head, tail,         \* the two pointers of struct sbuffer
  next,               \* next[n]: the successor pointer of node n
  seen,               \* seen[n]: the managers whose has_seen flag is set in n
  allocated,          \* number of nodes malloc has returned so far
  freed,              \* nodes handed back to free()
  reader,             \* the manager inside sbuffer_read (write lock), or NoOne
  cur,                \* current_node of that call
  retired,            \* the node at cur replaced one removed in this iteration
  arg,                \* arg[m]: the argument terminated_by_CONNMGR of m's call
  delivered,          \* delivered[m]: everything copied out to m, in order
  memory              \* "sound" until a freed node is accessed

bufferVars == <<head, tail, next, seen, allocated, freed, reader, cur, retired,
                arg, delivered, memory>>
listVars == <<head, tail, next, seen, allocated, freed>>
callVars == <<reader, cur, retired>>

(* The chain from head to tail: nodes are appended in allocation order and  *)
(* unlinked at the head only, so it is an interval (proved: ListInv of    *)
(* Gateway_proofs).                                                         *)
Linked == IF head = Null THEN {} ELSE {n \in Node : head <= n /\ n <= tail}

sbuffer_init ==
  /\ head = Null
  /\ tail = Null
  /\ next = [n \in Node |-> Null]
  /\ seen = [n \in Node |-> {}]
  /\ allocated = 0
  /\ freed = {}
  /\ reader = NoOne
  /\ cur = Null
  /\ retired = FALSE
  /\ arg = [m \in Managers |-> FALSE]
  /\ delivered = [m \in Managers |-> << >>]
  /\ memory = "sound"

sbuffer_insert ==
  LET dummy == allocated + 1 IN
  /\ reader = NoOne
  /\ allocated < MaxData
  /\ allocated' = dummy
  /\ head' = IF tail = Null THEN dummy ELSE head
  /\ tail' = dummy
  /\ next' = [n \in Node |-> IF n = dummy THEN Null
                             ELSE IF n = tail THEN dummy ELSE next[n]]
  /\ seen' = [seen EXCEPT ![dummy] = {}]
  /\ UNCHANGED <<freed, reader, cur, retired, arg, delivered, memory>>

(* Mutant: only the first node is looked at. *)
HasNewDataAtHead(m) == head # Null /\ m \notin seen[head]

(* getinfo(buffer, m) == SBUFFER_SUCCESS, on a list no node of which is freed. *)
HasNewData(m) == \E n \in Linked : m \notin seen[n]

(* getinfo walks the list under the read lock.  Its answer goes to the      *)
(* caller's while condition.  A freed node holds garbage: any answer, or a  *)
(* walk through a wild next pointer.                                        *)
getinfo(m, success) ==
  /\ reader = NoOne
  /\ IF Linked \cap freed = {}
     THEN /\ success = HasNewData(m)
          /\ memory' = memory
     ELSE /\ success \in BOOLEAN
          /\ memory' \in {"corrupt", "aborted"}
  /\ UNCHANGED <<listVars, callVars, arg, delivered>>

(* The flag is evaluated before the call, hence before the lock is taken.   *)
sbuffer_read_argument(m, terminated) ==
  /\ arg' = [arg EXCEPT ![m] = terminated]
  /\ UNCHANGED <<listVars, callVars, delivered, memory>>

(* Release the write lock and drop the frame.  SBUFFER_SUCCESS is a return  *)
(* that has delivered; the other codes mean the same to both callers.       *)
Return(m) ==
  /\ reader' = NoOne
  /\ cur' = Null
  /\ retired' = FALSE
  /\ arg' = [arg EXCEPT ![m] = FALSE]

(* Mutant: the walk starts at the wrong end. *)
ReadFromTail(m) ==
  /\ reader = NoOne
  /\ IF head = Null
     THEN Return(m)
     ELSE /\ reader' = m
          /\ cur' = tail
          /\ retired' = FALSE
          /\ UNCHANGED arg
  /\ UNCHANGED <<listVars, delivered, memory>>

(* Entry of sbuffer_read: take the write lock, return if there is no node.  *)
sbuffer_read(m) ==
  /\ reader = NoOne
  /\ IF head = Null
     THEN Return(m)
     ELSE /\ reader' = m
          /\ cur' = head
          /\ retired' = FALSE
          /\ UNCHANGED arg
  /\ UNCHANGED <<listVars, delivered, memory>>

(* Mutant: the node both have seen is unlinked and not freed. *)
RetireWithoutFree(m) ==
  /\ reader = m
  /\ ~retired
  /\ seen[cur] = Managers
  /\ head' = IF head = tail THEN Null ELSE next[head]
  /\ tail' = IF head = tail THEN Null ELSE tail
  /\ IF arg[m]
     THEN Return(m)
     ELSE /\ cur' = IF head = tail THEN cur ELSE next[head]
          /\ retired' = TRUE
          /\ UNCHANGED <<reader, arg>>
  /\ UNCHANGED <<next, seen, allocated, freed, delivered, memory>>

(* Mutant: current_node is not moved off the node that was freed. *)
RetireWithoutMoving(m) ==
  /\ reader = m
  /\ cur \notin freed
  /\ ~retired
  /\ seen[cur] = Managers
  /\ head # tail
  /\ head' = next[head]
  /\ freed' = freed \cup {cur}
  /\ retired' = TRUE
  /\ UNCHANGED <<tail, next, seen, allocated, reader, cur, arg, delivered, memory>>

(* Mutant: a node is retired as soon as one manager has seen it. *)
RetireAfterOne(m) ==
  /\ reader = m
  /\ cur \notin freed
  /\ ~retired
  /\ seen[cur] # {}
  /\ head # tail
  /\ head' = next[head]
  /\ freed' = freed \cup {cur}
  /\ cur' = next[head]
  /\ retired' = TRUE
  /\ UNCHANGED <<tail, next, seen, allocated, reader, arg, delivered, memory>>

(* First half of an iteration, on a node both managers have seen: unlink    *)
(* the head (not current_node), free current_node unless it was the only    *)
(* node, and move to the new head.  During shutdown current_node - by then  *)
(* the new head, or the only node - is freed once more and the call         *)
(* returns.                                                                 *)
ReadRetires(m) ==
  LET last == head = tail
      now == IF last THEN cur ELSE next[head]     \* current_node afterwards
  IN
  /\ reader = m
  /\ cur \notin freed
  /\ ~retired
  /\ seen[cur] = Managers
  /\ head' = IF last THEN Null ELSE next[head]
  /\ tail' = IF last THEN Null ELSE tail
  /\ freed' = freed \cup (IF last THEN {} ELSE {cur})
                    \cup (IF arg[m] THEN {now} ELSE {})
  /\ IF arg[m]
     THEN Return(m)
     ELSE /\ cur' = now
          /\ retired' = TRUE
          /\ UNCHANGED <<reader, arg>>
  /\ UNCHANGED <<next, seen, allocated, delivered, memory>>

(* Mutant: the data is copied and the flag forgotten. *)
TakeWithoutFlag(m) ==
  /\ reader = m
  /\ cur \notin freed
  /\ m \notin seen[cur]
  /\ delivered' = [delivered EXCEPT ![m] = Append(@, cur)]
  /\ Return(m)
  /\ UNCHANGED <<listVars, memory>>

(* Second half, on a node m has not seen: set m's flag and copy the data.   *)
ReadTakes(m) ==
  /\ reader = m
  /\ cur \notin freed
  /\ retired \/ seen[cur] # Managers
  /\ m \notin seen[cur]
  /\ seen' = [seen EXCEPT ![cur] = @ \cup {m}]
  /\ delivered' = [delivered EXCEPT ![m] = Append(@, cur)]
  /\ Return(m)
  /\ UNCHANGED <<head, tail, next, allocated, freed, memory>>

(* Mutant: the call gives up at the first node it has seen before. *)
GiveUpAtSeenNode(m) ==
  /\ reader = m
  /\ retired \/ seen[cur] # Managers
  /\ m \in seen[cur]
  /\ Return(m)
  /\ UNCHANGED <<listVars, delivered, memory>>

(* Second half, on a node m has seen: follow next, return at the end.       *)
ReadAdvances(m) ==
  /\ reader = m
  /\ cur \notin freed
  /\ retired \/ seen[cur] # Managers
  /\ m \in seen[cur]
  /\ IF next[cur] = Null
     THEN Return(m)
     ELSE /\ cur' = next[cur]
          /\ retired' = FALSE
          /\ UNCHANGED <<reader, arg>>
  /\ UNCHANGED <<listVars, delivered, memory>>

(* current_node was freed: its flags and next are the allocator's bytes.    *)
(* The process dies on the wild pointer or on the allocator's double free   *)
(* check, or the call returns as if the node had been seen, or it copies    *)
(* the node's data once more (Null: the bytes have been reused).            *)
ReadTouchesFreed(m) ==
  /\ reader = m
  /\ cur \in freed
  /\ \/ /\ memory' = "aborted"
        /\ UNCHANGED <<callVars, arg, delivered>>
     \/ /\ memory' = "corrupt"
        /\ Return(m)
        /\ UNCHANGED delivered
     \/ \E d \in {cur, Null} :
          /\ memory' = "corrupt"
          /\ delivered' = [delivered EXCEPT ![m] = Append(@, d)]
          /\ Return(m)
  /\ UNCHANGED listVars

sbuffer_read_loop(m) ==
  \/ ReadRetires(m)
  \/ ReadTakes(m)
  \/ ReadAdvances(m)
  \/ ReadTouchesFreed(m)

(* sbuffer_free walks the list and frees every node of it.                  *)
sbuffer_free ==
  /\ head' = Null
  /\ freed' = freed \cup Linked
  /\ IF Linked \cap freed = {}
     THEN memory' = memory
     ELSE memory' \in {"corrupt", "aborted"}
  /\ UNCHANGED <<tail, next, seen, allocated, callVars, arg, delivered>>
==============================================================================
