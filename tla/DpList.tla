------------------------------- MODULE DpList -------------------------------
(***************************************************************************)
(* The doubly linked list of lib/dplist.c, pointer by pointer.             *)
(*                                                                         *)
(* Each operation is one step: the list has one owner.  A dereference of   *)
(* NULL ends the program and is recorded in crashed.  The operations walk  *)
(* forward along next; prev is read where a node is inserted before        *)
(* another or taken out.  When a walk can no longer be trusted - a circle, *)
(* or a node that was freed - nothing more is modelled.                    *)
(***************************************************************************)
EXTENDS Integers, Sequences, FiniteSets

CONSTANTS
  MaxNodes,           \* nodes the allocator has to give
  Element             \* what is stored: integers, compared as such, not NULL

ASSUME DpListAssumption ==
  MaxNodes \in Nat \ {0} /\ Element \subseteq Int \ {0} /\ Element # {}

Node == 1 .. MaxNodes
NULL == 0
Index == -1 .. MaxNodes

VARIABLES
  list,               \* whether the list exists
  head,
  prev, next, element,        \* the fields of every node
  live,               \* nodes malloc has returned and free has not got back
  crashed             \* the operation that dereferenced NULL, or "no"

Blank == CHOOSE e \in Element : TRUE
fields == <<prev, next, element>>
vars == <<list, head, fields, live, crashed>>

(* At[k]: the node k steps of next away from the head.                      *)
At[k \in 0 .. MaxNodes] ==
  IF k = 0 THEN head
  ELSE LET n == At[k - 1] IN IF n = NULL THEN NULL ELSE next[n]

Damaged ==
  \/ At[MaxNodes] # NULL
  \/ \E k \in 0 .. MaxNodes - 1 : At[k] \notin live \cup {NULL}

Init ==
  /\ list = FALSE
  /\ head = NULL
  /\ prev = [n \in Node |-> NULL]
  /\ next = [n \in Node |-> NULL]
  /\ element = [n \in Node |-> Blank]
  /\ live = {}
  /\ crashed = "no"

Usable == list /\ ~Damaged /\ crashed = "no"

(* Nothing is read of a freed node, so what free leaves there is not kept.  *)
Free(nodes, prevs, nexts) ==
  /\ live' = live \ nodes
  /\ prev' = [n \in Node |-> IF n \in nodes THEN NULL ELSE prevs[n]]
  /\ next' = [n \in Node |-> IF n \in nodes THEN NULL ELSE nexts[n]]
  /\ element' = [n \in Node |-> IF n \in nodes THEN Blank ELSE element[n]]

Crash(operation) ==
  /\ crashed' = operation
  /\ UNCHANGED <<list, head, fields, live>>

dpl_create ==
  /\ ~list
  /\ list' = TRUE
  /\ UNCHANGED <<head, fields, live, crashed>>

(* Mutant: the caller's pointer to the first node survives. *)
dpl_free_keeps_head ==
  /\ Usable
  /\ list' = FALSE
  /\ Free({At[k] : k \in 0 .. MaxNodes}, prev, next)
  /\ UNCHANGED <<head, crashed>>

dpl_free ==
  /\ Usable
  /\ list' = FALSE
  /\ head' = NULL
  /\ Free({At[k] : k \in 0 .. MaxNodes}, prev, next)
  /\ UNCHANGED crashed

-----------------------------------------------------------------------------
(* Look-ups                                                                *)

dpl_size == Cardinality({k \in 0 .. MaxNodes : At[k] # NULL})

dpl_get_reference_at_index(index) ==
  IF head = NULL THEN NULL
  ELSE IF index <= 0 THEN head
  ELSE IF index < dpl_size THEN At[index] ELSE At[dpl_size - 1]

dpl_get_index_of_reference(reference) ==
  IF \E k \in 0 .. MaxNodes : At[k] = reference /\ reference # NULL
  THEN CHOOSE k \in 0 .. MaxNodes : At[k] = reference
  ELSE -1

(* Mutant: the walk goes one node too far. *)
ElementOnePast(index) ==
  IF head = NULL THEN NULL
  ELSE IF index <= 0 THEN element[head]
  ELSE element[At[IF index + 1 < dpl_size THEN index + 1 ELSE dpl_size - 1]]

dpl_get_element_at_index(index) ==
  IF head = NULL THEN NULL
  ELSE IF index <= 0 THEN element[head]
  ELSE element[At[IF index < dpl_size THEN index ELSE dpl_size - 1]]

(* The walks compare every node with the reference: one that is not in the  *)
(* list, or freed, is never followed.                                       *)
InList(reference) == dpl_get_index_of_reference(reference) # -1

dpl_get_element_at_reference(reference) ==
  IF InList(reference) THEN element[reference] ELSE NULL

dpl_get_first_reference == head

dpl_get_last_reference ==
  IF head = NULL THEN NULL ELSE dpl_get_reference_at_index(dpl_size - 1)

dpl_get_next_reference(reference) ==
  IF InList(reference) THEN next[reference] ELSE NULL

(* NULL before the head, whatever its prev.                                 *)
dpl_get_previous_reference(reference) ==
  IF InList(reference) /\ reference # head THEN prev[reference] ELSE NULL

Holders(e) == {k \in 0 .. dpl_size - 1 : element[At[k]] = e}

dpl_get_index_of_element(e) ==
  IF Holders(e) = {} THEN -1
  ELSE CHOOSE k \in Holders(e) : \A j \in Holders(e) : k <= j

dpl_get_reference_of_element(e) ==
  IF Holders(e) = {} THEN NULL ELSE At[dpl_get_index_of_element(e)]

-----------------------------------------------------------------------------
(* Insertion                                                               *)

Fresh == CHOOSE n \in Node \ live : TRUE

Allocate(e) ==
  /\ live # Node
  /\ live' = live \cup {Fresh}
  /\ element' = [element EXCEPT ![Fresh] = e]

InsertFirst(e) ==
  /\ head = NULL
  /\ Allocate(e)
  /\ head' = Fresh
  /\ prev' = [prev EXCEPT ![Fresh] = NULL]
  /\ next' = [next EXCEPT ![Fresh] = NULL]
  /\ UNCHANGED <<list, crashed>>

(* list->head is the new node by the time its prev is assigned.             *)
InsertAtFront(e, index) ==
  /\ head # NULL
  /\ index <= 0
  /\ Allocate(e)
  /\ head' = Fresh
  /\ prev' = [prev EXCEPT ![Fresh] = Fresh]
  /\ next' = [next EXCEPT ![Fresh] = head]
  /\ UNCHANGED <<list, crashed>>

(* Mutant: the successor keeps its old prev. *)
InsertWithoutPrev(e, index) ==
  LET after == dpl_get_reference_at_index(index)
      before == prev[after]
  IN
  /\ head # NULL
  /\ index > 0 /\ index < dpl_size
  /\ Allocate(e)
  /\ prev' = [prev EXCEPT ![Fresh] = before]
  /\ next' = [next EXCEPT ![before] = Fresh, ![Fresh] = after]
  /\ UNCHANGED <<list, head, crashed>>

InsertBefore(e, index) ==
  LET after == dpl_get_reference_at_index(index)
      before == prev[after]
  IN
  /\ head # NULL
  /\ index > 0 /\ index < dpl_size
  /\ IF before = NULL
     THEN Crash("dpl_insert_at_index")
     ELSE /\ Allocate(e)
          /\ prev' = [prev EXCEPT ![Fresh] = before, ![after] = Fresh]
          /\ next' = [next EXCEPT ![before] = Fresh, ![Fresh] = after]
          /\ UNCHANGED <<list, head, crashed>>

InsertLast(e, index) ==
  LET last == dpl_get_reference_at_index(index) IN
  /\ head # NULL
  /\ index > 0 /\ index >= dpl_size
  /\ Allocate(e)
  /\ prev' = [prev EXCEPT ![Fresh] = last]
  /\ next' = [next EXCEPT ![last] = Fresh, ![Fresh] = NULL]
  /\ UNCHANGED <<list, head, crashed>>

dpl_insert_at_index(e, index) ==
  /\ Usable
  /\ \/ InsertFirst(e)
     \/ InsertAtFront(e, index)
     \/ InsertBefore(e, index)
     \/ InsertLast(e, index)

dpl_insert_at_reference(e, reference) ==
  LET index == dpl_get_index_of_reference(reference) IN
  /\ Usable
  /\ index # -1
  /\ dpl_insert_at_index(e, index)

(* Mutant: the first element is passed over unseen. *)
SortedPlaceLate(e) ==
  1 + CHOOSE k \in 0 .. dpl_size :
        /\ \A j \in 0 .. k - 1 : e > element[At[j]]
        /\ k < dpl_size => e <= element[At[k]]

(* The place of the first element that is not smaller; the walk to it       *)
(* reads the element of NULL if all are.                                    *)
SortedPlace(e) ==
  CHOOSE k \in 0 .. dpl_size :
    /\ \A j \in 0 .. k - 1 : e > element[At[j]]
    /\ k < dpl_size => e <= element[At[k]]

dpl_insert_sorted(e) ==
  /\ Usable
  /\ IF head # NULL /\ SortedPlace(e) = dpl_size
     THEN Crash("dpl_insert_sorted")
     ELSE dpl_insert_at_index(e, SortedPlace(e))

-----------------------------------------------------------------------------
(* Removal                                                                 *)

RemoveOnly ==
  /\ dpl_size = 1
  /\ head' = NULL
  /\ Free({head}, prev, next)
  /\ UNCHANGED <<list, crashed>>

RemoveHead(index) ==
  /\ dpl_size > 1
  /\ index <= 0
  /\ head' = next[head]
  /\ Free({head}, [prev EXCEPT ![next[head]] = NULL], next)
  /\ UNCHANGED <<list, crashed>>

RemoveLast(index) ==
  LET last == At[dpl_size - 1] IN
  /\ dpl_size > 1
  /\ index > 0 /\ index >= dpl_size - 1
  /\ IF prev[last] = NULL
     THEN Crash("dpl_remove_at_index")
     ELSE /\ Free({last}, prev, [next EXCEPT ![prev[last]] = NULL])
          /\ UNCHANGED <<list, head, crashed>>

(* Mutant: the node after the one at index comes out. *)
RemoveNextToMiddle(index) ==
  LET middle == dpl_get_reference_at_index(index + 1) IN
  /\ index > 0 /\ index < dpl_size - 2
  /\ prev[middle] # NULL
  /\ Free({middle}, [prev EXCEPT ![next[middle]] = prev[middle]],
                    [next EXCEPT ![prev[middle]] = next[middle]])
  /\ UNCHANGED <<list, head, crashed>>

RemoveMiddle(index) ==
  LET middle == dpl_get_reference_at_index(index) IN
  /\ index > 0 /\ index < dpl_size - 1
  /\ IF prev[middle] = NULL
     THEN Crash("dpl_remove_at_index")
     ELSE /\ Free({middle}, [prev EXCEPT ![next[middle]] = prev[middle]],
                            [next EXCEPT ![prev[middle]] = next[middle]])
          /\ UNCHANGED <<list, head, crashed>>

(* An empty list is returned as it is. *)
dpl_remove_at_index(index) ==
  /\ Usable
  /\ \/ RemoveOnly
     \/ RemoveHead(index)
     \/ RemoveLast(index)
     \/ RemoveMiddle(index)

dpl_remove_at_reference(reference) ==
  LET index == dpl_get_index_of_reference(reference) IN
  /\ Usable
  /\ index # -1
  /\ dpl_remove_at_index(index)

(* The first comparison reads the element of the head, which may be NULL.   *)
dpl_remove_element(e) ==
  LET index == dpl_get_index_of_element(e) IN
  /\ Usable
  /\ IF head = NULL
     THEN Crash("dpl_remove_element")
     ELSE /\ index # -1
          /\ dpl_remove_at_index(index)

-----------------------------------------------------------------------------
Stopped == (Damaged \/ crashed # "no") /\ UNCHANGED vars

Next ==
  \/ dpl_create
  \/ dpl_free
  \/ \E e \in Element, index \in Index : dpl_insert_at_index(e, index)
  \/ \E e \in Element, r \in Node : dpl_insert_at_reference(e, r)
  \/ \E e \in Element : dpl_insert_sorted(e)
  \/ \E e \in Element : dpl_remove_element(e)
  \/ \E index \in Index : dpl_remove_at_index(index)
  \/ \E r \in Node : dpl_remove_at_reference(r)
  \/ Stopped

Spec == Init /\ [][Next]_vars
==============================================================================
