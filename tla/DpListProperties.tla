--------------------------- MODULE DpListProperties ---------------------------
(***************************************************************************)
(* What the operations of lib/dplist.c do to the list as a sequence, and   *)
(* what becomes of the links between its nodes.                            *)
(***************************************************************************)
EXTENDS DpList, SequencesExt

(* The list as a sequence; index k of the C interface is item k + 1.        *)
items == [k \in 1 .. dpl_size |-> element[At[k - 1]]]

Clamp(index, last) ==
  IF index <= 0 THEN 0 ELSE IF index > last THEN last ELSE index

(* Every variable holds a value of its type, and a list that does not exist *)
(* has no nodes.                                                            *)
TypeOK ==
  /\ list \in BOOLEAN
  /\ head \in live \cup {NULL}
  /\ prev \in [Node -> Node \cup {NULL}]
  /\ next \in [Node -> Node \cup {NULL}]
  /\ element \in [Node -> Element]
  /\ live \subseteq Node
  /\ ~list => live = {}

Intact == crashed = "no" /\ ~Damaged

(* next and prev describe the same list, which holds exactly the nodes that *)
(* have been allocated and not freed.                                       *)
LinksAgree ==
  /\ Intact
  /\ live = {At[k] : k \in 0 .. MaxNodes} \ {NULL}
  /\ \A k \in 0 .. dpl_size - 1 :
       prev[At[k]] = IF k = 0 THEN NULL ELSE At[k - 1]

Prepends == \E e \in Element : InsertAtFront(e, 0)

(* The assignment of dplist.c:170 is the only one that spoils the links: in *)
(* a list whose links agree, every operation but an insertion before the    *)
(* head keeps them in agreement and leaks nothing; none of them follows a   *)
(* prev that is NULL.  The two operations that read past the end of the     *)
(* list by themselves are the ones named.                                   *)
OnlyPrependingSpoils ==
  [][LinksAgree /\ ~Prepends
       => LinksAgree' \/ crashed' \in {"dpl_insert_sorted", "dpl_remove_element"}]_vars

(* However the list is used: a prev that is not the predecessor is the node *)
(* itself or NULL, never another node, so following it cannot lose part of  *)
(* the list without a crash or a circle.                                    *)
PrevNeverElsewhere ==
  Intact =>
    \A k \in 1 .. dpl_size - 1 : prev[At[k]] \in {At[k - 1], At[k], NULL}

(* However the list is used, an insertion that leaves it whole put the      *)
(* element before the one at the index asked for, at the end if the index   *)
(* is too large, and moved nothing else; and a removal that leaves it whole *)
(* took out the element at the index asked for, or the last.                *)
EditsWhereAsked ==
  [][\A index \in Index :
       /\ \A e \in Element :
            dpl_insert_at_index(e, index) /\ Intact'
              => items' = InsertAt(items, Clamp(index, Len(items)) + 1, e)
       /\ dpl_remove_at_index(index) /\ Intact'
            => items' = RemoveAt(items, Clamp(index, Len(items) - 1) + 1)]_vars

(* The ways to look something up tell of the same list: by index, by        *)
(* reference, by element, from the first node to the last and - as long as  *)
(* the links agree - back; what is not in the list is found by none.        *)
LookupsAgree ==
  Usable =>
    LET last == dpl_size - 1
        place(n) == dpl_get_index_of_reference(n)
        found == {n \in Node : place(n) # -1}
    IN
    /\ dpl_get_first_reference = dpl_get_reference_at_index(-1)
    /\ dpl_get_last_reference = dpl_get_reference_at_index(MaxNodes)
    /\ Cardinality(found) = dpl_size
    /\ \A k \in 0 .. MaxNodes :
         LET n == dpl_get_reference_at_index(k)
         IN  /\ dpl_get_element_at_index(k) = dpl_get_element_at_reference(n)
             /\ dpl_size > 0 => place(n) = Clamp(k, last)
    /\ \A n \in Node :
         LET after == dpl_get_next_reference(n)
         IN  IF n \in found /\ place(n) < last
             THEN /\ place(after) = place(n) + 1
                  /\ LinksAgree => dpl_get_previous_reference(after) = n
             ELSE after = NULL
    /\ \A e \in Element :
         LET n == dpl_get_reference_of_element(e)
         IN  /\ place(n) = dpl_get_index_of_element(e)
             /\ n # NULL => dpl_get_element_at_reference(n) = e
             /\ \A k \in 0 .. last : items[k + 1] = e => place(n) \in 0 .. k

Sorted == \A j, k \in 1 .. Len(items) : j < k => items[j] <= items[k]

NewMaximum(e) == items # << >> /\ \A k \in 1 .. Len(items) : items[k] < e

(* What dplist.h:196-205 promises of an insertion into a sorted list, and   *)
(* where the code goes back on it.  An element larger than all that are     *)
(* there is never inserted: the walk to its place reads past the end        *)
(* (dplist.c:634).  Any other goes in once, the list stays sorted with its  *)
(* old members in their order, and while the links agree this succeeds.     *)
SortedStaysSorted ==
  [][\A e \in Element :
       dpl_insert_sorted(e) /\ Sorted =>
         IF NewMaximum(e)
         THEN crashed' = "dpl_insert_sorted"
         ELSE /\ LinksAgree => Intact'
              /\ Intact' => /\ Sorted'
                           /\ \E place \in 1 .. Len(items) + 1 :
                                items' = InsertAt(items, place, e)]_vars
==============================================================================
