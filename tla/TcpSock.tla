------------------------------- MODULE TcpSock -------------------------------
(***************************************************************************)
(* lib/tcpsock.c: the sockets a process opens through the library, and the *)
(* descriptors the kernel keeps for it.                                    *)
(*                                                                         *)
(* A handle is a tcpsock_t* of the caller, NULL when an open begins, as in *)
(* connmgr.c:39 and 157; a call sets it only when it succeeds.  A call is  *)
(* one step: the callers are single threads.                               *)
(***************************************************************************)
EXTENDS Integers, FiniteSets, Functions

CONSTANTS
  Handle,             \* the caller's pointers
  Descriptors,        \* how many descriptors the process may have open
  MAX_PENDING,        \* how many connections may wait for accept
  Port                \* the ports asked for, inside and outside of the range

ASSUME TcpSockAssumption ==
  /\ IsFiniteSet(Handle)
  /\ Descriptors \in Nat \ {0}
  /\ MAX_PENDING \in Nat \ {0}
  /\ Port \subseteq Int

MIN_PORT == 1024
MAX_PORT == 65536
htons(port) == port % 65536
Any == 0              \* asks the kernel for a port, or says that it chose one

Descriptor == 0 .. Descriptors - 1
NULL == [cookie |-> FALSE]
Bound(sd, ip, port) == [cookie |-> TRUE, sd |-> sd, ip_addr |-> ip, port |-> port]

VARIABLES
  handle,             \* handle[h]: NULL or the struct it points to
  kernel,             \* by descriptor: "free", "fresh" (not listening and
                      \* not connected), "listening", "connected" or "reset"
  bound,              \* by descriptor, the port bind gave it
  pending,            \* by descriptor, the connections that wait for accept
  blocks,             \* how many blocks of memory the library has allocated
  result              \* what the last call returned

vars == <<handle, kernel, bound, pending, blocks, result>>

Init ==
  /\ handle = [h \in Handle |-> NULL]
  /\ kernel = [sd \in Descriptor |-> "free"]
  /\ bound = [sd \in Descriptor |-> Any]
  /\ pending = [sd \in Descriptor |-> 0]
  /\ blocks = 0
  /\ result = "TCP_NO_ERROR"

Free == {sd \in Descriptor : kernel[sd] = "free"}
Lowest == CHOOSE sd \in Free : \A other \in Free : sd <= other

(* Of the struct and the address, if there is one.                          *)
Blocks(s) == IF s.ip_addr THEN 2 ELSE 1

(* The call fails before it has a descriptor, or gives its struct back with *)
(* the descriptor still open, in the state it was brought to.               *)
Fails(error) == result' = error /\ UNCHANGED <<handle, kernel, bound, blocks>>
FailsOpen(error, state, port) ==
  /\ Free # {}
  /\ kernel' = [kernel EXCEPT ![Lowest] = state]
  /\ bound' = [bound EXCEPT ![Lowest] = htons(port)]
  /\ result' = error
  /\ UNCHANGED <<handle, blocks>>

Succeeds(h, state, ip, port) ==
  /\ Free # {}
  /\ kernel' = [kernel EXCEPT ![Lowest] = state]
  /\ bound' = [bound EXCEPT ![Lowest] = htons(port)]
  /\ handle' = [handle EXCEPT ![h] = Bound(Lowest, ip, port)]
  /\ blocks' = blocks + Blocks(Bound(Lowest, ip, port))
  /\ result' = "TCP_NO_ERROR"

InRange(port) == port >= MIN_PORT /\ port <= MAX_PORT

(* bind fails if another descriptor has the port, lost or not.              *)
Bindable(port) == htons(port) = Any \/ \A sd \in Descriptor : bound[sd] # htons(port)

tcp_passive_open(h, port) ==
  /\ handle[h] = NULL
  /\ \/ ~InRange(port) /\ Fails("TCP_ADDRESS_ERROR")
     \/ /\ InRange(port)
        /\ \/ Fails("TCP_MEMORY_ERROR")                      \* tcp_sock_create
           \/ Fails("TCP_SOCKOP_ERROR")                      \* socket
           \/ FailsOpen("TCP_SOCKOP_ERROR", "fresh", Any)    \* bind
           \/ /\ Bindable(port)
              /\ \/ FailsOpen("TCP_SOCKOP_ERROR", "fresh", port)  \* listen
                 \/ Succeeds(h, "listening", FALSE, port)
  /\ UNCHANGED pending

(* Of the ports, only that of a listening socket is followed.               *)
tcp_active_open(h) ==
  /\ handle[h] = NULL
  /\ \/ Fails("TCP_ADDRESS_ERROR")                       \* port, remote_ip
     \/ Fails("TCP_MEMORY_ERROR")                        \* tcp_sock_create
     \/ Fails("TCP_SOCKOP_ERROR")                        \* socket
     \/ FailsOpen("TCP_ADDRESS_ERROR", "fresh", Any)     \* inet_aton
     \/ FailsOpen("TCP_SOCKOP_ERROR", "fresh", Any)      \* connect
     \/ FailsOpen("TCP_SOCKOP_ERROR", "connected", Any)  \* getsockname
     \/ FailsOpen("TCP_MEMORY_ERROR", "connected", Any)  \* malloc, address
     \/ Succeeds(h, "connected", TRUE, Any)
  /\ UNCHANGED pending

(* accept waits for a connection, or fails - at once if no descriptor is    *)
(* left.                                                                    *)
tcp_wait_for_connection(server, h) ==
  /\ handle[h] = NULL /\ server # h
  /\ \/ /\ handle[server] = NULL
        /\ Fails("TCP_SOCKET_ERROR")
        /\ UNCHANGED pending
     \/ /\ handle[server] # NULL /\ kernel[handle[server].sd] = "listening"
        /\ \/ /\ Fails("TCP_MEMORY_ERROR") \/ Fails("TCP_SOCKOP_ERROR")
              /\ UNCHANGED pending
           \/ /\ pending[handle[server].sd] > 0
              /\ pending' = [pending EXCEPT ![handle[server].sd] = @ - 1]
              /\ \/ FailsOpen("TCP_MEMORY_ERROR", "connected", Any)
                 \/ Succeeds(h, "connected", TRUE, Any)

(* Mutant: the pointer is left as it is. *)
Invalidated(h) == handle

(* Mutant: the struct is invalidated and freed, the pointer kept. *)
OnlyCookieCleared(h) == [handle EXCEPT ![h].cookie = FALSE]

ForgetHandle(h) == [handle EXCEPT ![h] = NULL]

(* Mutant: shutdown alone. *)
ShutdownOnly(sd) == UNCHANGED <<kernel, bound, pending>>

(* shutdown fails on a connection that has been reset, and then close is    *)
(* not called.                                                              *)
ShutdownAndClose(sd) ==
  IF kernel[sd] = "reset"
  THEN UNCHANGED <<kernel, bound, pending>>
  ELSE /\ kernel' = [kernel EXCEPT ![sd] = "free"]
       /\ bound' = [bound EXCEPT ![sd] = Any]
       /\ pending' = [pending EXCEPT ![sd] = 0]

tcp_close(h) ==
  IF handle[h] = NULL
  THEN Fails("TCP_SOCKET_ERROR") /\ UNCHANGED pending
  ELSE /\ ShutdownAndClose(handle[h].sd)
       /\ blocks' = blocks - Blocks(handle[h])
       /\ handle' = ForgetHandle(h)
       /\ result' = "TCP_NO_ERROR"

-----------------------------------------------------------------------------
(* What the other side does to a descriptor.                               *)
PeerConnects(sd) ==
  /\ kernel[sd] = "listening" /\ pending[sd] < MAX_PENDING
  /\ pending' = [pending EXCEPT ![sd] = @ + 1]
  /\ UNCHANGED <<handle, kernel, bound, blocks, result>>

PeerResets(sd) ==
  /\ kernel[sd] = "connected"
  /\ kernel' = [kernel EXCEPT ![sd] = "reset"]
  /\ UNCHANGED <<handle, bound, pending, blocks, result>>

Next ==
  \/ \E h \in Handle : \/ \E port \in Port : tcp_passive_open(h, port)
                       \/ tcp_active_open(h)
                       \/ tcp_close(h)
  \/ \E server, h \in Handle : tcp_wait_for_connection(server, h)
  \/ \E sd \in Descriptor : PeerConnects(sd) \/ PeerResets(sd)

Spec == Init /\ [][Next]_vars

-----------------------------------------------------------------------------
Open == {h \in Handle : handle[h] # NULL}
Orphans == {sd \in Descriptor \ Free : \A h \in Open : handle[h].sd # sd}

Struct == [cookie : {TRUE}, sd : Descriptor, ip_addr : BOOLEAN,
           port : Port \cup {Any}]

(* Every variable holds a value of its type; a descriptor that is free has  *)
(* nobody waiting at it.                                                    *)
TypeOK ==
  /\ handle \in [Handle -> {NULL} \cup Struct]
  /\ bound \in [Descriptor -> Nat] /\ \A sd \in Descriptor : bound[sd] < 65536
  /\ kernel \in [Descriptor -> {"free", "fresh", "listening", "connected", "reset"}]
  /\ pending \in [Descriptor -> 0 .. MAX_PENDING]
  /\ \A sd \in Descriptor : pending[sd] > 0 => kernel[sd] = "listening"
  /\ blocks \in 0 .. 2 * Cardinality(Handle)
  /\ result \in {"TCP_NO_ERROR", "TCP_ADDRESS_ERROR", "TCP_SOCKET_ERROR",
                 "TCP_SOCKOP_ERROR", "TCP_MEMORY_ERROR"}

(* Descriptors are reused at once, and connmgr closes every connection twice *)
(* (connmgr.c:149 and conn_free): still every socket has a descriptor of its *)
(* own, open, and brought to the state the socket was opened for; and memory *)
(* is held for the sockets and nothing else, whichever call failed.          *)
SocketsOwn ==
  /\ IsInjective([h \in Open |-> handle[h].sd])
  /\ \A h \in Open :
       kernel[handle[h].sd] \in
         IF handle[h].ip_addr THEN {"connected", "reset"} ELSE {"listening"}
  /\ blocks = Cardinality(Open) + Cardinality({h \in Open : handle[h].ip_addr})

(* A descriptor is lost only by a call that reports an error or by closing  *)
(* a connection that was reset, one at a time; what is lost stays lost.     *)
(* The second case reports TCP_NO_ERROR, against ClosedMeansFreed below.    *)
LeaksOnlyOnFailure ==
  [][ /\ Orphans \subseteq Orphans'
      /\ \A sd \in Orphans' \ Orphans :
           \/ result' # "TCP_NO_ERROR" /\ sd \in Free
           \/ \E h \in Open : handle[h].sd = sd /\ kernel[sd] = "reset" ]_vars

-----------------------------------------------------------------------------
(* A claim of the header that the code does not keep.                      *)

(* "The socket '*socket' is closed , allocated resources are freed and      *)
(* '*socket' is set to NULL" (tcpsock.h:64): when tcp_close returns without *)
(* an error, the descriptor of the socket is free again.                    *)
ClosedMeansFreed ==
  [][ \A h \in Open :
        h \notin Open' /\ result' = "TCP_NO_ERROR" => handle[h].sd \in Free' ]_vars
==============================================================================
