---------------------------- MODULE TcpSock_proofs ----------------------------
(***************************************************************************)
(* Proofs about lib/tcpsock.c, for any number of sockets and descriptors.  *)
(*                                                                         *)
(* TypeOK and SocketsOwn together are inductive.  A call                    *)
(* does one of three things to the sockets there are: nothing (Quiet),     *)
(* whatever it did to other descriptors; one more, on a descriptor that    *)
(* was free; or one less.                                                  *)
(***************************************************************************)
EXTENDS TcpSock, FiniteSetTheorems, WellFoundedInduction, TLAPS

TInv ==
  /\ TypeOK
  /\ SocketsOwn

WithAddress == {h \in Open : handle[h].ip_addr}

(* What the two structs a handle may stand for look like.                   *)
LEMMA Structs ==
  /\ \A s \in Struct : s # NULL /\ s.sd \in Descriptor /\ s.ip_addr \in BOOLEAN
                       /\ s.port \in Port \cup {Any}
  /\ \A sd \in Descriptor, ip \in BOOLEAN, port \in Port \cup {Any} :
       /\ Bound(sd, ip, port) \in Struct
       /\ Bound(sd, ip, port).sd = sd
       /\ Bound(sd, ip, port).ip_addr = ip
       /\ Bound(sd, ip, port).port = port
  <1>1. ASSUME NEW s \in Struct PROVE s # NULL
    <2>1. s.cookie = TRUE
      BY DEF Struct
    <2>2. NULL.cookie = FALSE
      BY DEF NULL
    <2> QED
      BY <2>1, <2>2
  <1>2. \A s \in Struct : s.sd \in Descriptor /\ s.ip_addr \in BOOLEAN
                         /\ s.port \in Port \cup {Any}
    BY DEF Struct
  <1>3. \A sd \in Descriptor, ip \in BOOLEAN, port \in Port \cup {Any} :
          /\ Bound(sd, ip, port) \in Struct
          /\ Bound(sd, ip, port).sd = sd
          /\ Bound(sd, ip, port).ip_addr = ip
          /\ Bound(sd, ip, port).port = port
    BY DEF Struct, Bound
  <1> QED
    BY <1>1, <1>2, <1>3

(* A socket that is open has been allocated.                                *)
LEMMA OpenIsStruct ==
  ASSUME TypeOK
  PROVE  /\ handle \in [Handle -> {NULL} \cup Struct]
         /\ \A h \in Open : h \in Handle /\ handle[h] \in Struct /\ handle[h].sd \in Descriptor
  <1>1. handle \in [Handle -> {NULL} \cup Struct]
    BY DEF TypeOK
  <1>2. \A h \in Open : h \in Handle /\ handle[h] \in Struct
    BY <1>1 DEF Open
  <1> QED
    BY <1>1, <1>2, Structs

(* The kernel gives out a descriptor that is free.                          *)
LEMMA LowestIsFree ==
  ASSUME Free # {}
  PROVE  Lowest \in Free /\ Lowest \in Descriptor /\ kernel[Lowest] = "free"
  <1>1. Free \subseteq Nat
    BY TcpSockAssumption DEF Free, Descriptor
  <1>2. PICK sd \in Free : \A other \in Free : ~ (<<other, sd>> \in OpToRel(<, Nat))
    BY <1>1, WFMin, NatLessThanWellFounded
  <1>3. \A other \in Free : ~(other < sd)
    BY <1>1, <1>2 DEF OpToRel
  <1>4. \A other \in Free : sd <= other
    BY <1>1, <1>3
  <1>5. Lowest \in Free
    BY <1>4 DEF Lowest
  <1> QED
    BY <1>5 DEF Free

(* htons keeps sixteen bits.                                                *)
LEMMA Ports ==
  \A port \in Int : htons(port) \in Nat /\ htons(port) < 65536
  BY DEF htons

(* Nothing happens to the descriptors of the sockets, but for a connection  *)
(* that is reset.                                                           *)
Untouched(sd) ==
  /\ bound'[sd] = bound[sd]
  /\ \/ kernel'[sd] = kernel[sd]
     \/ kernel[sd] = "connected" /\ kernel'[sd] = "reset"
Quiet ==
  /\ UNCHANGED <<handle, blocks>>
  /\ \A h \in Open : Untouched(handle[h].sd)

(* A step that changes no socket and no descriptor of one, a reset          *)
(* excepted, keeps what TInv says of them.                                  *)
LEMMA QuietPreserves ==
  ASSUME TInv, Quiet
  PROVE  SocketsOwn'
  <1>1. Open' = Open
    BY DEF Quiet, Open
  <1>2. SocketsOwn'
    <2>1. IsInjective([h \in Open |-> handle[h].sd])'
      BY <1>1 DEF TInv, SocketsOwn, Quiet, Untouched, IsInjective
    <2>2. \A h \in Open :
            kernel'[handle[h].sd] \in
              IF handle[h].ip_addr THEN {"connected", "reset"} ELSE {"listening"}
      BY DEF TInv, SocketsOwn, Quiet, Untouched
    <2> QED
      BY <1>1, <2>1, <2>2 DEF TInv, SocketsOwn, Quiet, Untouched
  <1> QED
    BY <1>2

(* There are finitely many sockets to count.                                *)
LEMMA Counts ==
  ASSUME NEW O \in SUBSET Handle, NEW W \in SUBSET Handle
  PROVE  /\ IsFiniteSet(O) /\ IsFiniteSet(W)
         /\ Cardinality(O) + Cardinality(W) \in 0 .. 2 * Cardinality(Handle)
  <1>1. /\ IsFiniteSet(O) /\ IsFiniteSet(W) /\ IsFiniteSet(Handle)
        /\ Cardinality(O) <= Cardinality(Handle)
        /\ Cardinality(W) <= Cardinality(Handle)
    BY TcpSockAssumption, FS_Subset
  <1>2. /\ Cardinality(O) \in Nat /\ Cardinality(W) \in Nat
        /\ Cardinality(Handle) \in Nat
    BY <1>1, FS_CardinalityType
  <1> QED
    BY <1>1, <1>2

(* Descriptors may be lost or reset without harm to the sockets.            *)
LEMMA FailsIsQuiet ==
  ASSUME TInv, NEW error, Fails(error)
  PROVE  Quiet
  BY DEF Fails, Quiet, Untouched

(* A call that fails with a descriptor of its own, and leaks it, touches no *)
(* socket.                                                                  *)
LEMMA FailsOpenIsQuiet ==
  ASSUME TInv, NEW error, NEW state, NEW port, FailsOpen(error, state, port)
  PROVE  Quiet
  <1>1. Lowest \in Free
    BY LowestIsFree DEF FailsOpen
  <1>2. \A h \in Open : handle[h].sd \in Descriptor /\ handle[h].sd # Lowest
    BY <1>1, OpenIsStruct DEF TInv, SocketsOwn, Free
  <1>3. kernel \in [Descriptor -> {"free", "fresh", "listening", "connected", "reset"}]
        /\ bound \in [Descriptor -> Nat]
    BY DEF TInv, TypeOK
  <1> QED
    BY <1>2, <1>3 DEF FailsOpen, Quiet, Untouched

(* A call that fails leaves every variable within its type.                 *)
LEMMA FailsKeepsTypes ==
  ASSUME TInv, NEW error \in {"TCP_ADDRESS_ERROR", "TCP_SOCKET_ERROR",
                              "TCP_SOCKOP_ERROR", "TCP_MEMORY_ERROR"},
         pending' \in [Descriptor -> 0 .. MAX_PENDING],
         \A sd \in Descriptor : pending'[sd] <= pending[sd],
         NEW state \in {"fresh", "connected"}, NEW port \in Int,
         Fails(error) \/ FailsOpen(error, state, port)
  PROVE  TypeOK'
  <1>0. /\ pending \in [Descriptor -> 0 .. MAX_PENDING] /\ MAX_PENDING \in Nat
        /\ \A sd \in Descriptor : pending[sd] > 0 => kernel[sd] = "listening"
        /\ \A sd \in Descriptor : pending'[sd] > 0 => pending[sd] > 0
    BY TcpSockAssumption DEF TInv, TypeOK
  <1>1. CASE Fails(error)
    BY <1>0, <1>1 DEF TInv, TypeOK, Fails
  <1>2. CASE FailsOpen(error, state, port)
    <2>1. Lowest \in Descriptor /\ kernel[Lowest] = "free"
      BY <1>2, LowestIsFree DEF FailsOpen
    <2>2. htons(port) \in Nat /\ htons(port) < 65536
      BY Ports
    <2>3. \A sd \in Descriptor : pending'[sd] > 0 => kernel'[sd] = "listening"
      BY <1>0, <1>2, <2>1 DEF TInv, TypeOK, FailsOpen
    <2> QED
      BY <1>0, <1>2, <2>1, <2>2, <2>3 DEF TInv, TypeOK, FailsOpen
  <1> QED
    BY <1>1, <1>2

(* One socket more, on a descriptor no other socket has.                    *)
LEMMA OpeningPreserves ==
  ASSUME TInv, NEW h \in Handle, handle[h] = NULL,
         NEW state, NEW ip \in BOOLEAN, NEW port \in Port \cup {Any},
         Succeeds(h, state, ip, port),
         state = IF ip THEN "connected" ELSE "listening",
         pending' \in [Descriptor -> 0 .. MAX_PENDING],
         \A sd \in Descriptor : pending'[sd] <= pending[sd]
  PROVE  TInv'
  <1> DEFINE new == Bound(Lowest, ip, port)
  <1>1. /\ Lowest \in Descriptor /\ kernel[Lowest] = "free"
        /\ port \in Int
    BY LowestIsFree, TcpSockAssumption DEF Succeeds, Any
  <1>2. /\ new \in Struct /\ new # NULL
        /\ new.sd = Lowest /\ new.ip_addr = ip /\ new.port = port
    BY <1>1, Structs
  <1>3. handle' = [handle EXCEPT ![h] = new] /\ blocks' = blocks + Blocks(new)
    BY DEF Succeeds
  <1> HIDE DEF new
  <1>4. /\ handle \in [Handle -> {NULL} \cup Struct]
        /\ \A g \in Open : g \in Handle /\ handle[g] \in Struct /\ handle[g].sd \in Descriptor
    BY OpenIsStruct DEF TInv
  <1>5. /\ Open' = Open \cup {h} /\ h \notin Open
        /\ handle'[h] = new /\ \A g \in Open : handle'[g] = handle[g]
    BY <1>2, <1>3, <1>4 DEF Open
  <1>6. \A g \in Open : handle[g].sd # Lowest
    BY <1>1 DEF TInv, SocketsOwn
  <1>7. /\ kernel \in [Descriptor -> {"free", "fresh", "listening", "connected", "reset"}]
        /\ bound \in [Descriptor -> Nat]
        /\ kernel' = [kernel EXCEPT ![Lowest] = state]
        /\ bound' = [bound EXCEPT ![Lowest] = htons(port)]
    BY DEF TInv, TypeOK, Succeeds
  <1>8. /\ kernel'[Lowest] = state /\ bound'[Lowest] = htons(port)
        /\ \A g \in Open : /\ kernel'[handle[g].sd] = kernel[handle[g].sd]
                           /\ bound'[handle[g].sd] = bound[handle[g].sd]
    BY <1>1, <1>4, <1>6, <1>7
  <1>9. WithAddress' = IF ip THEN WithAddress \cup {h} ELSE WithAddress
    BY <1>2, <1>5 DEF WithAddress
  <1>10. blocks = Cardinality(Open) + Cardinality(WithAddress)
    BY DEF TInv, SocketsOwn, WithAddress
  <1>11. Open \in SUBSET Handle /\ WithAddress \in SUBSET Handle
    BY DEF Open, WithAddress
  <1>12. blocks' = Cardinality(Open') + Cardinality(WithAddress')
    <2>1. IsFiniteSet(Open) /\ IsFiniteSet(WithAddress) /\ h \notin WithAddress
      BY <1>5, <1>11, Counts DEF WithAddress
    <2>2. /\ Cardinality(Open \cup {h}) = Cardinality(Open) + 1
          /\ Cardinality(WithAddress \cup {h}) = Cardinality(WithAddress) + 1
      BY <1>5, <2>1, FS_AddElement
    <2>3. Cardinality(Open) \in Nat /\ Cardinality(WithAddress) \in Nat
      BY <2>1, FS_CardinalityType
    <2>4. Blocks(new) = IF ip THEN 2 ELSE 1
      BY <1>2 DEF Blocks
    <2> QED
      BY <1>3, <1>5, <1>9, <1>10, <2>2, <2>3, <2>4
  <1>13. SocketsOwn'
    <2>1. IsInjective([g \in Open |-> handle[g].sd])'
      BY <1>2, <1>5, <1>6 DEF TInv, SocketsOwn, IsInjective
    <2>2. \A g \in Open' : kernel'[handle'[g].sd] \in
            IF handle'[g].ip_addr THEN {"connected", "reset"} ELSE {"listening"}
      BY <1>2, <1>5, <1>8 DEF TInv, SocketsOwn
    <2> QED
      BY <1>12, <2>1, <2>2 DEF SocketsOwn, WithAddress
  <1>15. TypeOK'
    <2>1. handle' \in [Handle -> {NULL} \cup Struct]
      BY <1>2, <1>3, <1>4
    <2>2. htons(port) \in Nat /\ htons(port) < 65536
      BY <1>1, Ports
    <2>3. /\ bound' \in [Descriptor -> Nat] /\ \A sd \in Descriptor : bound'[sd] < 65536
          /\ kernel' \in [Descriptor -> {"free", "fresh", "listening", "connected", "reset"}]
      BY <1>1, <1>7, <2>2 DEF TInv, TypeOK
    <2>4. \A sd \in Descriptor : pending'[sd] > 0 => kernel'[sd] = "listening"
      <3>1. /\ pending \in [Descriptor -> 0 .. MAX_PENDING] /\ MAX_PENDING \in Nat
            /\ \A sd \in Descriptor : pending[sd] > 0 => kernel[sd] = "listening"
            /\ \A sd \in Descriptor : pending'[sd] > 0 => pending[sd] > 0
        BY TcpSockAssumption DEF TInv, TypeOK
      <3> QED
        BY <1>1, <1>7, <3>1
    <2>5. blocks' \in 0 .. 2 * Cardinality(Handle)
      <3>1. Open' \in SUBSET Handle /\ WithAddress' \in SUBSET Handle
        BY DEF Open, WithAddress
      <3> QED
        BY <1>12, <3>1, Counts
    <2> QED
      BY <2>1, <2>3, <2>4, <2>5 DEF TypeOK, Succeeds
  <1> QED
    BY <1>13, <1>15 DEF TInv

(* One socket less; its descriptor is free, or, reset, it is lost.          *)
LEMMA ClosingPreserves ==
  ASSUME TInv, NEW h \in Handle, handle[h] # NULL, tcp_close(h)
  PROVE  TInv'
  <1> DEFINE sd == handle[h].sd
  <1>1. /\ handle \in [Handle -> {NULL} \cup Struct]
        /\ \A g \in Open : g \in Handle /\ handle[g] \in Struct /\ handle[g].sd \in Descriptor
    BY OpenIsStruct DEF TInv
  <1>2. h \in Open /\ sd \in Descriptor /\ handle[h].ip_addr \in BOOLEAN
    BY <1>1, Structs DEF Open
  <1>3. /\ handle' = [handle EXCEPT ![h] = NULL] /\ blocks' = blocks - Blocks(handle[h])
        /\ result' = "TCP_NO_ERROR" /\ ShutdownAndClose(sd)
    BY DEF tcp_close, ForgetHandle
  <1>4. /\ kernel \in [Descriptor -> {"free", "fresh", "listening", "connected", "reset"}]
        /\ bound \in [Descriptor -> Nat] /\ \A d \in Descriptor : bound[d] < 65536
        /\ pending \in [Descriptor -> 0 .. MAX_PENDING] /\ MAX_PENDING \in Nat
        /\ \A d \in Descriptor : pending[d] > 0 => kernel[d] = "listening"
    BY TcpSockAssumption DEF TInv, TypeOK
  <1>5. \A g \in Open \ {h} : handle[g].sd # sd
    BY <1>2 DEF TInv, SocketsOwn, IsInjective
  <1> HIDE DEF sd
  <1>6. /\ Open' = Open \ {h}
        /\ \A g \in Open \ {h} : handle'[g] = handle[g]
    BY <1>1, <1>2, <1>3 DEF Open
  <1>7. /\ \A d \in Descriptor \ {sd} : /\ kernel'[d] = kernel[d] /\ bound'[d] = bound[d]
                                      /\ pending'[d] = pending[d]
        /\ kernel' \in [Descriptor -> {"free", "fresh", "listening", "connected", "reset"}]
        /\ bound' \in [Descriptor -> Nat] /\ \A d \in Descriptor : bound'[d] < 65536
        /\ pending' \in [Descriptor -> 0 .. MAX_PENDING]
        /\ \A d \in Descriptor : pending'[d] > 0 => kernel'[d] = "listening"
    BY <1>2, <1>3, <1>4 DEF ShutdownAndClose, Any
  <1>8. blocks' = Cardinality(Open') + Cardinality(WithAddress')
    <2>1. WithAddress' = IF handle[h].ip_addr THEN WithAddress \ {h} ELSE WithAddress
      BY <1>2, <1>6 DEF WithAddress
    <2>2. blocks = Cardinality(Open) + Cardinality(WithAddress)
      BY DEF TInv, SocketsOwn, WithAddress
    <2>3. IsFiniteSet(Open) /\ IsFiniteSet(WithAddress)
      <3>1. Open \in SUBSET Handle /\ WithAddress \in SUBSET Handle
        BY DEF Open, WithAddress
      <3> QED
        BY <3>1, Counts
    <2>4. h \in WithAddress <=> handle[h].ip_addr
      BY <1>2 DEF WithAddress
    <2>5. /\ Cardinality(Open \ {h}) = Cardinality(Open) - 1
          /\ handle[h].ip_addr =>
               Cardinality(WithAddress \ {h}) = Cardinality(WithAddress) - 1
      BY <1>2, <2>3, <2>4, FS_RemoveElement
    <2>6. Cardinality(Open) \in Nat /\ Cardinality(WithAddress) \in Nat
      BY <2>3, FS_CardinalityType
    <2>7. Blocks(handle[h]) = IF handle[h].ip_addr THEN 2 ELSE 1
      BY DEF Blocks
    <2> QED
      BY <1>2, <1>3, <1>6, <2>1, <2>2, <2>5, <2>6, <2>7
  <1>9. SocketsOwn'
    <2>1. IsInjective([g \in Open |-> handle[g].sd])'
      BY <1>6 DEF TInv, SocketsOwn, IsInjective
    <2>2. \A g \in Open' : kernel'[handle'[g].sd] \in
            IF handle'[g].ip_addr THEN {"connected", "reset"} ELSE {"listening"}
      BY <1>1, <1>5, <1>6, <1>7 DEF TInv, SocketsOwn
    <2> QED
      BY <1>8, <2>1, <2>2 DEF SocketsOwn, WithAddress
  <1>11. TypeOK'
    <2>1. handle' \in [Handle -> {NULL} \cup Struct]
      BY <1>1, <1>3
    <2>2. blocks' \in 0 .. 2 * Cardinality(Handle)
      <3>1. Open' \in SUBSET Handle /\ WithAddress' \in SUBSET Handle
        BY DEF Open, WithAddress
      <3> QED
        BY <1>8, <3>1, Counts
    <2> QED
      BY <1>3, <1>7, <2>1, <2>2 DEF TypeOK
  <1> QED
    BY <1>9, <1>11 DEF TInv

(* tcp_passive_open preserves TInv.                                         *)
LEMMA PassiveOpenPreserves ==
  ASSUME TInv, NEW h \in Handle, NEW port \in Port, tcp_passive_open(h, port)
  PROVE  TInv'
  <1>0. /\ handle[h] = NULL /\ UNCHANGED pending /\ port \in Int /\ Any \in Int
        /\ pending \in [Descriptor -> 0 .. MAX_PENDING] /\ MAX_PENDING \in Nat
    BY TcpSockAssumption DEF TInv, TypeOK, tcp_passive_open, Any
  <1>1. /\ pending' \in [Descriptor -> 0 .. MAX_PENDING]
        /\ \A sd \in Descriptor : pending'[sd] <= pending[sd]
    BY <1>0
  <1>2. ASSUME NEW error \in {"TCP_ADDRESS_ERROR", "TCP_MEMORY_ERROR", "TCP_SOCKOP_ERROR"},
               NEW p \in Int, Fails(error) \/ FailsOpen(error, "fresh", p)
        PROVE  TInv'
    <2>1. SocketsOwn'
      BY <1>2, FailsIsQuiet, FailsOpenIsQuiet, QuietPreserves
    <2>2. TypeOK'
      BY <1>1, <1>2, FailsKeepsTypes
    <2> QED
      BY <2>1, <2>2 DEF TInv
  <1>3. CASE Succeeds(h, "listening", FALSE, port)
    BY <1>0, <1>1, <1>3, OpeningPreserves
  <1> QED
    BY <1>0, <1>2, <1>3 DEF tcp_passive_open

(* tcp_active_open preserves TInv.                                          *)
LEMMA ActiveOpenPreserves ==
  ASSUME TInv, NEW h \in Handle, tcp_active_open(h)
  PROVE  TInv'
  <1>0. /\ handle[h] = NULL /\ UNCHANGED pending /\ Any \in Int
        /\ pending \in [Descriptor -> 0 .. MAX_PENDING] /\ MAX_PENDING \in Nat
    BY TcpSockAssumption DEF TInv, TypeOK, tcp_active_open, Any
  <1>1. /\ pending' \in [Descriptor -> 0 .. MAX_PENDING]
        /\ \A sd \in Descriptor : pending'[sd] <= pending[sd]
    BY <1>0
  <1>2. ASSUME NEW error \in {"TCP_ADDRESS_ERROR", "TCP_MEMORY_ERROR", "TCP_SOCKOP_ERROR"},
               NEW state \in {"fresh", "connected"},
               Fails(error) \/ FailsOpen(error, state, Any)
        PROVE  TInv'
    <2>1. SocketsOwn'
      BY <1>2, FailsIsQuiet, FailsOpenIsQuiet, QuietPreserves
    <2>2. TypeOK'
      BY <1>0, <1>1, <1>2, FailsKeepsTypes
    <2> QED
      BY <2>1, <2>2 DEF TInv
  <1>3. CASE Succeeds(h, "connected", TRUE, Any)
    BY <1>0, <1>1, <1>3, OpeningPreserves
  <1> QED
    BY <1>2, <1>3 DEF tcp_active_open

(* tcp_wait_for_connection preserves TInv.                                  *)
LEMMA AcceptPreserves ==
  ASSUME TInv, NEW server \in Handle, NEW h \in Handle,
         tcp_wait_for_connection(server, h)
  PROVE  TInv'
  <1>0. /\ handle[h] = NULL /\ Any \in Int
        /\ pending \in [Descriptor -> 0 .. MAX_PENDING] /\ MAX_PENDING \in Nat
    BY TcpSockAssumption DEF TInv, TypeOK, tcp_wait_for_connection, Any
  <1>1. /\ pending' \in [Descriptor -> 0 .. MAX_PENDING]
        /\ \A sd \in Descriptor : pending'[sd] <= pending[sd]
    <2>1. CASE UNCHANGED pending
      BY <1>0, <2>1
    <2>2. ASSUME handle[server] # NULL, pending[handle[server].sd] > 0,
                 pending' = [pending EXCEPT ![handle[server].sd] = @ - 1]
          PROVE  /\ pending' \in [Descriptor -> 0 .. MAX_PENDING]
                 /\ \A sd \in Descriptor : pending'[sd] <= pending[sd]
      <3>1. handle[server].sd \in Descriptor
        BY <2>2, OpenIsStruct DEF TInv, Open
      <3> QED
        BY <1>0, <2>2, <3>1
    <2> QED
      BY <2>1, <2>2 DEF tcp_wait_for_connection
  <1>2. ASSUME NEW error \in {"TCP_SOCKET_ERROR", "TCP_MEMORY_ERROR", "TCP_SOCKOP_ERROR"},
               Fails(error) \/ FailsOpen(error, "connected", Any)
        PROVE  TInv'
    <2>1. SocketsOwn'
      BY <1>2, FailsIsQuiet, FailsOpenIsQuiet, QuietPreserves
    <2>2. TypeOK'
      BY <1>0, <1>1, <1>2, FailsKeepsTypes
    <2> QED
      BY <2>1, <2>2 DEF TInv
  <1>3. CASE Succeeds(h, "connected", TRUE, Any)
    BY <1>0, <1>1, <1>3, OpeningPreserves
  <1> QED
    BY <1>2, <1>3 DEF tcp_wait_for_connection

(* tcp_close preserves TInv.                                                *)
LEMMA ClosePreserves ==
  ASSUME TInv, NEW h \in Handle, tcp_close(h)
  PROVE  TInv'
  <1>1. CASE handle[h] = NULL
    <2>1. Fails("TCP_SOCKET_ERROR") /\ UNCHANGED pending
      BY <1>1 DEF tcp_close
    <2>2. SocketsOwn'
      BY <2>1, FailsIsQuiet, QuietPreserves
    <2>3. TypeOK'
      BY <2>1 DEF TInv, TypeOK, Fails
    <2> QED
      BY <2>2, <2>3 DEF TInv
  <1>2. CASE handle[h] # NULL
    BY <1>2, ClosingPreserves
  <1> QED
    BY <1>1, <1>2

(* A peer that connects to a listening socket or resets a connection        *)
(* preserves TInv.                                                          *)
LEMMA PeerPreserves ==
  ASSUME TInv, NEW sd \in Descriptor, PeerConnects(sd) \/ PeerResets(sd)
  PROVE  TInv'
  <1>0. /\ kernel \in [Descriptor -> {"free", "fresh", "listening", "connected", "reset"}]
        /\ pending \in [Descriptor -> 0 .. MAX_PENDING] /\ MAX_PENDING \in Nat
        /\ \A d \in Descriptor : pending[d] > 0 => kernel[d] = "listening"
    BY TcpSockAssumption DEF TInv, TypeOK
  <1>1. \A d \in Descriptor : Untouched(d)
    BY <1>0 DEF PeerConnects, PeerResets, Untouched
  <1>2. SocketsOwn'
    <2>1. Quiet
      BY <1>1, OpenIsStruct DEF TInv, Quiet, PeerConnects, PeerResets
    <2> QED
      BY <2>1, QuietPreserves
  <1>3. TypeOK'
    <2>1. CASE PeerConnects(sd)
      BY <1>0, <2>1 DEF TInv, TypeOK, PeerConnects
    <2>2. CASE PeerResets(sd)
      BY <1>0, <2>2 DEF TInv, TypeOK, PeerResets
    <2> QED
      BY <2>1, <2>2
  <1> QED
    BY <1>2, <1>3 DEF TInv

(* Without a socket there is nothing to own.                                *)
LEMMA InitHolds == Init => TInv
  <1> SUFFICES ASSUME Init PROVE TInv
    OBVIOUS
  <1>0. Open = {} /\ MAX_PENDING \in Nat
    BY TcpSockAssumption DEF Init, Open
  <1>1. Cardinality({}) = 0 /\ 0 \in 0 .. 2 * Cardinality(Handle)
    BY FS_EmptySet, FS_CardinalityType, TcpSockAssumption
  <1>2. TypeOK
    BY <1>0, <1>1 DEF Init, TypeOK, Any
  <1>3. {h \in Open : handle[h].ip_addr} = {}
    BY <1>0
  <1>4. IsInjective([h \in Open |-> handle[h].sd])
    BY <1>0 DEF IsInjective
  <1>5. SocketsOwn
    BY <1>0, <1>1, <1>3, <1>4 DEF Init, SocketsOwn
  <1> QED
    BY <1>2, <1>5 DEF TInv

(* Every call preserves TInv.                                               *)
LEMMA NextPreservesTInv == TInv /\ [Next]_vars => TInv'
  <1> SUFFICES ASSUME TInv, [Next]_vars PROVE TInv'
    OBVIOUS
  <1>1. CASE Next
    BY <1>1, PassiveOpenPreserves, ActiveOpenPreserves, AcceptPreserves, ClosePreserves,
       PeerPreserves DEF Next
  <1>2. CASE UNCHANGED vars
    <2>1. Quiet
      BY <1>2 DEF vars, Quiet, Untouched
    <2>2. TypeOK'
      BY <1>2 DEF TInv, TypeOK, vars
    <2> QED
      BY <2>1, <2>2, QuietPreserves DEF TInv
  <1> QED
    BY <1>1, <1>2

(* TInv holds after every sequence of calls.                                *)
LEMMA InvariantHolds == Spec => []TInv
  <1> QED
    BY InitHolds, NextPreservesTInv, PTL DEF Spec

(* Every variable keeps its type, for any number of sockets and descriptors. *)
THEOREM TypeCorrect == Spec => []TypeOK
  <1>1. TInv => TypeOK
    BY DEF TInv
  <1> QED
    BY <1>1, InvariantHolds, PTL

(* No two sockets share a descriptor, none has one that was closed, and no  *)
(* memory is lost, whatever call fails wherever.                            *)
THEOREM EverySocketOwnsItsDescriptor == Spec => []SocketsOwn
  <1>1. TInv => SocketsOwn
    BY DEF TInv
  <1> QED
    BY <1>1, InvariantHolds, PTL

-----------------------------------------------------------------------------
(* What may happen to the descriptors nobody has a socket for.              *)
LostDescriptors ==
  /\ Orphans \subseteq Orphans'
  /\ \A sd \in Orphans' \ Orphans :
       \/ result' # "TCP_NO_ERROR" /\ sd \in Free
       \/ \E h \in Open : handle[h].sd = sd /\ kernel[sd] = "reset"

(* Where no socket and no descriptor changes, none is lost.                 *)
LEMMA SameDescriptors ==
  ASSUME handle' = handle, Free' = Free
  PROVE  LostDescriptors
  <1>1. Orphans' = Orphans
    BY DEF Orphans, Open
  <1> QED
    BY <1>1 DEF LostDescriptors

(* A failure may lose a descriptor, and says so.                            *)
LEMMA FailuresLose ==
  ASSUME TInv,
         NEW error \in {"TCP_ADDRESS_ERROR", "TCP_SOCKET_ERROR",
                        "TCP_SOCKOP_ERROR", "TCP_MEMORY_ERROR"},
         NEW state \in {"fresh", "connected"}, NEW port,
         Fails(error) \/ FailsOpen(error, state, port)
  PROVE  LostDescriptors
  <1>1. CASE Fails(error)
    BY <1>1, SameDescriptors DEF Fails, Free
  <1>2. CASE FailsOpen(error, state, port)
    <2>1. Lowest \in Free /\ Lowest \in Descriptor
      BY <1>2, LowestIsFree DEF FailsOpen
    <2>2. Open' = Open /\ Free' = Free \ {Lowest} /\ result' = error
      BY <1>2, <2>1 DEF TInv, TypeOK, FailsOpen, Open, Free
    <2>3. Orphans \subseteq Orphans' /\ Orphans' \subseteq Orphans \cup {Lowest}
      BY <1>2, <2>2 DEF FailsOpen, Orphans
    <2> QED
      BY <2>1, <2>2, <2>3 DEF LostDescriptors
  <1> QED
    BY <1>1, <1>2

(* A call that opens a socket loses no descriptor.                          *)
LEMMA OpeningLosesNothing ==
  ASSUME TInv, NEW h \in Handle, handle[h] = NULL, NEW state \in {"listening", "connected"},
         NEW ip \in BOOLEAN, NEW port \in Port \cup {Any}, Succeeds(h, state, ip, port)
  PROVE  LostDescriptors
  <1> DEFINE new == Bound(Lowest, ip, port)
  <1>1. Lowest \in Free /\ Lowest \in Descriptor
    BY LowestIsFree DEF Succeeds
  <1>2. new # NULL /\ new.sd = Lowest
    BY <1>1, Structs
  <1>3. handle' = [handle EXCEPT ![h] = new]
    BY DEF Succeeds
  <1> HIDE DEF new
  <1>4. handle \in [Handle -> {NULL} \cup Struct]
    BY OpenIsStruct DEF TInv
  <1>5. /\ Open' = Open \cup {h} /\ h \notin Open /\ handle'[h] = new
        /\ \A g \in Open : handle'[g] = handle[g]
    BY <1>2, <1>3, <1>4 DEF Open
  <1>6. Free' = Free \ {Lowest}
    BY <1>1 DEF TInv, TypeOK, Succeeds, Free
  <1>7. Orphans' = Orphans
    BY <1>1, <1>2, <1>5, <1>6 DEF Orphans
  <1> QED
    BY <1>7 DEF LostDescriptors

(* tcp_close loses a descriptor only when shutdown fails, on a connection   *)
(* that was reset.                                                          *)
LEMMA ClosingLosesTheReset ==
  ASSUME TInv, NEW h \in Handle, tcp_close(h)
  PROVE  LostDescriptors
  <1>1. CASE handle[h] = NULL
    BY <1>1, SameDescriptors DEF tcp_close, Fails, Free
  <1>2. CASE handle[h] # NULL
    <2> DEFINE sd == handle[h].sd
    <2>1. handle \in [Handle -> {NULL} \cup Struct] /\ h \in Open /\ sd \in Descriptor
      BY <1>2, OpenIsStruct DEF TInv, Open
    <2>2. Open' = Open \ {h} /\ \A g \in Open \ {h} : handle'[g] = handle[g]
      BY <1>2, <2>1 DEF tcp_close, ForgetHandle, Open
    <2>3. \A g \in Open \ {h} : handle[g].sd # sd
      BY <2>1 DEF TInv, SocketsOwn, IsInjective
    <2>4. kernel \in [Descriptor -> {"free", "fresh", "listening", "connected", "reset"}]
          /\ ShutdownAndClose(sd)
      BY <1>2 DEF TInv, TypeOK, tcp_close
    <2> HIDE DEF sd
    <2>5. Free' = IF kernel[sd] = "reset" THEN Free ELSE Free \cup {sd}
      BY <2>1, <2>4 DEF ShutdownAndClose, Free
    <2>6. Orphans' = IF kernel[sd] = "reset" THEN Orphans \cup {sd} ELSE Orphans
      <3>1. sd \notin Free /\ sd \notin Orphans
        BY <2>1 DEF TInv, SocketsOwn, Free, Orphans, sd
      <3>2. \A d \in Descriptor \ {sd} :
              (\A g \in Open' : handle'[g].sd # d) <=> (\A g \in Open : handle[g].sd # d)
        BY <2>1, <2>2 DEF sd
      <3>3. \A g \in Open' : handle'[g].sd # sd
        BY <2>2, <2>3
      <3> QED
        BY <2>1, <2>5, <3>1, <3>2, <3>3 DEF Orphans, Free
    <2> QED
      BY <2>1, <2>6 DEF LostDescriptors, sd
  <1> QED
    BY <1>1, <1>2

(* A descriptor is lost only where LeaksOnlyOnFailure says, and never comes  *)
(* back by itself.                                                          *)
THEOREM OnlyFailuresLeak == Spec => LeaksOnlyOnFailure
  <1>1. ASSUME TInv, [Next]_vars PROVE LostDescriptors
    <2>0. /\ \A error \in {"TCP_ADDRESS_ERROR", "TCP_SOCKET_ERROR",
                           "TCP_SOCKOP_ERROR", "TCP_MEMORY_ERROR"},
                state \in {"fresh", "connected"}, port \in Int :
               Fails(error) \/ FailsOpen(error, state, port) => LostDescriptors
          /\ \A h \in Handle, state \in {"listening", "connected"}, ip \in BOOLEAN,
                port \in Port \cup {Any} :
               handle[h] = NULL /\ Succeeds(h, state, ip, port) => LostDescriptors
      BY <1>1, FailuresLose, OpeningLosesNothing
    <2>. Any \in Int /\ Port \subseteq Int
      BY TcpSockAssumption DEF Any
    <2>1. ASSUME NEW h \in Handle, NEW port \in Port, tcp_passive_open(h, port)
          PROVE  LostDescriptors
      BY <2>0, <2>1 DEF tcp_passive_open
    <2>2. ASSUME NEW h \in Handle, tcp_active_open(h)
          PROVE  LostDescriptors
      BY <2>0, <2>2 DEF tcp_active_open
    <2>3. ASSUME NEW h \in Handle, NEW server \in Handle, tcp_wait_for_connection(server, h)
          PROVE  LostDescriptors
      BY <2>0, <2>3 DEF tcp_wait_for_connection
    <2>4. ASSUME NEW sd \in Descriptor, PeerConnects(sd) \/ PeerResets(sd)
          PROVE  LostDescriptors
      <3>1. handle' = handle /\ Free' = Free
        BY <1>1, <2>4 DEF TInv, TypeOK, PeerConnects, PeerResets, Free
      <3> QED
        BY <3>1, SameDescriptors
    <2>5. CASE UNCHANGED vars
      BY <2>5, SameDescriptors DEF vars, Free
    <2> QED
      BY <1>1, <2>1, <2>2, <2>3, <2>4, <2>5, ClosingLosesTheReset DEF Next
  <1>2. TInv /\ [Next]_vars => [LostDescriptors]_vars
    BY <1>1
  <1> QED
    BY <1>2, InvariantHolds, PTL DEF Spec, LeaksOnlyOnFailure, LostDescriptors
==============================================================================
