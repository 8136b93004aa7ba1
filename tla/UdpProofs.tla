------------------------------ MODULE UdpProofs ------------------------------
(* Theorems about UdpClient for every set of descriptors. *)
EXTENDS UdpClient, TLAPS

Unassigned == {"new", "register", "check", "take", "unregister", "socket", "assign"}

(* Until the thread assigns it there is nothing in sock for the            *)
(* application to close; and both, having closed it, find nothing open     *)
(* that clearing sock could lose.                                          *)
CloseConsistent ==
  /\ pc \in Unassigned => sock = NoFd /\ app = "idle"
  /\ pc \in {"clear", "off"} \/ app = "clear" => open = {}

Inv == TypeOK /\ NoSocketLost /\ CloseConsistent

LEMMA InitInv == Init => Inv
  <1> SUFFICES ASSUME Init PROVE Inv
    OBVIOUS
  <1>1. {callback, if_up, announced, deinit_done} \subseteq BOOLEAN
    BY DEF Init
  <1>2. NoSocketLost /\ CloseConsistent
    BY DEF Init, NoSocketLost, CloseConsistent, Unassigned
  <1> QED
    BY <1>1, <1>2 DEF Init, Inv, TypeOK

LEMMA NextInv == Inv /\ [Next]_vars => Inv'
  <1> SUFFICES ASSUME Inv, [Next]_vars PROVE Inv'
    OBVIOUS
  <1> USE DEF Inv, TypeOK, Go, network, client
  <1>1. CASE udp_client_init
    BY <1>1 DEF udp_client_init, NoSocketLost, CloseConsistent, Unassigned
  <1>2. CASE wait_for_net
    <2>1. callback' \in BOOLEAN /\ net_ready' \in 0..1
      <3>1. callback \in BOOLEAN /\ net_ready \in 0..1
        OBVIOUS
      <3> HIDE DEF Inv, TypeOK
      <3>2. callback' \in {callback, TRUE, FALSE}
        BY <1>2 DEF wait_for_net, AddCallback, CheckUp, TakeReady, DelCallback
      <3>3. net_ready' \in {net_ready, 0, 1}
        BY <1>2 DEF wait_for_net, AddCallback, CheckUp, TakeReady, DelCallback
      <3>4. net_ready' \in 0..1
        BY <3>1, <3>2, <3>3
      <3> QED
        BY <3>1, <3>2, <3>3, <3>4, Zenon
    <2>2. /\ pc \in Unassigned \ {"assign"} /\ pc' \in Unassigned \ {"assign"}
          /\ UNCHANGED <<sock, open, fd, network, client>>
      BY <1>2 DEF wait_for_net, AddCallback, CheckUp, TakeReady, DelCallback, Unassigned
    <2>3. TypeOK'
      BY <2>1, <2>2 DEF Unassigned
    <2> QED
      BY <2>2, <2>3 DEF NoSocketLost, CloseConsistent, Unassigned
  <1>3. CASE CreateSocket
    BY <1>3 DEF CreateSocket, NoSocketLost, CloseConsistent, Unassigned, NoFd
  <1>4. CASE AssignSocket
    BY <1>4, FdAssumption DEF AssignSocket, NoSocketLost, CloseConsistent, Unassigned, NoFd
  <1>5. CASE Bind
    BY <1>5 DEF Bind, NoSocketLost, CloseConsistent, Unassigned
  <1>6. CASE CloseAfterBind
    BY <1>6 DEF CloseAfterBind, NoSocketLost, CloseConsistent, Unassigned
  <1>7. CASE ClearAfterBind
    BY <1>7 DEF ClearAfterBind, NoSocketLost, CloseConsistent, Unassigned
  <1>8. CASE SendStatus \/ RecvPoll \/ RecvFrom
    BY <1>8 DEF SendStatus, RecvPoll, RecvFrom, NoSocketLost, CloseConsistent, Unassigned
  <1>9. CASE DeinitClose
    BY <1>9 DEF DeinitClose, NoSocketLost, CloseConsistent, Unassigned
  <1>10. CASE DeinitClear
    BY <1>10 DEF DeinitClear, NoSocketLost, CloseConsistent, Unassigned
  <1>11. CASE InterfaceUp \/ InterfaceDown \/ net_mgmt_cb
    <2>1. if_up' \in BOOLEAN /\ announced' \in BOOLEAN /\ net_ready' \in 0..1
      <3>1. if_up' \in {if_up, TRUE, FALSE} /\ announced' \in {announced, TRUE, FALSE}
        BY <1>11 DEF InterfaceUp, InterfaceDown, net_mgmt_cb
      <3>2. net_ready' \in {net_ready, 1}
        BY <1>11 DEF InterfaceUp, InterfaceDown, net_mgmt_cb
      <3>3. if_up \in BOOLEAN /\ announced \in BOOLEAN /\ net_ready \in 0..1
        OBVIOUS
      <3> HIDE DEF Inv, TypeOK
      <3>4. net_ready' \in 0..1
        BY <3>1, <3>2, <3>3
      <3> QED
        BY <3>1, <3>2, <3>3, <3>4, Zenon
    <2>2. UNCHANGED <<sock, open, fd, pc, callback, client>>
      BY <1>11 DEF InterfaceUp, InterfaceDown, net_mgmt_cb
    <2>3. TypeOK'
      BY <2>1, <2>2
    <2> QED
      BY <2>2, <2>3 DEF NoSocketLost, CloseConsistent
  <1>12. CASE UNCHANGED vars
    BY <1>12 DEF vars, NoSocketLost, CloseConsistent, Unassigned
  <1> QED
    BY <1>1, <1>2, <1>3, <1>4, <1>5, <1>6, <1>7, <1>8, <1>9, <1>10, <1>11, <1>12
    DEF Next, eth_thread, udp_client_deinit

THEOREM UdpInv == Spec => []Inv
  BY InitInv, NextInv, PTL DEF Spec

(* Every variable of the client keeps to its type. *)
THEOREM UdpTypeOK == Spec => []TypeOK
  <1>1. Inv => TypeOK
    BY DEF Inv
  <1> QED
    BY <1>1, UdpInv, PTL

(* However the closes of the thread and of the application interleave, and *)
(* however many descriptors there are, none is left without an owner.      *)
THEOREM NoSocketLostTheorem == Spec => []NoSocketLost
  <1>1. Inv => NoSocketLost
    BY DEF Inv
  <1> QED
    BY <1>1, UdpInv, PTL
=============================================================================
