----------------------------- MODULE UdpClient -----------------------------
(***************************************************************************)
(* The UDP client, modules/udp_client/src/udp_client.c.                    *)
(*                                                                         *)
(* udp_client_init starts a thread that waits for the interface, opens and *)
(* binds one socket, sends a status line and then receives for ever.  The  *)
(* network stack runs the interface callback, and an application thread    *)
(* may call udp_client_deinit at any moment; its two steps and those of    *)
(* the thread interleave, because the socket calls block.                  *)
(***************************************************************************)
EXTENDS Integers, FiniteSets

CONSTANT Fds       \* the descriptors the socket layer hands out
ASSUME FdAssumption == Fds \subseteq Nat /\ IsFiniteSet(Fds) /\ Fds # {}

VARIABLES
  sock, net_ready,      \* the statics
  callback,             \* wait_for_net's callback is registered
  if_up,                \* the interface is up
  announced,            \* an IF_UP event has not reached the callbacks yet
  pc,                   \* of eth_thread
  fd,                   \* the descriptor a call of the thread works with
  app,                  \* where udp_client_deinit is
  open,                 \* the descriptors in use
  deinit_done           \* history: a udp_client_deinit has returned

network == <<if_up, announced>>
client  == <<app, deinit_done>>
vars == <<sock, net_ready, callback, network, pc, fd, client, open>>

NoFd == -1

Init ==
  /\ sock = NoFd /\ net_ready = 0 /\ callback = FALSE
  /\ if_up \in BOOLEAN /\ announced = FALSE
  /\ pc = "new" /\ fd = NoFd
  /\ app = "idle" /\ deinit_done = FALSE
  /\ open = {}
-----------------------------------------------------------------------------
(* The thread goes from one place to another and changes nothing else. *)
Go(from, to) == pc = from /\ pc' = to

(* The application calls this once, from main. *)
udp_client_init ==
  /\ Go("new", "register")
  /\ UNCHANGED <<sock, net_ready, callback, network, fd, client, open>>

AddCallback ==
  /\ Go("register", "check") /\ callback' = TRUE
  /\ UNCHANGED <<sock, net_ready, network, fd, client, open>>

(* The operators named Faulty... are what a plausible mistake would make   *)
(* of the operator after them; nothing refers to them.                     *)
FaultyCheckUp ==                     \* an interface that is up already is not noticed
  /\ Go("check", "take")
  /\ UNCHANGED <<sock, net_ready, callback, network, fd, client, open>>

CheckUp ==
  /\ Go("check", "take") /\ net_ready' = IF if_up THEN 1 ELSE net_ready
  /\ UNCHANGED <<sock, callback, network, fd, client, open>>

TakeReady ==
  /\ Go("take", "unregister") /\ net_ready = 1 /\ net_ready' = 0
  /\ UNCHANGED <<sock, callback, network, fd, client, open>>

DelCallback ==
  /\ Go("unregister", "socket") /\ callback' = FALSE
  /\ UNCHANGED <<sock, net_ready, network, fd, client, open>>

(* zsock_socket, and the assignment of what it returned. *)
CreateSocket ==
  /\ Go("socket", "assign")
  /\ \/ \E f \in Fds \ open : open' = open \cup {f} /\ fd' = f
     \/ UNCHANGED open /\ fd' = NoFd
  /\ UNCHANGED <<sock, net_ready, callback, network, client>>

AssignSocket ==
  /\ pc = "assign" /\ pc' = IF fd = NoFd THEN "off" ELSE "bind"
  /\ sock' = fd /\ fd' = NoFd
  /\ UNCHANGED <<net_ready, callback, network, client, open>>

(* A bind of a descriptor that is no longer open fails. *)
Bind ==
  /\ pc = "bind"
  /\ \/ sock \in open /\ pc' = "send"
     \/ pc' = "close"
  /\ UNCHANGED <<sock, net_ready, callback, network, fd, client, open>>

FaultyCloseAfterBind ==              \* forgotten
  /\ Go("close", "clear")
  /\ UNCHANGED <<sock, net_ready, callback, network, fd, client, open>>

CloseAfterBind ==
  /\ Go("close", "clear") /\ open' = open \ {sock}
  /\ UNCHANGED <<sock, net_ready, callback, network, fd, client>>

ClearAfterBind ==
  /\ Go("clear", "off") /\ sock' = NoFd
  /\ UNCHANGED <<net_ready, callback, network, fd, client, open>>

(* udp_client_send and udp_client_recv as the thread calls them: whatever  *)
(* they return, it goes on.  recv takes sock once for the poll and once    *)
(* more for the read.                                                      *)
SendStatus ==
  /\ Go("send", "recv")
  /\ UNCHANGED <<sock, net_ready, callback, network, fd, client, open>>

RecvPoll ==
  /\ pc = "recv" /\ fd' = sock
  /\ pc' = IF sock = NoFd THEN "recv" ELSE "read"
  /\ UNCHANGED <<sock, net_ready, callback, network, client, open>>

RecvFrom ==
  /\ Go("read", "recv") /\ fd' = NoFd
  /\ UNCHANGED <<sock, net_ready, callback, network, client, open>>

wait_for_net == AddCallback \/ CheckUp \/ TakeReady \/ DelCallback
eth_thread ==
  \/ wait_for_net
  \/ CreateSocket \/ AssignSocket \/ Bind \/ CloseAfterBind \/ ClearAfterBind
  \/ SendStatus \/ RecvPoll \/ RecvFrom
-----------------------------------------------------------------------------
(* The interface; its events reach the callbacks later, in the network     *)
(* stack's own thread.                                                     *)
InterfaceUp ==
  /\ ~if_up /\ if_up' = TRUE /\ announced' = TRUE
  /\ UNCHANGED <<sock, net_ready, callback, pc, fd, client, open>>

InterfaceDown ==
  /\ if_up /\ if_up' = FALSE
  /\ UNCHANGED <<sock, net_ready, callback, announced, pc, fd, client, open>>

FaultyNetMgmtCb ==                   \* a semaphore without a limit
  /\ announced /\ announced' = FALSE
  /\ net_ready' = IF callback THEN net_ready + 1 ELSE net_ready
  /\ UNCHANGED <<sock, callback, if_up, pc, fd, client, open>>

net_mgmt_cb ==
  /\ announced /\ announced' = FALSE
  /\ net_ready' = IF callback THEN 1 ELSE net_ready
  /\ UNCHANGED <<sock, callback, if_up, pc, fd, client, open>>

(* udp_client_deinit.  Bound: one call of it returns. *)
DeinitClose ==
  /\ app = "idle" /\ pc # "new" /\ ~deinit_done
  /\ IF sock # NoFd THEN app' = "clear" /\ open' = open \ {sock} /\ UNCHANGED deinit_done
                    ELSE app' = "idle" /\ deinit_done' = TRUE /\ UNCHANGED open
  /\ UNCHANGED <<sock, net_ready, callback, network, pc, fd>>

DeinitClear ==
  /\ app = "clear" /\ app' = "idle" /\ deinit_done' = TRUE
  /\ sock' = NoFd
  /\ UNCHANGED <<net_ready, callback, network, pc, fd, open>>

udp_client_deinit == DeinitClose \/ DeinitClear

Next == \/ udp_client_init \/ eth_thread \/ udp_client_deinit
        \/ InterfaceUp \/ InterfaceDown \/ net_mgmt_cb
Spec == Init /\ [][Next]_vars
(* The scheduler runs the thread and the network stack whenever they are ready. *)
FairSpec == Spec /\ WF_vars(eth_thread) /\ WF_vars(net_mgmt_cb) /\ WF_vars(DeinitClear)
-----------------------------------------------------------------------------
(* Every variable keeps to its type. *)
TypeOK ==
  /\ {sock, fd} \subseteq Fds \cup {NoFd} /\ open \subseteq Fds
  /\ net_ready \in 0..1 /\ {callback, if_up, announced, deinit_done} \subseteq BOOLEAN
  /\ pc \in {"new", "off", "register", "check", "take", "unregister", "socket", "assign", "bind",
             "close", "clear", "send", "recv", "read"}
  /\ app \in {"idle", "clear"}

(* No descriptor is left open without anything that will ever close it:    *)
(* whatever the order of the thread's and the application's closes, what   *)
(* is open is in sock, or on its way there.                                *)
NoSocketLost == open \subseteq {sock} \cup (IF pc = "assign" THEN {fd} ELSE {})

(* An interface that comes up and stays up gets the thread past its wait:  *)
(* registering before looking leaves no gap an event could fall into.      *)
IfUpWakes == (pc = "take" /\ <>[]if_up) ~> pc # "take"

(* udp_client.h: deinit "Closes sockets and cleans up resources." *)
DeinitClosesSockets == deinit_done => open = {}
=============================================================================
