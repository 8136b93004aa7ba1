---------------------------- MODULE MCUdpClient ----------------------------
(* Two descriptors: the client opens one socket, a lost one would show.     *)
EXTENDS UdpClient
=============================================================================
