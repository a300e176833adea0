------------------------------- MODULE MCUdpSocket -----------------------------
(* UdpSocket with its buffers in memory, on a small instance. *)
EXTENDS BufferList
=============================================================================
