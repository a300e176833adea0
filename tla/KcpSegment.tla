------------------------------- MODULE KcpSegment -------------------------------
(***************************************************************************)
(* The units KCP (src/src/ikcp.c) works with, without any state:            *)
(*                                                                         *)
(*  - a message handed to ikcp_send, cut into fragments of at most one mss; *)
(*  - a segment: what ikcp_encode_seg writes and ikcp_input parses, a       *)
(*    header of IKCP_OVERHEAD bytes followed by the data of one fragment;   *)
(*  - a datagram: the segments ikcp_flush puts in its buffer before it has  *)
(*    to call ikcp_output, at most one mtu of them.                         *)
(*                                                                         *)
(* Bytes are not modelled.  The data of a fragment is the identity of the   *)
(* fragment: the number of the message it was cut from, the countdown frg   *)
(* that ikcp_send stores in it, and its length, on which packing depends.   *)
(***************************************************************************)
EXTENDS Integers, Sequences

CONSTANT Mtu        \* kcp->mtu: the size of the largest datagram

(* ikcp_setmtu refuses a smaller mtu. *)
ASSUME MtuAssumption == Mtu \in Nat /\ Mtu >= 50

IKCP_OVERHEAD == 24
IKCP_MAX_FRAGMENTS == 255

(* kcp->mss, set by ikcp_create and ikcp_setmtu. *)
Mss == Mtu - IKCP_OVERHEAD

Min2(a, b) == IF a < b THEN a ELSE b
Max2(a, b) == IF a > b THEN a ELSE b

-----------------------------------------------------------------------------
(* Messages and their fragments. *)

(* The number of fragments ikcp_send cuts a message of size bytes into. *)
FragmentCount(size) ==
  IF size <= Mss THEN 1 ELSE (size + Mss - 1) \div Mss

(* ikcp_send refuses (-2) a message of more than IKCP_MAX_FRAGMENTS.      *)
Sendable(size) == FragmentCount(size) <= IKCP_MAX_FRAGMENTS

(* The fragments of message number msg.  The last one has frg = 0.        *)
Fragments(msg, size) ==
  LET count == FragmentCount(size) IN
  [i \in 1..count |-> [msg |-> msg,
                       frg |-> count - i,
                       len |-> Min2(Mss, size - (i - 1) * Mss)]]

Fragment == [msg : Nat, frg : Nat, len : 0..Mss]

(* The data of a segment that carries none. *)
NoFragment == [msg |-> 0, frg |-> 0, len |-> 0]

-----------------------------------------------------------------------------
(* Segments.  conv is the same in every segment of a link.  ts only feeds  *)
(* the round-trip estimate.  Neither is part of a segment here.  A segment *)
(* of another conv is FOREIGN.                                             *)

Command == {"PUSH", "ACK", "WASK", "WINS", "FOREIGN"}

Segment == [cmd : Command, sn : Nat, wnd : Nat, una : Nat, frag : Fragment]

Foreign == [cmd |-> "FOREIGN", sn |-> 0, wnd |-> 0, una |-> 0,
            frag |-> NoFragment]

SegmentSize(s) == IKCP_OVERHEAD + s.frag.len

-----------------------------------------------------------------------------
(* Datagrams.  ikcp_flush encodes its segments one after the other into     *)
(* kcp->buffer and calls ikcp_output first whenever the next one would take *)
(* the buffer over the mtu, then once more for what is left.                *)

(* Filled(segs)[i] is ptr - buffer after segment i has been encoded. *)
Filled(segs) ==
  LET filled[i \in 0..Len(segs)] ==
        IF i = 0 THEN 0
        ELSE LET need == SegmentSize(segs[i]) IN
             IF filled[i - 1] + need > Mtu THEN need ELSE filled[i - 1] + need
  IN  filled

(* Segment i is the first of its datagram. *)
Starts(segs, i) == Filled(segs)[i] = SegmentSize(segs[i])

(* The segments from i to j are one call of ikcp_output. *)
IsDatagram(segs, i, j) ==
  /\ i <= j
  /\ Starts(segs, i)
  /\ \A k \in i+1..j : ~Starts(segs, k)
  /\ j < Len(segs) => Starts(segs, j + 1)

(* The datagrams that ikcp_flush makes of the sequence segs. *)
Datagrams(segs) ==
  {SubSeq(segs, c[1], c[2]) :
     c \in {b \in (1..Len(segs)) \X (1..Len(segs)) :
              IsDatagram(segs, b[1], b[2])}}
=============================================================================
