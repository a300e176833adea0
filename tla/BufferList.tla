------------------------------- MODULE BufferList -------------------------------
(***************************************************************************)
(* The buffers of UdpSocket in memory.  A BufferList (src/src/asio_buf.cc)  *)
(* is a chain of Buffers with a pointer to its first and tail_, the address *)
(* of the pointer that ends it: head_ itself or the next of the last        *)
(* Buffer.  AsioUDP has one for what is written, and its WriteBuffers has   *)
(* one for each peer.                                                       *)
(*                                                                         *)
(* Each action is one of UdpSocket, together with what it does to the       *)
(* memory, which goes by the pointers alone.  The address of a Buffer is    *)
(* the number that UdpSocket gives it.                                      *)
(***************************************************************************)
EXTENDS UdpSocket, SequencesExt

CONSTANT Writing   \* the name of in_writing_buf_

ASSUME ListAssumption == Writing \notin Peer

VARIABLES
  mem,       \* next of each Buffer that is allocated, head_ and tail_ of
             \* each list
  destroyed  \* the AsioUDP is no more

listVars == <<vars, mem, destroyed>>

Null == 0
List == Peer \cup {Writing}

(* Addresses of pointers. *)
HeadOf(l) == [in |-> "list", list |-> l]
NextOf(b) == [in |-> "buffer", buffer |-> b]

Heap(m) == DOMAIN m.next

(* The pointer that an iterator has after i steps, when it begins with b and *)
(* the Buffers it has come by are s.                                        *)
Pointer(m, b, s, i) == IF i = 0 THEN b ELSE m.next[s[i]]

(* These are all: it comes by Buffers that there are, and ends. *)
GoesThrough(m, b, s) ==
  /\ ToSet(s) \subseteq Heap(m)
  /\ \A i \in 1..Len(s) : s[i] = Pointer(m, b, s, i - 1)
  /\ Pointer(m, b, s, Len(s)) \notin Heap(m)

(* The Buffers that the iterators of a list go through. *)
Chain(m, l) ==
  CHOOSE s \in SeqOf(Heap(m), Cardinality(Heap(m))) :
    GoesThrough(m, m.head[l], s)

Freed(m, bufs) == [m EXCEPT !.next = [b \in Heap(m) \ bufs |-> @[b]]]

(* *at = b.  (A Buffer that was freed is written in vain.) *)
Stored(m, at, b) ==
  IF at.in = "list" THEN [m EXCEPT !.head[at.list] = b]
  ELSE IF at.buffer \in Heap(m) THEN [m EXCEPT !.next[at.buffer] = b]
  ELSE m

(* Buffer::New *)
Allocated(m, b) ==
  [m EXCEPT !.next = [c \in DOMAIN @ \cup {b} |-> IF c = b THEN Null ELSE @[c]]]

(* A mutant: tail_ stays. *)
PushedAtOld(m, l, b) == Stored(Allocated(m, b), m.tail[l], b)

(* Push of a new Buffer. *)
Pushed(m, l, b) ==
  [Stored(Allocated(m, b), m.tail[l], b) EXCEPT !.tail[l] = NextOf(b)]

(* A mutant: tail_ of the list that was moved from is left as it is. *)
TailLeft(m, l) == m

(* tail_ of a list that is empty is the address of its head_. *)
TailSet(m, l) ==
  IF m.head[l] = Null THEN [m EXCEPT !.tail[l] = HeadOf(l)] ELSE m

Swapped(f, k, l) == [f EXCEPT ![k] = f[l], ![l] = f[k]]

(* The assignment of GetBufs: in_writing_buf_ = std::move(list of p). *)
Moved(m, p) ==
  LET r == [m EXCEPT !.head = Swapped(@, Writing, p),
                     !.tail = Swapped(@, Writing, p)]
  IN  TailSet(TailSet(r, Writing), p)

(* Cut(len) where the first n Buffers hold len bytes.  tail_ is left alone. *)
CutOff(m, n) ==
  LET cut == SubSeq(Chain(m, Writing), 1, n)
  IN  IF n = 0 THEN m
      ELSE Freed([m EXCEPT !.head[Writing] = m.next[Last(cut)]], ToSet(cut))

(* TryStartWrite.  GetBufs finds the peer that UdpSocket chooses. *)
Started(m) ==
  IF m.head[Writing] = Null /\ \E p \in Peer : p = in_writing_peer' /\ m.head[p] # Null
  THEN Moved(m, in_writing_peer')
  ELSE m

-----------------------------------------------------------------------------

ListInit ==
  /\ Init
  /\ mem = [next |-> <<>>, head |-> [l \in List |-> Null],
            tail |-> [l \in List |-> HeadOf(l)]]
  /\ destroyed = FALSE

ListSend(p) ==
  /\ Send(p)
  /\ LET m == Pushed(mem, p, sends + 1)
     IN  mem' = IF in_writing THEN m ELSE Started(m)
  /\ UNCHANGED destroyed

ListWritten ==
  /\ Written
  /\ \E m \in {CutOff(mem, Len(in_flight[1].bufs))} : mem' = Started(m)
  /\ UNCHANGED destroyed

(* The write fails, and nothing is cut. *)
ListWriteFailed ==
  /\ WriteFailed
  /\ UNCHANGED <<mem, destroyed>>

(* A mutant: a list in the map does not own its Buffers. *)
OwnedWriting == {Writing}

(* The lists whose destructors free their Buffers: all but the copies that  *)
(* the asynchronous operations have.                                        *)
Owned == List

(* ~AsioUDP, when neither the program nor a handler shares the socket. *)
Destroy ==
  /\ ~destroyed
  /\ closed /\ in_flight = <<>> /\ ~reading
  /\ destroyed' = TRUE
  /\ mem' = Freed(mem, UNION {ToSet(Chain(mem, l)) : l \in Owned})
  /\ UNCHANGED vars

ListNext ==
  \/ ~destroyed /\ Open /\ UNCHANGED <<mem, destroyed>>
  \/ \E p \in Peer : ListSend(p)
  \/ ListWritten
  \/ ListWriteFailed
  \/ Close /\ UNCHANGED <<mem, destroyed>>
  \/ WriteAborted /\ UNCHANGED <<mem, destroyed>>
  \/ (Read \/ ReadStops \/ ReadAborted) /\ UNCHANGED <<mem, destroyed>>
  \/ Destroy

ListFairness ==
  /\ WF_listVars(ListWritten)
  /\ WF_listVars(WriteAborted /\ UNCHANGED <<mem, destroyed>>)
  /\ WF_listVars(ReadAborted /\ UNCHANGED <<mem, destroyed>>)

ListSpec == ListInit /\ [][ListNext]_listVars /\ ListFairness

-----------------------------------------------------------------------------
(* Properties. *)

(* What UdpSocket says that a list holds. *)
Contents(l) == IF l = Writing THEN in_writing_buf ELSE write_bufs[l]

(* The chains are what UdpSocket says, whatever Push, Cut and the           *)
(* assignment have done to them, in turn, from both sides.                  *)
ListsAgree ==
  ~destroyed => \A l \in List : GoesThrough(mem, mem.head[l], Contents(l))

(* A list that Buffers may be pushed to has its tail_ at its end, and never *)
(* in a Buffer that was freed.  That of in_writing_buf_ may be in one.      *)
TailIsLast ==
  ~destroyed =>
    \A p \in Peer :
      mem.tail[p] = IF mem.head[p] = Null THEN HeadOf(p)
                    ELSE NextOf(Last(Contents(p)))

(* Every Buffer there is belongs to one list, which frees it in the end,    *)
(* and what an operation in progress reads is among them.                   *)
NothingLeaks ==
  /\ Heap(mem) = IF destroyed THEN {}
                 ELSE UNION {ToSet(Contents(l)) : l \in List}
  /\ ~destroyed =>
       \A k, l \in List :
         k # l => ToSet(Contents(k)) \cap ToSet(Contents(l)) = {}
  /\ \A i \in DOMAIN in_flight : ToSet(in_flight[i].bufs) \subseteq Heap(mem)
=============================================================================
