---------------------------- MODULE PacketBuffer ----------------------------
(***************************************************************************)
(* The packet ring of kernel/driver/net/support/packet_buffer.c: a driver  *)
(* pushes packets, a header in front of each, and a thread pops them, with *)
(* no lock between them.  The ring is an array of words; the length of a   *)
(* packet is in bytes and its last word may be partly used.  A step is     *)
(* what lies between two updates of an index.                              *)
(***************************************************************************)
EXTENDS Integers, SequencesExt

CONSTANTS RingWords,    \* npb->Size in words
          PacketLength, \* the lengths pushed, in bytes
          PacketIds     \* bound: how many packets are told apart

ASSUME RingAssumption == RingWords \in Nat /\ RingWords > 2 /\ PacketLength \subseteq Nat \ {0}

VARIABLES Ring,        \* word -> contents
          InputIndex, OutputIndex, \* in words
          rest,        \* the bytes net_packet_buffer_push has still to copy
          usage,       \* what net_packet_buffer_pop found, 0 outside
          Notify,      \* State of the event
          packets,     \* the packets pushed and not popped: <<number, length>>
          popped       \* the words of the last packet popped and of what was pushed

ringVars == <<Ring, InputIndex, OutputIndex, rest, usage, Notify, packets, popped>>

RingInit ==
  /\ Ring = [i \in 0..RingWords - 1 |-> [Length |-> 0]]
  /\ InputIndex = 0 /\ OutputIndex = 0
  /\ rest = 0 /\ usage = 0
  /\ Notify = FALSE
  /\ packets = <<>>
  /\ popped = [read |-> <<>>, pushed |-> <<>>]

WordsOf(bytes) == (bytes + 3) \div 4
_usage == (InputIndex - OutputIndex + RingWords) % RingWords

\* Faulty variant: no word is kept free.
net_packet_buffer_free_all == 4 * (RingWords - _usage)

net_packet_buffer_free == 4 * (RingWords - 1 - _usage)

\* What a packet looks like in the ring.
Words(p) == <<[Length |-> p[2]]>> \o [k \in 1..WordsOf(p[2]) |-> [Packet |-> p[1], Word |-> k]]
Newest == IF packets = <<>> THEN 0 ELSE Last(packets)[1]

\* net_packet_buffer_push, up to and with its header
net_packet_buffer_push(length) ==
  LET p == <<(Newest + 1) % PacketIds, length>> IN
  /\ rest = 0
  /\ net_packet_buffer_free >= length + 4
  /\ Ring' = [Ring EXCEPT ![InputIndex] = Head(Words(p))]
  /\ InputIndex' = (InputIndex + 1) % RingWords
  /\ rest' = length
  /\ packets' = Append(packets, p)
  /\ UNCHANGED <<OutputIndex, usage, Notify, popped>>

\* _push of the data, up to the end of the ring; the event after the last.
_push ==
  LET chunk == IF rest > 4 * (RingWords - InputIndex) THEN 4 * (RingWords - InputIndex) ELSE rest
      done == Last(packets)[2] - rest
  IN  /\ rest # 0
      /\ Ring' = [i \in 0..RingWords - 1 |->
                    IF i \in InputIndex..InputIndex + WordsOf(chunk) - 1
                    THEN Words(Last(packets))[2 + done \div 4 + i - InputIndex] ELSE Ring[i]]
      /\ InputIndex' = (InputIndex + WordsOf(chunk)) % RingWords
      /\ rest' = rest - chunk
      /\ Notify' = (Notify \/ rest = chunk)
      /\ UNCHANGED <<OutputIndex, usage, packets, popped>>

\* net_packet_buffer_pop finds a whole packet ...
LengthAt(i) == Ring[i].Length
net_packet_buffer_pop ==
  /\ usage = 0 /\ _usage >= 1
  /\ _usage * 4 >= 4 + LengthAt(OutputIndex)
  /\ usage' = _usage
  /\ UNCHANGED <<Ring, InputIndex, OutputIndex, rest, Notify, packets, popped>>

\* ... and copies it out, while the driver may push.
PopCopy ==
  LET n == 1 + WordsOf(LengthAt(OutputIndex)) IN
  /\ usage # 0
  /\ popped' = [read |-> [k \in 1..n |-> Ring[(OutputIndex + k - 1) % RingWords]],
                pushed |-> Words(Head(packets))]
  /\ OutputIndex' = (OutputIndex + n) % RingWords
  /\ usage' = 0
  /\ packets' = Tail(packets)
  /\ UNCHANGED <<Ring, InputIndex, rest, Notify>>

\* exos_event_wait on Notify
NotifyWait ==
  /\ Notify /\ Notify' = FALSE
  /\ UNCHANGED <<Ring, InputIndex, OutputIndex, rest, usage, packets, popped>>

RingNext ==
  \/ \E length \in PacketLength : net_packet_buffer_push(length)
  \/ _push \/ net_packet_buffer_pop \/ PopCopy \/ NotifyWait

RingSpec == RingInit /\ [][RingNext]_ringVars

----------------------------------------------------------------------------
(* Properties *)

\* A packet that is popped is the oldest one pushed, whole and unchanged,
\* although the driver may have pushed part of another one meanwhile; and the
\* ring never holds more than was pushed (the assertions of _push and of
\* net_packet_buffer_free).
PacketsWhole ==
  /\ popped.read = popped.pushed
  /\ _usage > 0 => packets # <<>>
  /\ net_packet_buffer_free >= 4 * WordsOf(rest)
=============================================================================
