----------------------------- MODULE TcpProofs -----------------------------
(***************************************************************************)
(* Proofs about a TCP connection between two ends that run this code, for  *)
(* any number of bytes, any buffer sizes and any number of segments in     *)
(* flight.                                                                 *)
(*                                                                         *)
(* An end whose connection is established counts what it has read by       *)
(* RcvNext and what the other may forget by SndSeq.  Two relations tie the *)
(* ends together: OfPeer, what an entry implies of the other end, and      *)
(* Says, what a segment implies of its sender as long as its receiver may  *)
(* still take it.  An end that is Late takes no data, which is why a       *)
(* segment of an earlier state of its sender does no harm.                 *)
(***************************************************************************)
EXTENDS Tcp, FiniteSetTheorems, TLAPS

\* The flags of a segment, the entries of io and the segments, with no bounds.
Flag == {"SYN", "ACK", "PSH", "FIN"}

Entry ==
  [State : TCP_STATE, RcvNext : Nat, SndSeq : Nat, SndFlags : SUBSET Flag, ServiceRetry : 0..3,
   OutputEvent : BOOLEAN, CloseEvent : BOOLEAN, linked : BOOLEAN,
   written : Nat, gone : Nat, got : Seq(Nat), unread : 0..RcvSize]

Packet == [to : End, seq : Nat, flags : SUBSET Flag, ack : Nat, data : Seq(Nat)]

Opening == {"SYN_SENT", "SYN_RECEIVED"}

\* A connection in entry c, its application at a, that will not be established again.
Past(a, c) == a # "idle" /\ c.State \notin Opening \cup {"ESTABLISHED"}
Late(e) == Past(app[e], io[e])

\* What an end knows of itself: its entry c, its application at a, and the
\* flags l that _write has read.
Own(e, c, a, l) ==
  /\ c.gone <= c.written /\ c.written <= MaxBytes[e]
  /\ a = "idle" => /\ c.State = "CLOSED" /\ c.written = 0 /\ c.gone = 0 /\ c.got = <<>>
                   /\ c.SndFlags = {} /\ l = {} /\ ~c.linked /\ ~c.OutputEvent
  /\ c.State \in Opening => /\ a = "opening" /\ ~c.OutputEvent /\ c.SndSeq = 0
                            /\ c.written = 0 /\ c.gone = 0 /\ c.got = <<>>
  /\ c.State = "SYN_SENT" => e = "A"
  /\ c.State = "SYN_RECEIVED" => e = "B" /\ c.RcvNext = 1
  /\ c.State = "ESTABLISHED" => c.RcvNext = Len(c.got) + 1 /\ c.SndSeq = c.gone + 1
  /\ c.State \in {"CLOSE_WAIT", "LAST_ACK", "FIN_WAIT_1"} => c.written = c.gone \/ c.SndSeq = c.gone + 1
  /\ c.State = "FIN_WAIT_2" => c.SndFlags = {}
  /\ c.State \in {"FIN_WAIT_1", "FIN_WAIT_2", "LAST_ACK", "CLOSING", "TIME_WAIT"} => a \in {"ended", "closing", "done"}
  /\ "SYN" \in c.SndFlags => /\ c.SndSeq = 0 /\ a \in {"opening", "failed", "ended", "closing", "done"}
                             /\ c.State \in Opening \/ (e = "A" /\ c.State = "CLOSED")
  /\ "SYN" \notin l
  /\ "FIN" \in c.SndFlags \cup l => Past(a, c)

\* What an end knows of its peer, from its entry c and the flags l.
OfPeer(e, c, l) ==
  /\ c.State \in {"CLOSE_WAIT", "LAST_ACK", "CLOSING", "TIME_WAIT"} => Late(Peer(e))
  /\ c.got = [i \in 1..Len(c.got) |-> i] /\ Len(c.got) <= io[Peer(e)].written
  /\ e = "A" /\ ~Late("B") /\ io["B"].written = 0 /\ "ACK" \in c.SndFlags \cup l => c.RcvNext = 1

\* What a segment in flight says, as long as its receiver may be established.
Says(s) ==
  /\ Len(s.data) <= io[Peer(s.to)].written
  /\ ~Late(s.to) =>
       \A i \in 1..Len(s.data) : s.data[i] + 1 = s.seq + i /\ s.data[i] <= io[Peer(s.to)].written
  /\ "FIN" \in s.flags => Late(Peer(s.to))
  /\ "SYN" \in s.flags => s.seq = 0
  /\ s.to = "B" /\ ~Late("B") /\ io["B"].written = 0 /\ "ACK" \in s.flags => s.ack = 1

NetBound ==
  /\ IsFiniteSet(net)
  /\ \A e \in End : Cardinality({s \in net : s.to = e}) <= InFlight[e]

TcpTypes ==
  /\ io \in [End -> Entry]
  /\ app \in [End -> Phase]
  /\ loaded \in [End -> SUBSET Flag]
  /\ net \subseteq Packet
  /\ pending \in 0..MaxPending

TcpInv ==
  /\ TcpTypes
  /\ NetBound
  /\ \A e \in End : Own(e, io[e], app[e], loaded[e]) /\ OfPeer(e, io[e], loaded[e])
  /\ \A s \in net : Says(s)

----------------------------------------------------------------------------
LEMMA NextByte ==
  ASSUME NEW g \in Nat, NEW w \in Nat, NEW i \in Nat, i <= w - g
  PROVE  (g + i) + 1 = (g + 1) + i /\ g + i <= w
OBVIOUS

LEMMA AndOne ==
  ASSUME NEW a \in Nat, NEW b \in Nat
  PROVE  a + b + 1 \in Nat /\ a + b + 0 \in Nat /\ a + b + 0 = a + b
OBVIOUS

LEMMA MinOfTwo ==
  ASSUME NEW a \in Nat, NEW b \in Nat
  PROVE  Min({a, b}) \in Nat /\ Min({a, b}) <= a /\ Min({a, b}) <= b
<1>1. \E x \in {a, b} : \A y \in {a, b} : x <= y
  OBVIOUS
<1>2. Min({a, b}) \in {a, b} /\ \A y \in {a, b} : Min({a, b}) <= y
  BY <1>1, Zenon DEF Min
<1> QED BY <1>2, Zenon

LEMMA PeerFacts ==
  \A e \in End : Peer(e) \in End /\ Peer(e) # e /\ Peer(Peer(e)) = e /\ (\A x \in End : x = e \/ x = Peer(e))
BY Zenon DEF Peer, End

\* What _send puts in flight is true, whatever state but CLOSED it is sent in.
LEMMA SegmentSays ==
  ASSUME TcpTypes, NEW e \in End, NEW d \in Entry, NEW a \in Phase, NEW l \in SUBSET Flag,
         Own(e, d, a, l), OfPeer(e, d, l), d.State # "CLOSED", d.SndFlags # {}
  PROVE  LET s == Segment(e, d) IN
         /\ s \in Packet /\ s.to = Peer(e) /\ Len(s.data) <= d.written
         /\ ~Late(Peer(e)) => \A i \in 1..Len(s.data) : s.data[i] + 1 = s.seq + i /\ s.data[i] <= d.written
         /\ "FIN" \in s.flags => Past(a, d)
         /\ "SYN" \in s.flags => s.seq = 0
         /\ e = "A" /\ ~Late("B") /\ io["B"].written = 0 /\ "ACK" \in s.flags => s.ack = 1
<1> DEFINE s == Segment(e, d)
<1>t. d.written \in Nat /\ d.gone \in Nat /\ d.SndSeq \in Nat /\ d.RcvNext \in Nat /\ d.SndFlags \subseteq Flag
      /\ d.State \in TCP_STATE /\ d.gone <= d.written
  BY Zenon DEF Entry, Own
<1>d. /\ s.to = Peer(e) /\ s.seq = d.SndSeq /\ s.flags = d.SndFlags
      /\ s.ack = IF "ACK" \in d.SndFlags THEN d.RcvNext ELSE 0
      /\ s.data = [i \in 1..(d.written - d.gone) |-> d.gone + i]
  BY Zenon DEF Segment
<1>n. d.written - d.gone \in Nat
  BY <1>t
<1>l. Len(s.data) = d.written - d.gone /\ s.data \in Seq(Nat)
  BY <1>d, <1>n, <1>t
<1>1. s \in Packet
  <2>1. /\ Peer(e) \in End /\ s.ack \in Nat
    BY <1>d, <1>t, PeerFacts
  <2>2. s = [to |-> s.to, seq |-> s.seq, flags |-> s.flags, ack |-> s.ack, data |-> s.data]
    BY Zenon DEF Segment
  <2> QED BY <2>1, <2>2, <1>d, <1>t, <1>l, Zenon DEF Packet
<1>2. ASSUME ~Late(Peer(e)), NEW i \in 1..Len(s.data)
      PROVE  s.data[i] + 1 = s.seq + i /\ s.data[i] <= d.written
  <2>1. d.written # d.gone
    BY <1>l, <1>t
  <2>2. d.State \notin Opening
    BY <2>1, Zenon DEF Own
  <2>3. d.State \notin {"CLOSING", "TIME_WAIT", "FIN_WAIT_2"}
    BY <1>2, Zenon DEF OfPeer, Own
  <2>4. d.SndSeq = d.gone + 1
    BY <2>1, <2>2, <2>3, <1>t, Zenon DEF Own, Opening, TCP_STATE
  <2>5. s.data[i] = d.gone + i
    BY <1>d, <1>l, Zenon
  <2>6. i \in Nat /\ i <= d.written - d.gone /\ s.seq = d.SndSeq
    BY <1>l, <1>n, <1>d
  <2>7. d.gone \in Nat /\ d.written \in Nat
    BY ONLY <1>t, Zenon
  <2>8. (d.gone + i) + 1 = (d.gone + 1) + i /\ d.gone + i <= d.written
    BY ONLY <2>6, <2>7, NextByte, Zenon
  <2> QED BY ONLY <2>4, <2>5, <2>6, <2>8, Zenon
<1>3. "FIN" \in s.flags => Past(a, d)
  BY <1>d, Zenon DEF Own
<1>4. "SYN" \in s.flags => s.seq = 0
  BY <1>d, Zenon DEF Own
<1>5. e = "A" /\ ~Late("B") /\ io["B"].written = 0 /\ "ACK" \in s.flags => s.ack = 1
  BY <1>d, Zenon DEF OfPeer
<1>7. Len(s.data) <= d.written
  BY ONLY <1>l, <1>t
<1> HIDE DEF s
<1>6. /\ s \in Packet /\ s.to = Peer(e) /\ Len(s.data) <= d.written
      /\ ~Late(Peer(e)) => \A i \in 1..Len(s.data) : s.data[i] + 1 = s.seq + i /\ s.data[i] <= d.written
      /\ "FIN" \in s.flags => Past(a, d)
      /\ "SYN" \in s.flags => s.seq = 0
      /\ e = "A" /\ ~Late("B") /\ io["B"].written = 0 /\ "ACK" \in s.flags => s.ack = 1
  BY ONLY <1>1, <1>2, <1>3, <1>4, <1>5, <1>7, <1>d, Zenon
<1> QED BY ONLY <1>6, Zenon DEF s

\* What the step of one end must leave true, the entry it leaves being d, its
\* application at a, and its loaded flags l.
Leaves(e, d, a, l) ==
  /\ d \in Entry /\ a \in Phase /\ l \in SUBSET Flag
  /\ Own(e, d, a, l) /\ OfPeer(e, d, l)
  /\ Late(e) => Past(a, d)
  /\ io[e].written <= d.written

\* Such a step keeps the invariant: neither what the peer knows nor what is in
\* flight is made false, and what the step sends is true.
LEMMA EndStep ==
  ASSUME TcpInv, NEW e \in End, NEW d, NEW a, NEW l, Leaves(e, d, a, l),
         io' = [io EXCEPT ![e] = d], app' = [app EXCEPT ![e] = a], loaded' = [loaded EXCEPT ![e] = l],
         \A s \in net' : s \in net \/ (d.State # "CLOSED" /\ d.SndFlags # {} /\ s = Segment(e, d)),
         NetBound', pending' \in 0..MaxPending
  PROVE  TcpInv'
<1> DEFINE p == Peer(e)
<1>t. TcpTypes /\ d \in Entry /\ a \in Phase /\ l \in SUBSET Flag
  BY Zenon DEF TcpInv, Leaves
<1>p. p \in End /\ p # e /\ Peer(p) = e /\ \A x \in End : x = e \/ x = p
  BY PeerFacts, Zenon
<1>e. io'[e] = d /\ app'[e] = a /\ loaded'[e] = l
  BY <1>t, Zenon DEF TcpTypes
<1>o. io'[p] = io[p] /\ app'[p] = app[p] /\ loaded'[p] = loaded[p]
  BY <1>t, <1>p, Zenon DEF TcpTypes
<1> HIDE DEF p
<1>L. (Late(p)' <=> Late(p)) /\ (Late(e)' <=> Past(a, d)) /\ (Late(e) => Late(e)')
  BY <1>e, <1>o, Zenon DEF Late, Past, Leaves
<1>w. /\ io[e].written \in Nat /\ d.written \in Nat /\ io[e].written <= d.written
      /\ io[p].written \in Nat
  BY <1>t, <1>p, Zenon DEF TcpTypes, Entry, Leaves
<1>s. ASSUME d.State # "CLOSED", d.SndFlags # {}, NEW s, s = Segment(e, d)
      PROVE  s \in Packet /\ Says(s)'
  <2>1. /\ s \in Packet /\ s.to = p /\ Len(s.data) <= d.written
        /\ ~Late(p) => \A i \in 1..Len(s.data) : s.data[i] + 1 = s.seq + i /\ s.data[i] <= d.written
        /\ "FIN" \in s.flags => Past(a, d)
        /\ "SYN" \in s.flags => s.seq = 0
        /\ e = "A" /\ ~Late("B") /\ io["B"].written = 0 /\ "ACK" \in s.flags => s.ack = 1
    <3>1. Own(e, d, a, l) /\ OfPeer(e, d, l)
      BY Zenon DEF Leaves
    <3> QED BY ONLY <3>1, <1>t, <1>s, SegmentSays, e \in End, Zenon DEF p
  <2>2. /\ Len(s.data) <= io'[e].written
        /\ ~Late(p)' => \A i \in 1..Len(s.data) : s.data[i] + 1 = s.seq + i /\ s.data[i] <= io'[e].written
        /\ "FIN" \in s.flags => Late(e)'
        /\ "SYN" \in s.flags => s.seq = 0
    BY ONLY <2>1, <1>L, <1>e, Zenon
  <2>3. s.to = "B" /\ ~Late("B")' /\ io'["B"].written = 0 /\ "ACK" \in s.flags => s.ack = 1
    <3>1. p = "B" => e = "A"
      BY <1>p, Zenon DEF End
    <3> QED BY ONLY <3>1, <2>1, <1>L, <1>o, Zenon
  <2> QED BY ONLY <2>1, <2>2, <2>3, <1>p, Zenon DEF Says
<1>1. TcpTypes'
  <2>1. io' \in [End -> Entry] /\ app' \in [End -> Phase] /\ loaded' \in [End -> SUBSET Flag]
    BY <1>t, Zenon DEF TcpTypes
  <2>2. net' \subseteq Packet
    BY <1>s, <1>t, Zenon DEF TcpTypes
  <2> QED BY <2>1, <2>2, Zenon DEF TcpTypes
<1>2. Own(e, d, a, l) /\ OfPeer(e, d, l)'
  <2>1. Own(e, d, a, l) /\ OfPeer(e, d, l)
    BY Zenon DEF Leaves
  <2>2. /\ d.State \in {"CLOSE_WAIT", "LAST_ACK", "CLOSING", "TIME_WAIT"} => Late(p)'
        /\ d.got = [i \in 1..Len(d.got) |-> i] /\ Len(d.got) <= io'[p].written
    BY ONLY <2>1, <1>L, <1>o, Zenon DEF OfPeer, p
  <2>3. e = "A" /\ ~Late("B")' /\ io'["B"].written = 0 /\ "ACK" \in d.SndFlags \cup l => d.RcvNext = 1
    <3>1. e = "A" => p = "B"
      BY Zenon DEF p, Peer
    <3> QED BY ONLY <3>1, <2>1, <1>L, <1>o, Zenon DEF OfPeer
  <2> QED BY ONLY <2>1, <2>2, <2>3, Zenon DEF OfPeer, p
<1>3. Own(p, io[p], app[p], loaded[p]) /\ OfPeer(p, io[p], loaded[p])'
  <2>1. Own(p, io[p], app[p], loaded[p]) /\ OfPeer(p, io[p], loaded[p])
    BY <1>p, Zenon DEF TcpInv
  <2>2. p = "A" => e = "B"
    BY <1>p, Zenon DEF End
  <2>3. Len(io[p].got) <= io[e].written => Len(io[p].got) <= d.written
    <3>1. Len(io[p].got) \in Nat
      <4>1. io[p] \in Entry
        BY <1>t, <1>p, Zenon DEF TcpTypes
      <4>2. io[p].got \in Seq(Nat)
        BY <4>1, Zenon DEF Entry
      <4> QED BY ONLY <4>2
    <3> QED BY ONLY <3>1, <1>w
  <2>4. d.written = 0 => io[e].written = 0
    BY ONLY <1>w
  <2>5. Peer(p) = e
    BY <1>p, Zenon
  <2>6. /\ io[p].State \in {"CLOSE_WAIT", "LAST_ACK", "CLOSING", "TIME_WAIT"} => Late(e)'
        /\ io[p].got = [i \in 1..Len(io[p].got) |-> i] /\ Len(io[p].got) <= io'[e].written
        /\ p = "A" /\ ~Late("B")' /\ io'["B"].written = 0 /\ "ACK" \in io[p].SndFlags \cup loaded[p]
             => io[p].RcvNext = 1
    BY ONLY <2>1, <2>2, <2>3, <2>4, <2>5, <1>L, <1>e, Zenon DEF OfPeer
  <2> QED BY ONLY <2>1, <2>5, <2>6, <1>o, Zenon DEF OfPeer
<1>4. \A x \in End : Own(x, io'[x], app'[x], loaded'[x]) /\ OfPeer(x, io[x], loaded[x])'
  <2>1. OfPeer(e, io[e], loaded[e])'
    BY ONLY <1>2, <1>e, Zenon DEF OfPeer
  <2>2. OfPeer(p, io[p], loaded[p])'
    BY ONLY <1>3, <1>o, Zenon DEF OfPeer
  <2> QED BY ONLY <2>1, <2>2, <1>2, <1>3, <1>e, <1>o, <1>p, Zenon
<1>5. ASSUME NEW s \in net'
      PROVE  Says(s)'
  <2>1. CASE s \notin net
    BY <2>1, <1>5, <1>s, Zenon
  <2>2. CASE s \in net
    <3>1. Says(s) /\ s \in Packet
      BY <2>2, <1>t, Zenon DEF TcpInv, TcpTypes
    <3>2. s.to \in End /\ Len(s.data) \in Nat /\ \A i \in 1..Len(s.data) : s.data[i] \in Nat
      BY <3>1 DEF Packet
    <3>3. CASE s.to = e
      <4>1. Peer(s.to) = p
        BY <3>3, Zenon DEF p
      <4>2. s.to = "B" => e = "B"
        BY <3>3, Zenon
      <4>3. d.written = 0 => io[e].written = 0
        BY ONLY <1>w
      <4> QED BY ONLY <4>1, <4>2, <4>3, <3>1, <3>3, <1>L, <1>e, <1>o, Zenon DEF Says
    <3>4. CASE s.to = p
      <4>1. Peer(s.to) = e
        BY <3>4, <1>p, Zenon
      <4>2. s.to = "B" => p = "B"
        BY <3>4, Zenon
      <4>3. /\ Len(s.data) <= io[e].written => Len(s.data) <= d.written
            /\ \A i \in 1..Len(s.data) : s.data[i] <= io[e].written => s.data[i] <= d.written
        BY ONLY <3>2, <1>w
      <4> QED BY ONLY <4>1, <4>2, <4>3, <3>1, <3>4, <1>L, <1>e, <1>o, Zenon DEF Says
    <3> QED BY <3>2, <3>3, <3>4, <1>p, Zenon
  <2> QED BY <2>1, <2>2, Zenon
<1> QED BY <1>1, <1>4, <1>5, Zenon DEF TcpInv

----------------------------------------------------------------------------
(* The network *)

LEMMA FewerInFlight ==
  ASSUME NetBound, TcpAssumption, net' \subseteq net
  PROVE  NetBound'
<1>1. IsFiniteSet(net')
  BY FS_Subset, Zenon DEF NetBound
<1>2. ASSUME NEW e \in End
      PROVE  Cardinality({s \in net' : s.to = e}) <= InFlight[e]
  <2> DEFINE X == {s \in net : s.to = e}
             Y == {s \in net' : s.to = e}
  <2>1. IsFiniteSet(X) /\ Y \subseteq X
    BY FS_Subset, Zenon DEF NetBound
  <2>2. IsFiniteSet(Y) /\ Cardinality(Y) <= Cardinality(X)
    BY <2>1, FS_Subset, Zenon
  <2>3. Cardinality(X) \in Nat /\ Cardinality(Y) \in Nat
    BY <2>1, <2>2, FS_CardinalityType, Zenon
  <2>4. Cardinality(X) <= InFlight[e] /\ InFlight[e] \in Nat
    BY Zenon DEF NetBound, TcpAssumption, End
  <2> HIDE DEF X, Y
  <2>5. Cardinality(Y) <= InFlight[e]
    BY ONLY <2>2, <2>3, <2>4
  <2> QED BY <2>5, Zenon DEF Y
<1> QED BY <1>1, <1>2, Zenon DEF NetBound

LEMMA OneMoreInFlight ==
  ASSUME NetBound, TcpAssumption, NEW s, s.to \in End, net' = Sent(s)
  PROVE  NetBound'
<1>1. CASE net' = net
  BY <1>1, Zenon DEF NetBound
<1>2. CASE Cardinality({x \in net : x.to = s.to}) < InFlight[s.to] /\ net' = net \cup {s}
  <2>1. IsFiniteSet(net')
    BY <1>2, FS_AddElement DEF NetBound
  <2>2. ASSUME NEW e \in End
        PROVE  Cardinality({x \in net' : x.to = e}) <= InFlight[e]
    <3> DEFINE X == {x \in net : x.to = e}
               Y == {x \in net' : x.to = e}
    <3>1. IsFiniteSet(X) /\ Cardinality(X) <= InFlight[e] /\ InFlight[e] \in Nat
      BY FS_Subset, Zenon DEF NetBound, TcpAssumption, End
    <3>2. CASE s.to # e
      <4>1. Y = X
        BY <3>2, <1>2, Zenon
      <4> QED BY <4>1, <3>1, Zenon
    <3>3. CASE s.to = e
      <4>1. Y = X \cup {s} /\ Cardinality(X) < InFlight[e]
        BY <3>3, <1>2, Zenon
      <4>2. Cardinality(X \cup {s}) = Cardinality(X) \/ Cardinality(X \cup {s}) = Cardinality(X) + 1
        BY <3>1, FS_AddElement, Zenon
      <4>3. Cardinality(X) \in Nat
        BY <3>1, FS_CardinalityType, Zenon
      <4> HIDE DEF X, Y
      <4>4. Cardinality(Y) <= InFlight[e]
        BY ONLY <4>1, <4>2, <4>3, <3>1
      <4> QED BY <4>4, Zenon DEF Y
    <3> QED BY <3>2, <3>3, Zenon
  <2> QED BY <2>1, <2>2, Zenon DEF NetBound
<1> QED BY <1>1, <1>2, Zenon DEF Sent

\* The invariant at one end.
LEMMA Here ==
  ASSUME TcpInv, NEW e \in End
  PROVE  /\ Leaves(e, io[e], app[e], loaded[e])
         /\ io[e] \in Entry /\ app[e] \in Phase /\ loaded[e] \in SUBSET Flag
         /\ io = [io EXCEPT ![e] = io[e]] /\ app = [app EXCEPT ![e] = app[e]]
         /\ loaded = [loaded EXCEPT ![e] = loaded[e]]
         /\ NetBound /\ pending \in 0..MaxPending
<1>1. io[e] \in Entry /\ app[e] \in Phase /\ loaded[e] \in SUBSET Flag
  BY Zenon DEF TcpInv, TcpTypes
<1>2. /\ io = [io EXCEPT ![e] = io[e]] /\ app = [app EXCEPT ![e] = app[e]]
      /\ loaded = [loaded EXCEPT ![e] = loaded[e]]
  BY Zenon DEF TcpInv, TcpTypes
<1>3. Own(e, io[e], app[e], loaded[e]) /\ OfPeer(e, io[e], loaded[e])
  BY Zenon DEF TcpInv
<1>4. io[e].written <= io[e].written
  BY <1>1 DEF Entry
<1>5. NetBound /\ pending \in 0..MaxPending
  BY Zenon DEF TcpInv, TcpTypes
<1> QED BY <1>1, <1>2, <1>3, <1>4, <1>5, Zenon DEF Leaves, Late

\* The types of an entry, field by field.
LEMMA Fields ==
  ASSUME NEW c \in Entry
  PROVE  /\ c.State \in TCP_STATE /\ c.RcvNext \in Nat /\ c.SndSeq \in Nat /\ c.SndFlags \in SUBSET Flag
         /\ c.ServiceRetry \in 0..3 /\ c.written \in Nat /\ c.gone \in Nat /\ c.got \in Seq(Nat)
         /\ c.unread \in 0..RcvSize /\ Len(c.got) \in Nat
         /\ c.OutputEvent \in BOOLEAN /\ c.CloseEvent \in BOOLEAN /\ c.linked \in BOOLEAN
<1>1. /\ c.State \in TCP_STATE /\ c.RcvNext \in Nat /\ c.SndSeq \in Nat /\ c.SndFlags \in SUBSET Flag
      /\ c.ServiceRetry \in 0..3 /\ c.written \in Nat /\ c.gone \in Nat /\ c.got \in Seq(Nat)
      /\ c.unread \in 0..RcvSize
      /\ c.OutputEvent \in BOOLEAN /\ c.CloseEvent \in BOOLEAN /\ c.linked \in BOOLEAN
  BY Zenon DEF Entry
<1>2. Len(c.got) \in Nat
  BY ONLY <1>1
<1> QED BY <1>1, <1>2, Zenon

\* net_tcp_service changes ServiceRetry alone.
LEMMA Serviced ==
  ASSUME NEW c \in Entry
  PROVE  LET d == net_tcp_service(c) IN
         /\ d \in Entry
         /\ d.State = c.State /\ d.RcvNext = c.RcvNext /\ d.SndSeq = c.SndSeq /\ d.SndFlags = c.SndFlags
         /\ d.OutputEvent = c.OutputEvent /\ d.linked = c.linked /\ d.written = c.written
         /\ d.gone = c.gone /\ d.got = c.got
<1>1. [c EXCEPT !.ServiceRetry = 0] \in Entry
  BY SMTT(40) DEF Entry
<1>2. LET d == [c EXCEPT !.ServiceRetry = 0] IN
      /\ d.State = c.State /\ d.RcvNext = c.RcvNext /\ d.SndSeq = c.SndSeq /\ d.SndFlags = c.SndFlags
      /\ d.OutputEvent = c.OutputEvent /\ d.linked = c.linked /\ d.written = c.written
      /\ d.gone = c.gone /\ d.got = c.got
  BY Zenon DEF Entry
<1> QED BY ONLY <1>1, <1>2, Zenon DEF net_tcp_service

----------------------------------------------------------------------------
(* The applications *)

LEMMA ConnectKeeps ==
  ASSUME TcpInv, TcpAssumption, net_tcp_connect
  PROVE  TcpInv'
<1>e. "A" \in End
  BY Zenon DEF End
<1> PICK c : c = io["A"]
  BY Zenon
<1> DEFINE d == net_tcp_service(_bind([c EXCEPT !.RcvNext = 0, !.SndSeq = 0, !.SndFlags = {"SYN"}], "SYN_SENT"))
<1>1. Leaves("A", c, "idle", loaded["A"]) /\ c \in Entry /\ loaded["A"] \in SUBSET Flag
  BY Here, <1>e, Zenon DEF net_tcp_connect
<1>2. d \in Entry
  <2>1. {"SYN"} \in SUBSET Flag /\ "SYN_SENT" \in TCP_STATE /\ 0 \in Nat
    BY Zenon DEF Flag, TCP_STATE
  <2> DEFINE b == [c EXCEPT !.RcvNext = 0, !.SndSeq = 0, !.SndFlags = {"SYN"}]
  <2>2. b \in Entry
    BY <1>1, <2>1, Zenon DEF Entry
  <2> HIDE DEF b
  <2>3. _bind(b, "SYN_SENT") \in Entry
    BY <2>1, <2>2, Zenon DEF Entry, _bind
  <2> QED BY ONLY <2>3, Serviced, Zenon DEF b
<1>3. /\ d.State = "SYN_SENT" /\ d.SndSeq = 0 /\ d.SndFlags = {"SYN"} /\ d.written = c.written
      /\ d.gone = c.gone /\ d.got = c.got /\ d.OutputEvent = c.OutputEvent
  BY <1>1, Zenon DEF Entry, net_tcp_service, _bind
<1>4. io' = [io EXCEPT !["A"] = d]
  BY Zenon DEF net_tcp_connect
<1> HIDE DEF d
<1>5. Own("A", d, "opening", loaded["A"])
  BY <1>1, <1>3, Zenon DEF Own, Leaves, Opening
<1>6. OfPeer("A", d, loaded["A"])
  BY <1>1, <1>3, Zenon DEF Own, Leaves, OfPeer
<1>7. Leaves("A", d, "opening", loaded["A"])
  <2>1. ~Late("A")
    BY Zenon DEF Late, Past, net_tcp_connect
  <2>2. io["A"].written <= d.written
    BY <1>1, <1>3, Zenon DEF Leaves
  <2> QED BY <1>1, <1>2, <1>5, <1>6, <2>1, <2>2, Zenon DEF Leaves, Phase
<1>8. app' = [app EXCEPT !["A"] = "opening"] /\ loaded' = [loaded EXCEPT !["A"] = loaded["A"]]
      /\ net' = net /\ pending' \in 0..MaxPending /\ NetBound'
  BY Here, <1>e, Zenon DEF net_tcp_connect, NetBound
<1> QED BY <1>e, <1>4, <1>7, <1>8, EndStep, ZenonT(30)

LEMMA AcceptKeeps ==
  ASSUME TcpInv, TcpAssumption, net_tcp_accept
  PROVE  TcpInv'
<1>e. "B" \in End
  BY Zenon DEF End
<1> PICK c : c = io["B"]
  BY Zenon
<1> DEFINE d == net_tcp_service(_bind([c EXCEPT !.RcvNext = 1, !.SndSeq = 0, !.SndFlags = {"SYN", "ACK"}],
                                      "SYN_RECEIVED"))
<1>1. Leaves("B", c, "idle", loaded["B"]) /\ c \in Entry /\ loaded["B"] \in SUBSET Flag
  BY Here, <1>e, Zenon DEF net_tcp_accept
<1>2. d \in Entry
  <2>1. {"SYN", "ACK"} \in SUBSET Flag /\ "SYN_RECEIVED" \in TCP_STATE /\ 1 \in Nat
    BY Zenon DEF Flag, TCP_STATE
  <2> DEFINE b == [c EXCEPT !.RcvNext = 1, !.SndSeq = 0, !.SndFlags = {"SYN", "ACK"}]
  <2>2. b \in Entry
    BY <1>1, <2>1, Zenon DEF Entry
  <2> HIDE DEF b
  <2>3. _bind(b, "SYN_RECEIVED") \in Entry
    BY <2>1, <2>2, Zenon DEF Entry, _bind
  <2> QED BY ONLY <2>3, Serviced, Zenon DEF b
<1>3. /\ d.State = "SYN_RECEIVED" /\ d.SndSeq = 0 /\ d.SndFlags = {"SYN", "ACK"} /\ d.written = c.written
      /\ d.gone = c.gone /\ d.got = c.got /\ d.OutputEvent = c.OutputEvent /\ d.RcvNext = 1
  BY <1>1, Zenon DEF Entry, net_tcp_service, _bind
<1>4. io' = [io EXCEPT !["B"] = d]
  BY Zenon DEF net_tcp_accept
<1> HIDE DEF d
<1>5. Own("B", d, "opening", loaded["B"])
  BY <1>1, <1>3, Zenon DEF Own, Leaves, Opening
<1>6. OfPeer("B", d, loaded["B"])
  BY <1>1, <1>3, Zenon DEF Own, Leaves, OfPeer
<1>7. Leaves("B", d, "opening", loaded["B"])
  <2>1. ~Late("B")
    BY Zenon DEF Late, Past, net_tcp_accept
  <2>2. io["B"].written <= d.written
    BY <1>1, <1>3, Zenon DEF Leaves
  <2> QED BY <1>1, <1>2, <1>5, <1>6, <2>1, <2>2, Zenon DEF Leaves, Phase
<1>8. app' = [app EXCEPT !["B"] = "opening"] /\ loaded' = [loaded EXCEPT !["B"] = loaded["B"]]
      /\ net' = net /\ NetBound'
  BY Here, <1>e, Zenon DEF net_tcp_accept, NetBound
<1>9. pending' \in 0..MaxPending
  <2>1. pending \in 0..MaxPending /\ MaxPending \in Nat
    BY Zenon DEF TcpInv, TcpTypes, TcpAssumption
  <2> QED BY <2>1 DEF net_tcp_accept
<1> QED BY <1>e, <1>4, <1>7, <1>8, <1>9, EndStep, ZenonT(30)

\* No entry that has been established and no listener's has SYN among its flags.
LEMMA OpenedKeeps ==
  ASSUME TcpInv, TcpAssumption, NEW e \in End, Opened(e)
  PROVE  TcpInv'
<1> PICK c : c = io[e]
  BY Zenon
<1> PICK l : l = loaded[e]
  BY Zenon
<1>1. Leaves(e, c, "opening", l) /\ c \in Entry /\ l \in SUBSET Flag /\ c.OutputEvent
  BY Here, Zenon DEF Opened
<1>f. c.written \in Nat /\ c.gone \in Nat /\ c.gone <= c.written
  BY <1>1, Zenon DEF Leaves, Own, Entry
<1>s. c.State \notin Opening \cup {"FIN_WAIT_1", "FIN_WAIT_2", "LAST_ACK", "CLOSING", "TIME_WAIT"}
  BY <1>1, Zenon DEF Leaves, Own
<1>8. loaded' = [loaded EXCEPT ![e] = l] /\ net' = net /\ pending' \in 0..MaxPending /\ NetBound'
  BY Here, Zenon DEF Opened, NetBound
<1>2. CASE e = "B" \/ c.State = "ESTABLISHED"
  <2> DEFINE d == [c EXCEPT !.OutputEvent = FALSE]
  <2>1. d \in Entry
    BY <1>1, Zenon DEF Entry
  <2>2. /\ d.State = c.State /\ d.RcvNext = c.RcvNext /\ d.SndSeq = c.SndSeq /\ d.SndFlags = c.SndFlags
        /\ d.written = c.written /\ d.gone = c.gone /\ d.got = c.got
    BY <1>1, Zenon DEF Entry
  <2>3. io' = [io EXCEPT ![e] = d] /\ app' = [app EXCEPT ![e] = "open"]
    BY <1>2, Zenon DEF Opened
  <2> HIDE DEF d
  <2>n. "SYN" \notin c.SndFlags
    <3>1. c.State # "ESTABLISHED" => e # "A"
      BY <1>2, Zenon
    <3> QED BY <3>1, <1>1, <1>s, Zenon DEF Leaves, Own, Opening
  <2>4. Own(e, d, "open", l)
    BY <1>1, <1>s, <2>2, <2>n, Zenon DEF Leaves, Own, Past
  <2>5. OfPeer(e, d, l)
    BY <1>1, <2>2, Zenon DEF Leaves, OfPeer
  <2>6. Leaves(e, d, "open", l)
    BY <1>1, <2>1, <2>2, <2>4, <2>5, Zenon DEF Leaves, Phase, Past, Late
  <2> QED BY <1>8, <2>3, <2>6, EndStep, ZenonT(30)
<1>3. CASE ~(e = "B" \/ c.State = "ESTABLISHED")
  <2> DEFINE d == [c EXCEPT !.OutputEvent = FALSE, !.CloseEvent = TRUE, !.gone = c.written, !.unread = 0]
  <2>1. d \in Entry
    <3>1. 0 \in 0..RcvSize
      BY DEF TcpAssumption
    <3> QED BY <1>1, <1>f, <3>1, Zenon DEF Entry
  <2>2. /\ d.State = c.State /\ d.RcvNext = c.RcvNext /\ d.SndSeq = c.SndSeq /\ d.SndFlags = c.SndFlags
        /\ d.written = c.written /\ d.gone = c.written /\ d.got = c.got
    BY <1>1, Zenon DEF Entry
  <2>3. io' = [io EXCEPT ![e] = d] /\ app' = [app EXCEPT ![e] = "failed"]
    BY <1>3, Zenon DEF Opened
  <2> HIDE DEF d
  <2>4. Own(e, d, "failed", l)
    BY <1>1, <1>3, <1>f, <1>s, <2>2, Zenon DEF Leaves, Own, Past
  <2>5. OfPeer(e, d, l)
    BY <1>1, <2>2, Zenon DEF Leaves, OfPeer
  <2>6. Leaves(e, d, "failed", l)
    BY <1>1, <2>1, <2>2, <2>4, <2>5, Zenon DEF Leaves, Phase, Past, Late
  <2> QED BY <1>8, <2>3, <2>6, EndStep, ZenonT(30)
<1> QED BY <1>2, <1>3, Zenon

\* A byte more to send leaves the number of the first one alone.
LEMMA WriteKeeps ==
  ASSUME TcpInv, TcpAssumption, NEW e \in End, _write(e)
  PROVE  TcpInv'
<1> PICK c : c = io[e]
  BY Zenon
<1> PICK l : l = loaded[e]
  BY Zenon
<1> PICK w : w = IF c.State = "ESTABLISHED" THEN c.written + 1 ELSE c.written
  BY Zenon
<1> DEFINE d == [c EXCEPT !.written = w]
<1>1. Leaves(e, c, "open", l) /\ c \in Entry /\ l \in SUBSET Flag
  BY Here, Zenon DEF _write
<1>f. c.written \in Nat /\ c.gone \in Nat /\ c.gone <= c.written /\ MaxBytes[e] \in Nat /\ c.written < MaxBytes[e]
  BY <1>1, Zenon DEF Leaves, Own, Entry, _write, TcpAssumption, End
<1>w. w \in Nat /\ c.written <= w /\ c.gone <= w /\ w <= MaxBytes[e] /\ (c.State # "ESTABLISHED" => w = c.written)
  BY <1>f
<1>2. d \in Entry
  BY <1>1, <1>w, Zenon DEF Entry
<1>3. /\ d.State = c.State /\ d.RcvNext = c.RcvNext /\ d.SndSeq = c.SndSeq /\ d.SndFlags = c.SndFlags
      /\ d.written = w /\ d.gone = c.gone /\ d.got = c.got /\ d.OutputEvent = c.OutputEvent
  BY <1>1, Zenon DEF Entry
<1>4. io' = [io EXCEPT ![e] = d] /\ app' = [app EXCEPT ![e] = "wrote"]
  BY <1>1, <1>w, Zenon DEF _write
<1>8. loaded' = [loaded EXCEPT ![e] = l] /\ net' = net /\ pending' \in 0..MaxPending /\ NetBound'
  BY Here, Zenon DEF _write, NetBound
<1> HIDE DEF d
<1>5. Own(e, d, "wrote", l)
  BY <1>1, <1>3, <1>w, Zenon DEF Leaves, Own, Past, Opening
<1>6. OfPeer(e, d, l)
  BY <1>1, <1>3, Zenon DEF Leaves, OfPeer
<1>7. Leaves(e, d, "wrote", l)
  BY <1>1, <1>2, <1>3, <1>w, <1>5, <1>6, Zenon DEF Leaves, Phase, Past, Late
<1> QED BY <1>4, <1>7, <1>8, EndStep, ZenonT(30)

\* An application that writes is past its opening and before its close.
LEMMA LoadKeeps ==
  ASSUME TcpInv, TcpAssumption, NEW e \in End, LoadFlags(e)
  PROVE  TcpInv'
<1> PICK c : c = io[e]
  BY Zenon
<1> PICK l : l = loaded[e]
  BY Zenon
<1>1. Leaves(e, c, "wrote", l) /\ c \in Entry /\ l \in SUBSET Flag /\ c.SndFlags \in SUBSET Flag
  BY Here, Fields, Zenon DEF LoadFlags
<1>4. /\ io' = [io EXCEPT ![e] = c] /\ app' = [app EXCEPT ![e] = "storing"]
      /\ loaded' = [loaded EXCEPT ![e] = c.SndFlags]
      /\ net' = net /\ pending' \in 0..MaxPending /\ NetBound'
  BY Here, Zenon DEF LoadFlags, NetBound
<1>5. Own(e, c, "storing", c.SndFlags)
  BY <1>1, Zenon DEF Leaves, Own, Past
<1>6. OfPeer(e, c, c.SndFlags)
  BY <1>1, Zenon DEF Leaves, OfPeer
<1>7. Leaves(e, c, "storing", c.SndFlags)
  BY <1>1, <1>5, <1>6, Zenon DEF Leaves, Phase, Past, Late
<1> QED BY <1>4, <1>7, EndStep, ZenonT(30)

\* Flags that are stored late still have neither SYN, nor FIN unless the end is past.
LEMMA StoreKeeps ==
  ASSUME TcpInv, TcpAssumption, NEW e \in End, StoreFlags(e)
  PROVE  TcpInv'
<1> PICK c : c = io[e]
  BY Zenon
<1> PICK l : l = loaded[e]
  BY Zenon
<1> DEFINE b == [c EXCEPT !.SndFlags = l \cup {"PSH"}]
           d == net_tcp_service(b)
<1>1. Leaves(e, c, "storing", l) /\ c \in Entry /\ l \in SUBSET Flag
  BY Here, Zenon DEF StoreFlags
<1>b. b \in Entry
  <2>1. l \cup {"PSH"} \in SUBSET Flag
    BY <1>1, Zenon DEF Flag
  <2> QED BY <1>1, <2>1, Zenon DEF Entry
<1>3. /\ b.State = c.State /\ b.RcvNext = c.RcvNext /\ b.SndSeq = c.SndSeq /\ b.SndFlags = l \cup {"PSH"}
      /\ b.written = c.written /\ b.gone = c.gone /\ b.got = c.got /\ b.OutputEvent = c.OutputEvent
  BY <1>1, Zenon DEF Entry
<1>4. io' = [io EXCEPT ![e] = d] /\ app' = [app EXCEPT ![e] = "open"]
  BY <1>1, Zenon DEF StoreFlags
<1>8. loaded' = [loaded EXCEPT ![e] = {}] /\ net' = net /\ pending' \in 0..MaxPending /\ NetBound'
  BY Here, Zenon DEF StoreFlags, NetBound
<1> HIDE DEF b
<1>2. /\ d \in Entry
      /\ d.State = b.State /\ d.RcvNext = b.RcvNext /\ d.SndSeq = b.SndSeq /\ d.SndFlags = b.SndFlags
      /\ d.written = b.written /\ d.gone = b.gone /\ d.got = b.got /\ d.OutputEvent = b.OutputEvent
  BY <1>b, Serviced, Zenon
<1> HIDE DEF d
<1>5. Own(e, d, "open", {})
  BY <1>1, <1>2, <1>3 DEF Leaves, Own, Past
<1>6. OfPeer(e, d, {})
  BY <1>1, <1>2, <1>3 DEF Leaves, OfPeer
<1>7. Leaves(e, d, "open", {})
  BY <1>1, <1>2, <1>3, <1>5, <1>6, Zenon DEF Leaves, Phase, Past, Late
<1> QED BY <1>4, <1>7, <1>8, EndStep, ZenonT(30)

LEMMA ReadKeeps ==
  ASSUME TcpInv, TcpAssumption, NEW e \in End, _read(e)
  PROVE  TcpInv'
<1> PICK c : c = io[e]
  BY Zenon
<1> PICK a : a = app[e]
  BY Zenon
<1> PICK l : l = loaded[e]
  BY Zenon
<1> DEFINE d == [c EXCEPT !.unread = 0]
<1>1. Leaves(e, c, a, l) /\ c \in Entry
  BY Here, Zenon
<1>2. d \in Entry
  <2>1. 0 \in 0..RcvSize
    BY DEF TcpAssumption
  <2> QED BY <1>1, <2>1, Zenon DEF Entry
<1>3. /\ d.State = c.State /\ d.RcvNext = c.RcvNext /\ d.SndSeq = c.SndSeq /\ d.SndFlags = c.SndFlags
      /\ d.written = c.written /\ d.gone = c.gone /\ d.got = c.got /\ d.OutputEvent = c.OutputEvent
      /\ d.linked = c.linked
  BY <1>1, Zenon DEF Entry
<1>4. /\ io' = [io EXCEPT ![e] = d] /\ app' = [app EXCEPT ![e] = a]
      /\ loaded' = [loaded EXCEPT ![e] = l] /\ net' = net /\ pending' \in 0..MaxPending /\ NetBound'
  BY Here, Zenon DEF _read, NetBound
<1> HIDE DEF d
<1>5. Own(e, d, a, l)
  BY <1>1, <1>3 DEF Leaves, Own, Past
<1>6. OfPeer(e, d, l)
  BY <1>1, <1>3, Zenon DEF Leaves, OfPeer
<1>7. Leaves(e, d, a, l)
  BY <1>1, <1>2, <1>3, <1>5, <1>6, Zenon DEF Leaves, Past, Late
<1> QED BY <1>4, <1>7, EndStep, ZenonT(30)

LEMMA CloseReturnsKeeps ==
  ASSUME TcpInv, TcpAssumption, NEW e \in End, CloseReturns(e)
  PROVE  TcpInv'
<1> PICK c : c = io[e]
  BY Zenon
<1> PICK l : l = loaded[e]
  BY Zenon
<1>1. Leaves(e, c, "closing", l) /\ c \in Entry
  BY Here, Zenon DEF CloseReturns
<1>4. /\ io' = [io EXCEPT ![e] = c] /\ app' = [app EXCEPT ![e] = "done"]
      /\ loaded' = [loaded EXCEPT ![e] = l] /\ net' = net /\ pending' \in 0..MaxPending /\ NetBound'
  BY Here, Zenon DEF CloseReturns, NetBound
<1>5. Own(e, c, "done", l)
  BY <1>1, Zenon DEF Leaves, Own, Past
<1>7. Leaves(e, c, "done", l)
  BY <1>1, <1>5, Zenon DEF Leaves, Phase, Past, Late
<1> QED BY <1>4, <1>7, EndStep, ZenonT(30)

\* A close comes after the opening: an end that has its FIN to send is past.
LEMMA CloseKeeps ==
  ASSUME TcpInv, TcpAssumption, NEW e \in End, net_tcp_close(e)
  PROVE  TcpInv'
<1> PICK c : c = io[e]
  BY Zenon
<1> PICK a : a = app[e]
  BY Zenon
<1> PICK l : l = loaded[e]
  BY Zenon
<1>1. Leaves(e, c, a, l) /\ c \in Entry /\ a \in {"open", "failed"}
  BY Here, Zenon DEF net_tcp_close
<1>s. c.State \notin Opening \cup {"FIN_WAIT_1", "FIN_WAIT_2", "LAST_ACK", "CLOSING", "TIME_WAIT"}
  BY <1>1, Zenon DEF Leaves, Own
<1>4. /\ loaded' = [loaded EXCEPT ![e] = l] /\ net' = net /\ pending' \in 0..MaxPending /\ NetBound'
  BY Here, Zenon DEF net_tcp_close, NetBound
<1>2. CASE c.State = "CLOSED"
  <2>1. io' = [io EXCEPT ![e] = c] /\ app' = [app EXCEPT ![e] = "closing"]
    BY <1>2, Zenon DEF net_tcp_close
  <2>2. Own(e, c, "closing", l)
    BY <1>1, <1>s, Zenon DEF Leaves, Own, Past
  <2>3. Leaves(e, c, "closing", l)
    BY <1>1, <2>2, Zenon DEF Leaves, Phase, Past, Late
  <2> QED BY <1>4, <2>1, <2>3, EndStep, ZenonT(30)
<1>3. CASE c.State # "CLOSED"
  <2> PICK x : x = IF c.State = "CLOSE_WAIT" THEN "LAST_ACK" ELSE "FIN_WAIT_1"
    BY Zenon
  <2> DEFINE d == [c EXCEPT !.SndFlags = {"FIN", "ACK"}, !.State = x]
  <2>1. c.State \in {"CLOSE_WAIT", "ESTABLISHED"}
    BY <1>1, <1>s, <1>3, Fields, Zenon DEF TCP_STATE, Opening
  <2>2. io' = [io EXCEPT ![e] = d] /\ app' = [app EXCEPT ![e] = "ended"]
    <3>1. CASE c.State = "CLOSE_WAIT"
      BY <3>1, Zenon DEF net_tcp_close
    <3>2. CASE c.State = "ESTABLISHED"
      BY <3>2, Zenon DEF net_tcp_close
    <3> QED BY <2>1, <3>1, <3>2, Zenon
  <2>3. d \in Entry
    <3>1. x \in TCP_STATE /\ {"FIN", "ACK"} \in SUBSET Flag
      BY Zenon DEF TCP_STATE, Flag
    <3> QED BY <1>1, <3>1, Zenon DEF Entry
  <2>4. /\ d.State = x /\ d.RcvNext = c.RcvNext /\ d.SndSeq = c.SndSeq /\ d.SndFlags = {"FIN", "ACK"}
        /\ d.written = c.written /\ d.gone = c.gone /\ d.got = c.got
    BY <1>1, Zenon DEF Entry
  <2> HIDE DEF d
  <2>5. Own(e, d, "ended", l)
    BY <1>1, <2>1, <2>4, Zenon DEF Leaves, Own, Past, Opening
  <2>6. OfPeer(e, d, l)
    <3>1. d.State \in {"CLOSE_WAIT", "LAST_ACK", "CLOSING", "TIME_WAIT"} => Late(Peer(e))
      BY <1>1, <2>1, <2>4, Zenon DEF Leaves, OfPeer
    <3>2. d.got = [i \in 1..Len(d.got) |-> i] /\ Len(d.got) <= io[Peer(e)].written
      BY <1>1, <2>4, Zenon DEF Leaves, OfPeer
    <3>3. ASSUME e = "A", ~Late("B"), io["B"].written = 0
          PROVE  d.RcvNext = 1
      <4>1. Peer(e) = "B"
        BY <3>3, Zenon DEF Peer
      <4>2. c.State = "ESTABLISHED"
        BY <1>1, <2>1, <3>3, <4>1, Zenon DEF Leaves, OfPeer
      <4>3. c.RcvNext = Len(c.got) + 1 /\ Len(c.got) <= 0
        BY <1>1, <3>3, <4>1, <4>2, Zenon DEF Leaves, Own, OfPeer
      <4>4. Len(c.got) \in Nat
        BY <1>1, Fields, Zenon
      <4> QED BY ONLY <4>3, <4>4, <2>4
    <3> QED BY <3>1, <3>2, <3>3, Zenon DEF OfPeer
  <2>7. Leaves(e, d, "ended", l)
    <3>1. Past("ended", d)
      BY <2>4, Zenon DEF Past, Opening
    <3>2. io[e].written <= d.written
      BY <1>1, <2>4, Zenon DEF Leaves
    <3> QED BY <1>1, <2>3, <2>4, <2>5, <2>6, <3>1, <3>2, Zenon DEF Leaves, Phase
  <2> QED BY <1>4, <2>2, <2>7, EndStep, ZenonT(30)
<1> QED BY <1>2, <1>3, Zenon

LEMMA CloseToldKeeps ==
  ASSUME TcpInv, TcpAssumption, NEW e \in End, CloseTold(e)
  PROVE  TcpInv'
<1> PICK c : c = io[e]
  BY Zenon
<1> PICK l : l = loaded[e]
  BY Zenon
<1> PICK d : d = net_tcp_service(c)
  BY Zenon
<1>1. Leaves(e, c, "ended", l) /\ c \in Entry
  BY Here, Zenon DEF CloseTold
<1>2. /\ d \in Entry
      /\ d.State = c.State /\ d.RcvNext = c.RcvNext /\ d.SndSeq = c.SndSeq /\ d.SndFlags = c.SndFlags
      /\ d.written = c.written /\ d.gone = c.gone /\ d.got = c.got /\ d.OutputEvent = c.OutputEvent
      /\ d.linked = c.linked
  BY <1>1, Serviced, Zenon
<1>4. /\ io' = [io EXCEPT ![e] = d] /\ app' = [app EXCEPT ![e] = "closing"]
      /\ loaded' = [loaded EXCEPT ![e] = l] /\ net' = net /\ pending' \in 0..MaxPending /\ NetBound'
  BY Here, Zenon DEF CloseTold, NetBound
<1>5. Own(e, d, "closing", l)
  BY <1>1, <1>2 DEF Leaves, Own, Past
<1>6. OfPeer(e, d, l)
  BY <1>1, <1>2, Zenon DEF Leaves, OfPeer
<1>7. Leaves(e, d, "closing", l)
  BY <1>1, <1>2, <1>5, <1>6, Zenon DEF Leaves, Phase, Past, Late
<1> QED BY <1>4, <1>7, EndStep, ZenonT(30)

----------------------------------------------------------------------------
(* The service thread *)

LEMMA HandleIs ==
  ASSUME NEW c
  PROVE  _handle(c) =
           [c EXCEPT !.State = StateAfter(c),
                     !.SndFlags = IF c.State = "ESTABLISHED" /\ "PSH" \in c.SndFlags
                                  THEN c.SndFlags \cup {"ACK"} ELSE c.SndFlags,
                     !.OutputEvent = c.OutputEvent \/ c.State = "CLOSE_WAIT",
                     !.ServiceRetry = IF c.ServiceRetry < RetryCap(StateAfter(c)) THEN c.ServiceRetry + 1
                                      ELSE RetryCap(StateAfter(c))]
BY SMT DEF _handle

\* _handle only closes, asks for an acknowledgement, sets OutputEvent and counts.
LEMMA HandleLeaves ==
  ASSUME TcpInv, NEW e \in End, NEW a, a = app[e], NEW l, l = loaded[e], NEW d, d = _handle(io[e]), io[e].linked
  PROVE  Leaves(e, d, a, l)
<1> PICK c : c = io[e]
  BY Zenon
<1>1. Leaves(e, c, a, l) /\ c \in Entry /\ c.linked
  BY Here, Zenon
<1>i. a # "idle"
  BY <1>1, Zenon DEF Leaves, Own
<1> PICK st : st = StateAfter(c)
  BY Zenon
<1> PICK fl : fl = IF c.State = "ESTABLISHED" /\ "PSH" \in c.SndFlags THEN c.SndFlags \cup {"ACK"} ELSE c.SndFlags
  BY Zenon
<1> PICK oe : oe = (c.OutputEvent \/ c.State = "CLOSE_WAIT")
  BY Zenon
<1> PICK sr : sr = IF c.ServiceRetry < RetryCap(st) THEN c.ServiceRetry + 1 ELSE RetryCap(st)
  BY Zenon
<1>f. c.State \in TCP_STATE /\ c.SndFlags \in SUBSET Flag /\ c.ServiceRetry \in 0..3 /\ c.written \in Nat
  BY <1>1, Fields, Zenon
<1>2. d = [c EXCEPT !.State = st, !.SndFlags = fl, !.OutputEvent = oe, !.ServiceRetry = sr]
  BY HandleIs, Zenon
<1>3. st \in TCP_STATE /\ (st = c.State \/ (st = "CLOSED" /\ c.State \in Limited))
  BY <1>f, Zenon DEF TCP_STATE, StateAfter
<1>4. /\ fl \in SUBSET Flag /\ fl \subseteq c.SndFlags \cup {"ACK"}
      /\ fl # c.SndFlags => c.State = "ESTABLISHED"
  BY <1>f, Zenon DEF Flag
<1>5. oe \in BOOLEAN
  BY Zenon
<1>6. c.State # "CLOSE_WAIT" /\ ~c.OutputEvent => ~oe
  BY Zenon
<1>7. sr \in 0..3
  <2>1. RetryCap(st) \in {0, 1, 3}
    BY Zenon DEF RetryCap
  <2> QED BY <1>f, <2>1
<1>8. d \in Entry
  BY ONLY <1>1, <1>2, <1>3, <1>4, <1>5, <1>7, Zenon DEF Entry
<1>9. /\ d.State = st /\ d.RcvNext = c.RcvNext /\ d.SndSeq = c.SndSeq /\ d.SndFlags = fl
      /\ d.written = c.written /\ d.gone = c.gone /\ d.got = c.got
  BY ONLY <1>1, <1>2, Zenon DEF Entry
<1>10. d.OutputEvent = oe
  BY ONLY <1>1, <1>2, Zenon DEF Entry
<1>11. Past(a, c) => Past(a, d)
  BY ONLY <1>3, <1>9, Zenon DEF Past, Opening
<1>12. Own(e, d, a, l)
  <2>1. Own(e, c, a, l)
    BY <1>1, Zenon DEF Leaves
  <2>2. st \in Opening => ~d.OutputEvent
    BY ONLY <2>1, <1>3, <1>6, <1>10, Zenon DEF Own, Opening
  <2>3. "SYN" \in fl => /\ c.SndSeq = 0 /\ a \in {"opening", "failed", "ended", "closing", "done"}
                        /\ st \in Opening \/ (e = "A" /\ st = "CLOSED")
    BY ONLY <2>1, <1>3, <1>4, Zenon DEF Own, Opening, Limited
  <2>4. "FIN" \in fl \cup l => Past(a, d)
    BY ONLY <2>1, <1>4, <1>11, Zenon DEF Own
  <2>5. st = "FIN_WAIT_2" => fl = {}
    BY ONLY <2>1, <1>3, <1>4, Zenon DEF Own
  <2> QED BY ONLY <2>1, <2>2, <2>3, <2>4, <2>5, <1>i, <1>3, <1>9, Zenon DEF Own, Opening
<1>13. OfPeer(e, d, l)
  <2>1. OfPeer(e, c, l) /\ Own(e, c, a, l)
    BY <1>1, Zenon DEF Leaves
  <2>2. ASSUME e = "A", ~Late("B"), io["B"].written = 0, "ACK" \in fl \cup l
        PROVE  c.RcvNext = 1
    <3>1. CASE "ACK" \in c.SndFlags \cup l
      BY ONLY <3>1, <2>1, <2>2, Zenon DEF OfPeer
    <3>2. CASE c.State = "ESTABLISHED"
      <4>1. Peer(e) = "B"
        BY <2>2, Zenon DEF Peer
      <4>2. c.RcvNext = Len(c.got) + 1 /\ Len(c.got) <= 0
        BY ONLY <2>1, <2>2, <3>2, <4>1, Zenon DEF Own, OfPeer
      <4>3. Len(c.got) \in Nat
        BY <1>1, Fields, Zenon
      <4> QED BY ONLY <4>2, <4>3
    <3> QED BY <3>1, <3>2, <2>2, <1>4, Zenon
  <2>3. st \in {"CLOSE_WAIT", "LAST_ACK", "CLOSING", "TIME_WAIT"} => Late(Peer(e))
    BY ONLY <2>1, <1>3, Zenon DEF OfPeer
  <2> QED BY ONLY <2>1, <2>2, <2>3, <1>9, Zenon DEF OfPeer
<1> QED
  <2>1. Late(e) => Past(a, d)
    BY <1>11, Zenon DEF Late
  <2>2. io[e].written <= d.written
    BY <1>9, <1>f
  <2>3. a \in Phase /\ l \in SUBSET Flag
    BY Here, Zenon
  <2> QED BY ONLY <2>1, <2>2, <2>3, <1>8, <1>12, <1>13, Zenon DEF Leaves

\* A closed entry is taken off the list.
LEMMA UnlinkLeaves ==
  ASSUME TcpInv, NEW e \in End, NEW a, NEW l, NEW c, Leaves(e, c, a, l), c.State = "CLOSED", a # "idle",
         NEW d, d = [c EXCEPT !.linked = FALSE, !.OutputEvent = TRUE, !.CloseEvent = TRUE]
  PROVE  Leaves(e, d, a, l) /\ d.State = "CLOSED"
<1>1. c \in Entry
  BY Zenon DEF Leaves
<1>2. d \in Entry
  BY <1>1, Zenon DEF Entry
<1>3. /\ d.State = c.State /\ d.RcvNext = c.RcvNext /\ d.SndSeq = c.SndSeq /\ d.SndFlags = c.SndFlags
      /\ d.written = c.written /\ d.gone = c.gone /\ d.got = c.got
  BY <1>1, Zenon DEF Entry
<1>4. Own(e, d, a, l)
  BY <1>3, Zenon DEF Leaves, Own, Past, Opening
<1>5. OfPeer(e, d, l)
  BY <1>3, Zenon DEF Leaves, OfPeer
<1> QED BY <1>2, <1>3, <1>4, <1>5, Zenon DEF Leaves, Past

LEMMA ServiceKeeps ==
  ASSUME TcpInv, TcpAssumption, NEW e \in End, _service(e)
  PROVE  TcpInv'
<1> PICK a : a = app[e]
  BY Zenon
<1> PICK l : l = loaded[e]
  BY Zenon
<1> PICK c : c = IF io[e].State = "CLOSED" THEN io[e] ELSE _handle(io[e])
  BY Zenon
<1>u. /\ io[e].linked /\ UNCHANGED <<app, loaded, pending>>
      /\ IF c.State = "CLOSED"
         THEN /\ io' = [io EXCEPT ![e] = [c EXCEPT !.linked = FALSE, !.OutputEvent = TRUE, !.CloseEvent = TRUE]]
              /\ UNCHANGED net
         ELSE /\ io' = [io EXCEPT ![e] = c]
              /\ net' = IF c.SndFlags # {} THEN Sent(Segment(e, c)) ELSE net
  BY Zenon DEF _service
<1>1. Leaves(e, io[e], a, l) /\ io[e].linked
  BY Here, <1>u, Zenon
<1>2. a # "idle"
  BY <1>1, Zenon DEF Leaves, Own
<1>3. Leaves(e, c, a, l)
  BY <1>1, HandleLeaves, Zenon
<1>4. /\ app' = [app EXCEPT ![e] = a] /\ loaded' = [loaded EXCEPT ![e] = l]
      /\ pending' \in 0..MaxPending
  BY Here, <1>u, Zenon
<1>5. NetBound
  BY Zenon DEF TcpInv
<1>6. CASE c.State = "CLOSED"
  <2> PICK d : d = [c EXCEPT !.linked = FALSE, !.OutputEvent = TRUE, !.CloseEvent = TRUE]
    BY Zenon
  <2>1. io' = [io EXCEPT ![e] = d] /\ net' = net
    BY <1>6, <1>u, Zenon
  <2>2. Leaves(e, d, a, l)
    BY <1>2, <1>3, <1>6, UnlinkLeaves, Zenon
  <2>3. NetBound'
    BY <2>1, <1>5, Zenon DEF NetBound
  <2> QED BY <1>4, <2>1, <2>2, <2>3, EndStep, ZenonT(30)
<1>7. CASE c.State # "CLOSED"
  <2>1. /\ io' = [io EXCEPT ![e] = c]
        /\ net' = IF c.SndFlags # {} THEN Sent(Segment(e, c)) ELSE net
    BY <1>7, <1>u, Zenon
  <2>2. Segment(e, c).to \in End
    BY PeerFacts, Zenon DEF Segment
  <2>3. NetBound'
    <3>1. CASE net' = net
      BY <3>1, <1>5, Zenon DEF NetBound
    <3>2. CASE net' = Sent(Segment(e, c))
      BY <3>2, <2>2, <1>5, OneMoreInFlight, Zenon
    <3> QED BY <2>1, <3>1, <3>2, Zenon
  <2>4. \A s \in net' : s \in net \/ (c.State # "CLOSED" /\ c.SndFlags # {} /\ s = Segment(e, c))
    BY <2>1, <1>7, Zenon DEF Sent
  <2> QED BY <1>3, <1>4, <2>1, <2>3, <2>4, EndStep, ZenonT(30)
<1> QED BY <1>6, <1>7, Zenon

----------------------------------------------------------------------------
(* The input thread *)

LEMMA InFlightFacts ==
  ASSUME TcpInv, NEW s \in net
  PROVE  /\ Says(s) /\ s.to \in End /\ s.seq \in Nat /\ s.flags \in SUBSET Flag /\ s.ack \in Nat
         /\ s.data \in Seq(Nat) /\ Len(s.data) \in Nat
<1>1. s \in Packet /\ Says(s)
  BY Zenon DEF TcpInv, TcpTypes
<1>2. s.to \in End /\ s.seq \in Nat /\ s.flags \in SUBSET Flag /\ s.ack \in Nat /\ s.data \in Seq(Nat)
  BY <1>1, Zenon DEF Packet
<1>3. Len(s.data) \in Nat
  BY ONLY <1>2
<1> QED BY <1>1, <1>2, <1>3, Zenon

\* Every SYN has sequence 0: the first byte of the peer is number 1.
LEMMA SynSentLeaves ==
  ASSUME TcpInv, NEW e \in End, NEW s \in net, s.to = e, NEW c, c = io[e], c.State = "SYN_SENT",
         NEW a, a = app[e], NEW l, l = loaded[e]
  PROVE  Leaves(e, SynSent(c, s), a, l)
<1>1. Leaves(e, c, a, l) /\ c \in Entry
  BY Here, Zenon
<1>2. CASE ~(Has(s, "SYN") /\ Has(s, "ACK") /\ s.ack = c.SndSeq + 1)
  BY <1>1, <1>2, Zenon DEF SynSent
<1>3. CASE Has(s, "SYN") /\ Has(s, "ACK") /\ s.ack = c.SndSeq + 1
  <2>1. s.seq = 0
    BY <1>3, InFlightFacts, Zenon DEF Says, Has
  <2>2. c.SndSeq = 0 /\ c.gone = 0 /\ c.got = <<>> /\ a = "opening" /\ c.written \in Nat
    BY <1>1, Fields, Zenon DEF Leaves, Own, Opening
  <2> DEFINE b == [c EXCEPT !.RcvNext = 1, !.SndSeq = 1, !.SndFlags = {"ACK"},
                            !.State = "ESTABLISHED", !.OutputEvent = TRUE]
             d == net_tcp_service(b)
  <2>3. SynSent(c, s) = d
    BY <1>3, <2>1, <2>2 DEF SynSent
  <2>b. b \in Entry
    <3>1. {"ACK"} \in SUBSET Flag /\ "ESTABLISHED" \in TCP_STATE /\ 1 \in Nat
      BY Zenon DEF Flag, TCP_STATE
    <3> QED BY <1>1, <3>1, Zenon DEF Entry
  <2>4. /\ b.State = "ESTABLISHED" /\ b.RcvNext = 1 /\ b.SndSeq = 1 /\ b.SndFlags = {"ACK"}
        /\ b.written = c.written /\ b.gone = c.gone /\ b.got = c.got
    BY <1>1, Zenon DEF Entry
  <2> HIDE DEF b
  <2>5. /\ d \in Entry
        /\ d.State = "ESTABLISHED" /\ d.RcvNext = 1 /\ d.SndSeq = 1 /\ d.SndFlags = {"ACK"}
        /\ d.written = c.written /\ d.gone = c.gone /\ d.got = c.got
    BY <2>b, <2>4, Serviced, Zenon
  <2> HIDE DEF d
  <2>6. Own(e, d, a, l)
    BY <1>1, <2>2, <2>5 DEF Leaves, Own, Past, Opening
  <2>7. OfPeer(e, d, l)
    BY <1>1, <2>5, Zenon DEF Leaves, OfPeer
  <2>8. ~Late(e)
    BY Zenon DEF Late, Past, Opening
  <2> QED BY <1>1, <2>2, <2>3, <2>5, <2>6, <2>7, <2>8, Zenon DEF Leaves
<1> QED BY <1>2, <1>3, Zenon

\* While the peer has written nothing every ACK to it is of its SYN.
LEMMA SynReceivedLeaves ==
  ASSUME TcpInv, NEW e \in End, NEW s \in net, s.to = e, NEW c, c = io[e], c.State = "SYN_RECEIVED",
         NEW a, a = app[e], NEW l, l = loaded[e]
  PROVE  Leaves(e, SynReceived(c, s), a, l)
<1>1. Leaves(e, c, a, l) /\ c \in Entry
  BY Here, Zenon
<1>2. CASE ~(~Has(s, "SYN") /\ Has(s, "ACK") /\ s.seq = c.RcvNext)
  BY <1>1, <1>2, Zenon DEF SynReceived
<1>3. CASE ~Has(s, "SYN") /\ Has(s, "ACK") /\ s.seq = c.RcvNext
  <2>2. c.written = 0 /\ c.gone = 0 /\ c.got = <<>> /\ a = "opening" /\ c.RcvNext = 1 /\ e = "B"
    BY <1>1, Zenon DEF Leaves, Own, Opening
  <2>8. ~Late(e)
    BY Zenon DEF Late, Past, Opening
  <2>1. s.ack = 1
    BY <1>3, <2>2, <2>8, InFlightFacts, Zenon DEF Says, Has
  <2> DEFINE d == [c EXCEPT !.SndSeq = 1, !.SndFlags = {}, !.State = "ESTABLISHED", !.OutputEvent = TRUE]
  <2>3. SynReceived(c, s) = d
    BY <1>3, <2>1, Zenon DEF SynReceived
  <2>b. d \in Entry
    <3>1. {} \in SUBSET Flag /\ "ESTABLISHED" \in TCP_STATE /\ 1 \in Nat
      BY Zenon DEF TCP_STATE
    <3> QED BY <1>1, <3>1, Zenon DEF Entry
  <2>5. /\ d.State = "ESTABLISHED" /\ d.RcvNext = c.RcvNext /\ d.SndSeq = 1 /\ d.SndFlags = {}
        /\ d.written = c.written /\ d.gone = c.gone /\ d.got = c.got
    BY <1>1, Zenon DEF Entry
  <2> HIDE DEF d
  <2>6. Own(e, d, a, l)
    BY <1>1, <2>2, <2>5 DEF Leaves, Own, Past, Opening
  <2>7. OfPeer(e, d, l)
    BY <1>1, <2>5, <2>2, Zenon DEF Leaves, OfPeer
  <2> QED BY <1>1, <2>2, <2>3, <2>b, <2>5, <2>6, <2>7, <2>8, Zenon DEF Leaves
<1> QED BY <1>2, <1>3, Zenon

LEMMA LastAckedLeaves ==
  ASSUME TcpInv, NEW e \in End, NEW s \in net, s.to = e, NEW c, c = io[e],
         NEW a, a = app[e], NEW l, l = loaded[e], NEW x,
         \/ c.State = "CLOSING" /\ x = "TIME_WAIT"
         \/ c.State = "LAST_ACK" /\ x = "CLOSED"
  PROVE  Leaves(e, LastAcked(c, s, x), a, l)
<1>1. Leaves(e, c, a, l) /\ c \in Entry
  BY Here, Zenon
<1>2. CASE ~(Has(s, "ACK") /\ s.seq = c.RcvNext)
  BY <1>1, <1>2, Zenon DEF LastAcked
<1>3. CASE Has(s, "ACK") /\ s.seq = c.RcvNext
  <2> DEFINE b == [c EXCEPT !.SndSeq = s.ack, !.State = x]
             d == net_tcp_service(b)
  <2>3. LastAcked(c, s, x) = d
    BY <1>3, Zenon DEF LastAcked
  <2>b. b \in Entry
    <3>1. s.ack \in Nat /\ x \in TCP_STATE
      BY InFlightFacts, Zenon DEF TCP_STATE
    <3> QED BY <1>1, <3>1, Zenon DEF Entry
  <2>4. /\ b.State = x /\ b.RcvNext = c.RcvNext /\ b.SndFlags = c.SndFlags
        /\ b.written = c.written /\ b.gone = c.gone /\ b.got = c.got
    BY <1>1, Zenon DEF Entry
  <2> HIDE DEF b
  <2>5. /\ d \in Entry
        /\ d.State = x /\ d.RcvNext = c.RcvNext /\ d.SndFlags = c.SndFlags
        /\ d.written = c.written /\ d.gone = c.gone /\ d.got = c.got
    BY <2>b, <2>4, Serviced, Zenon
  <2> HIDE DEF d
  <2>6. Own(e, d, a, l)
    BY <1>1, <2>5, Zenon DEF Leaves, Own, Past, Opening
  <2>7. OfPeer(e, d, l)
    BY <1>1, <2>5, Zenon DEF Leaves, OfPeer
  <2>8. Late(e) => Past(a, d)
    BY <2>5, Zenon DEF Late, Past, Opening
  <2> QED BY <1>1, <2>3, <2>5, <2>6, <2>7, <2>8, Zenon DEF Leaves
<1> QED BY <1>2, <1>3, Zenon

\* While a peer has written nothing and not closed, its segments have neither
\* data nor a FIN: the numbers of the bytes to come stay where they are.
LEMMA NothingYet ==
  ASSUME TcpInv, NEW e \in End, NEW s \in net, s.to = e, e = "A", ~Late("B"), io["B"].written = 0
  PROVE  Len(s.data) = 0 /\ ~Has(s, "FIN")
<1>1. Peer(s.to) = "B"
  BY Zenon DEF Peer
<1>2. Says(s) /\ Len(s.data) \in Nat
  BY InFlightFacts, Zenon
<1>3. Len(s.data) <= 0
  BY <1>1, <1>2, Zenon DEF Says
<1>4. ~Has(s, "FIN")
  BY <1>1, <1>2, Zenon DEF Says, Has
<1> QED BY ONLY <1>2, <1>3, <1>4

\* What a segment next in order does to an entry c that waits after its FIN:
\* the new SndSeq q, RcvNext r, SndFlags fl and State x.
Waits(c, s, q, r, fl, x) ==
  /\ q \in Nat /\ r \in Nat /\ fl \in SUBSET Flag /\ x \in TCP_STATE
  /\ \/ x = c.State /\ fl = c.SndFlags /\ r = c.RcvNext + Len(s.data) /\ q = c.SndSeq
     \/ x = "FIN_WAIT_2" /\ fl = {} /\ r = c.RcvNext + Len(s.data)
     \/ x \in {"CLOSING", "TIME_WAIT"} /\ fl = {"ACK"} /\ Has(s, "FIN")

Waited(c, q, r, fl, x) ==
  net_tcp_service([c EXCEPT !.SndSeq = q, !.RcvNext = r, !.SndFlags = fl, !.State = x])

\* The closing states of the end that closes first.  What came of the peer's
\* FIN is only known once there is one.
LEMMA FinWaitLeaves ==
  ASSUME TcpInv, NEW e \in End, NEW s \in net, s.to = e, NEW c, c = io[e],
         NEW a, a = app[e], NEW l, l = loaded[e],
         c.State \in {"FIN_WAIT_1", "FIN_WAIT_2"},
         NEW q, NEW r, NEW fl, NEW x, Waits(c, s, q, r, fl, x)
  PROVE  Leaves(e, Waited(c, q, r, fl, x), a, l)
<1> PICK d : d = Waited(c, q, r, fl, x)
  BY Zenon
<1>1. Leaves(e, c, a, l) /\ c \in Entry
  BY Here, Zenon
<1> DEFINE b == [c EXCEPT !.SndSeq = q, !.RcvNext = r, !.SndFlags = fl, !.State = x]
<1>b. b \in Entry
  BY <1>1, Zenon DEF Entry, Waits
<1>4. /\ b.State = x /\ b.RcvNext = r /\ b.SndFlags = fl /\ b.SndSeq = q
      /\ b.written = c.written /\ b.gone = c.gone /\ b.got = c.got
  BY <1>1, Zenon DEF Entry
<1>d. d = net_tcp_service(b)
  BY Zenon DEF Waited
<1> HIDE DEF b
<1>5. /\ d \in Entry
      /\ d.State = x /\ d.RcvNext = r /\ d.SndFlags = fl /\ d.SndSeq = q
      /\ d.written = c.written /\ d.gone = c.gone /\ d.got = c.got
  BY ONLY <1>b, <1>d, <1>4, Serviced, Zenon
<1>x. x \in {"FIN_WAIT_1", "FIN_WAIT_2", "CLOSING", "TIME_WAIT"} /\ (x = "FIN_WAIT_1" => c.State = "FIN_WAIT_1" /\ q = c.SndSeq)
      /\ (fl \subseteq c.SndFlags \/ fl = {"ACK"}) /\ (x = "FIN_WAIT_2" => (fl = c.SndFlags /\ c.State = "FIN_WAIT_2") \/ fl = {})
  BY Zenon DEF Waits
<1>6. Own(e, d, a, l)
  <2>1. Own(e, c, a, l)
    BY <1>1, Zenon DEF Leaves
  <2>2. "SYN" \notin fl
    BY ONLY <2>1, <1>x, c.State \in {"FIN_WAIT_1", "FIN_WAIT_2"} DEF Own, Opening
  <2>3. Past(a, d)
    BY ONLY <2>1, <1>x, <1>5, c.State \in {"FIN_WAIT_1", "FIN_WAIT_2"}, Zenon DEF Own, Opening, Past
  <2> QED BY ONLY <2>1, <2>2, <2>3, <1>x, <1>5, c.State \in {"FIN_WAIT_1", "FIN_WAIT_2"}, Zenon DEF Own, Opening
<1>7. OfPeer(e, d, l)
  <2>1. OfPeer(e, c, l)
    BY <1>1, Zenon DEF Leaves
  <2>2. x \in {"CLOSE_WAIT", "LAST_ACK", "CLOSING", "TIME_WAIT"} => Late(Peer(e))
    <3>1. Has(s, "FIN") => Late(Peer(e))
      BY InFlightFacts, Zenon DEF Says, Has
    <3> QED BY <3>1, Zenon DEF Waits
  <2>3. ASSUME e = "A", ~Late("B"), io["B"].written = 0, "ACK" \in fl \cup l
        PROVE  r = 1
    <3>1. Len(s.data) = 0 /\ ~Has(s, "FIN")
      BY <2>3, NothingYet, Zenon
    <3>2. r = c.RcvNext + Len(s.data) /\ (fl = {} \/ fl = c.SndFlags)
      BY <3>1, Zenon DEF Waits
    <3>3. c.RcvNext = 1
      BY ONLY <2>1, <2>3, <3>2, Zenon DEF OfPeer
    <3> QED BY ONLY <3>1, <3>2, <3>3
  <2> QED BY ONLY <2>1, <2>2, <2>3, <1>5, Zenon DEF OfPeer
<1>8. Late(e) => Past(a, d)
  BY <1>5, <1>x, Zenon DEF Late, Past, Opening
<1> QED BY <1>1, <1>5, <1>6, <1>7, <1>8, Zenon DEF Leaves

LEMMA FinWait1Leaves ==
  ASSUME TcpInv, NEW e \in End, NEW s \in net, s.to = e, NEW c, c = io[e], c.State = "FIN_WAIT_1",
         NEW a, a = app[e], NEW l, l = loaded[e]
  PROVE  Leaves(e, FinWait1(c, s), a, l)
<1>1. Leaves(e, c, a, l) /\ c \in Entry
  BY Here, Zenon
<1>2. /\ c.SndSeq \in Nat /\ c.RcvNext \in Nat /\ c.SndFlags \in SUBSET Flag /\ c.State \in TCP_STATE
      /\ s.ack \in Nat /\ Len(s.data) \in Nat
  BY <1>1, Fields, InFlightFacts, Zenon
<1>w. c.State \in {"FIN_WAIT_1", "FIN_WAIT_2"}
  BY Zenon
<1>3. CASE s.seq # c.RcvNext
  BY <1>1, <1>3, Zenon DEF FinWait1
<1>4. CASE s.seq = c.RcvNext /\ ~Has(s, "ACK")
  <2>1. FinWait1(c, s) = Waited(c, c.SndSeq, c.RcvNext + Len(s.data), c.SndFlags, c.State)
    BY <1>1, <1>4, Zenon DEF FinWait1, Entry, Waited
  <2>2. Waits(c, s, c.SndSeq, c.RcvNext + Len(s.data), c.SndFlags, c.State)
    BY <1>2 DEF Waits
  <2>3. Leaves(e, Waited(c, c.SndSeq, c.RcvNext + Len(s.data), c.SndFlags, c.State), a, l)
    BY <2>2, <1>w, FinWaitLeaves, ZenonT(30)
  <2> QED BY ONLY <2>1, <2>3, Zenon
<1>5. CASE s.seq = c.RcvNext /\ Has(s, "ACK") /\ Has(s, "FIN")
  <2>1. FinWait1(c, s) = Waited(c, s.ack, c.RcvNext + 1 + Len(s.data), {"ACK"}, "CLOSING")
    BY <1>1, <1>5, Zenon DEF FinWait1, Entry, Waited
  <2>2. Waits(c, s, s.ack, c.RcvNext + 1 + Len(s.data), {"ACK"}, "CLOSING")
    BY <1>2, <1>5 DEF Waits, Flag, TCP_STATE
  <2>3. Leaves(e, Waited(c, s.ack, c.RcvNext + 1 + Len(s.data), {"ACK"}, "CLOSING"), a, l)
    BY <2>2, <1>w, FinWaitLeaves, ZenonT(30)
  <2> QED BY ONLY <2>1, <2>3, Zenon
<1>6. CASE s.seq = c.RcvNext /\ Has(s, "ACK") /\ ~Has(s, "FIN")
  <2>1. FinWait1(c, s) = Waited(c, s.ack, c.RcvNext + Len(s.data), {}, "FIN_WAIT_2")
    BY <1>1, <1>6, Zenon DEF FinWait1, Entry, Waited
  <2>2. Waits(c, s, s.ack, c.RcvNext + Len(s.data), {}, "FIN_WAIT_2")
    BY <1>2 DEF Waits, Flag, TCP_STATE
  <2>3. Leaves(e, Waited(c, s.ack, c.RcvNext + Len(s.data), {}, "FIN_WAIT_2"), a, l)
    BY <2>2, <1>w, FinWaitLeaves, ZenonT(30)
  <2> QED BY ONLY <2>1, <2>3, Zenon
<1> QED BY <1>3, <1>4, <1>5, <1>6, Zenon

LEMMA FinWait2Leaves ==
  ASSUME TcpInv, NEW e \in End, NEW s \in net, s.to = e, NEW c, c = io[e], c.State = "FIN_WAIT_2",
         NEW a, a = app[e], NEW l, l = loaded[e]
  PROVE  Leaves(e, FinWait2(c, s), a, l)
<1>1. Leaves(e, c, a, l) /\ c \in Entry
  BY Here, Zenon
<1>2. /\ c.SndSeq \in Nat /\ c.RcvNext \in Nat /\ c.SndFlags \in SUBSET Flag /\ c.State \in TCP_STATE
      /\ Len(s.data) \in Nat
  BY <1>1, Fields, InFlightFacts, Zenon
<1>w. c.State \in {"FIN_WAIT_1", "FIN_WAIT_2"}
  BY Zenon
<1>3. CASE s.seq # c.RcvNext
  BY <1>1, <1>3, Zenon DEF FinWait2
<1>4. CASE s.seq = c.RcvNext /\ ~Has(s, "FIN")
  <2>1. FinWait2(c, s) = Waited(c, c.SndSeq, c.RcvNext + Len(s.data), c.SndFlags, c.State)
    BY <1>1, <1>4, Zenon DEF FinWait2, Entry, Waited
  <2>2. Waits(c, s, c.SndSeq, c.RcvNext + Len(s.data), c.SndFlags, c.State)
    BY <1>2 DEF Waits
  <2>3. Leaves(e, Waited(c, c.SndSeq, c.RcvNext + Len(s.data), c.SndFlags, c.State), a, l)
    BY <2>2, <1>w, FinWaitLeaves, ZenonT(30)
  <2> QED BY ONLY <2>1, <2>3, Zenon
<1>5. CASE s.seq = c.RcvNext /\ Has(s, "FIN")
  <2>1. FinWait2(c, s) = Waited(c, c.SndSeq, c.RcvNext + 1 + Len(s.data), {"ACK"}, "TIME_WAIT")
    BY <1>1, <1>5, Zenon DEF FinWait2, Entry, Waited
  <2>2. Waits(c, s, c.SndSeq, c.RcvNext + 1 + Len(s.data), {"ACK"}, "TIME_WAIT")
    BY <1>2, <1>5 DEF Waits, Flag, TCP_STATE
  <2>3. Leaves(e, Waited(c, c.SndSeq, c.RcvNext + 1 + Len(s.data), {"ACK"}, "TIME_WAIT"), a, l)
    BY <2>2, <1>w, FinWaitLeaves, ZenonT(30)
  <2> QED BY ONLY <2>1, <2>3, Zenon
<1> QED BY <1>3, <1>4, <1>5, Zenon

LEMMA Joined ==
  ASSUME NEW u \in Seq(Nat), NEW v \in Seq(Nat)
  PROVE  u \o v \in Seq(Nat) /\ Len(u \o v) = Len(u) + Len(v)
OBVIOUS

\* The next bytes of a stream put after those that are there.
Continues(got, data, n, new) ==
  /\ got \in Seq(Nat) /\ data \in Seq(Nat) /\ n \in Nat /\ n <= Len(data)
  /\ \A i \in 1..Len(got) : got[i] = i
  /\ \A i \in 1..Len(data) : data[i] + 1 = Len(got) + 1 + i
  /\ new = got \o SubSeq(data, 1, n)

LEMMA StreamGrows ==
  ASSUME NEW got, NEW data, NEW n, NEW new, Continues(got, data, n, new)
  PROVE  new \in Seq(Nat) /\ Len(new) = Len(got) + n /\ \A i \in 1..Len(new) : new[i] = i
<1>c. /\ got \in Seq(Nat) /\ data \in Seq(Nat) /\ n \in Nat /\ n <= Len(data)
      /\ \A i \in 1..Len(got) : got[i] = i
      /\ \A i \in 1..Len(data) : data[i] + 1 = Len(got) + 1 + i
      /\ new = got \o SubSeq(data, 1, n)
  BY Zenon DEF Continues
<1>n. n \in Nat /\ n <= Len(data)
  BY <1>c, Zenon
<1> USE <1>c
<1> PICK part : part = SubSeq(data, 1, n)
  BY Zenon
<1>0. new = got \o part
  BY Zenon
<1>1. part \in Seq(Nat) /\ Len(part) = n /\ \A i \in 1..n : part[i] = data[i]
  OBVIOUS
<1>2. Len(got) \in Nat /\ \A i \in 1..Len(got) : got[i] = i
  OBVIOUS
<1>3. new \in Seq(Nat) /\ Len(new) = Len(got) + n
  <2>1. new \in Seq(Nat) /\ Len(new) = Len(got) + Len(part)
    BY ONLY <1>0, <1>1, <1>c, Joined, Zenon
  <2> QED BY ONLY <2>1, <1>1, Zenon
<1>4. \A i \in 1..(Len(got) + n) : new[i] = IF i <= Len(got) THEN got[i] ELSE part[i - Len(got)]
  BY ONLY <1>0, <1>1, <1>c, SMTT(40)
<1>5. ASSUME NEW i \in 1..(Len(got) + n)
      PROVE  new[i] = i
  <2>1. CASE i <= Len(got)
    <3>1. i \in 1..Len(got)
      BY ONLY <2>1, <1>2, <1>n, i \in 1..(Len(got) + n)
    <3> QED BY <2>1, <3>1, <1>2, <1>4, Zenon
  <2>2. CASE ~(i <= Len(got))
    <3>1. i - Len(got) \in 1..n /\ i - Len(got) \in 1..Len(data)
      <4>1. Len(data) \in Nat
        OBVIOUS
      <4> QED BY ONLY <4>1, <2>2, <1>2, <1>n, i \in 1..(Len(got) + n)
    <3>2. new[i] = data[i - Len(got)]
      BY <2>2, <3>1, <1>1, <1>4, Zenon
    <3>3. data[i - Len(got)] + 1 = Len(got) + 1 + (i - Len(got)) /\ data[i - Len(got)] \in Nat
      BY <3>1
    <3> QED BY ONLY <3>2, <3>3, <1>2, <1>n, i \in 1..(Len(got) + n)
  <2> QED BY <2>1, <2>2, Zenon
<1>6. \A i \in 1..Len(new) : new[i] = i
  BY ONLY <1>3, <1>5, Zenon
<1> QED BY <1>3, <1>6, Zenon

LEMMA AckedFacts ==
  ASSUME NEW c \in Entry, c.gone <= c.written, NEW s, s.ack \in Nat
  PROVE  Acked(c, s) \in Nat /\ Acked(c, s) <= c.written - c.gone
<1>1. c.SndSeq \in Nat /\ c.written \in Nat /\ c.gone \in Nat
  BY Fields, Zenon
<1>2. CASE Has(s, "ACK") /\ s.ack > c.SndSeq
  <2>1. s.ack - c.SndSeq \in Nat /\ c.written - c.gone \in Nat
    BY <1>1, <1>2
  <2>2. Acked(c, s) = Min({s.ack - c.SndSeq, c.written - c.gone})
    BY <1>2, Zenon DEF Acked
  <2> QED BY <2>1, <2>2, MinOfTwo, Zenon
<1>3. CASE ~(Has(s, "ACK") /\ s.ack > c.SndSeq)
  <2>1. Acked(c, s) = 0
    BY <1>3, Zenon DEF Acked
  <2> QED BY <2>1, <1>1
<1> QED BY <1>2, <1>3, Zenon

\* What InOrder makes of a connection when k bytes are acknowledged and n are
\* taken; the other fields are given.
Entered(c, k, n, r, fl, x, g) ==
  [c EXCEPT !.SndSeq = c.SndSeq + k, !.gone = c.gone + k, !.got = g, !.unread = c.unread + n,
            !.RcvNext = r, !.SndFlags = fl, !.State = x]

\* The byte after those that came is the first of the segment next in order.
LEMMA InOrderLeaves ==
  ASSUME TcpInv, TcpAssumption, NEW e \in End, NEW s \in net, s.to = e, NEW c, c = io[e], c.State = "ESTABLISHED",
         s.seq = c.RcvNext, NEW a, a = app[e], NEW l, l = loaded[e]
  PROVE  Leaves(e, InOrder(c, s), a, l)
<1>1. Leaves(e, c, a, l) /\ c \in Entry
  BY Here, Zenon
<1>2. /\ c.SndSeq \in Nat /\ c.RcvNext \in Nat /\ c.SndFlags \in SUBSET Flag /\ c.written \in Nat /\ c.gone \in Nat
      /\ c.got \in Seq(Nat) /\ Len(c.got) \in Nat
  BY <1>1, Fields, Zenon
<1>u. RcvSize \in Nat /\ c.unread \in Nat /\ c.unread <= RcvSize
  <2>1. RcvSize \in Nat /\ c.unread \in 0..RcvSize
    BY <1>1, Fields, Zenon DEF TcpAssumption
  <2> QED BY ONLY <2>1
<1>3. s.ack \in Nat /\ s.data \in Seq(Nat) /\ Len(s.data) \in Nat /\ s.seq \in Nat
  BY InFlightFacts, Zenon
<1>4. Own(e, c, a, l) /\ OfPeer(e, c, l) /\ ~Late(e)
  BY <1>1, Zenon DEF Leaves, Late, Past
<1>5. /\ c.RcvNext = Len(c.got) + 1 /\ c.SndSeq = c.gone + 1 /\ a # "idle" /\ c.gone <= c.written
      /\ c.written <= MaxBytes[e] /\ "SYN" \notin c.SndFlags \cup l /\ "FIN" \notin c.SndFlags \cup l
  BY <1>4, Zenon DEF Own, Past, Opening
<1> PICK k : k = Acked(c, s)
  BY Zenon
<1> PICK n : n = Min({Len(s.data), RcvSize - c.unread})
  BY Zenon
<1> PICK r : r = c.RcvNext + n + (IF Has(s, "FIN") THEN 1 ELSE 0)
  BY Zenon
<1> PICK fl : fl = (c.SndFlags \ (IF EmptyAfter(c, s) THEN {"PSH", "ACK"} ELSE {"ACK"}))
                     \cup (IF s.data # <<>> \/ Has(s, "FIN") THEN {"ACK"} ELSE {})
  BY Zenon
<1> PICK x : x = IF Has(s, "FIN") THEN "CLOSE_WAIT" ELSE c.State
  BY Zenon
<1> PICK g : g = c.got \o SubSeq(s.data, 1, n)
  BY Zenon
<1> DEFINE b == Entered(c, k, n, r, fl, x, g)
<1>6. k \in Nat /\ k <= c.written - c.gone
  BY <1>1, <1>3, <1>5, AckedFacts, Zenon
<1>7. n \in Nat /\ n <= Len(s.data) /\ n <= RcvSize - c.unread
  <2>1. RcvSize - c.unread \in Nat
    BY ONLY <1>u
  <2> QED BY ONLY <2>1, <1>3, MinOfTwo, n = Min({Len(s.data), RcvSize - c.unread}), Zenon
<1>8. /\ g \in Seq(Nat) /\ Len(g) = Len(c.got) + n /\ g = [i \in 1..Len(g) |-> i]
      /\ Len(g) <= io[Peer(e)].written
  <2>1. \A i \in 1..Len(s.data) : s.data[i] + 1 = Len(c.got) + 1 + i /\ s.data[i] <= io[Peer(e)].written
    <3>1. Says(s) /\ ~Late(s.to)
      BY <1>4, InFlightFacts, Zenon
    <3>2. s.seq = Len(c.got) + 1 /\ s.to = e
      BY <1>5, Zenon
    <3> QED BY ONLY <3>1, <3>2, Zenon DEF Says
  <2>2. c.got = [i \in 1..Len(c.got) |-> i] /\ Len(c.got) <= io[Peer(e)].written
    BY <1>4, Zenon DEF OfPeer
  <2>3. g \in Seq(Nat) /\ Len(g) = Len(c.got) + n /\ g = [i \in 1..Len(g) |-> i]
    <3>1. \A i \in 1..Len(s.data) : s.data[i] + 1 = Len(c.got) + 1 + i
      BY ONLY <2>1, Zenon
    <3>2. \A i \in 1..Len(c.got) : c.got[i] = i
      BY ONLY <2>2, Zenon
    <3>3. c.got \in Seq(Nat) /\ s.data \in Seq(Nat) /\ n \in Nat /\ n <= Len(s.data)
      BY ONLY <1>2, <1>3, <1>7, Zenon
    <3>4. PICK u, v : u = c.got /\ v = s.data
      BY Zenon
    <3>5. /\ u \in Seq(Nat) /\ v \in Seq(Nat) /\ n \in Nat /\ n <= Len(v) 
          /\ (\A i \in 1..Len(u) : u[i] = i)
          /\ (\A i \in 1..Len(v) : v[i] + 1 = Len(u) + 1 + i) /\ g = u \o SubSeq(v, 1, n)
      BY ONLY <3>1, <3>2, <3>3, <3>4, g = c.got \o SubSeq(s.data, 1, n), Zenon
    <3>6. g \in Seq(Nat) /\ Len(g) = Len(u) + n /\ \A i \in 1..Len(g) : g[i] = i
      <4>1. Continues(u, v, n, g)
        BY ONLY <3>5, Zenon DEF Continues
      <4> QED BY ONLY <4>1, StreamGrows, Zenon
    <3>7. g = [i \in 1..Len(g) |-> i]
      BY ONLY <3>6
    <3> QED BY ONLY <3>4, <3>6, <3>7, Zenon
  <2>4. Len(g) <= io[Peer(e)].written
    <3>1. CASE n = 0
      BY ONLY <3>1, <2>2, <2>3, <1>2
    <3>2. CASE n > 0
      <4>1. n \in 1..Len(s.data)
        BY ONLY <3>2, <1>3, <1>7
      <4>2. s.data[n] + 1 = Len(c.got) + 1 + n /\ s.data[n] <= io[Peer(e)].written /\ s.data[n] \in Nat
        BY ONLY <4>1, <2>1, <1>3
      <4>3. s.data[n] = Len(c.got) + n
        <5>1. Len(c.got) \in Nat /\ n \in Nat
          BY ONLY <1>2, <1>7, Zenon
        <5> QED BY ONLY <4>2, <5>1, SMTT(40)
      <4> QED BY ONLY <4>2, <4>3, <2>3, Zenon
    <3> QED BY ONLY <3>1, <3>2, <1>7
  <2> QED BY <2>3, <2>4, Zenon
<1>9. /\ fl \in SUBSET Flag /\ fl \subseteq c.SndFlags \cup {"ACK"}
      /\ x \in {"CLOSE_WAIT", "ESTABLISHED"} /\ x \in TCP_STATE /\ (x = "CLOSE_WAIT" <=> Has(s, "FIN"))
      /\ r \in Nat /\ (~Has(s, "FIN") => r = c.RcvNext + n)
  <2>1. fl \in SUBSET Flag /\ fl \subseteq c.SndFlags \cup {"ACK"}
    BY <1>2, Zenon DEF Flag
  <2>2. x \in {"CLOSE_WAIT", "ESTABLISHED"} /\ x \in TCP_STATE /\ (x = "CLOSE_WAIT" <=> Has(s, "FIN"))
    BY Zenon DEF TCP_STATE
  <2>3. r \in Nat /\ (~Has(s, "FIN") => r = c.RcvNext + n)
    <3>1. c.RcvNext \in Nat /\ n \in Nat
      BY ONLY <1>2, <1>7, Zenon
    <3>2. r = c.RcvNext + n + (IF Has(s, "FIN") THEN 1 ELSE 0)
      OBVIOUS
    <3> QED BY ONLY <3>1, <3>2, AndOne, Zenon
  <2> QED BY <2>1, <2>2, <2>3, Zenon
<1>10. InOrder(c, s) = b \/ InOrder(c, s) = net_tcp_service(b)
  <2> DEFINE N == Min({Len(s.data), RcvSize - c.unread})
             R == c.RcvNext + N + (IF Has(s, "FIN") THEN 1 ELSE 0)
             F == (c.SndFlags \ (IF EmptyAfter(c, s) THEN {"PSH", "ACK"} ELSE {"ACK"}))
                    \cup (IF s.data # <<>> \/ Has(s, "FIN") THEN {"ACK"} ELSE {})
             X == IF Has(s, "FIN") THEN "CLOSE_WAIT" ELSE c.State
             G == c.got \o SubSeq(s.data, 1, N)
             whole == Entered(c, Acked(c, s), N, R, F, X, G)
  <2>1. InOrder(c, s) = IF s.data # <<>> \/ Has(s, "FIN") THEN net_tcp_service(whole) ELSE whole
    BY ONLY Zenon DEF InOrder, Entered
  <2>2. k = Acked(c, s) /\ n = N /\ r = R /\ fl = F /\ x = X /\ g = G
    BY Zenon
  <2>3. whole = b
    <3> HIDE DEF N, R, F, X, G
    <3> QED BY ONLY <2>2, Zenon
  <2> HIDE DEF whole, b
  <2> QED BY ONLY <2>1, <2>3, Zenon
<1>b. b \in Entry
  <2>1. c.SndSeq + k \in Nat /\ c.gone + k \in Nat /\ c.unread + n \in 0..RcvSize
    <3>1. c.SndSeq \in Nat /\ c.gone \in Nat /\ k \in Nat
      BY ONLY <1>2, <1>6, Zenon
    <3>2. n \in Nat /\ n <= RcvSize - c.unread
      BY ONLY <1>7, Zenon
    <3>3. c.unread + n \in 0..RcvSize
      BY ONLY <3>2, <1>u
    <3> QED BY ONLY <3>1, <3>3
  <2> QED BY ONLY <1>1, <1>8, <1>9, <2>1, Zenon DEF Entry, Entered
<1>11. /\ b.State = x /\ b.RcvNext = r /\ b.SndFlags = fl /\ b.SndSeq = c.SndSeq + k
       /\ b.written = c.written /\ b.gone = c.gone + k /\ b.got = g
  BY <1>1, Zenon DEF Entry, Entered
<1> HIDE DEF b
<1> PICK d : d = InOrder(c, s)
  BY Zenon
<1>12. /\ d \in Entry
       /\ d.State = x /\ d.RcvNext = r /\ d.SndFlags = fl /\ d.SndSeq = c.SndSeq + k
       /\ d.written = c.written /\ d.gone = c.gone + k /\ d.got = g
  BY ONLY <1>b, <1>10, <1>11, Serviced, d = InOrder(c, s)
<1>13. Own(e, d, a, l)
  <2>1. d.gone <= d.written /\ d.written <= MaxBytes[e] /\ d.SndSeq = d.gone + 1
    BY ONLY <1>2, <1>5, <1>6, <1>12, SMTT(20)
  <2>2. x = "ESTABLISHED" => r = Len(g) + 1
    BY ONLY <1>2, <1>5, <1>7, <1>8, <1>9, SMTT(20)
  <2>3. "SYN" \notin fl \cup l /\ "FIN" \notin fl \cup l
    BY ONLY <1>5, <1>9, Zenon
  <2> QED BY ONLY <2>1, <2>2, <2>3, <1>5, <1>9, <1>12, Zenon DEF Own, Opening
<1>14. OfPeer(e, d, l)
  <2>1. x = "CLOSE_WAIT" => Late(Peer(e))
    BY <1>9, InFlightFacts, Zenon DEF Says, Has
  <2>2. ASSUME e = "A", ~Late("B"), io["B"].written = 0
        PROVE  r = 1
    <3>1. Len(s.data) = 0 /\ ~Has(s, "FIN")
      BY <2>2, NothingYet, Zenon
    <3>2. Len(c.got) <= 0
      BY <2>2, <1>4, Zenon DEF OfPeer, Peer
    <3> QED BY ONLY <3>1, <3>2, <1>2, <1>5, <1>7, <1>9, SMTT(40)
  <2> QED BY ONLY <2>1, <2>2, <1>8, <1>9, <1>12, Zenon DEF OfPeer
<1> QED BY <1>1, <1>2, <1>4, <1>12, <1>13, <1>14, Zenon DEF Leaves

----------------------------------------------------------------------------
LEMMA ReceivedLeaves ==
  ASSUME TcpInv, TcpAssumption, NEW e \in End, NEW s \in net, s.to = e
  PROVE  Leaves(e, Received(io[e], s), app[e], loaded[e])
<1> PICK c : c = io[e]
  BY Zenon
<1> PICK a : a = app[e]
  BY Zenon
<1> PICK l : l = loaded[e]
  BY Zenon
<1>1. Leaves(e, c, a, l)
  BY Here, Zenon
<1>2. CASE c.State = "SYN_SENT"
  BY <1>2, SynSentLeaves, Zenon DEF Received
<1>3. CASE c.State = "SYN_RECEIVED"
  BY <1>3, SynReceivedLeaves, Zenon DEF Received
<1>4. CASE c.State = "ESTABLISHED"
  BY <1>1, <1>4, InOrderLeaves, Zenon DEF Received, _handle_input
<1>5. CASE c.State = "FIN_WAIT_1"
  BY <1>5, FinWait1Leaves, Zenon DEF Received
<1>6. CASE c.State = "FIN_WAIT_2"
  BY <1>6, FinWait2Leaves, Zenon DEF Received
<1>7. CASE c.State = "CLOSING"
  BY <1>7, LastAckedLeaves, Zenon DEF Received
<1>8. CASE c.State = "LAST_ACK"
  BY <1>8, LastAckedLeaves, Zenon DEF Received
<1>9. CASE c.State \notin {"SYN_SENT", "SYN_RECEIVED", "ESTABLISHED", "FIN_WAIT_1", "FIN_WAIT_2", "CLOSING", "LAST_ACK"}
  BY <1>1, <1>9, Zenon DEF Received
<1> QED BY <1>2, <1>3, <1>4, <1>5, <1>6, <1>7, <1>8, <1>9, Zenon

LEMMA InputKeeps ==
  ASSUME TcpInv, TcpAssumption, NEW s \in net, net_tcp_input(s), net' \subseteq net
  PROVE  TcpInv'
<1> PICK e \in End : e = s.to
  BY InFlightFacts, Zenon
<1> PICK d : d = IF io[e].linked THEN Received(io[e], s) ELSE io[e]
  BY Zenon
<1>1. Leaves(e, d, app[e], loaded[e])
  BY Here, ReceivedLeaves, Zenon
<1>2. io' = [io EXCEPT ![e] = d]
  BY Here, ZenonT(30) DEF net_tcp_input
<1>3. app' = [app EXCEPT ![e] = app[e]] /\ loaded' = [loaded EXCEPT ![e] = loaded[e]]
  BY Here, Zenon DEF net_tcp_input
<1>4. pending' \in 0..MaxPending
  BY DEF net_tcp_input, TcpInv, TcpTypes, TcpAssumption
<1>5. NetBound'
  BY FewerInFlight, Zenon DEF TcpInv
<1> QED BY <1>1, <1>2, <1>3, <1>4, <1>5, EndStep, ZenonT(30)

\* Segments that are lost say nothing.
LEMMA LossKeeps ==
  ASSUME TcpInv, TcpAssumption,
         net' \subseteq net, io' = io, app' = app, loaded' = loaded, pending' = pending
  PROVE  TcpInv'
<1>1. net' \subseteq net /\ io' = io /\ app' = app /\ loaded' = loaded /\ pending' = pending
  BY Zenon
<1>2. NetBound'
  BY <1>1, FewerInFlight, Zenon DEF TcpInv
<1>3. TcpTypes'
  BY <1>1, Zenon DEF TcpInv, TcpTypes
<1>4. /\ \A x \in End : Own(x, io[x], app[x], loaded[x]) /\ OfPeer(x, io[x], loaded[x])
      /\ \A x \in net : Says(x)
  BY Zenon DEF TcpInv
<1>5. \A x \in End : Own(x, io[x], app[x], loaded[x])' /\ OfPeer(x, io[x], loaded[x])'
  <2>1. ASSUME NEW x \in End PROVE Own(x, io[x], app[x], loaded[x])'
    BY ONLY <1>1, <1>4, x \in End, Zenon DEF Own, Past
  <2>2. ASSUME NEW x \in End PROVE OfPeer(x, io[x], loaded[x])'
    BY ONLY <1>1, <1>4, x \in End, Zenon DEF OfPeer, Late, Past
  <2> QED BY ONLY <2>1, <2>2, Zenon
<1>6. \A x \in net' : Says(x)'
  BY ONLY <1>1, <1>4, Zenon DEF Says, Late
<1> QED BY ONLY <1>2, <1>3, <1>5, <1>6, Zenon DEF TcpInv

----------------------------------------------------------------------------
LEMMA TcpInitInv == TcpInit => TcpInv
<1> SUFFICES ASSUME TcpInit PROVE TcpInv
  BY Zenon
<1> PICK c : c = [State |-> "CLOSED", RcvNext |-> 0, SndSeq |-> 0, SndFlags |-> {}, ServiceRetry |-> 0,
                  OutputEvent |-> FALSE, CloseEvent |-> FALSE, linked |-> FALSE,
                  written |-> 0, gone |-> 0, got |-> <<>>, unread |-> 0]
  BY Zenon
<1>1. c \in Entry
  <2>1. /\ "CLOSED" \in TCP_STATE /\ 0 \in Nat /\ {} \in SUBSET Flag /\ 0 \in 0..3 /\ 0 \in 0..RcvSize
        /\ <<>> \in Seq(Nat)
    BY TcpAssumption DEF TcpAssumption, TCP_STATE
  <2> QED BY <2>1, Zenon DEF Entry
<1>2. /\ c.State = "CLOSED" /\ c.written = 0 /\ c.gone = 0 /\ c.got = <<>> /\ c.SndFlags = {}
      /\ ~c.linked /\ ~c.OutputEvent
  BY Zenon
<1>3. io = [e \in End |-> c] /\ app = [e \in End |-> "idle"] /\ loaded = [e \in End |-> {}] /\ pending = 0 /\ net = {}
  BY Zenon DEF TcpInit
<1>4. TcpTypes
  BY <1>1, <1>3, TcpAssumption DEF TcpTypes, Phase, TcpAssumption
<1>5. NetBound
  <2>1. \A e \in End : {s \in net : s.to = e} = {}
    BY <1>3, Zenon
  <2>2. IsFiniteSet({}) /\ Cardinality({}) = 0
    BY FS_EmptySet, Zenon
  <2>3. \A e \in End : 0 <= InFlight[e]
    BY TcpAssumption DEF TcpAssumption, End
  <2> QED BY <1>3, <2>1, <2>2, <2>3, Zenon DEF NetBound
<1>6. ASSUME NEW e \in End
      PROVE  Own(e, io[e], app[e], loaded[e]) /\ OfPeer(e, io[e], loaded[e])
  <2>1. io[e] = c /\ app[e] = "idle" /\ loaded[e] = {} /\ io[Peer(e)] = c
    BY <1>3, PeerFacts, Zenon
  <2>2. 0 <= MaxBytes[e]
    BY TcpAssumption DEF TcpAssumption, End
  <2>3. Own(e, c, "idle", {})
    BY <1>2, <2>2 DEF Own, Opening
  <2>4. Len(<<>>) = 0 /\ <<>> = [i \in 1..0 |-> i]
    OBVIOUS
  <2>5. OfPeer(e, c, {})
    BY <1>2, <2>1, <2>4 DEF OfPeer
  <2> QED BY <2>1, <2>3, <2>5, Zenon
<1> QED BY <1>3, <1>4, <1>5, <1>6, Zenon DEF TcpInv

LEMMA TcpNextInv == TcpInv /\ [TcpNext]_tcpVars => TcpInv'
<1> SUFFICES ASSUME TcpInv, [TcpNext]_tcpVars
             PROVE  TcpInv'
  BY Zenon
<1> USE TcpAssumption
<1>1. CASE net_tcp_connect
  BY <1>1, ConnectKeeps, Zenon
<1>2. CASE net_tcp_accept
  BY <1>2, AcceptKeeps, Zenon
<1>3. ASSUME NEW e \in End, Application(e)
      PROVE  TcpInv'
  BY <1>3, OpenedKeeps, WriteKeeps, LoadKeeps, StoreKeeps, ReadKeeps, CloseKeeps, CloseToldKeeps, CloseReturnsKeeps,
     Zenon DEF Application
<1>4. ASSUME NEW e \in End, _service(e)
      PROVE  TcpInv'
  BY <1>4, ServiceKeeps, Zenon
<1>5. ASSUME NEW e \in End, Deliver(e)
      PROVE  TcpInv'
  BY <1>5, InputKeeps, Zenon DEF Deliver
<1>6. ASSUME NEW s \in net, Repeat(s)
      PROVE  TcpInv'
  BY <1>6, InputKeeps, Zenon DEF Repeat
<1>7. ASSUME NEW s \in net, Lose(s)
      PROVE  TcpInv'
  BY <1>7, LossKeeps, Zenon DEF Lose
<1>8. CASE UNCHANGED tcpVars
  BY <1>8, LossKeeps, Zenon DEF tcpVars
<1> QED BY <1>1, <1>2, <1>3, <1>4, <1>5, <1>6, <1>7, <1>8, Zenon DEF TcpNext

LEMMA TcpInvInOrder == TcpInv => StreamInOrder
<1> SUFFICES ASSUME TcpInv PROVE StreamInOrder
  BY Zenon
<1>1. ASSUME NEW e \in End
      PROVE  /\ io[e].State \in TCP_STATE
             /\ io[e].SndFlags \subseteq {"SYN", "ACK", "PSH", "FIN"}
             /\ io[e].ServiceRetry \in 0..3
             /\ io[e].gone <= io[e].written /\ io[e].written <= MaxBytes[e]
             /\ io[e].unread \in 0..RcvSize
             /\ Cardinality({s \in net : s.to = e}) <= InFlight[e]
             /\ io[e].got = [i \in 1..Len(io[e].got) |-> i] /\ Len(io[e].got) <= io[Peer(e)].written
  <2>1. io[e] \in Entry
    BY Here, Zenon
  <2>2. io[e].gone <= io[e].written /\ io[e].written <= MaxBytes[e]
    BY Zenon DEF TcpInv, Own
  <2>3. io[e].got = [i \in 1..Len(io[e].got) |-> i] /\ Len(io[e].got) <= io[Peer(e)].written
    BY Zenon DEF TcpInv, OfPeer
  <2>4. Cardinality({s \in net : s.to = e}) <= InFlight[e]
    BY Zenon DEF TcpInv, NetBound
  <2>5. /\ io[e].State \in TCP_STATE /\ io[e].SndFlags \subseteq {"SYN", "ACK", "PSH", "FIN"}
        /\ io[e].ServiceRetry \in 0..3 /\ io[e].unread \in 0..RcvSize
    BY <2>1, Fields, Zenon DEF Flag
  <2> QED BY <2>2, <2>3, <2>4, <2>5, Zenon
<1>2. app \in [End -> Phase] /\ pending \in 0..MaxPending
  BY Zenon DEF TcpInv, TcpTypes
<1> QED BY <1>1, <1>2, Zenon DEF StreamInOrder, TcpTypeOK

\* The inductive invariant holds in every behaviour, for every number of bytes
\* written, of segments in flight and of pending connections, and every size
\* of RcvBuffer: both ends of a connection and every segment in flight agree on
\* which byte a sequence number means until an end is past ESTABLISHED.
THEOREM TcpInvariant == TcpSpec => []TcpInv
<1>1. TcpInit => TcpInv
  BY TcpInitInv, Zenon
<1>2. TcpInv /\ [TcpNext]_tcpVars => TcpInv'
  BY TcpNextInv, Zenon
<1> QED BY <1>1, <1>2, PTL DEF TcpSpec

\* What an application reads is what the other one wrote, in order and without
\* gaps or repeats, however segments are lost, repeated and reordered and
\* however _write's unlocked accesses to SndFlags fall among the handlers.
THEOREM StreamStaysInOrder == TcpSpec => []StreamInOrder
BY TcpInvariant, TcpInvInOrder, PTL
=============================================================================
