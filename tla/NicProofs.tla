------------------------------- MODULE NicProofs -------------------------------
(***************************************************************************)
(* Proofs about the RTL8139 driver and its card (Nic) and about the        *)
(* configuration of the stack (NetConfig), for a ring of any size, any     *)
(* lengths of packets and any number of descriptors.                       *)
(***************************************************************************)
EXTENDS Nic, NetConfig, Integers, FiniteSetTheorems, TLAPS

-----------------------------------------------------------------------------
(* The invariant of the receive ring                                       *)

Packets == [at : 0..(RING - 1), length : Lengths, frame : Nat]

\* How far place a of the ring is ahead of the driver's offset r, and the
\* bytes of the ring that a packet takes.
Ahead(r, a) == IF a >= r THEN a - r ELSE a + RING - r
Span(p) == Aligned(p.length + 4)

\* A place where a packet can start.
Place(a) == a \in 0..(RING - 1) /\ a % 4 = 0

\* Packets in memory do not overlap.
Memory(m) ==
    /\ m \subseteq Packets
    /\ \A p \in m : Place(p.at)
    /\ \A p, q \in m : Overlap(p, q.at, q.length) => p = q

\* The waiting packets ps lie one behind the other, from the driver's offset r
\* to the card's offset w.
Waiting(r, w, ps, m) ==
    /\ ps \in Seq(Packets)
    /\ \A i \in 1..Len(ps) :
         ps[i] \in m /\ Ahead(r, ps[i].at) + Span(ps[i]) <= Ahead(r, w)
    /\ \A i, j \in 1..Len(ps) :
         i < j => Ahead(r, ps[i].at) + Span(ps[i]) <= Ahead(r, ps[j].at)
    /\ \A i \in 1..Len(ps) :
         i > 1 => Ahead(r, ps[i].at) = Ahead(r, ps[i - 1].at) + Span(ps[i - 1])
    /\ ps = <<>> => w = r
    /\ ps # <<>> => /\ ps[1].at = r
                    /\ Ahead(r, w) = Ahead(r, ps[Len(ps)].at) + Span(ps[Len(ps)])

\* The driver in the middle of recv_frame.
Receiving ==
    /\ drv.at = "header" => pending # <<>>
    /\ drv.at = "copy" => pending # <<>> /\ drv.length = pending[1].length

RxInv ==
    /\ Place(rx.read) /\ Place(rx.write) /\ drv.rx_offset = rx.read
    /\ Memory(mem)
    /\ Waiting(rx.read, rx.write, pending, mem)
    /\ Receiving
    /\ seen.got /\ ~seen.desync

-----------------------------------------------------------------------------
(* The invariant of the transmit descriptors                               *)

\* The i-th descriptor from n on.
Nth(n, i) == IF n + i - 1 < TXDESC THEN n + i - 1 ELSE n + i - 1 - TXDESC

\* Exactly the first Len(q) descriptors from n on are the card's, and their
\* buffers hold the frames q; the driver's next one is behind them.
Lent(n, cur, desc, buf, q) ==
    /\ Len(q) <= TXDESC
    /\ cur = Nth(n, Len(q) + 1)
    /\ \A i \in 1..Len(q) : /\ ~desc[Nth(n, i)].own
                            /\ SubSeq(buf[Nth(n, i)], 1, desc[Nth(n, i)].length) = q[i]
    /\ \A d \in Descriptors : ~desc[d].own => \E i \in 1..Len(q) : d = Nth(n, i)

\* The driver in the middle of send_frame.
Sending ==
    /\ drv.at \in {"fill", "start"} =>
         tx.desc[drv.tx_cur].own /\ drv.length \in TxLengths /\ drv.length <= MAXTX
    /\ drv.at = "start" =>
         SubSeq(tx.buf[drv.tx_cur], 1, WireLength(drv.length))
             = Padded(count.tx, drv.length)

TxInv ==
    /\ Lent(tx.next, drv.tx_cur, tx.desc, tx.buf, queued)
    /\ Sending
    /\ seen.sent

-----------------------------------------------------------------------------
(* Types                                                                   *)

Frames == Seq(Nat)
DrvType == [at : {"idle", "header", "copy", "fill", "start"}, rx_offset : 0..(RING - 1),
            tx_cur : Descriptors, length : Nat]
RxType == [read : 0..(RING - 1), write : 0..(RING - 1), on : BOOLEAN]
DescType == [own : BOOLEAN, length : Nat]
TxType == [desc : [Descriptors -> DescType], buf : [Descriptors -> [TxBytes -> Nat]],
           next : Descriptors]
SeenType == [got : BOOLEAN, sent : BOOLEAN, desync : BOOLEAN]
CountType == [rx : 0..RXFRAMES, tx : 0..TXFRAMES]

Shape ==
    /\ up \in {"down", "up", "not_found", "not_mapped", "reset_timeout", "no_memory"}
    /\ drv \in DrvType /\ rx \in RxType /\ tx \in TxType
    /\ queued \in Seq(Frames) /\ seen \in SeenType /\ count \in CountType

IInv == Shape /\ RxInv /\ TxInv
-----------------------------------------------------------------------------
(* Arithmetic of the ring                                                  *)

\* What % does to a number below twice the modulus.
LEMMA ModTwice ==
  ASSUME NEW b \in Nat \ {0}, NEW a \in 0..(2 * b - 1)
  PROVE  a % b = IF a < b THEN a ELSE a - b
  <1>1. CASE a < b
    BY <1>1
  <1>2. CASE ~(a < b)
    BY <1>2
  <1>3. QED
    BY <1>1, <1>2

\* A multiple of the modulus adds nothing.
LEMMA ModMultiple ==
  ASSUME NEW b \in Nat \ {0}, NEW k \in Nat, NEW a \in 0..(b - 1)
  PROVE  (a + k * b) % b = a
  OBVIOUS

\* Aligned rounds up to the next multiple of four.
LEMMA AlignedIs ==
  ASSUME NEW n \in Nat
  PROVE  Aligned(n) \in Nat /\ Aligned(n) % 4 = 0 /\ Aligned(n) >= n /\ Aligned(n) < n + 4
  BY DEF Aligned

\* At an aligned place, a packet ends where its own span ends.
LEMMA AlignedAt ==
  ASSUME NEW a \in Nat, NEW n \in Nat, a % 4 = 0
  PROVE  Aligned(a + 4 + n) = a + Aligned(n + 4)
  BY DEF Aligned

\* A packet takes room, and less than the ring.
LEMMA SpanIs ==
  ASSUME NEW n \in Lengths
  PROVE  /\ n \in Nat /\ Aligned(n + 4) \in 1..(RING - 1)
         /\ Aligned(n + 4) >= n + 4 /\ Aligned(n + 4) % 4 = 0
  <1>1. n \in Nat \ {0} /\ Aligned(n + 4) < RING
    BY ConstantsOK
  <1>2. QED
    BY <1>1, ConstantsOK, AlignedIs, SMTT(20)

\* The place s bytes after place a in a ring of r.
LEMMA WrapIs ==
  ASSUME NEW r \in Nat \ {0}, r % 4 = 0, NEW a \in 0..(r - 1), a % 4 = 0,
         NEW s \in 1..(r - 1), s % 4 = 0
  PROVE  /\ (a + s) % r = IF a + s >= r THEN a + s - r ELSE a + s
         /\ (IF a + s >= r THEN a + s - r ELSE a + s) % 4 = 0
  <1>1. PICK o \in 0..(2 * r - 1) : o = a + s
    OBVIOUS
  <1>2. o % r = IF o < r THEN o ELSE o - r
    BY ModTwice, Zenon
  <1>3. (IF o < r THEN o ELSE o - r) = IF a + s >= r THEN a + s - r ELSE a + s
    BY <1>1
  <1>4. (a + s) % 4 = 0 /\ (a + s - r) % 4 = 0
    OBVIOUS
  <1>5. (IF a + s >= r THEN a + s - r ELSE a + s) % 4 = 0
    BY <1>4
  <1>6. QED
    BY <1>1, <1>2, <1>3, <1>5, Zenon

\* Advanced, the driver's way to the next packet, and the card's, modulo RING.
LEMMA AdvancedIs ==
  ASSUME NEW a, Place(a), NEW n \in Lengths
  PROVE  /\ Advanced(a, n) = IF a + Aligned(n + 4) >= RING THEN a + Aligned(n + 4) - RING
                             ELSE a + Aligned(n + 4)
         /\ Aligned(a + 4 + n) % RING = Advanced(a, n)
         /\ Place(Advanced(a, n))
  <1>1. /\ a \in Nat /\ a < RING /\ a % 4 = 0 /\ n \in Nat /\ RING \in Nat \ {0} /\ RING % 4 = 0
        /\ Aligned(n + 4) \in 1..(RING - 1) /\ Aligned(n + 4) % 4 = 0
    BY ConstantsOK, SpanIs DEF Place
  <1>2. Aligned(a + 4 + n) = a + Aligned(n + 4)
    BY <1>1, AlignedAt, Zenon
  <1>3. PICK s \in 1..(RING - 1) : s = Aligned(n + 4)
    BY <1>1
  <1>4. PICK o \in Nat : o = Aligned(a + 4 + n)
    BY <1>1, AlignedIs
  <1>5. o = a + s
    BY <1>2, <1>3, <1>4
  <1>6. Advanced(a, n) = IF o >= RING THEN o - RING ELSE o
    BY <1>4 DEF Advanced
  <1>7. o % RING = IF a + s >= RING THEN a + s - RING ELSE a + s
    BY <1>1, <1>5, WrapIs
  <1>8. (IF a + s >= RING THEN a + s - RING ELSE a + s) \in 0..(RING - 1)
    BY <1>1
  <1>9. (IF a + s >= RING THEN a + s - RING ELSE a + s) % 4 = 0
    BY <1>1, <1>3, WrapIs
  <1>10. Advanced(a, n) = IF a + s >= RING THEN a + s - RING ELSE a + s
    BY <1>1, <1>5, <1>6
  <1>11. Place(Advanced(a, n)) /\ Aligned(a + 4 + n) % RING = Advanced(a, n)
    BY <1>4, <1>7, <1>8, <1>9, <1>10, Zenon DEF Place
  <1>12. QED
    BY <1>3, <1>10, <1>11, Zenon

\* CAPR takes the 16 off and the card adds it again.
LEMMA CaprIs ==
  ASSUME NEW a \in 0..(RING - 1)
  PROVE  Capr(a) = a
  <1>1. RING \in Nat \ {0} /\ U16 % RING = 0 /\ U16 \in Nat
    BY ConstantsOK DEF U16
  <1>2. PICK k \in Nat : U16 = k * RING
    BY <1>1
  <1>3. (a + U16) % RING = a
    <2>1. (a + k * RING) % RING = a
      BY <1>1, ModMultiple, Zenon
    <2>2. QED
      BY <1>2, <2>1, Zenon
  <1>4. a < U16
    <2>1. k >= 1
      BY <1>1, <1>2 DEF U16
    <2>2. QED
      BY <1>1, <1>2, <2>1
  <1>5. CASE a < 16
    <2>1. (a + U16 - 16) % U16 = a + U16 - 16
      BY <1>5 DEF U16
    <2>2. (a + U16 - 16) + 16 = a + U16
      BY <1>1
    <2>3. QED
      BY <1>3, <2>1, <2>2, Zenon DEF Capr
  <1>6. CASE a >= 16
    <2>1. (a + U16 - 16) % U16 = a - 16
      BY <1>4, <1>6 DEF U16
    <2>2. a % RING = a
      BY <1>1
    <2>3. (a - 16) + 16 = a
      BY <1>1
    <2>4. QED
      BY <2>1, <2>2, <2>3, Zenon DEF Capr
  <1>7. QED
    BY <1>1, <1>5, <1>6

\* The bytes between the card's two offsets.
LEMMA UnreadIs ==
  ASSUME Place(rx.read), Place(rx.write)
  PROVE  Unread = Ahead(rx.read, rx.write)
  <1>1. RING \in Nat \ {0} /\ rx.read \in 0..(RING - 1) /\ rx.write \in 0..(RING - 1)
    BY ConstantsOK DEF Place
  <1> DEFINE a == RING + rx.write - rx.read
  <1>2. a \in 0..(2 * RING - 1) /\ (a < RING <=> ~(rx.write >= rx.read))
    BY <1>1
  <1>3. a % RING = IF a < RING THEN a ELSE a - RING
    BY <1>1, <1>2, ModTwice
  <1>4. QED
    BY <1>1, <1>2, <1>3 DEF Unread, Ahead
-----------------------------------------------------------------------------
(* The ring as the card fills it and the driver drains it                  *)

\* Ahead is a number of bytes of the ring, 0 only where the driver is.
LEMMA AheadIs ==
  ASSUME NEW r \in 0..(RING - 1), NEW a \in 0..(RING - 1)
  PROVE  /\ RING \in Nat /\ Ahead(r, a) \in Nat /\ Ahead(r, a) \in 0..(RING - 1)
         /\ Ahead(r, a) = 0 <=> a = r
  BY ConstantsOK DEF Ahead

\* The place s bytes after a is s further ahead.
LEMMA AheadForward ==
  ASSUME NEW r \in 0..(RING - 1), NEW a \in 0..(RING - 1), NEW s \in 1..(RING - 1),
         Ahead(r, a) + s < RING
  PROVE  Ahead(r, IF a + s >= RING THEN a + s - RING ELSE a + s) = Ahead(r, a) + s
  BY ConstantsOK DEF Ahead

\* When the driver has gone s bytes, it is s closer to a place.
LEMMA AheadCloser ==
  ASSUME NEW r \in 0..(RING - 1), NEW a \in 0..(RING - 1), NEW s \in 1..(RING - 1),
         s <= Ahead(r, a)
  PROVE  Ahead(IF r + s >= RING THEN r + s - RING ELSE r + s, a) = Ahead(r, a) - s
  BY ConstantsOK DEF Ahead

\* Two places equally far ahead are one.
LEMMA AheadInjective ==
  ASSUME NEW r \in 0..(RING - 1), NEW a \in 0..(RING - 1), NEW b \in 0..(RING - 1),
         Ahead(r, a) = Ahead(r, b)
  PROVE  a = b
  BY ConstantsOK DEF Ahead

\* A packet that waits is not touched by one that the card writes behind it.
LEMMA NoOverlap ==
  ASSUME NEW r \in 0..(RING - 1), NEW w \in 0..(RING - 1), NEW a \in 0..(RING - 1),
         NEW l \in Nat, NEW k \in Nat, l + 4 <= k, Ahead(r, a) + k <= Ahead(r, w),
         NEW n \in Nat, NEW s \in Nat, n + 4 <= s, Ahead(r, w) + s < RING
  PROVE  ~(a < w + 4 + n /\ w < a + 4 + l)
  BY ConstantsOK DEF Ahead

\* What a packet is made of.
LEMMA PacketFields ==
  ASSUME NEW p \in Packets
  PROVE  /\ RING \in Nat /\ p.at \in 0..(RING - 1) /\ p.at \in Nat
         /\ p.length \in Lengths /\ p.length \in Nat
         /\ Span(p) \in 1..(RING - 1) /\ p.length + 4 <= Span(p)
  <1>1. p.at \in 0..(RING - 1) /\ p.length \in Lengths
    BY DEF Packets
  <1>2. RING \in Nat
    BY ConstantsOK
  <1>3. p.length \in Nat /\ Span(p) \in 1..(RING - 1) /\ p.length + 4 <= Span(p)
    BY <1>1, SpanIs DEF Span
  <1>4. QED
    BY <1>1, <1>2, <1>3

\* The card has room only in front of the driver.
LEMMA RoomIs ==
  ASSUME NEW r, NEW w, NEW ps, NEW m, Place(r), Place(w), Waiting(r, w, ps, m),
         NEW n \in Lengths, Ahead(r, w) = 0 \/ Aligned(n + 4) < RING - Ahead(r, w)
  PROVE  Ahead(r, w) + Aligned(n + 4) < RING
  <1>1. RING \in Nat /\ Ahead(r, w) \in 0..(RING - 1) /\ Aligned(n + 4) \in 1..(RING - 1)
    BY ConstantsOK, SpanIs, AheadIs, Zenon DEF Place
  <1>2. QED
    BY <1>1

\* A packet the card writes keeps the packets in memory apart.
LEMMA MemoryAdds ==
  ASSUME NEW m, Memory(m), NEW p \in Packets, Place(p.at)
  PROVE  Memory({q \in m : ~Overlap(q, p.at, p.length)} \cup {p})
  <1> DEFINE m2 == {q \in m : ~Overlap(q, p.at, p.length)} \cup {p}
  <1>1. m2 \subseteq Packets /\ \A q \in m2 : Place(q.at)
    BY DEF Memory
  <1>2. ASSUME NEW q \in m2, NEW q2 \in m2, Overlap(q, q2.at, q2.length)
        PROVE  q = q2
    <2>1. CASE q \in m /\ q2 \in m
      BY <1>2, <2>1 DEF Memory
    <2>2. q \in Packets /\ q2 \in Packets
      BY <1>1
    <2>3. q.at \in Nat /\ q.length \in Nat /\ q2.at \in Nat /\ q2.length \in Nat
      BY <2>2, PacketFields
    <2>4. Overlap(q2, q.at, q.length)
      BY <1>2, <2>3 DEF Overlap
    <2>5. QED
      BY <1>2, <2>1, <2>4
  <1>3. QED
    BY <1>1, <1>2 DEF Memory
\* The card writes a packet where it has room: it waits behind the others, and
\* none of those is touched.
LEMMA WaitingAdds ==
  ASSUME NEW r, NEW w, NEW ps, NEW m, NEW p \in Packets,
         Place(r), Place(w), Memory(m), Waiting(r, w, ps, m), p.at = w,
         Ahead(r, w) = 0 \/ Span(p) < RING - Ahead(r, w)
  PROVE  Waiting(r, Advanced(w, p.length), Append(ps, p),
                 {q \in m : ~Overlap(q, w, p.length)} \cup {p})
  <1> DEFINE m2 == {q \in m : ~Overlap(q, w, p.length)} \cup {p}
             w2 == Advanced(w, p.length)
             qs == Append(ps, p)
             n == Len(ps)
  <1>1. /\ r \in 0..(RING - 1) /\ w \in 0..(RING - 1) /\ RING \in Nat
        /\ p.length \in Nat /\ Span(p) \in 1..(RING - 1) /\ p.length + 4 <= Span(p)
        /\ Ahead(r, w) \in 0..(RING - 1)
    BY PacketFields, AheadIs, Zenon DEF Place
  <1>2. Ahead(r, w) + Span(p) < RING
    BY PacketFields, RoomIs DEF Span
  <1>3. Ahead(r, w2) = Ahead(r, w) + Span(p)
    <2>1. w2 = IF w + Span(p) >= RING THEN w + Span(p) - RING ELSE w + Span(p)
      BY PacketFields, AdvancedIs DEF Span
    <2>2. Ahead(r, IF w + Span(p) >= RING THEN w + Span(p) - RING ELSE w + Span(p))
            = Ahead(r, w) + Span(p)
      BY <1>1, <1>2, AheadForward, Zenon
    <2>3. QED
      BY <2>1, <2>2, Zenon
  <1>4. /\ ps \in Seq(Packets) /\ qs \in Seq(Packets) /\ n \in Nat /\ Len(qs) = n + 1
        /\ qs[n + 1] = p /\ \A i \in 1..n : qs[i] = ps[i]
    BY DEF Waiting
  <1> HIDE DEF qs
  <1> DEFINE A(i) == Ahead(r, qs[i].at)
             S(i) == Span(qs[i])
  <1>5. A(n + 1) = Ahead(r, w) /\ S(n + 1) = Span(p)
    BY <1>4
  <1>6. ASSUME NEW i \in 1..n
        PROVE  /\ qs[i] \in m /\ qs[i] \in Packets /\ A(i) + S(i) <= Ahead(r, w)
               /\ A(i) \in Nat /\ S(i) \in Nat
    <2>1. qs[i] = ps[i] /\ ps[i] \in Packets
      BY <1>4
    <2>2. A(i) \in Nat /\ S(i) \in Nat
      <3>1. ps[i].at \in 0..(RING - 1) /\ S(i) \in Nat
        BY <2>1, PacketFields
      <3>2. QED
        BY <1>1, <2>1, <3>1, AheadIs, Zenon
    <2>3. QED
      BY <2>1, <2>2 DEF Waiting
  <1>7. ASSUME NEW i \in 1..n
        PROVE  ~Overlap(qs[i], w, p.length)
    <2>1. /\ qs[i].at \in 0..(RING - 1) /\ qs[i].length \in Nat /\ S(i) \in Nat
          /\ qs[i].length + 4 <= S(i) /\ A(i) + S(i) <= Ahead(r, w)
      BY <1>6, PacketFields
    <2>3. Span(p) \in Nat
      BY <1>1
    <2>2. ~(qs[i].at < w + 4 + p.length /\ w < qs[i].at + 4 + qs[i].length)
      BY <1>1, <1>2, <2>1, <2>3, NoOverlap, Zenon
    <2>4. QED
      BY <2>2 DEF Overlap
  <1>8. ASSUME NEW i \in 1..Len(qs)
        PROVE  qs[i] \in m2 /\ A(i) + S(i) <= Ahead(r, w2)
    <2>1. CASE i = n + 1
      BY <1>1, <1>3, <1>4, <1>5, <2>1
    <2>2. CASE i \in 1..n
      BY <1>1, <1>3, <1>6, <1>7, <2>2, SMTT(20)
    <2>3. QED
      BY <1>4, <2>1, <2>2
  <1>9. ASSUME NEW i \in 1..Len(qs), NEW j \in 1..Len(qs), i < j
        PROVE  A(i) + S(i) <= A(j)
    <2>1. i \in 1..n
      BY <1>4, <1>9
    <2>2. CASE j = n + 1
      BY <1>5, <1>6, <2>1, <2>2, Zenon
    <2>3. CASE j \in 1..n
      <3>1. Ahead(r, ps[i].at) + Span(ps[i]) <= Ahead(r, ps[j].at)
        BY <1>9, <2>1, <2>3, Zenon DEF Waiting
      <3>2. QED
        BY <1>4, <2>1, <2>3, <3>1, Zenon
    <2>4. j = n + 1 \/ j \in 1..n
      BY <1>4
    <2>5. QED
      BY <2>2, <2>3, <2>4
  <1> HIDE DEF A, S
  <1>10. ASSUME NEW i \in 1..Len(qs), i > 1
         PROVE  A(i) = A(i - 1) + S(i - 1)
    <2>1. CASE i = n + 1
      <3>1. n \in 1..n /\ ps # <<>> /\ qs[n] = ps[n]
        BY <1>4, <1>10, <2>1
      <3>2. Ahead(r, w) = Ahead(r, ps[n].at) + Span(ps[n])
        BY <3>1 DEF Waiting
      <3>3. i - 1 = n
        BY <1>4, <2>1
      <3>4. QED
        BY <1>5, <2>1, <3>1, <3>2, <3>3 DEF A, S
    <2>2. CASE i \in 1..n
      <3>1. i - 1 \in 1..n
        BY <1>4, <1>10, <2>2
      <3>2. QED
        BY <1>4, <1>10, <2>2, <3>1 DEF Waiting, A, S
    <2>3. QED
      BY <1>4, <2>1, <2>2
  <1>11. qs # <<>> /\ qs[1].at = r /\ Ahead(r, w2) = A(Len(qs)) + S(Len(qs))
    <2>1. CASE ps = <<>>
      BY <1>3, <1>4, <1>5, <2>1 DEF Waiting
    <2>2. CASE ps # <<>>
      BY <1>3, <1>4, <1>5, <2>2 DEF Waiting
    <2>3. QED
      BY <2>1, <2>2
  <1> USE DEF A, S
  <1> HIDE DEF m2, w2, n
  <1>12. Waiting(r, w2, qs, m2)
    BY <1>4, <1>8, <1>9, <1>10, <1>11 DEF Waiting
  <1>13. QED
    BY <1>12 DEF m2, w2, qs
\* The driver takes the oldest packet: it finds the next one at its new offset,
\* and the card's offset there when no other waits.
LEMMA WaitingTakes ==
  ASSUME NEW r, NEW w, NEW ps, NEW m,
         Place(r), Place(w), Waiting(r, w, ps, m), ps # <<>>
  PROVE  /\ Place(Advanced(r, ps[1].length))
         /\ Waiting(Advanced(r, ps[1].length), w, Tail(ps), m)
  <1> DEFINE r2 == Advanced(r, ps[1].length)
             qs == Tail(ps)
             n == Len(qs)
             s == Span(ps[1])
             A(i) == Ahead(r, ps[i].at)
             S(i) == Span(ps[i])
  <1>1. /\ ps \in Seq(Packets) /\ qs \in Seq(Packets) /\ n \in Nat /\ Len(ps) = n + 1
        /\ \A i \in 1..n : qs[i] = ps[i + 1]
    BY DEF Waiting
  <1>2. 1 \in 1..Len(ps) /\ ps[1] \in Packets /\ ps[1].at = r
    BY <1>1 DEF Waiting
  <1>3. /\ RING \in Nat /\ ps[1].length \in Lengths /\ s \in 1..(RING - 1)
        /\ r \in 0..(RING - 1) /\ w \in 0..(RING - 1)
    BY <1>2, PacketFields DEF Place
  <1>4. Place(r2) /\ r2 = IF r + s >= RING THEN r + s - RING ELSE r + s
    BY <1>3, AdvancedIs, Zenon DEF Span
  <1> HIDE DEF qs, n, r2, s, A, S
  <1>5. ASSUME NEW a \in 0..(RING - 1), s <= Ahead(r, a)
        PROVE  Ahead(r2, a) = Ahead(r, a) - s
    <2>1. Ahead(IF r + s >= RING THEN r + s - RING ELSE r + s, a) = Ahead(r, a) - s
      BY <1>3, <1>5, AheadCloser, Zenon
    <2>2. QED
      BY <1>4, <2>1, Zenon
  <1>6. ASSUME NEW i \in 1..Len(ps)
        PROVE  /\ ps[i] \in m /\ A(i) \in Nat /\ S(i) \in Nat /\ ps[i].at \in 0..(RING - 1)
               /\ A(i) + S(i) <= Ahead(r, w)
    <2>1. ps[i].at \in 0..(RING - 1) /\ Span(ps[i]) \in Nat
      BY <1>1, PacketFields
    <2>2. Ahead(r, ps[i].at) \in Nat
      BY <1>3, <2>1, AheadIs, Zenon
    <2>3. QED
      BY <2>1, <2>2 DEF Waiting, A, S
  <1>7. A(1) = 0 /\ S(1) = s /\ s \in Nat /\ Ahead(r, w) \in Nat
    BY <1>2, <1>3, AheadIs DEF A, S, s
  <1>8. \A i, j \in 1..Len(ps) : i < j => A(i) + S(i) <= A(j)
    BY Zenon DEF Waiting, A, S
  <1>9. Ahead(r2, w) = Ahead(r, w) - s
    BY <1>2, <1>3, <1>5, <1>6, <1>7
  <1>10. ASSUME NEW i \in 1..n
         PROVE  /\ i + 1 \in 1..Len(ps) /\ qs[i] = ps[i + 1]
                /\ Ahead(r2, qs[i].at) = A(i + 1) - s /\ Span(qs[i]) = S(i + 1)
    <2>1. i + 1 \in 1..Len(ps) /\ 1 < i + 1
      BY <1>1
    <2>2. s <= A(i + 1)
      BY <1>2, <1>6, <1>7, <1>8, <2>1
    <2>3. QED
      BY <1>1, <1>5, <1>6, <2>1, <2>2, Zenon DEF A, S
  <1>11. ASSUME NEW i \in 1..n
         PROVE  qs[i] \in m /\ Ahead(r2, qs[i].at) + Span(qs[i]) <= Ahead(r2, w)
    <2>1. /\ ps[i + 1] \in m /\ A(i + 1) \in Nat /\ S(i + 1) \in Nat
          /\ A(i + 1) + S(i + 1) <= Ahead(r, w)
      BY <1>6, <1>10, Zenon
    <2>2. QED
      BY <1>7, <1>9, <1>10, <2>1
  <1>12. ASSUME NEW i \in 1..n, NEW j \in 1..n, i < j
         PROVE  Ahead(r2, qs[i].at) + Span(qs[i]) <= Ahead(r2, qs[j].at)
    <2>1. A(i + 1) + S(i + 1) <= A(j + 1)
      BY <1>8, <1>10, <1>12
    <2>2. QED
      BY <1>6, <1>7, <1>10, <2>1, SMTT(20)
  <1>13. ASSUME NEW i \in 1..n, i > 1
         PROVE  Ahead(r2, qs[i].at) = Ahead(r2, qs[i - 1].at) + Span(qs[i - 1])
    <2>1. i - 1 \in 1..n /\ (i - 1) + 1 = i /\ (i + 1) - 1 = i
      BY <1>1, <1>13
    <2>2. A(i + 1) = A(i) + S(i)
      BY <1>10, <1>13, <2>1 DEF Waiting, A, S
    <2>3. Ahead(r2, qs[i - 1].at) = A(i) - s /\ Span(qs[i - 1]) = S(i)
      BY <1>10, <2>1
    <2>4. QED
      BY <1>6, <1>7, <1>10, <2>1, <2>2, <2>3
  <1>14. Ahead(r, w) = A(n + 1) + S(n + 1)
    BY <1>1 DEF Waiting, A, S
  <1>15. qs = <<>> => w = r2
    <2>1. SUFFICES ASSUME qs = <<>> PROVE w = r2
      OBVIOUS
    <2>2. n = 0
      BY <2>1 DEF n
    <2>3. Ahead(r2, w) = 0
      BY <1>7, <1>9, <1>14, <2>2
    <2>4. QED
      BY <1>3, <1>4, <2>3, AheadIs, Zenon DEF Place
  <1>16. qs # <<>> => /\ qs[1].at = r2
                      /\ Ahead(r2, w) = Ahead(r2, qs[Len(qs)].at) + Span(qs[Len(qs)])
    <2>1. SUFFICES ASSUME qs # <<>>
                   PROVE  /\ qs[1].at = r2
                          /\ Ahead(r2, w) = Ahead(r2, qs[n].at) + Span(qs[n])
      BY DEF n
    <2>2. 1 \in 1..n /\ n \in 1..n /\ 1 + 1 \in 1..Len(ps)
      BY <1>1, <2>1 DEF n
    <2>3. A(1 + 1) = s
      <3>1. A(1 + 1) = A(1) + S(1)
        BY <2>2 DEF Waiting, A, S
      <3>2. QED
        BY <1>7, <3>1
    <2>4. Ahead(r2, qs[1].at) = 0 /\ qs[1].at \in 0..(RING - 1)
      BY <1>6, <1>7, <1>10, <2>2, <2>3, SMTT(20)
    <2>5. qs[1].at = r2
      BY <1>4, <2>4, AheadIs, Zenon DEF Place
    <2>6. Ahead(r2, w) = Ahead(r2, qs[n].at) + Span(qs[n])
      BY <1>6, <1>7, <1>9, <1>10, <1>14, <2>2, SMTT(20)
    <2>7. QED
      BY <2>5, <2>6
  <1>17. Waiting(r2, w, qs, m)
    BY <1>1, <1>11, <1>12, <1>13, <1>15, <1>16 DEF Waiting, n
  <1>18. QED
    BY <1>4, <1>17 DEF r2, qs
-----------------------------------------------------------------------------
(* The descriptors as the driver lends them and the card gives them back   *)

\* Counting descriptors: the first is n itself, no two of TXDESC in a row are
\* the same, and after TXDESC it is n's turn again.
LEMMA NthIs ==
  ASSUME NEW n \in Descriptors, NEW i \in 1..(TXDESC + 1)
  PROVE  /\ Nth(n, i) \in Descriptors /\ Nth(n, 1) = n /\ Nth(n, TXDESC + 1) = n
         /\ \A j \in 1..TXDESC : i \in 1..TXDESC /\ Nth(n, i) = Nth(n, j) => i = j
  BY ConstantsOK DEF Nth, Descriptors

\* The descriptor after one, and the count from there.
LEMMA NthNext ==
  ASSUME NEW n \in Descriptors, NEW i \in 1..TXDESC
  PROVE  /\ (Nth(n, i) + 1) % TXDESC = Nth(n, i + 1)
         /\ Nth((n + 1) % TXDESC, i) = Nth(n, i + 1)
  <1>1. TXDESC \in Nat \ {0} /\ n \in 0..(TXDESC - 1)
    BY ConstantsOK DEF Descriptors
  <1>2. ASSUME NEW d \in 0..(TXDESC - 1)
        PROVE  (d + 1) % TXDESC = IF d + 1 < TXDESC THEN d + 1 ELSE 0
    <2>1. PICK o \in 0..(2 * TXDESC - 1) : o = d + 1
      BY <1>1
    <2>2. o % TXDESC = IF o < TXDESC THEN o ELSE o - TXDESC
      BY <1>1, ModTwice, Zenon
    <2>3. (IF o < TXDESC THEN o ELSE o - TXDESC) = IF d + 1 < TXDESC THEN d + 1 ELSE 0
      BY <1>1, <2>1
    <2>4. QED
      BY <2>1, <2>2, <2>3, Zenon
  <1> DEFINE Succ(d) == IF d + 1 < TXDESC THEN d + 1 ELSE 0
  <1>3. Nth(n, i) \in 0..(TXDESC - 1)
    BY <1>1 DEF Nth
  <1>4. Succ(Nth(n, i)) = Nth(n, i + 1) /\ Nth(Succ(n), i) = Nth(n, i + 1)
    BY <1>1 DEF Nth
  <1>5. /\ (Nth(n, i) + 1) % TXDESC = Succ(Nth(n, i))
        /\ (n + 1) % TXDESC = Succ(n)
    BY <1>1, <1>2, <1>3, Zenon
  <1> HIDE DEF Succ
  <1>6. QED
    BY <1>4, <1>5, Zenon

\* The descriptor after one is one.
LEMMA NextIn ==
  ASSUME NEW n \in Descriptors
  PROVE  (n + 1) % TXDESC \in Descriptors
  <1>1. TXDESC \in Nat \ {0} /\ n \in Nat
    BY ConstantsOK DEF Descriptors
  <1>2. QED
    BY <1>1 DEF Descriptors

\* A descriptor that is the driver's own leaves room for a frame.
LEMMA OwnIsFree ==
  ASSUME NEW n \in Descriptors, NEW cur, NEW desc, NEW buf, NEW q \in Seq(Frames),
         Lent(n, cur, desc, buf, q), desc[cur].own
  PROVE  /\ Len(q) \in 0..(TXDESC - 1) /\ cur \in Descriptors /\ cur = Nth(n, Len(q) + 1)
         /\ \A i \in 1..Len(q) : Nth(n, i) \in Descriptors /\ Nth(n, i) # cur
  <1>1. Len(q) \in Nat /\ Len(q) <= TXDESC /\ cur = Nth(n, Len(q) + 1) /\ TXDESC \in Nat \ {0}
    BY ConstantsOK DEF Lent
  <1>2. Len(q) # TXDESC
    <2>1. SUFFICES ASSUME Len(q) = TXDESC PROVE FALSE
      OBVIOUS
    <2>2. 1 \in 1..Len(q) /\ 1 \in 1..(TXDESC + 1)
      BY <1>1, <2>1
    <2>3. Nth(n, 1) = n /\ cur = n
      BY <1>1, <2>1, <2>2, NthIs
    <2>4. QED
      BY <2>2, <2>3, Zenon DEF Lent
  <1>3. Len(q) + 1 \in 1..TXDESC /\ Len(q) + 1 \in 1..(TXDESC + 1)
    BY <1>1, <1>2
  <1>4. ASSUME NEW i \in 1..Len(q)
        PROVE  Nth(n, i) \in Descriptors /\ Nth(n, i) # cur
    <2>1. i \in 1..TXDESC /\ i \in 1..(TXDESC + 1) /\ i # Len(q) + 1
      BY <1>1, <1>2
    <2>2. QED
      BY <1>1, <1>3, <2>1, NthIs, Zenon
  <1>5. QED
    BY <1>1, <1>2, <1>3, <1>4, NthIs

\* send_frame fills the buffer of a descriptor the card does not have.
LEMMA LentFill ==
  ASSUME NEW n \in Descriptors, NEW cur, NEW desc, NEW q \in Seq(Frames),
         NEW buf \in [Descriptors -> [TxBytes -> Nat]], NEW b \in [TxBytes -> Nat],
         Lent(n, cur, desc, buf, q), desc[cur].own
  PROVE  Lent(n, cur, desc, [buf EXCEPT ![cur] = b], q)
  <1>1. \A i \in 1..Len(q) : [buf EXCEPT ![cur] = b][Nth(n, i)] = buf[Nth(n, i)]
    BY OwnIsFree
  <1>2. QED
    BY <1>1, Zenon DEF Lent
\* send_frame gives a filled descriptor to the card.
LEMMA LentStart ==
  ASSUME NEW n \in Descriptors, NEW cur, NEW desc \in [Descriptors -> DescType], NEW buf,
         NEW q \in Seq(Frames), Lent(n, cur, desc, buf, q), desc[cur].own,
         NEW f \in Frames, NEW l \in Nat, SubSeq(buf[cur], 1, l) = f
  PROVE  Lent(n, (cur + 1) % TXDESC, [desc EXCEPT ![cur] = [own |-> FALSE, length |-> l]],
              buf, Append(q, f))
  <1> DEFINE k == Len(q)
             desc2 == [desc EXCEPT ![cur] = [own |-> FALSE, length |-> l]]
             q2 == Append(q, f)
  <1>1. /\ k \in 0..(TXDESC - 1) /\ cur \in Descriptors /\ cur = Nth(n, k + 1)
        /\ \A i \in 1..k : Nth(n, i) \in Descriptors /\ Nth(n, i) # cur
    BY OwnIsFree
  <1>2. Len(q2) = k + 1 /\ q2[k + 1] = f /\ \A i \in 1..k : q2[i] = q[i]
    OBVIOUS
  <1>3. k + 1 \in 1..TXDESC /\ TXDESC \in Nat
    BY <1>1, ConstantsOK
  <1>4. (cur + 1) % TXDESC = Nth(n, (k + 1) + 1)
    BY <1>1, <1>3, NthNext, Zenon
  <1>5. /\ desc2[cur].own = FALSE /\ desc2[cur].length = l
        /\ \A d \in Descriptors : d # cur => desc2[d] = desc[d]
    BY <1>1
  <1> HIDE DEF k, desc2, q2
  <1>6. ASSUME NEW i \in 1..(k + 1)
        PROVE  ~desc2[Nth(n, i)].own /\ SubSeq(buf[Nth(n, i)], 1, desc2[Nth(n, i)].length) = q2[i]
    <2>1. CASE i = k + 1
      BY <1>1, <1>2, <1>5, <2>1, Zenon
    <2>2. CASE i \in 1..k
      <3>1. desc2[Nth(n, i)] = desc[Nth(n, i)] /\ q2[i] = q[i]
        BY <1>1, <1>2, <1>5, <2>2, Zenon
      <3>2. ~desc[Nth(n, i)].own /\ SubSeq(buf[Nth(n, i)], 1, desc[Nth(n, i)].length) = q[i]
        BY <2>2, Zenon DEF Lent, k
      <3>3. QED
        BY <3>1, <3>2, Zenon
    <2>3. i = k + 1 \/ i \in 1..k
      BY <1>1
    <2>4. QED
      BY <2>1, <2>2, <2>3
  <1>7. ASSUME NEW d \in Descriptors, ~desc2[d].own
        PROVE  \E i \in 1..(k + 1) : d = Nth(n, i)
    <2>1. k + 1 \in 1..(k + 1) /\ \A i \in 1..k : i \in 1..(k + 1)
      BY <1>1
    <2>2. CASE d = cur
      BY <1>1, <2>1, <2>2, Zenon
    <2>3. CASE d # cur
      <3>1. ~desc[d].own
        BY <1>5, <1>7, <2>3, Zenon
      <3>2. \E i \in 1..k : d = Nth(n, i)
        BY <3>1, Zenon DEF Lent, k
      <3>3. QED
        BY <2>1, <3>2, Zenon
    <2>4. QED
      BY <2>2, <2>3
  <1>8. k + 1 <= TXDESC
    BY <1>3
  <1>9. Lent(n, (cur + 1) % TXDESC, desc2, buf, q2)
    BY <1>2, <1>4, <1>6, <1>7, <1>8, ZenonT(40) DEF Lent
  <1>10. QED
    BY <1>9 DEF desc2, q2

\* The card sends the oldest frame and gives its descriptor back.
LEMMA LentSent ==
  ASSUME NEW n \in Descriptors, NEW cur, NEW desc \in [Descriptors -> DescType], NEW buf,
         NEW q \in Seq(Frames), Lent(n, cur, desc, buf, q), ~desc[n].own
  PROVE  /\ q # <<>> /\ SubSeq(buf[n], 1, desc[n].length) = Head(q)
         /\ Lent((n + 1) % TXDESC, cur, [desc EXCEPT ![n].own = TRUE], buf, Tail(q))
  <1> DEFINE k == Len(q)
             desc2 == [desc EXCEPT ![n].own = TRUE]
             q2 == Tail(q)
             n2 == (n + 1) % TXDESC
  <1>1. k \in 0..TXDESC /\ TXDESC \in Nat \ {0} /\ cur = Nth(n, k + 1)
    BY ConstantsOK DEF Lent
  <1>2. PICK i \in 1..k : n = Nth(n, i)
    BY Zenon DEF Lent
  <1>3. 1 \in 1..k /\ q # <<>>
    BY <1>1, <1>2
  <1>4. Nth(n, 1) = n /\ \A j \in 1..k : Nth(n, j) \in Descriptors /\ (Nth(n, j) = n => j = 1)
    <2>1. ASSUME NEW j \in 1..k
          PROVE  Nth(n, j) \in Descriptors /\ (Nth(n, j) = n => j = 1)
      <3>1. j \in 1..(TXDESC + 1) /\ j \in 1..TXDESC /\ 1 \in 1..TXDESC /\ 1 \in 1..(TXDESC + 1)
        BY <1>1
      <3>2. Nth(n, 1) = n
        BY <3>1, NthIs, Zenon
      <3>3. QED
        BY <3>1, <3>2, NthIs, Zenon
    <2>2. 1 \in 1..(TXDESC + 1)
      BY <1>1
    <2>3. QED
      BY <2>1, <2>2, NthIs, Zenon
  <1>5. SubSeq(buf[n], 1, desc[n].length) = q[1] /\ Head(q) = q[1]
    BY <1>3, <1>4 DEF Lent
  <1>6. Len(q2) = k - 1 /\ \A j \in 1..(k - 1) : q2[j] = q[j + 1]
    BY <1>1, <1>3
  <1>7. desc2[n].own = TRUE /\ \A d \in Descriptors : d # n => desc2[d] = desc[d]
    BY DEF DescType
  <1> HIDE DEF desc2, q2, k
  <1>8. ASSUME NEW j \in 1..k
        PROVE  Nth(n2, j) = Nth(n, j + 1)
    <2>1. j \in 1..TXDESC
      BY <1>1
    <2>2. QED
      BY <2>1, NthNext, Zenon
  <1> HIDE DEF n2
  <1>9. ASSUME NEW j \in 1..(k - 1)
        PROVE  ~desc2[Nth(n2, j)].own /\ SubSeq(buf[Nth(n2, j)], 1, desc2[Nth(n2, j)].length) = q2[j]
    <2>1. j \in 1..k /\ j + 1 \in 1..k /\ j + 1 # 1
      BY <1>1
    <2>2. Nth(n2, j) = Nth(n, j + 1) /\ desc2[Nth(n, j + 1)] = desc[Nth(n, j + 1)]
      BY <1>4, <1>7, <1>8, <2>1, Zenon
    <2>3. ~desc[Nth(n, j + 1)].own /\ SubSeq(buf[Nth(n, j + 1)], 1, desc[Nth(n, j + 1)].length) = q[j + 1]
      BY <2>1, Zenon DEF Lent, k
    <2>4. QED
      BY <1>6, <2>2, <2>3, Zenon
  <1>10. ASSUME NEW d \in Descriptors, ~desc2[d].own
         PROVE  \E j \in 1..(k - 1) : d = Nth(n2, j)
    <2>1. d # n /\ ~desc[d].own
      BY <1>7, <1>10, Zenon
    <2>2. PICK j \in 1..k : d = Nth(n, j)
      BY <2>1, Zenon DEF Lent, k
    <2>3. j # 1
      BY <1>4, <2>1, <2>2, Zenon
    <2>4. j - 1 \in 1..(k - 1) /\ j - 1 \in 1..k /\ (j - 1) + 1 = j
      BY <1>1, <2>3
    <2>5. d = Nth(n2, j - 1)
      BY <1>8, <2>2, <2>4, Zenon
    <2>6. QED
      BY <2>4, <2>5, Zenon
  <1>11. cur = Nth(n2, (k - 1) + 1) /\ k - 1 <= TXDESC
    <2>1. k \in 1..k /\ (k - 1) + 1 = k
      BY <1>1, <1>3
    <2>2. QED
      BY <1>1, <1>8, <2>1
  <1>12. Lent(n2, cur, desc2, buf, q2)
    BY <1>6, <1>9, <1>10, <1>11, Zenon DEF Lent
  <1>13. QED
    BY <1>3, <1>5, <1>12 DEF n2, desc2, q2
-----------------------------------------------------------------------------
(* The steps                                                               *)

\* No packet waits and no descriptor is lent when the kernel starts.
LEMMA InitEstablishes == Init => IInv
  <1>1. SUFFICES ASSUME Init PROVE IInv
    OBVIOUS
  <1>2. RING \in Nat \ {0} /\ TXDESC \in Nat \ {0} /\ 0 \in 0..(RING - 1) /\ 0 \in Descriptors
    BY ConstantsOK DEF Descriptors
  <1>3. Shape
    <2>1. drv \in DrvType /\ rx \in RxType
      BY <1>1, <1>2 DEF Init, DrvType, RxType
    <2>2. tx \in TxType
      BY <1>1, <1>2 DEF Init, TxType, DescType, None
    <2>3. queued \in Seq(Frames) /\ seen \in SeenType
      BY <1>1 DEF Init, SeenType
    <2>4. count \in CountType
      BY <1>1, ConstantsOK DEF Init, CountType
    <2>5. QED
      BY <1>1, <2>1, <2>2, <2>3, <2>4, SMTT(20) DEF Init, Shape
  <1>4. RxInv
    <2>1. rx.read = 0 /\ rx.write = 0 /\ drv.rx_offset = 0 /\ drv.at = "idle"
      BY <1>1 DEF Init
    <2>2. Place(0)
      BY <1>2 DEF Place
    <2>3. mem = {} /\ pending = <<>> /\ seen.got /\ ~seen.desync
      BY <1>1 DEF Init
    <2>4. Memory({})
      BY DEF Memory
    <2>5. Waiting(0, 0, <<>>, {})
      BY DEF Waiting
    <2>6. QED
      BY <2>1, <2>2, <2>3, <2>4, <2>5 DEF RxInv, Receiving
  <1>5. TxInv
    <2>1. drv.tx_cur = 0 /\ drv.at = "idle" /\ tx.next = 0 /\ queued = <<>> /\ seen.sent
      BY <1>1 DEF Init
    <2>2. \A d \in Descriptors : tx.desc[d].own = TRUE
      BY <1>1 DEF Init
    <2>3. Nth(0, 0 + 1) = 0
      BY <1>2 DEF Nth
    <2>4. Len(queued) = 0 /\ 0 <= TXDESC /\ 1..0 = {}
      BY <1>2, <2>1
    <2>5. Lent(0, 0, tx.desc, tx.buf, queued)
      BY <2>2, <2>3, <2>4, Zenon DEF Lent
    <2>6. QED
      BY <2>1, <2>5 DEF TxInv, Sending
  <1>6. QED
    BY <1>3, <1>4, <1>5 DEF IInv

\* A step that leaves the driver, the transmitter and what it has sent alone
\* keeps the invariant of the descriptors.
LEMMA TxKept ==
  ASSUME TxInv, UNCHANGED <<tx, queued>>, seen'.sent = seen.sent, count'.tx = count.tx,
         drv'.tx_cur = drv.tx_cur, drv'.at \in {"idle", "header", "copy"}
  PROVE  TxInv'
  BY DEF TxInv, Sending

\* A step that leaves the receiver and what it has got alone keeps the
\* invariant of the ring.
LEMMA RxKept ==
  ASSUME RxInv, UNCHANGED <<rx, mem, pending>>, seen'.got = seen.got, seen'.desync = seen.desync,
         drv'.rx_offset = drv.rx_offset, drv'.at \notin {"header", "copy"}
  PROVE  RxInv'
  BY DEF RxInv, Receiving

\* program: the ring is empty again, and what is in memory does not matter.
LEMMA ProgramKeeps ==
  ASSUME IInv, Program, UNCHANGED <<mem, tx, queued, count>>,
         seen' \in SeenType, seen'.got, ~seen'.desync, seen'.sent = seen.sent,
         up' \in {"down", "up", "not_found", "not_mapped", "reset_timeout", "no_memory"}
  PROVE  IInv'
  <1>1. RING \in Nat \ {0} /\ 0 \in 0..(RING - 1) /\ drv \in DrvType
    BY ConstantsOK DEF IInv, Shape
  <1>2. /\ drv' \in DrvType /\ drv'.at = "idle" /\ drv'.rx_offset = 0
        /\ drv'.tx_cur = drv.tx_cur
    BY <1>1, Zenon DEF Program, DrvType
  <1>3. rx' \in RxType /\ rx'.read = 0 /\ rx'.write = 0 /\ pending' = <<>>
    BY <1>1 DEF Program, RxType
  <1>4. Shape'
    BY <1>2, <1>3 DEF IInv, Shape
  <1>5. RxInv'
    <2>1. Place(0)
      BY <1>1 DEF Place
    <2>2. Waiting(0, 0, <<>>, mem)
      BY DEF Waiting
    <2>3. QED
      BY <1>2, <1>3, <2>1, <2>2 DEF IInv, RxInv, Receiving
  <1>6. TxInv'
    BY <1>2, TxKept DEF IInv
  <1>7. QED
    BY <1>4, <1>5, <1>6 DEF IInv
\* A packet arrives.
LEMMA ArriveKeeps ==
  ASSUME IInv, NEW n \in Lengths, Arrive(n)
  PROVE  IInv'
  <1> DEFINE p == [at |-> rx.write, length |-> n, frame |-> count.rx + 1]
  <1>1. /\ drv \in DrvType /\ rx \in RxType /\ count \in CountType
        /\ Place(rx.read) /\ Place(rx.write) /\ Memory(mem)
        /\ Waiting(rx.read, rx.write, pending, mem)
    BY DEF IInv, Shape, RxInv
  <1>2. /\ count' \in CountType /\ count'.tx = count.tx /\ UNCHANGED <<up, drv, tx, queued, seen>>
    <2>1. /\ count' = [count EXCEPT !.rx = count.rx + 1] /\ count.rx < RXFRAMES
          /\ UNCHANGED <<up, drv, tx, queued, seen>>
      BY Zenon DEF Arrive
    <2>2. RXFRAMES \in Nat
      BY ConstantsOK, SMTT(20)
    <2>3. QED
      BY <1>1, <2>1, <2>2 DEF CountType
  <1>3. TxInv'
    BY <1>2 DEF IInv, TxInv, Sending
  <1>4. CASE ~(rx.on /\ Room(n))
    <2>1. UNCHANGED <<mem, rx, pending>>
      BY <1>4 DEF Arrive
    <2>2. QED
      BY <1>2, <1>3, <2>1 DEF IInv, Shape, RxInv, Receiving
  <1>5. CASE rx.on /\ Room(n)
    <2>1. /\ mem' = {q \in mem : ~Overlap(q, rx.write, n)} \cup {p}
          /\ rx' = [rx EXCEPT !.write = Aligned(rx.write + 4 + n) % RING]
          /\ pending' = Append(pending, p)
      BY <1>5, Zenon DEF Arrive
    <2>2. Place(Advanced(rx.write, n)) /\ Aligned(rx.write + 4 + n) % RING = Advanced(rx.write, n)
      BY <1>1, AdvancedIs, Zenon
    <2>3. /\ rx' \in RxType /\ rx'.read = rx.read /\ rx'.write = Advanced(rx.write, n)
      BY <1>1, <2>1, <2>2, SMTT(20) DEF RxType, Place
    <2>4. /\ p \in Packets /\ p.at = rx.write /\ p.length = n /\ Span(p) = Aligned(n + 4)
          /\ p.at \in 0..(RING - 1)
      BY <1>1, ConstantsOK DEF Packets, Place, Span, CountType
    <2>5. Ahead(rx.read, rx.write) = 0 \/ Span(p) < RING - Ahead(rx.read, rx.write)
      BY <1>1, <1>5, <2>4, UnreadIs, Zenon DEF Room
    <2> HIDE DEF p
    <2>6. Memory(mem')
      BY <1>1, <2>1, <2>4, MemoryAdds
    <2>7. Waiting(rx'.read, rx'.write, pending', mem')
      <3>1. Waiting(rx.read, Advanced(rx.write, p.length), Append(pending, p),
                    {q \in mem : ~Overlap(q, rx.write, p.length)} \cup {p})
        BY <1>1, <2>4, <2>5, WaitingAdds, Zenon
      <3>2. QED
        BY <2>1, <2>3, <2>4, <3>1, Zenon
    <2>8. Receiving'
      <3>1. pending' # <<>> /\ (pending # <<>> => pending'[1] = pending[1])
        <4>1. pending \in Seq(Packets)
          BY <1>1 DEF Waiting
        <4>2. QED
          BY <2>1, <4>1, SMTT(20)
      <3>2. QED
        BY <1>2, <3>1 DEF IInv, RxInv, Receiving
    <2>9. RxInv'
      BY <1>1, <1>2, <2>2, <2>3, <2>6, <2>7, <2>8 DEF IInv, RxInv
    <2>10. Shape'
      BY <1>2, <2>3 DEF IInv, Shape
    <2>11. QED
      BY <1>3, <2>9, <2>10 DEF IInv
  <1>6. QED
    BY <1>4, <1>5

\* The card sends a frame.
LEMMA TransmitKeeps ==
  ASSUME IInv, Transmit
  PROVE  IInv'
  <1>1. /\ tx \in TxType /\ tx.next \in Descriptors /\ tx.desc \in [Descriptors -> DescType]
        /\ queued \in Seq(Frames) /\ seen \in SeenType /\ drv \in DrvType
        /\ ~tx.desc[tx.next].own /\ UNCHANGED <<up, drv, rx, mem, pending, count>>
    BY DEF IInv, Shape, TxType, Transmit
  <1> DEFINE desc2 == [tx.desc EXCEPT ![tx.next].own = TRUE]
             next2 == (tx.next + 1) % TXDESC
  <1>2. /\ queued # <<>> /\ SubSeq(tx.buf[tx.next], 1, tx.desc[tx.next].length) = Head(queued)
        /\ Lent(next2, drv.tx_cur, desc2, tx.buf, Tail(queued))
    BY <1>1, LentSent, Zenon DEF IInv, TxInv
  <1>3. queued' = Tail(queued) /\ queued' \in Seq(Frames)
    BY <1>1, <1>2, SMTT(20) DEF Transmit
  <1>4. /\ seen' \in SeenType /\ seen'.got = seen.got /\ seen'.desync = seen.desync
        /\ seen'.sent
    BY <1>1, <1>2 DEF Transmit, SeenType, IInv, TxInv
  <1>5. next2 \in Descriptors /\ desc2 \in [Descriptors -> DescType]
    BY <1>1, NextIn, Zenon DEF DescType
  <1>6. tx' \in TxType /\ tx'.desc = desc2 /\ tx'.buf = tx.buf /\ tx'.next = next2
    BY <1>1, <1>5, Zenon DEF Transmit, TxType
  <1> HIDE DEF desc2, next2
  <1>7. \A d \in Descriptors : tx.desc[d].own => tx'.desc[d].own
    BY <1>1, <1>6 DEF desc2, DescType
  <1>8. Sending'
    BY <1>1, <1>6, <1>7 DEF IInv, TxInv, Sending, DrvType
  <1>9. TxInv'
    BY <1>1, <1>2, <1>3, <1>4, <1>6, <1>8, Zenon DEF TxInv
  <1>10. RxInv'
    BY <1>1, <1>4, SMTT(20) DEF IInv, RxInv, Receiving
  <1>11. Shape'
    BY <1>1, <1>3, <1>4, <1>6 DEF IInv, Shape
  <1>12. QED
    BY <1>9, <1>10, <1>11 DEF IInv
\* recv_frame looks at the header: the packet there is the oldest that waits.
LEMMA HeaderKeeps ==
  ASSUME IInv, RecvHeader
  PROVE  IInv'
  <1> DEFINE here == {p \in mem : p.at = drv.rx_offset}
             h == pending[1]
  <1>1. /\ drv.at = "header" /\ drv \in DrvType /\ seen \in SeenType
        /\ drv.rx_offset = rx.read /\ Memory(mem)
        /\ Waiting(rx.read, rx.write, pending, mem) /\ pending # <<>>
        /\ seen.got = TRUE /\ seen.desync = FALSE
        /\ UNCHANGED <<up, mem, tx, queued, count>>
    BY Zenon DEF IInv, Shape, RxInv, Receiving, RecvHeader, SeenType
  <1>2. h \in mem /\ h \in Packets /\ h.at = rx.read
    <2>1. pending \in Seq(Packets) /\ 1 \in 1..Len(pending)
      BY <1>1 DEF Waiting
    <2>2. QED
      BY <1>1, <2>1 DEF Waiting
  <1>3. here = {h}
    <2>1. ASSUME NEW p \in here PROVE p = h
      <3>1. p \in mem /\ p.at = h.at /\ p \in Packets
        BY <1>1, <1>2, <2>1 DEF Memory
      <3>2. p.at \in Nat /\ p.length \in Nat /\ h.length \in Nat
        BY <1>2, <3>1, PacketFields
      <3>3. Overlap(p, h.at, h.length)
        BY <3>1, <3>2 DEF Overlap
      <3>4. QED
        BY <1>1, <1>2, <3>1, <3>3 DEF Memory
    <2>2. QED
      BY <1>1, <1>2, <2>1
  <1> HIDE DEF h
  <1>4. CASE Sane(h.length)
    <2>1. drv' = [drv EXCEPT !.at = "copy", !.length = h.length] /\ UNCHANGED <<rx, pending, seen>>
      BY <1>3, <1>4, Zenon DEF RecvHeader
    <2>2. h.length \in Nat
      BY <1>2, PacketFields
    <2>3. /\ drv' \in DrvType /\ drv'.at = "copy" /\ drv'.length = h.length
          /\ drv'.rx_offset = drv.rx_offset /\ drv'.tx_cur = drv.tx_cur
      BY <1>1, <2>1, <2>2, Zenon DEF DrvType
    <2>4. Shape'
      BY <1>1, <2>1, <2>3 DEF IInv, Shape
    <2>5. RxInv'
      BY <1>1, <2>1, <2>3 DEF IInv, RxInv, Receiving, h
    <2>6. TxInv'
      BY <1>1, <2>1, <2>3, TxKept DEF IInv
    <2>7. QED
      BY <2>4, <2>5, <2>6, SMTT(20) DEF IInv
  <1>5. CASE ~Sane(h.length)
    <2>1. Program /\ seen' = [seen EXCEPT !.desync = seen.desync \/ here = {}]
      BY <1>3, <1>5, Zenon DEF RecvHeader
    <2>2. (seen.desync \/ here = {}) = FALSE
      BY <1>1, <1>3
    <2>3. seen' \in SeenType /\ seen'.got /\ ~seen'.desync /\ seen'.sent = seen.sent
      <3>1. seen' = [seen EXCEPT !.desync = FALSE]
        BY <2>1, <2>2, Zenon
      <3>2. QED
        BY <1>1, <3>1, Zenon DEF SeenType
    <2>4. up' \in {"down", "up", "not_found", "not_mapped", "reset_timeout", "no_memory"}
      BY <1>1 DEF IInv, Shape
    <2>5. QED
      BY <1>1, <2>1, <2>3, <2>4, ProgramKeeps
  <1>6. QED
    BY <1>4, <1>5, SMTT(20)

\* recv_frame takes the packet, moves on and tells the card.
LEMMA CopyKeeps ==
  ASSUME IInv, RecvCopy
  PROVE  IInv'
  <1> DEFINE h == pending[1]
             o == Advanced(rx.read, h.length)
  <1>1. /\ drv.at = "copy" /\ drv \in DrvType /\ rx \in RxType /\ seen \in SeenType
        /\ drv.rx_offset = rx.read /\ Place(rx.read) /\ Place(rx.write)
        /\ Waiting(rx.read, rx.write, pending, mem) /\ pending # <<>>
        /\ drv.length = h.length /\ seen.got = TRUE /\ seen.desync = FALSE
        /\ UNCHANGED <<up, mem, tx, queued, count>>
    BY DEF IInv, Shape, RxInv, Receiving, RecvCopy, SeenType
  <1>2. /\ pending \in Seq(Packets) /\ Head(pending) = h /\ h \in mem /\ h.at = rx.read
        /\ h \in Packets
    <2>1. pending \in Seq(Packets) /\ 1 \in 1..Len(pending)
      BY <1>1 DEF Waiting
    <2>2. QED
      BY <1>1, <2>1 DEF Waiting
  <1>3. Place(o) /\ Waiting(o, rx.write, Tail(pending), mem)
    BY <1>1, WaitingTakes
  <1> HIDE DEF h, o
  <1>4. pending' = Tail(pending) /\ drv' = [drv EXCEPT !.at = "idle", !.rx_offset = o]
    BY <1>1 DEF RecvCopy, o
  <1>5. /\ drv' \in DrvType /\ drv'.at = "idle" /\ drv'.rx_offset = o
        /\ drv'.tx_cur = drv.tx_cur
    BY <1>1, <1>3, <1>4, Zenon DEF DrvType, Place
  <1>6. rx' \in RxType /\ rx'.read = o /\ rx'.write = rx.write
    <2>1. Capr(o) = o
      BY <1>3, CaprIs DEF Place
    <2>2. rx' = [rx EXCEPT !.read = o]
      BY <1>5, <2>1, Zenon DEF RecvCopy
    <2>3. QED
      BY <1>1, <1>3, <2>2 DEF RxType, Place
  <1>7. seen' \in SeenType /\ seen'.got /\ ~seen'.desync /\ seen'.sent = seen.sent
    <2>1. seen' = [seen EXCEPT !.got = seen.got /\ pending # <<>> /\ Head(pending) \in mem
                       /\ Head(pending).at = drv.rx_offset /\ Head(pending).length = drv.length]
      BY Zenon DEF RecvCopy
    <2>2. (seen.got /\ pending # <<>> /\ Head(pending) \in mem
                       /\ Head(pending).at = drv.rx_offset /\ Head(pending).length = drv.length) = TRUE
      BY <1>1, <1>2
    <2>3. seen' = [seen EXCEPT !.got = TRUE]
      BY <2>1, <2>2, Zenon
    <2>4. QED
      BY <1>1, <2>3, Zenon DEF SeenType
  <1>8. Shape'
    BY <1>1, <1>5, <1>6, <1>7 DEF IInv, Shape
  <1>9. RxInv'
    BY <1>1, <1>3, <1>4, <1>5, <1>6, <1>7, SMTT(20) DEF IInv, RxInv, Receiving
  <1>10. TxInv'
    BY <1>1, <1>5, <1>7, TxKept DEF IInv
  <1>11. QED
    BY <1>8, <1>9, <1>10 DEF IInv
\* Sequences of one length with the same elements are the same.
LEMMA SameSequence ==
  ASSUME NEW l \in Nat, NEW s \in Seq(Nat), Len(s) = l, NEW g \in [1..l -> Nat],
         \A i \in 1..l : s[i] = g[i]
  PROVE  s = g
  <1>1. s \in [1..l -> Nat]
    OBVIOUS
  <1>2. QED
    BY <1>1

\* Copy and padding put the frame on the wire's form into the buffer, whatever
\* was in it.
LEMMA FilledIsPadded ==
  ASSUME NEW old \in [TxBytes -> Nat], NEW f \in Nat, NEW n \in Nat, n <= MAXTX
  PROVE  /\ Filled(old, f, n) \in [TxBytes -> Nat] /\ WireLength(n) \in Nat
         /\ Padded(f, n) \in Frames
         /\ SubSeq(Filled(old, f, n), 1, WireLength(n)) = Padded(f, n)
  <1>1. MINLEN \in Nat /\ MAXTX \in Nat /\ MINLEN <= MAXTX
    BY ConstantsOK
  <1> DEFINE l == WireLength(n)
  <1>2. l \in 0..MAXTX /\ n <= l /\ MINLEN <= l /\ (l = n \/ l = MINLEN)
    BY <1>1 DEF WireLength
  <1> DEFINE b == Filled(old, f, n)
  <1>3. b \in [1..MAXTX -> Nat]
    BY <1>1 DEF Filled, None, TxBytes
  <1>4. Padded(f, n) = [i \in 1..l |-> IF i <= n THEN f ELSE None]
    BY DEF Padded
  <1> HIDE DEF l
  <1>5. Padded(f, n) \in [1..l -> Nat]
    BY <1>4 DEF None
  <1>6. \A i \in 1..l : b[i] = Padded(f, n)[i]
    <2>1. ASSUME NEW i \in 1..l PROVE b[i] = Padded(f, n)[i]
      <3>1. i \in 1..MAXTX /\ i \in Nat /\ (~(i <= n) => i <= MINLEN)
        BY <1>1, <1>2
      <3>2. QED
        BY <1>4, <3>1 DEF Filled, TxBytes
    <2>2. QED
      BY <2>1
  <1> HIDE DEF b
  <1>7. b \in Seq(Nat) /\ Len(b) = MAXTX
    BY <1>1, <1>3
  <1>8. /\ SubSeq(b, 1, l) \in Seq(Nat) /\ Len(SubSeq(b, 1, l)) = l
        /\ \A i \in 1..l : SubSeq(b, 1, l)[i] = b[i]
    BY <1>1, <1>2, <1>7
  <1>9. SubSeq(b, 1, l) = Padded(f, n)
    <2>1. l \in Nat
      BY <1>2
    <2>2. \A i \in 1..l : SubSeq(b, 1, l)[i] = Padded(f, n)[i]
      BY <1>6, <1>8, Zenon
    <2>3. QED
      BY <1>5, <1>8, <2>1, <2>2, SameSequence
  <1>10. Padded(f, n) \in Frames
    BY <1>2, <1>5 DEF Frames
  <1>11. QED
    BY <1>2, <1>3, <1>9, <1>10 DEF b, l, TxBytes

\* send_frame finds a free descriptor, or drops the frame.
LEMMA WaitKeeps ==
  ASSUME IInv, NEW n \in TxLengths, SendWait(n)
  PROVE  IInv'
  <1>1. /\ drv \in DrvType /\ count \in CountType /\ drv.at = "idle" /\ count.tx < TXFRAMES
        /\ count' = [count EXCEPT !.tx = count.tx + 1]
        /\ UNCHANGED <<up, rx, mem, pending, tx, queued, seen>>
    BY DEF IInv, Shape, SendWait
  <1>2. n \in Nat /\ TXFRAMES \in Nat /\ MAXTX \in Nat
    BY ConstantsOK
  <1>3. count' \in CountType
    BY <1>1, <1>2 DEF CountType
  <1>4. CASE n > MAXTX \/ ~tx.desc[drv.tx_cur].own
    <2>1. drv' = drv
      BY <1>4 DEF SendWait
    <2>2. QED
      BY <1>1, <1>3, <2>1 DEF IInv, Shape, RxInv, Receiving, TxInv, Sending
  <1>5. CASE ~(n > MAXTX) /\ tx.desc[drv.tx_cur].own
    <2>1. drv' = [drv EXCEPT !.at = "fill", !.length = n]
      BY <1>5 DEF SendWait
    <2>2. /\ drv' \in DrvType /\ drv'.at = "fill" /\ drv'.length = n
          /\ drv'.tx_cur = drv.tx_cur /\ drv'.rx_offset = drv.rx_offset
      BY <1>1, <1>2, <2>1, Zenon DEF DrvType
    <2>3. n <= MAXTX
      BY <1>2, <1>5
    <2>4. Shape'
      BY <1>1, <1>3, <2>2 DEF IInv, Shape
    <2>5. RxInv'
      BY <1>1, <2>2, RxKept DEF IInv
    <2>6. TxInv'
      BY <1>1, <1>5, <2>2, <2>3 DEF IInv, TxInv, Sending
    <2>7. QED
      BY <2>4, <2>5, <2>6 DEF IInv
  <1>6. QED
    BY <1>4, <1>5

\* send_frame fills the buffer of its descriptor.
LEMMA FillKeeps ==
  ASSUME IInv, SendFill
  PROVE  IInv'
  <1> DEFINE cur == drv.tx_cur
             n == drv.length
             b == Filled(tx.buf[cur], count.tx, n)
  <1>1. /\ drv \in DrvType /\ tx \in TxType /\ drv.at = "fill" /\ count \in CountType
        /\ queued \in Seq(Frames)
        /\ UNCHANGED <<up, rx, mem, pending, queued, seen, count>>
    BY DEF IInv, Shape, SendFill
  <1>2. /\ tx.desc[cur].own /\ n \in TxLengths /\ n <= MAXTX /\ n \in Nat /\ cur \in Descriptors
        /\ count.tx \in Nat /\ tx.buf \in [Descriptors -> [TxBytes -> Nat]] /\ tx.next \in Descriptors
        /\ Lent(tx.next, cur, tx.desc, tx.buf, queued)
    BY <1>1 DEF IInv, TxInv, Sending, DrvType, TxType, CountType
  <1>3. /\ b \in [TxBytes -> Nat]
        /\ SubSeq(b, 1, WireLength(n)) = Padded(count.tx, n)
    BY <1>2, FilledIsPadded, Zenon
  <1> HIDE DEF b
  <1>4. tx' = [tx EXCEPT !.buf[cur] = b] /\ drv' = [drv EXCEPT !.at = "start"]
    BY Zenon DEF SendFill, b
  <1>5. /\ drv' \in DrvType /\ drv'.at = "start" /\ drv'.length = n
        /\ drv'.tx_cur = cur /\ drv'.rx_offset = drv.rx_offset
    BY <1>1, <1>4 DEF DrvType
  <1>6. /\ tx' \in TxType /\ tx'.desc = tx.desc /\ tx'.next = tx.next
        /\ tx'.buf = [tx.buf EXCEPT ![cur] = b]
    BY <1>1, <1>2, <1>3, <1>4, Zenon DEF TxType
  <1>7. tx'.buf[cur] = b
    BY <1>2, <1>6
  <1>8. Lent(tx'.next, drv'.tx_cur, tx'.desc, tx'.buf, queued')
    <2>1. Lent(tx.next, cur, tx.desc, [tx.buf EXCEPT ![cur] = b], queued)
      BY <1>1, <1>2, <1>3, LentFill, ZenonT(40)
    <2>2. QED
      BY <1>1, <1>5, <1>6, <2>1
  <1> HIDE DEF n, cur
  <1>9. TxInv'
    BY <1>1, <1>2, <1>3, <1>5, <1>6, <1>7, <1>8, SMTT(20) DEF IInv, TxInv, Sending
  <1>10. Shape'
    BY <1>1, <1>5, <1>6 DEF IInv, Shape
  <1>11. RxInv'
    BY <1>1, <1>5, RxKept DEF IInv
  <1>12. QED
    BY <1>9, <1>10, <1>11 DEF IInv

\* send_frame gives its descriptor to the card.
LEMMA StartKeeps ==
  ASSUME IInv, SendStart
  PROVE  IInv'
  <1> DEFINE cur == drv.tx_cur
             n == drv.length
             l == WireLength(n)
             f == Padded(count.tx, n)
             desc2 == [tx.desc EXCEPT ![cur] = [own |-> FALSE, length |-> l]]
             cur2 == (cur + 1) % TXDESC
  <1>1. /\ drv \in DrvType /\ tx \in TxType /\ drv.at = "start" /\ count \in CountType
        /\ queued \in Seq(Frames) /\ UNCHANGED <<up, rx, mem, pending, seen, count>>
    BY DEF IInv, Shape, SendStart
  <1>2. /\ tx.desc[cur].own /\ n <= MAXTX /\ n \in Nat /\ cur \in Descriptors /\ count.tx \in Nat
        /\ tx.buf \in [Descriptors -> [TxBytes -> Nat]] /\ tx.next \in Descriptors
        /\ tx.desc \in [Descriptors -> DescType]
        /\ Lent(tx.next, cur, tx.desc, tx.buf, queued) /\ SubSeq(tx.buf[cur], 1, l) = f
    BY <1>1, SMTT(20) DEF IInv, TxInv, Sending, DrvType, TxType, CountType
  <1>3. l \in Nat /\ f \in Frames
    BY <1>2, FilledIsPadded, SMTT(20)
  <1>4. Lent(tx.next, cur2, desc2, tx.buf, Append(queued, f))
    BY <1>1, <1>2, <1>3, LentStart, Zenon
  <1>5. cur2 \in Descriptors
    BY <1>2, NextIn, Zenon
  <1>6. desc2 \in [Descriptors -> DescType]
    BY <1>2, <1>3 DEF DescType
  <1> HIDE DEF l, f
  <1>7. /\ tx' = [tx EXCEPT !.desc[cur] = [own |-> FALSE, length |-> l]]
        /\ queued' = Append(queued, f) /\ drv' = [drv EXCEPT !.at = "idle", !.tx_cur = cur2]
    BY Zenon DEF SendStart, l, f
  <1> HIDE DEF cur2
  <1>8. /\ drv' \in DrvType /\ drv'.at = "idle" /\ drv'.tx_cur = cur2
        /\ drv'.rx_offset = drv.rx_offset
    BY <1>1, <1>5, <1>7, Zenon DEF DrvType
  <1>9. tx' \in TxType /\ tx'.desc = desc2 /\ tx'.next = tx.next /\ tx'.buf = tx.buf
    BY <1>1, <1>6, <1>7, Zenon DEF TxType
  <1> HIDE DEF desc2
  <1>10. TxInv'
    BY <1>1, <1>4, <1>7, <1>8, <1>9 DEF IInv, TxInv, Sending
  <1>11. Shape'
    BY <1>1, <1>3, <1>7, <1>8, <1>9 DEF IInv, Shape
  <1>12. RxInv'
    BY <1>1, <1>8, RxKept DEF IInv
  <1>13. QED
    BY <1>10, <1>11, <1>12 DEF IInv
\* Rtl8139::init.
LEMMA InitNicKeeps ==
  ASSUME IInv, InitNic
  PROVE  IInv'
  <1>1. UNCHANGED <<mem, tx, queued, seen, count>>
    BY SMTT(20) DEF InitNic
  <1>2. CASE /\ up' \in {"not_found", "not_mapped", "reset_timeout", "no_memory"}
             /\ UNCHANGED <<drv, rx, pending>>
    BY <1>1, <1>2 DEF IInv, Shape, RxInv, Receiving, TxInv, Sending
  <1>3. CASE up' = "up" /\ Program
    <2>1. seen' \in SeenType /\ seen'.got /\ ~seen'.desync /\ seen'.sent = seen.sent
      BY <1>1, Zenon DEF IInv, Shape, RxInv
    <2>2. QED
      BY <1>1, <1>3, <2>1, ProgramKeeps, SMTT(20)
  <1>4. QED
    BY <1>2, <1>3 DEF InitNic

\* recv_frame finds the ring not empty.
LEMMA RecvStartKeeps ==
  ASSUME IInv, RecvStart
  PROVE  IInv'
  <1>1. /\ drv \in DrvType /\ drv' = [drv EXCEPT !.at = "header"] /\ Unread # 0
        /\ UNCHANGED <<up, rx, mem, pending, tx, queued, seen, count>>
    BY DEF IInv, Shape, RecvStart
  <1>2. /\ drv' \in DrvType /\ drv'.at = "header" /\ drv'.rx_offset = drv.rx_offset
        /\ drv'.tx_cur = drv.tx_cur
    BY <1>1, SMTT(20) DEF DrvType
  <1>3. pending # <<>>
    <2>1. Place(rx.read) /\ Place(rx.write) /\ Waiting(rx.read, rx.write, pending, mem)
      BY DEF IInv, RxInv
    <2>2. Ahead(rx.read, rx.write) # 0
      BY <1>1, <2>1, UnreadIs
    <2>3. rx.write # rx.read
      BY <2>1, <2>2, AheadIs DEF Place
    <2>4. QED
      BY <2>1, <2>3 DEF Waiting
  <1>4. Shape'
    BY <1>1, <1>2 DEF IInv, Shape
  <1>5. RxInv'
    BY <1>1, <1>2, <1>3 DEF IInv, RxInv, Receiving
  <1>6. TxInv'
    BY <1>1, <1>2, TxKept DEF IInv
  <1>7. QED
    BY <1>4, <1>5, <1>6 DEF IInv

-----------------------------------------------------------------------------
(* The theorems about the card and its driver                              *)

\* The driver's view of ring and descriptors stays the card's, through every
\* interleaving of arrivals, transmissions and the steps of the driver.
THEOREM NicInvariant == Spec => []IInv
  <1>1. IInv /\ [Next]_vars => IInv'
    <2>1. SUFFICES ASSUME IInv, [Next]_vars PROVE IInv'
      OBVIOUS
    <2>2. CASE InitNic
      BY <2>1, <2>2, InitNicKeeps
    <2>3. CASE \E n \in Lengths : Arrive(n)
      BY <2>1, <2>3, ArriveKeeps, SMTT(20)
    <2>4. CASE Transmit
      BY <2>1, <2>4, TransmitKeeps
    <2>5. CASE RecvStart
      BY <2>1, <2>5, RecvStartKeeps
    <2>6. CASE RecvHeader
      BY <2>1, <2>6, HeaderKeeps
    <2>7. CASE RecvCopy
      BY <2>1, <2>7, CopyKeeps
    <2>8. CASE \E n \in TxLengths : SendWait(n)
      BY <2>1, <2>8, WaitKeeps, SMTT(20)
    <2>9. CASE SendFill
      BY <2>1, <2>9, FillKeeps
    <2>10. CASE SendStart
      BY <2>1, <2>10, StartKeeps
    <2>11. CASE UNCHANGED vars
      BY <2>1, <2>11, Zenon DEF vars, IInv, Shape, RxInv, Receiving, TxInv, Sending
    <2>12. QED
      BY <2>1, <2>2, <2>3, <2>4, <2>5, <2>6, <2>7, <2>8, <2>9, <2>10, <2>11, SMTT(20) DEF Next
  <1>2. QED
    BY <1>1, InitEstablishes, PTL DEF Spec

\* Offsets stay inside the ring and on multiples of four, every packet inside
\* the receive buffer, and tx_cur names a descriptor.
THEOREM TypeCorrect == Spec => []TypeOK
  <1>1. IInv => TypeOK
    <2>1. SUFFICES ASSUME IInv PROVE TypeOK
      OBVIOUS
    <2>2. drv \in DrvType /\ rx \in RxType /\ count \in CountType /\ Memory(mem) /\ Place(rx.read)
      BY <2>1 DEF IInv, Shape, RxInv
    <2>3. ASSUME NEW p \in mem
          PROVE  p.at \in 0..(RING - 1) /\ p.at + 4 + p.length <= ALLOC
      <3>1. p.at \in 0..(RING - 1) /\ p.at % 4 = 0 /\ p \in Packets
        BY <2>2 DEF Memory, Place
      <3>2. p.length \in Lengths /\ p.length \in Nat /\ RING \in Nat
        BY <3>1, PacketFields
      <3>3. Aligned(RING - 4 + 4 + p.length) <= ALLOC /\ RING % 4 = 0 /\ ALLOC \in Nat
        BY <3>2, ConstantsOK
      <3>4. p.at <= RING - 4
        BY <3>1, <3>2, <3>3
      <3>5. RING - 4 + 4 + p.length \in Nat
        BY <3>2
      <3>6. RING - 4 + 4 + p.length <= Aligned(RING - 4 + 4 + p.length)
             /\ Aligned(RING - 4 + 4 + p.length) \in Nat
        BY <3>5, AlignedIs
      <3>7. PICK a \in Nat : a = Aligned(RING - 4 + 4 + p.length)
        BY <3>6
      <3>8. RING - 4 + 4 + p.length <= a /\ a <= ALLOC /\ ALLOC \in Nat
        BY <3>3, <3>6, <3>7
      <3>9. p.at + 4 + p.length <= ALLOC
        BY <3>1, <3>2, <3>4, <3>8, SMTT(20)
      <3>10. QED
        BY <3>1, <3>9
    <2>4. QED
      BY <2>1, <2>2, <2>3 DEF TypeOK, IInv, Shape, RxInv, DrvType, RxType, CountType, Place
  <1>2. QED
    BY <1>1, NicInvariant, PTL

\* The driver's offset and the card's two describe the same ring: it is empty
\* exactly when no packet waits, the oldest one is where the driver looks, and
\* none that waits has been written over.
THEOREM RingCorrect == Spec => []RingInStep
  <1>1. IInv => RingInStep
    <2>1. SUFFICES ASSUME IInv PROVE RingInStep
      OBVIOUS
    <2>2. /\ Place(rx.read) /\ Place(rx.write) /\ drv.rx_offset = rx.read
          /\ Waiting(rx.read, rx.write, pending, mem) /\ pending \in Seq(Packets)
      BY <2>1, Zenon DEF IInv, RxInv, Waiting
    <2>3. Unread = 0 <=> pending = <<>>
      <3>1. Unread = Ahead(rx.read, rx.write) /\ (Unread = 0 <=> rx.write = rx.read)
        BY <2>2, UnreadIs, AheadIs, Zenon DEF Place
      <3>2. CASE pending = <<>>
        BY <2>2, <3>1, <3>2 DEF Waiting
      <3>3. CASE pending # <<>>
        <4>1. 1 \in 1..Len(pending) /\ pending[1] \in Packets
          BY <2>2, <3>3
        <4>2. Ahead(rx.read, pending[1].at) + Span(pending[1]) <= Ahead(rx.read, rx.write)
          BY <2>2, <4>1, Zenon DEF Waiting
        <4>3. Span(pending[1]) \in 1..(RING - 1) /\ pending[1].at \in 0..(RING - 1) /\ RING \in Nat
          BY <4>1, PacketFields
        <4>4. Ahead(rx.read, pending[1].at) \in Nat /\ Ahead(rx.read, rx.write) \in Nat
          BY <2>2, <4>3, AheadIs, Zenon DEF Place
        <4>5. QED
          BY <3>1, <3>3, <4>2, <4>3, <4>4
      <3>4. QED
        BY <3>2, <3>3
    <2>4. ASSUME NEW i \in 1..Len(pending)
          PROVE  /\ pending[i] \in mem
                 /\ pending[i].at = IF i = 1 THEN drv.rx_offset
                                    ELSE Advanced(pending[i - 1].at, pending[i - 1].length)
      <3>1. pending[i] \in mem
        BY <2>2 DEF Waiting
      <3>2. CASE i = 1
        <4>1. pending # <<>>
          BY <2>2, <3>2
        <4>2. pending[1].at = rx.read
          BY <2>2, <4>1, Zenon DEF Waiting
        <4>3. QED
          BY <2>2, <3>1, <3>2, <4>2
      <3>3. CASE i # 1
        <4>1. i - 1 \in 1..Len(pending) /\ i > 1
          BY <2>2, <3>3
        <4> DEFINE p == pending[i - 1]
                   q == pending[i]
                   b == Advanced(p.at, p.length)
        <4>2. p \in Packets /\ p \in mem /\ q \in Packets
          BY <2>2, <4>1 DEF Waiting
        <4>3. /\ Ahead(rx.read, q.at) = Ahead(rx.read, p.at) + Span(p)
              /\ Ahead(rx.read, p.at) + Span(p) <= Ahead(rx.read, rx.write)
          BY <2>2, <4>1, Zenon DEF Waiting
        <4>4. /\ Place(p.at) /\ p.length \in Lengths /\ Span(p) \in 1..(RING - 1) /\ RING \in Nat
              /\ q.at \in 0..(RING - 1)
          BY <2>1, <4>2, PacketFields, SMTT(20) DEF IInv, RxInv, Memory
        <4>5. /\ b = IF p.at + Span(p) >= RING THEN p.at + Span(p) - RING ELSE p.at + Span(p)
              /\ b \in 0..(RING - 1)
          BY <4>4, AdvancedIs, Zenon DEF Span, Place
        <4> HIDE DEF p, q, b
        <4>6. /\ p.at \in 0..(RING - 1) /\ rx.read \in 0..(RING - 1)
              /\ Ahead(rx.read, p.at) \in Nat /\ Ahead(rx.read, rx.write) \in 0..(RING - 1)
          BY <2>2, <4>4, AheadIs, Zenon DEF Place
        <4>7. Ahead(rx.read, p.at) + Span(p) < RING
          BY <4>3, <4>4, <4>6
        <4>8. Ahead(rx.read, b) = Ahead(rx.read, p.at) + Span(p)
          <5>1. Ahead(rx.read, IF p.at + Span(p) >= RING THEN p.at + Span(p) - RING ELSE p.at + Span(p))
                  = Ahead(rx.read, p.at) + Span(p)
            BY <4>4, <4>6, <4>7, AheadForward, Zenon
          <5>2. QED
            BY <4>5, <5>1, Zenon
        <4>9. Ahead(rx.read, q.at) = Ahead(rx.read, b)
          BY <4>3, <4>8
        <4>10. q.at = b
          BY <4>4, <4>5, <4>6, <4>9, AheadInjective, Zenon
        <4>11. QED
          BY <3>1, <3>3, <4>10 DEF p, q, b
      <3>4. QED
        BY <3>2, <3>3
    <2>5. DOMAIN pending = 1..Len(pending)
      BY <2>2
    <2>6. QED
      BY <2>2, <2>3, <2>4, <2>5, SMTT(20) DEF RingInStep
  <1>2. QED
    BY <1>1, NicInvariant, PTL

\* Every packet the card accepted comes out of recv_frame in order, unaltered and
\* once unless a restart drops it, no restart is for a ring out of step, and
\* every frame send_frame accepted goes out as it was given, in order and once.
THEOREM FramesCorrect == Spec => []FramesExact
  <1>1. IInv => FramesExact
    BY DEF IInv, RxInv, TxInv, FramesExact
  <1>2. QED
    BY <1>1, NicInvariant, PTL
-----------------------------------------------------------------------------
(* The configuration of the stack                                          *)

MaskType == [1..MASKBITS -> {0, 1}]
CfgType == [ip : Addrs, netmask : MaskType, gateway : Addrs, dns : Addrs]
DhcpType == [state : {"off", "discovering", "bound"}, changed : BOOLEAN, lease : Leases \cup {0}]
CmdType == [at : {"idle", "loop", "halt"}, snapshot : Nat, left : Int,
            said : {"none", "ok", "timeout", "unavailable"}]

\* While the dhcp command waits: nothing was applied since it began, and a bound
\* socket has its lease from a server asked after the restart.
Command ==
    cmd.at # "idle" =>
        /\ HasStack /\ gen = cmd.snapshot /\ cfg = asked.before /\ cmd.said = "none"
        /\ dhcp.state = "bound" => asked.granted

CInv ==
    /\ cfg \in CfgType /\ gen \in Nat /\ dhcp \in DhcpType /\ cmd \in CmdType
    /\ asked \in [before : CfgType, granted : BOOLEAN]
    /\ dhcp.state = "bound" => dhcp.lease \in Leases
    /\ IfaceInStep
    /\ Command

\* netmask() and prefix_len undo each other.
LEMMA PrefixOfNetmask ==
  ASSUME NEW n \in 0..MASKBITS
  PROVE  PrefixLen(Netmask(n)) = n /\ Netmask(n) \in MaskType
  <1>1. MASKBITS \in Nat
    BY NetConfigOK
  <1>2. {i \in DOMAIN Netmask(n) : Netmask(n)[i] = 1} = 1..n
    BY <1>1 DEF Netmask
  <1>3. Cardinality(1..n) = n
    BY <1>1, FS_Interval
  <1>4. Netmask(n) \in MaskType
    BY <1>1, SMTT(20) DEF Netmask, MaskType
  <1>5. QED
    BY <1>2, <1>3, <1>4, Zenon DEF PrefixLen

\* The configuration of a lease.
LEMMA LeasedIs ==
  ASSUME cfg \in CfgType, NEW l \in Leases
  PROVE  /\ Leased(l) \in CfgType /\ Leased(l).ip = l.ip /\ PrefixLen(Leased(l).netmask) = l.prefix
         /\ l.router \in {0, Leased(l).gateway} /\ l.dns \in {0, Leased(l).dns}
  <1>1. /\ l.ip \in Addrs /\ l.prefix \in 1..MASKBITS /\ l.router \in Addrs \cup {0}
        /\ l.dns \in Addrs \cup {0}
    BY DEF Leases
  <1>2. l.prefix \in 0..MASKBITS
    BY <1>1, NetConfigOK
  <1>3. PrefixLen(Netmask(l.prefix)) = l.prefix /\ Netmask(l.prefix) \in MaskType
    BY <1>2, PrefixOfNetmask, SMTT(20)
  <1>4. QED
    BY <1>1, <1>3 DEF Leased, CfgType

\* The default configuration, without a stack.
LEMMA ConfigStarts == ConfigInit => CInv
  <1>1. SUFFICES ASSUME ConfigInit PROVE CInv
    OBVIOUS
  <1>2. DefaultConfig \in CfgType
    <2>1. Addrs # {} /\ MASKBITS \in Nat \ {0}
      BY NetConfigOK
    <2>2. (CHOOSE x \in Addrs : TRUE) \in Addrs
      BY <2>1
    <2>3. Netmask(MASKBITS - 1) \in MaskType
      BY <2>1, PrefixOfNetmask, SMTT(20)
    <2>4. QED
      BY <2>2, <2>3 DEF DefaultConfig, CfgType
  <1>3. QED
    BY <1>1, <1>2, SMTT(20) DEF ConfigInit, CInv, DhcpType, CmdType, IfaceInStep, HasStack, Command

\* What drive does with the event of the socket, if there is one.
LEMMA DriveKeeps ==
  ASSUME CInv, Drive, HasStack
  PROVE  /\ cfg' \in CfgType /\ dhcp' \in DhcpType /\ dhcp'.state = dhcp.state
         /\ dhcp'.lease = dhcp.lease /\ IfaceInStep' /\ HasStack'
         /\ \/ cfg' = cfg /\ gen' = gen
            \/ /\ gen' = gen + 1 /\ dhcp.state = "bound" /\ cfg' = Leased(dhcp.lease)
               /\ dhcp.lease \in Leases
  <1>1. dhcp' \in DhcpType /\ dhcp'.state = dhcp.state /\ dhcp'.lease = dhcp.lease
    BY Zenon DEF CInv, Drive, DhcpType
  <1>2. HasStack'
    BY <1>1 DEF HasStack
  <1>3. CASE dhcp.changed /\ dhcp.state = "bound"
    <2>1. cfg' = Leased(dhcp.lease) /\ iface' = ApplyConfig(cfg') /\ gen' = gen + 1
      BY <1>3 DEF Drive
    <2>2. dhcp.lease \in Leases /\ cfg' \in CfgType
      BY <1>3, <2>1, LeasedIs DEF CInv
    <2>3. IfaceInStep'
      BY <2>1 DEF ApplyConfig, IfaceInStep
    <2>4. QED
      BY <1>1, <1>2, <1>3, <2>1, <2>2, <2>3
  <1>4. CASE ~(dhcp.changed /\ dhcp.state = "bound")
    <2>1. UNCHANGED <<cfg, iface, gen>>
      BY <1>4 DEF Drive
    <2>2. IfaceInStep'
      BY <2>1 DEF CInv, IfaceInStep
    <2>3. QED
      BY <1>1, <1>2, <2>1, <2>2 DEF CInv
  <1>5. QED
    BY <1>3, <1>4

\* The set commands.
LEMMA ReconfigureKeeps ==
  ASSUME CInv, NEW field, NEW value, Reconfigure(field, value), [cfg EXCEPT ![field] = value] \in CfgType
  PROVE  CInv'
  <1>1. /\ cmd.at = "idle" /\ cfg' \in CfgType /\ iface' = ApplyConfig(cfg')
        /\ UNCHANGED <<dhcp, gen, cmd, asked>>
    BY DEF Reconfigure
  <1>2. HasStack' <=> HasStack
    BY <1>1 DEF HasStack
  <1>3. IfaceInStep'
    BY <1>1, <1>2 DEF IfaceInStep, ApplyConfig
  <1>4. QED
    BY <1>1, <1>3 DEF CInv, Command

\* Every step of the shell, the stack and the server keeps the invariant.
LEMMA ConfigKeeps == CInv /\ [ConfigNext]_cfgVars => CInv'
  <1>1. SUFFICES ASSUME CInv, [ConfigNext]_cfgVars PROVE CInv'
    OBVIOUS
  <1>2. /\ cfg \in CfgType /\ gen \in Nat /\ dhcp \in DhcpType /\ cmd \in CmdType
        /\ asked \in [before : CfgType, granted : BOOLEAN]
    BY <1>1 DEF CInv
  <1>3. CASE NetInit
    <2>1. /\ dhcp' = [dhcp EXCEPT !.state = "discovering", !.changed = TRUE]
          /\ iface' = [ip |-> cfg.ip, prefix |-> PrefixLen(cfg.netmask),
                       route |-> cfg.gateway, dns |-> cfg.dns]
          /\ ~HasStack /\ UNCHANGED <<cfg, gen, cmd, asked>>
      BY <1>3 DEF NetInit
    <2>2. dhcp' \in DhcpType /\ dhcp'.state = "discovering"
      BY <1>2, <2>1, Zenon DEF DhcpType
    <2>3. IfaceInStep'
      BY <2>1 DEF IfaceInStep
    <2>4. QED
      BY <1>1, <1>2, <2>1, <2>2, <2>3 DEF CInv, Command
  <1>4. CASE \E a \in Addrs, field \in {"ip", "gateway", "dns"} : Reconfigure(field, a)
    <2>1. PICK a \in Addrs, field \in {"ip", "gateway", "dns"} : Reconfigure(field, a)
      BY <1>4
    <2>2. [cfg EXCEPT ![field] = a] \in CfgType
      BY <1>2 DEF CfgType
    <2>3. QED
      BY <1>1, <2>1, <2>2, ReconfigureKeeps
  <1>5. CASE \E m \in Masks : Reconfigure("netmask", m)
    <2>1. PICK m \in Masks : Reconfigure("netmask", m)
      BY <1>5
    <2>2. m \in MaskType
      BY NetConfigOK DEF MaskType
    <2>3. [cfg EXCEPT !["netmask"] = m] \in CfgType
      BY <1>2, <2>2 DEF CfgType
    <2>4. QED
      BY <1>1, <2>1, <2>3, ReconfigureKeeps
  <1>6. CASE \E l \in Leases : Grant(l)
    <2>1. PICK l \in Leases : Grant(l)
      BY <1>6
    <2>2. /\ dhcp' \in DhcpType /\ dhcp'.state = "bound" /\ dhcp'.lease = l
          /\ HasStack /\ HasStack' /\ UNCHANGED <<cfg, iface, gen, cmd>>
      BY <2>1 DEF Grant, DhcpType, HasStack
    <2>3. /\ asked' \in [before : CfgType, granted : BOOLEAN]
          /\ asked'.granted /\ asked'.before = asked.before
      BY <1>2, <2>1, Zenon DEF Grant
    <2>4. IfaceInStep'
      BY <1>1, <2>2 DEF CInv, IfaceInStep
    <2>5. QED
      BY <1>1, <1>2, <2>1, <2>2, <2>3, <2>4 DEF CInv, Command
  <1>7. CASE Expire
    <2>1. /\ dhcp' = [dhcp EXCEPT !.state = "discovering", !.changed = TRUE]
          /\ dhcp.state = "bound" /\ UNCHANGED <<cfg, iface, gen, cmd, asked>>
      BY <1>7 DEF Expire
    <2>2. dhcp' \in DhcpType /\ dhcp'.state = "discovering" /\ HasStack /\ HasStack'
      BY <1>2, <2>1, Zenon DEF DhcpType, HasStack
    <2>3. IfaceInStep'
      BY <1>1, <2>1, <2>2 DEF CInv, IfaceInStep
    <2>4. QED
      BY <1>1, <1>2, <2>1, <2>2, <2>3 DEF CInv, Command
  <1>8. CASE Poll
    <2>1. HasStack /\ cmd.at = "idle" /\ Drive /\ UNCHANGED <<cmd, asked>>
      BY <1>8 DEF Poll
    <2>2. QED
      BY <1>1, <1>2, <2>1, DriveKeeps DEF CInv, Command
  <1>9. CASE DhcpConfigure
    <2>1. CASE ~HasStack
      <3>1. cmd' = [cmd EXCEPT !.said = "unavailable"] /\ UNCHANGED <<cfg, iface, gen, dhcp, asked>>
        BY <1>9, <2>1 DEF DhcpConfigure
      <3>2. cmd' \in CmdType /\ cmd'.at = cmd.at /\ cmd.at = "idle"
        BY <1>2, <1>9, <3>1 DEF CmdType, DhcpConfigure
      <3>3. QED
        BY <1>1, <3>1, <3>2 DEF CInv, Command, IfaceInStep, HasStack
    <2>2. CASE HasStack
      <3>1. /\ cmd' = [at |-> "loop", snapshot |-> gen, left |-> WAIT, said |-> "none"]
            /\ dhcp' = [dhcp EXCEPT !.state = "discovering", !.changed = TRUE]
            /\ asked' = [before |-> cfg, granted |-> FALSE] /\ UNCHANGED <<cfg, iface, gen>>
        BY <1>9, <2>2 DEF DhcpConfigure
      <3>2. WAIT \in Int
        BY NetConfigOK
      <3>3. cmd' \in CmdType /\ cmd'.said = "none" /\ cmd'.snapshot = gen
        BY <1>2, <3>1, <3>2 DEF CmdType
      <3>4. dhcp' \in DhcpType /\ dhcp'.state = "discovering" /\ HasStack'
        BY <1>2, <3>1, Zenon DEF DhcpType, HasStack
      <3>5. asked' \in [before : CfgType, granted : BOOLEAN] /\ asked'.before = cfg
        BY <1>2, <3>1
      <3>6. IfaceInStep'
        BY <1>1, <2>2, <3>1, <3>4 DEF CInv, IfaceInStep
      <3>7. QED
        BY <1>2, <3>1, <3>3, <3>4, <3>5, <3>6 DEF CInv, Command
    <2>3. QED
      BY <2>1, <2>2
  <1>10. CASE DhcpLoop
    <2>1. /\ cmd.at = "loop" /\ Drive /\ HasStack /\ UNCHANGED asked
          /\ gen = cmd.snapshot /\ cmd.said = "none" /\ cfg = asked.before
          /\ cmd' = IF gen' # cmd.snapshot THEN [cmd EXCEPT !.at = "idle", !.said = "ok"]
                    ELSE [cmd EXCEPT !.at = "halt"]
      BY <1>1, <1>10 DEF DhcpLoop, CInv, Command
    <2>2. gen' \in Nat
      BY <1>1, <1>2, <2>1, DriveKeeps
    <2>3. CASE gen' # gen
      <3>1. cmd' \in CmdType /\ cmd'.at = "idle"
        BY <1>2, <2>1, <2>3, ZenonT(40) DEF CmdType
      <3>2. QED
        BY <1>1, <1>2, <2>1, <2>2, <3>1, DriveKeeps DEF CInv, Command
    <2>4. CASE gen' = gen
      <3>1. /\ cmd' \in CmdType /\ cmd'.at = "halt" /\ cmd'.said = "none"
            /\ cmd'.snapshot = cmd.snapshot
        BY <1>2, <2>1, <2>4 DEF CmdType
      <3>2. cfg' = cfg
        BY <1>1, <1>2, <2>1, <2>4, DriveKeeps
      <3>3. QED
        BY <1>1, <1>2, <2>1, <2>2, <2>4, <3>1, <3>2, DriveKeeps DEF CInv, Command
    <2>5. QED
      BY <2>3, <2>4
  <1>11. CASE Wake \/ DhcpTimeout
    <2>1. /\ cmd' \in CmdType /\ cmd.at # "idle" /\ cmd'.snapshot = cmd.snapshot
          /\ cmd'.at # "idle" => cmd'.said = cmd.said
          /\ UNCHANGED <<cfg, iface, dhcp, gen, asked>>
      <3>1. CASE Wake
        <4>1. PICK n \in {0, 1} : cmd' = [cmd EXCEPT !.at = "loop", !.left = @ - n]
          BY <3>1, Zenon DEF Wake
        <4>2. cmd.left - n \in Int
          BY <1>2 DEF CmdType
        <4>3. PICK l \in Int : cmd' = [cmd EXCEPT !.at = "loop", !.left = l]
          BY <4>1, <4>2, Zenon
        <4>4. cmd' \in CmdType /\ cmd'.snapshot = cmd.snapshot /\ cmd'.said = cmd.said
          BY <1>2, <4>3, Zenon DEF CmdType
        <4>5. QED
          BY <3>1, <4>4 DEF Wake
      <3>2. CASE DhcpTimeout
        BY <1>2, <3>2, Zenon DEF DhcpTimeout, CmdType
      <3>3. QED
        BY <1>11, <3>1, <3>2
    <2>2. QED
      BY <1>1, <1>2, <2>1 DEF CInv, Command, IfaceInStep, HasStack
  <1>12. CASE UNCHANGED cfgVars
    BY <1>1, <1>12 DEF CInv, Command, IfaceInStep, HasStack, cfgVars
  <1>13. QED
    BY <1>1, <1>3, <1>4, <1>5, <1>6, <1>7, <1>8, <1>9, <1>10, <1>11, <1>12, SMTT(20) DEF ConfigNext

\* What a step of the dhcp command may not do: report a lease it was not given
\* after the restart, or a timeout after the configuration changed.
LEMMA ReportsHold ==
  ASSUME CInv, ConfigNext, cmd.at = "loop"
  PROVE  /\ cmd'.said = "ok" =>
                /\ asked.granted
                /\ cfg'.ip = dhcp.lease.ip /\ PrefixLen(cfg'.netmask) = dhcp.lease.prefix
                /\ dhcp.lease.router \in {0, cfg'.gateway} /\ dhcp.lease.dns \in {0, cfg'.dns}
         /\ cmd'.said = "timeout" => cfg' = asked.before
  <1>1. cmd \in CmdType /\ cmd.said = "none" /\ gen = cmd.snapshot /\ HasStack
        /\ cfg = asked.before /\ (dhcp.state = "bound" => asked.granted)
    BY SMTT(20) DEF CInv, Command
  <1>2. CASE DhcpLoop
    <2>1. Drive /\ cmd' = IF gen' # cmd.snapshot THEN [cmd EXCEPT !.at = "idle", !.said = "ok"]
                          ELSE [cmd EXCEPT !.at = "halt"]
      BY <1>2 DEF DhcpLoop
    <2>2. CASE gen' = gen
      BY <1>1, <2>1, <2>2, SMTT(20) DEF CmdType
    <2>3. CASE gen' # gen
      <3>1. cmd'.said = "ok"
        BY <1>1, <2>1, <2>3 DEF CmdType
      <3>2. dhcp.state = "bound" /\ cfg' = Leased(dhcp.lease) /\ dhcp.lease \in Leases
        BY <1>1, <2>1, <2>3, DriveKeeps
      <3>3. cfg \in CfgType
        BY DEF CInv
      <3>4. QED
        BY <1>1, <3>1, <3>2, <3>3, LeasedIs
    <2>4. QED
      BY <2>2, <2>3
  <1>3. CASE DhcpTimeout
    BY <1>1, <1>3 DEF DhcpTimeout, CmdType
  <1>4. CASE ~DhcpLoop /\ ~DhcpTimeout
    <2>1. cmd' = cmd
      BY <1>1, <1>4 DEF ConfigNext, NetInit, Reconfigure, Grant, Expire, Poll, DhcpConfigure, Wake
    <2>2. QED
      BY <1>1, <2>1
  <1>5. QED
    BY <1>2, <1>3, <1>4

\* The invariant of the configuration, for all addresses, netmasks and leases.
THEOREM ConfigInvariant == ConfigSpec => []CInv
  <1>1. QED
    BY ConfigStarts, ConfigKeeps, PTL DEF ConfigSpec

\* The stack uses the configuration the net command shows, after any sequence of
\* set commands, leases and dhcp commands.
THEOREM IfaceCorrect == ConfigSpec => []IfaceInStep
  <1>1. CInv => IfaceInStep
    BY DEF CInv
  <1>2. QED
    BY <1>1, ConfigInvariant, PTL

\* dhcp_configure returns Ok only for a lease granted since it restarted the
\* socket, and then the configuration is that lease; it returns a timeout only
\* with the configuration it found.
THEOREM DhcpCorrect == ConfigSpec => DhcpReportsTruth
  <1> DEFINE Report ==
        cmd.at = "loop" =>
          /\ cmd'.said = "ok" =>
                /\ asked.granted
                /\ cfg'.ip = dhcp.lease.ip /\ PrefixLen(cfg'.netmask) = dhcp.lease.prefix
                /\ dhcp.lease.router \in {0, cfg'.gateway} /\ dhcp.lease.dns \in {0, cfg'.dns}
          /\ cmd'.said = "timeout" => cfg' = asked.before
  <1>1. CInv /\ [ConfigNext]_cfgVars => [Report]_cfgVars
    BY ReportsHold, Zenon
  <1>2. ConfigSpec => [][Report]_cfgVars
    BY <1>1, ConfigInvariant, PTL DEF ConfigSpec
  <1>3. QED
    BY <1>2 DEF DhcpReportsTruth
=============================================================================
