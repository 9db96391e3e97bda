---------------------------------- MODULE Nic ----------------------------------
(***************************************************************************)
(* The RTL8139 driver of drivers/network.rs and the card it shares memory  *)
(* with: the receive ring, which the card fills and the driver drains, and *)
(* the transmit descriptors.  The driver runs under the RTL8139 lock; the  *)
(* card works at any moment in between.                                    *)
(*                                                                         *)
(* Offsets and lengths are in bytes, with a ring of RING bytes instead of  *)
(* 8192.  A frame is a number; in the ring it occupies a span of bytes.    *)
(***************************************************************************)
EXTENDS Naturals, Sequences

CONSTANTS
    RING,           \* RX_RING_SIZE
    ALLOC,          \* RX_ALLOC_SIZE, the ring and the slack behind it
    MAXFRAME,       \* MAX_FRAME_SIZE
    Lengths,        \* packet lengths with CRC that arrive
    TXDESC,         \* transmit descriptors (4 in the card)
    MINLEN,         \* least length of a frame on the wire (60)
    TxLengths,      \* lengths the stack sends
    MAXTX,          \* longest frame send_frame takes (1792)
    RXFRAMES,       \* bound on the packets that arrive
    TXFRAMES        \* bound on the frames sent

Aligned(n) == 4 * ((n + 3) \div 4)

\* The values of a 16-bit register.
U16 == 65536

ASSUME ConstantsOK ==
    /\ RING \in Nat \ {0} /\ RING % 4 = 0 /\ U16 % RING = 0
    /\ ALLOC \in Nat /\ MAXFRAME \in Nat /\ Lengths \subseteq Nat \ {0}
    /\ \A n \in Lengths : Aligned(RING - 4 + 4 + n) <= ALLOC /\ Aligned(n + 4) < RING
    /\ TxLengths \subseteq Nat \ {0} /\ MINLEN \in Nat /\ MAXTX \in Nat /\ MINLEN <= MAXTX
    /\ TXDESC \in Nat \ {0} /\ RXFRAMES \in Nat /\ TXFRAMES \in Nat

VARIABLES
    up,         \* "down", "up", or why Rtl8139::init failed
    drv,        \* the driver: rx_offset, tx_cur and where it is
    rx,         \* receiver of the card: its two offsets, and whether it is on
    mem,        \* intact packets in the receive buffer: at, length, frame
    pending,    \* ghost: packets in the ring, oldest first
    tx,         \* descriptors: own and length; buf: bytes; next to send
    queued,     \* ghost: frames send_frame accepted and the card has not sent
    seen,       \* ghost: whether frames came and went right, and restarts
    count       \* frames that have come and gone, for the bound

vars == <<up, drv, rx, mem, pending, tx, queued, seen, count>>

Descriptors == 0..TXDESC - 1
TxBytes == 1..MAXTX
None == 0

-----------------------------------------------------------------------------
(* The card.                                                               *)

\* Bytes the card has filled and the driver has not given back.
Unread == (RING + rx.write - rx.read) % RING

\* Free space; all of it when the ring is empty.
Room(n) == Unread = 0 \/ Aligned(n + 4) < RING - Unread

Overlap(p, at, n) == p.at < at + 4 + n /\ at < p.at + 4 + p.length

\* A packet arrives: dropped when the receiver is off or the ring is full,
\* else written after a header, past the end of the ring if need be (WRAP=1).
Arrive(n) ==
    LET f == count.rx + 1
        p == [at |-> rx.write, length |-> n, frame |-> f] IN
    /\ up = "up" /\ count.rx < RXFRAMES
    /\ count' = [count EXCEPT !.rx = f]
    /\ IF rx.on /\ Room(n)
       THEN /\ mem' = {q \in mem : ~Overlap(q, rx.write, n)} \cup {p}
            /\ rx' = [rx EXCEPT !.write = Aligned(@ + 4 + n) % RING]
            /\ pending' = Append(pending, p)
       ELSE UNCHANGED <<mem, rx, pending>>
    /\ UNCHANGED <<up, drv, tx, queued, seen>>

\* The card sends the next descriptor the driver gave it, and gives it back.
Transmit ==
    LET d == tx.desc[tx.next] IN
    /\ up = "up" /\ ~d.own
    /\ seen' = [seen EXCEPT !.sent = @ /\ queued # <<>>
                    /\ SubSeq(tx.buf[tx.next], 1, d.length) = Head(queued)]
    /\ queued' = IF queued = <<>> THEN queued ELSE Tail(queued)
    /\ tx' = [tx EXCEPT !.desc[tx.next].own = TRUE, !.next = (@ + 1) % TXDESC]
    /\ UNCHANGED <<up, drv, rx, mem, pending, count>>

-----------------------------------------------------------------------------
(* Start and restart.                                                      *)

\* program that leaves the driver's own offset where it was.
ProgramKeep ==
    /\ rx' = [read |-> 0, write |-> 0, on |-> TRUE]
    /\ pending' = <<>>
    /\ drv' = [drv EXCEPT !.at = "idle"]

\* program: the receiver is stopped, both offsets of the card go to 0 when RCR
\* is written, and the receiver starts.  What was in the ring is lost.
Program ==
    /\ rx' = [read |-> 0, write |-> 0, on |-> TRUE]
    /\ pending' = <<>>
    /\ drv' = [drv EXCEPT !.rx_offset = 0, !.at = "idle"]

\* find_rtl8139 and Rtl8139::init.  Each way it can fail ends without a card:
\* none on the bus, no I/O ports, no end of reset, no memory.
InitNic ==
    /\ up = "down"
    /\ \/ /\ up' \in {"not_found", "not_mapped", "reset_timeout", "no_memory"}
          /\ UNCHANGED <<drv, rx, pending>>
       \/ up' = "up" /\ Program
    /\ UNCHANGED <<mem, tx, queued, seen, count>>

-----------------------------------------------------------------------------
(* recv_frame, from Device::receive of the stack.                          *)

\* The ring is not empty: CMD_RX_EMPTY is clear.
RecvStart ==
    /\ up = "up" /\ drv.at = "idle"
    /\ Unread # 0
    /\ drv' = [drv EXCEPT !.at = "header"]
    /\ UNCHANGED <<up, rx, mem, pending, tx, queued, seen, count>>

\* A length the driver takes.
Sane(n) == n >= 8 /\ n <= MAXFRAME + 4

\* The header at rx_offset.  Without an intact packet there it is garbage,
\* which the driver takes for bad here.
RecvHeader ==
    /\ drv.at = "header"
    /\ LET here == {p \in mem : p.at = drv.rx_offset} IN
       IF \E p \in here : Sane(p.length)
       THEN /\ \E p \in here : drv' = [drv EXCEPT !.at = "copy", !.length = p.length]
            /\ UNCHANGED <<rx, pending, seen>>
       ELSE /\ Program
            /\ seen' = [seen EXCEPT !.desync = @ \/ here = {}]
    /\ UNCHANGED <<up, mem, tx, queued, count>>

\* rx_offset after a packet.
Advanced(offset, n) ==
    LET o == Aligned(offset + 4 + n) IN IF o >= RING THEN o - RING ELSE o

\* CAPR written without the 16 the card adds.
CaprAhead(offset) == (offset + 16) % RING

\* CAPR is 16 bits and 16 behind; the card adds 16 again.
Capr(offset) == (((offset + U16 - 16) % U16) + 16) % RING

\* The copy, the new rx_offset and CAPR.
RecvCopy ==
    /\ drv.at = "copy"
    /\ seen' = [seen EXCEPT !.got = @ /\ pending # <<>> /\ Head(pending) \in mem
                    /\ Head(pending).at = drv.rx_offset /\ Head(pending).length = drv.length]
    /\ pending' = IF pending = <<>> THEN pending ELSE Tail(pending)
    /\ drv' = [drv EXCEPT !.at = "idle", !.rx_offset = Advanced(@, drv.length)]
    /\ rx' = [rx EXCEPT !.read = Capr(drv'.rx_offset)]
    /\ UNCHANGED <<up, mem, tx, queued, count>>

-----------------------------------------------------------------------------
(* send_frame, from TxToken::consume.                                      *)

\* The frame is too long, or the descriptor stays busy: it is dropped, and
\* consume ignores the error.  Else the descriptor is free.
SendWait(n) ==
    /\ up = "up" /\ drv.at = "idle" /\ count.tx < TXFRAMES
    /\ count' = [count EXCEPT !.tx = @ + 1]
    /\ drv' = IF n > MAXTX \/ ~tx.desc[drv.tx_cur].own THEN drv
              ELSE [drv EXCEPT !.at = "fill", !.length = n]
    /\ UNCHANGED <<up, rx, mem, pending, tx, queued, seen>>

\* Short frames are sent longer.
WireLength(n) == IF n < MINLEN THEN MINLEN ELSE n

\* The bytes of frame f of length n, on the wire.
Padded(f, n) == [i \in 1..WireLength(n) |-> IF i <= n THEN f ELSE None]

\* What the buffer holds after a frame was copied without padding.
FilledBare(old, f, n) == [i \in TxBytes |-> IF i <= n THEN f ELSE old[i]]

\* What the buffer holds after the copy and the padding.
Filled(old, f, n) ==
    [i \in TxBytes |-> IF i <= n THEN f ELSE IF i <= MINLEN THEN None ELSE old[i]]

\* Copy and padding, which the card does not see.
SendFill ==
    /\ drv.at = "fill"
    /\ drv' = [drv EXCEPT !.at = "start"]
    /\ tx' = [tx EXCEPT !.buf[drv.tx_cur] = Filled(@, count.tx, drv.length)]
    /\ UNCHANGED <<up, rx, mem, pending, queued, seen, count>>

\* The write of the length gives the descriptor to the card.
SendStart ==
    /\ drv.at = "start"
    /\ tx' = [tx EXCEPT !.desc[drv.tx_cur] =
                  [own |-> FALSE, length |-> WireLength(drv.length)]]
    /\ queued' = Append(queued, Padded(count.tx, drv.length))
    /\ drv' = [drv EXCEPT !.at = "idle", !.tx_cur = (@ + 1) % TXDESC]
    /\ UNCHANGED <<up, rx, mem, pending, seen, count>>

-----------------------------------------------------------------------------

Init ==
    /\ up = "down"
    /\ drv = [at |-> "idle", rx_offset |-> 0, tx_cur |-> 0, length |-> 0]
    /\ rx = [read |-> 0, write |-> 0, on |-> FALSE]
    /\ mem = {} /\ pending = <<>> /\ queued = <<>>
    /\ tx = [desc |-> [d \in Descriptors |-> [own |-> TRUE, length |-> 0]],
             buf |-> [d \in Descriptors |-> [i \in TxBytes |-> None]], next |-> 0]
    /\ seen = [got |-> TRUE, sent |-> TRUE, desync |-> FALSE]
    /\ count = [rx |-> 0, tx |-> 0]

Next ==
    \/ InitNic
    \/ \E n \in Lengths : Arrive(n)
    \/ Transmit
    \/ RecvStart \/ RecvHeader \/ RecvCopy
    \/ \E n \in TxLengths : SendWait(n)
    \/ SendFill \/ SendStart

Spec == Init /\ [][Next]_vars

-----------------------------------------------------------------------------

\* Registers, offsets and ghosts keep their types: rx_offset stays inside the
\* ring and on a multiple of four, tx_cur names a descriptor.
TypeOK ==
    /\ up \in {"down", "up", "not_found", "not_mapped", "reset_timeout", "no_memory"}
    /\ drv.at \in {"idle", "header", "copy", "fill", "start"}
    /\ drv.rx_offset \in 0..RING - 1 /\ drv.rx_offset % 4 = 0
    /\ drv.tx_cur \in Descriptors /\ drv.length \in Nat
    /\ rx.read \in 0..RING - 1 /\ rx.write \in 0..RING - 1 /\ rx.on \in BOOLEAN
    /\ \A p \in mem : p.at \in 0..RING - 1 /\ p.at + 4 + p.length <= ALLOC
    /\ count.rx \in 0..RXFRAMES /\ count.tx \in 0..TXFRAMES

\* rx_offset, kept by the driver, and the card's two offsets describe the same
\* ring, however arrivals fall between the reads of recv_frame and across a
\* restart: CMD_RX_EMPTY is set exactly when no packet waits, the oldest one
\* starts at rx_offset, each other one where the one before ends, and none
\* that waits has been written over.
RingInStep ==
    /\ drv.rx_offset = rx.read
    /\ Unread = 0 <=> pending = <<>>
    /\ \A i \in DOMAIN pending :
         /\ pending[i] \in mem
         /\ pending[i].at = IF i = 1 THEN drv.rx_offset
                            ELSE Advanced(pending[i - 1].at, pending[i - 1].length)

\* recv_frame returns the packets the card accepted, unaltered, in order and
\* once, but for the ones a restart drops.  The restart, meant for a ring that
\* is "desynced", is taken only for a packet longer than the driver takes:
\* nothing the driver or the card does desynchronises the ring.  The card
\* sends what send_frame accepted, in order and once, with zeroes as padding:
\* a buffer is not written before the card is done with it, and nothing of an
\* earlier, longer frame is left in a short one.
FramesExact == seen.got /\ ~seen.desync /\ seen.sent
=============================================================================
