--------------------------------- MODULE Mouse ---------------------------------
(***************************************************************************)
(* The PS/2 mouse of drivers/mouse.rs: packets of three or four bytes, one *)
(* interrupt for each byte, put together by process_byte.  A byte may get  *)
(* lost on the way, and the driver sees no packet boundaries but bit 3 of  *)
(* a first byte.                                                           *)
(***************************************************************************)
EXTENDS Integers, Sequences

CONSTANTS
    Flags,      \* first bytes the mouse sends; bit 3 is set
    Data,       \* movement and wheel bytes it sends
    Screens,    \* sizes <<width, height>> the desktop sets
    DEFAULT,    \* the size before the desktop starts (800 x 600)
    STILL       \* bound on the packets counted as still

Bit(byte, k) == (byte \div 2^k) % 2 = 1

ASSUME MouseOK ==
    /\ Flags \subseteq 0..255 /\ \A f \in Flags : Bit(f, 3)
    /\ Data \subseteq 0..255 /\ STILL \in Nat
    /\ \A s \in Screens \cup {DEFAULT} : s[1] > 0 /\ s[2] > 0

VARIABLES
    mouse,      \* MOUSE: position, left, screen, has_scroll_wheel; the bytes
                \* of the current packet, whose number is cycle
    sending,    \* rest of the packet the device is at
    lost,       \* ghost: a byte was lost, and the count of still packets since
    button      \* ghost: the left button in the last packet without overflow

mouseVars == <<mouse, sending, lost, button>>

PacketSize == IF mouse.wheel THEN 4 ELSE 3

-----------------------------------------------------------------------------
(* The device (external).                                                  *)

\* The next packet: a movement, or a still one with only the button.
Send(p) ==
    /\ sending = <<>>
    /\ sending' = p
    /\ button' = IF Bit(p[1], 6) \/ Bit(p[1], 7) THEN button ELSE Bit(p[1], 0)
    /\ lost' = [lost EXCEPT !.still = IF \A i \in 2..Len(p) : p[i] = 0
                                      THEN IF @ < STILL THEN @ + 1 ELSE @ ELSE 0]
    /\ UNCHANGED mouse

Lose ==
    /\ sending # <<>>
    /\ sending' = Tail(sending)
    /\ lost' = [ever |-> TRUE, still |-> 0]
    /\ UNCHANGED <<mouse, button>>

-----------------------------------------------------------------------------

\* mouse::init: device 3 or 4 has a wheel.  The mouse is enabled afterwards.
InitMouse ==
    /\ ~mouse.enabled
    /\ \E wheel \in BOOLEAN : mouse' = [mouse EXCEPT !.enabled = TRUE, !.wheel = wheel]
    /\ UNCHANGED <<sending, lost, button>>

\* set_screen_size, by the desktop: the pointer goes to the middle.
SetScreenSize(s) ==
    /\ mouse' = [mouse EXCEPT !.screen = s, !.x = s[1] \div 2, !.y = s[2] \div 2]
    /\ UNCHANGED <<sending, lost, button>>

\* Sign extension of a movement byte.
Signed(byte, negative) == IF negative THEN byte - 256 ELSE byte

Clamped(v, size) == IF v < 0 THEN 0 ELSE IF v >= size THEN size - 1 ELSE v

\* A complete packet; one with an overflow bit is discarded, button and all.
Complete(bytes) ==
    LET flags == bytes[1] IN
    IF Bit(flags, 6) \/ Bit(flags, 7) THEN [mouse EXCEPT !.bytes = <<>>]
    ELSE [mouse EXCEPT !.bytes = <<>>, !.left = Bit(flags, 0),
            !.x = Clamped(@ + Signed(bytes[2], Bit(flags, 4)), mouse.screen[1]),
            !.y = Clamped(@ - Signed(bytes[3], Bit(flags, 5)), mouse.screen[2])]

\* process_byte that takes any byte for a first one.
ProcessByteAny(byte) ==
    IF Len(mouse.bytes) + 1 >= PacketSize THEN Complete(Append(mouse.bytes, byte))
    ELSE [mouse EXCEPT !.bytes = Append(@, byte)]

\* process_byte: a first byte without bit 3 is skipped.
ProcessByte(byte) ==
    IF mouse.bytes = <<>> /\ ~Bit(byte, 3) THEN mouse
    ELSE IF Len(mouse.bytes) + 1 >= PacketSize THEN Complete(Append(mouse.bytes, byte))
    ELSE [mouse EXCEPT !.bytes = Append(@, byte)]

\* handle_interrupt (IRQ 12)
MouseInterrupt ==
    /\ sending # <<>>
    /\ mouse' = ProcessByte(Head(sending))
    /\ sending' = Tail(sending)
    /\ UNCHANGED <<lost, button>>

MouseInit ==
    /\ mouse = [enabled |-> FALSE, wheel |-> FALSE, x |-> DEFAULT[1] \div 2, y |-> DEFAULT[2] \div 2,
                left |-> FALSE, screen |-> DEFAULT, bytes |-> <<>>]
    /\ sending = <<>>
    /\ lost = [ever |-> FALSE, still |-> 0]
    /\ button = FALSE

MouseNext ==
    \/ InitMouse
    \/ \E s \in Screens : SetScreenSize(s)
    \/ /\ mouse.enabled
       /\ \E f \in Flags, dx, dy \in Data, wheel \in {0, 255} :
             Send(IF mouse.wheel THEN <<f, dx, dy, wheel>> ELSE <<f, dx, dy>>)
    \/ Lose \/ MouseInterrupt

-----------------------------------------------------------------------------

\* The pointer is on the screen, whatever the bytes, aligned or not, and
\* across the change from the default size to the desktop's.
PointerOnScreen ==
    /\ mouse.x \in 0..mouse.screen[1] - 1 /\ mouse.y \in 0..mouse.screen[2] - 1
    /\ Len(mouse.bytes) < PacketSize

\* As long as no byte was lost, the driver and the device agree where a packet
\* ends, movement bytes that look like first ones and discarded packets
\* included, and the driver has the state of the button.
PacketsExact ==
    ~lost.ever /\ sending = <<>> => mouse.bytes = <<>> /\ mouse.left = button

\* After lost bytes, bit 3 brings the driver back: at the end of the second
\* still packet in a row it is at the start of a packet, so the next one is
\* read as it was sent.
RealignsWhenStill ==
    lost.still >= 2 /\ sending = <<>> => mouse.bytes = <<>>
=============================================================================
