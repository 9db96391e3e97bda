------------------------------- MODULE Response -------------------------------
(***************************************************************************)
(* How the browser gets a page's text from the bytes of a chunked response *)
(* (browser.rs, crypto/tls.rs): pieces of any size are read, each is       *)
(* turned into a string on its own, and decode_chunked joins the chunks.   *)
(* Reading may end anywhere: deadline, size limit, closed connection.      *)
(*                                                                         *)
(* A byte is a digit, a separator, a letter, one of the two bytes of a     *)
(* longer character ("m1", "m2") or of the three of the replacement        *)
(* character ("r1", "r2", "r3").  Headers are left out.                    *)
(***************************************************************************)
EXTENDS Naturals, Sequences, SequencesExt

CONSTANTS
    Digits,     \* the digits of chunk sizes, in order (16 in the code)
    Bodies,     \* pages, sequences of bytes of whole characters
    MAXCHUNK    \* bound on the length of a chunk

ASSUME ResponseOK ==
    /\ Len(Digits) >= 2 /\ IsInjective(Digits)
    /\ MAXCHUNK \in Nat /\ MAXCHUNK < Len(Digits) * Len(Digits)

BASE == Len(Digits)
CRLF == <<"CR", "LF">>
Blank == {"CR", "LF"}

\* The byte that must follow.
Follows == [m1 |-> "m2", r1 |-> "r2", r2 |-> "r3"]

VARIABLES
    body,       \* what the server has still to send
    wire,       \* bytes sent and not read
    raw,        \* out of http_get_raw and https_get, a string as its bytes
    page,       \* <<result of decode_chunked>>, <<>> while reading
    chunks,     \* ghost: chunks sent, each with the number of bytes up to its end
    bytes,      \* ghost: bytes sent, bytes read
    split       \* ghost: a read, or a chunk, ended inside a character

respVars == <<body, wire, raw, page, chunks, bytes, split>>

-----------------------------------------------------------------------------
(* The server (external).                                                  *)

SizeDigits(n) ==
    IF n < BASE THEN <<Digits[n + 1]>> ELSE <<Digits[(n \div BASE) + 1], Digits[(n % BASE) + 1]>>

\* The next n bytes, whatever characters they cut; with an extension or not.
SendChunk(n, ext) ==
    LET head == SizeDigits(n) \o ext \o CRLF
        data == SubSeq(body, 1, n) IN
    /\ page = <<>> /\ n <= Len(body)
    /\ body' = SubSeq(body, n + 1, Len(body))
    /\ wire' = wire \o head \o data \o CRLF
    /\ chunks' = Append(chunks, [data |-> data, end |-> bytes.sent + Len(head) + n])
    /\ bytes' = [bytes EXCEPT !.sent = @ + Len(head) + n + 2]
    /\ UNCHANGED <<raw, page, split>>

\* The chunk of size 0, after the whole body.
SendLast ==
    /\ page = <<>> /\ body = <<>> /\ bytes.last = FALSE
    /\ wire' = wire \o SizeDigits(0) \o CRLF \o CRLF
    /\ bytes' = [bytes EXCEPT !.sent = @ + 5, !.last = TRUE]
    /\ UNCHANGED <<body, raw, page, chunks, split>>

-----------------------------------------------------------------------------

\* from_utf8 accepts whole characters only.
Whole(s) ==
    \A i \in DOMAIN s :
        /\ s[i] \in DOMAIN Follows => i < Len(s) /\ s[i + 1] = Follows[s[i]]
        /\ s[i] \in Range(Follows) => i > 1 /\ s[i - 1] \in DOMAIN Follows

\* from_utf8_lossy: half a character becomes the replacement character.
Lossy(s) ==
    FlattenSeq([i \in DOMAIN s |->
        IF \/ s[i] = "m1" /\ (i = Len(s) \/ s[i + 1] # "m2")
           \/ s[i] = "m2" /\ (i = 1 \/ s[i - 1] # "m1")
        THEN <<"r1", "r2", "r3">> ELSE <<s[i]>>])

\* One read of n bytes, pushed to the string.
ReadPiece(n) ==
    /\ page = <<>> /\ n <= Len(wire)
    /\ raw' = raw \o Lossy(SubSeq(wire, 1, n))
    /\ wire' = SubSeq(wire, n + 1, Len(wire))
    /\ bytes' = [bytes EXCEPT !.read = @ + n]
    /\ split' = (split \/ ~Whole(SubSeq(wire, 1, n)))
    /\ UNCHANGED <<body, page, chunks>>

\* trim
Trimmed(s) ==
    LET kept == {i \in DOMAIN s : s[i] \notin Blank} IN
    IF kept = {} THEN <<>> ELSE SubSeq(s, Min(kept), Max(kept))

\* from_str_radix(..).unwrap_or(0) of what comes before a semicolon.
SizeOf(line) ==
    LET semi == {i \in DOMAIN line : line[i] = ";"}
        hex == Trimmed(SubSeq(line, 1, IF semi = {} THEN Len(line) ELSE Min(semi) - 1))
        Value(d) == (CHOOSE i \in DOMAIN Digits : Digits[i] = d) - 1 IN
    IF Range(hex) \subseteq Range(Digits)
    THEN FoldLeft(LAMBDA v, d : v * BASE + Value(d), 0, hex) ELSE 0

\* Where the scan for the line's end stops: at CRLF, or at the last byte.
LineEnd(src, pos) ==
    LET n == Len(src)
        ends == {q \in pos..(n - 2) : SubSeq(src, q + 1, q + 2) = CRLF} IN
    IF ends = {} THEN n - 1 ELSE Min(ends)

\* A string may only be sliced between characters.
IsBoundary(src, i) == i = Len(src) \/ src[i + 1] \notin Range(Follows)

\* decode_chunked that does not skip the end of a line after the data.
AfterDataStay(src, end) == end

AfterData(src, end) ==
    IF end + 1 < Len(src) /\ SubSeq(src, end + 1, end + 2) = CRLF THEN end + 2 ELSE end

\* decode_chunked: a chunk that is not whole characters is left out, and an
\* incomplete one is the last.  ok is FALSE if a slice panics.
DecodeChunked(src) ==
    LET n == Len(src)
        From[pos \in 0..n] ==
            LET stop == LineEnd(src, pos)
                size == SizeOf(SubSeq(src, pos + 1, stop))
                end == stop + 2 + size
                data == SubSeq(src, stop + 3, end)
                rest == From[AfterData(src, end)] IN
            IF pos = n THEN [text |-> <<>>, ok |-> TRUE]
            ELSE IF ~IsBoundary(src, pos) \/ ~IsBoundary(src, stop)
            THEN [text |-> <<>>, ok |-> FALSE]
            ELSE IF size = 0 \/ end > n THEN [text |-> <<>>, ok |-> TRUE]
            ELSE [text |-> (IF Whole(data) THEN data ELSE <<>>) \o rest.text, ok |-> rest.ok]
    IN From[0]

\* Reading ends, and fetch_and_render decodes what there is.
EndRead ==
    /\ page = <<>> /\ raw # <<>>
    /\ page' = <<DecodeChunked(raw)>>
    /\ UNCHANGED <<body, wire, raw, chunks, bytes, split>>

ResponseInit ==
    /\ body \in Bodies
    /\ wire = <<>> /\ raw = <<>> /\ page = <<>> /\ chunks = <<>>
    /\ bytes = [sent |-> 0, read |-> 0, last |-> FALSE]
    /\ split = FALSE

ResponseNext ==
    \/ \E n \in 1..MAXCHUNK, ext \in {<<>>, <<";", "x">>} : SendChunk(n, ext)
    \/ SendLast
    \/ \E n \in 1..Len(wire) : ReadPiece(n)
    \/ EndRead

-----------------------------------------------------------------------------

\* decode_chunked gives the chunks that arrived completely, joined, wherever
\* the server divided the page and wherever the reads and the last of them
\* ended, if none cut a character.  (The replacement character makes the
\* string longer than the sizes say; NeverPanics is about what follows.)
ChunksJoined ==
    page # <<>> /\ ~split =>
        /\ page[1].ok
        /\ page[1].text = FlattenSeq([i \in DOMAIN chunks |->
              IF chunks[i].end <= bytes.read THEN chunks[i].data ELSE <<>>])

\* decode_chunked slices the string between characters only, whatever the
\* reads were; the code does not check it.
NeverPanics == page # <<>> => page[1].ok
=============================================================================
