---------------------------- MODULE HelloRecord ----------------------------
(***************************************************************************)
(* Keeping the raw ClientHello (internal/tls/tls.go, helloRecorder and     *)
(* clientHelloRecord): what the fingerprinter reads is copied up to a cap, *)
(* and trimmed to the record afterwards.  Bytes are counted; the two that  *)
(* matter are those of the length.  The fingerprinter is external: it      *)
(* reads in chunks, at least the record and possibly more.                 *)
(***************************************************************************)
EXTENDS Integers, Bitwise

CONSTANTS
    Bodies,                \* lengths of the record's payload, up to 16384
    Extra,                 \* bytes the client sent after the record
    Chunks,                \* how much one Read may return, more than 0
    MaxClientHelloBytes

Header == 5

VARIABLES
    body,   \* the payload length the header announces
    taken,  \* bytes the fingerprinter has read
    buf,    \* bytes recorded
    kept    \* length of HelloRaw: -1 while reading, 0 for nil

vars == <<body, taken, buf, kept>>

Smaller(x, y) == IF x < y THEN x ELSE y

Init == body \in Bodies /\ taken = 0 /\ buf = 0 /\ kept = -1

\* How much of n bytes the recorder still copies.
Room(n) == IF buf < MaxClientHelloBytes THEN Smaller(n, MaxClientHelloBytes - buf) ELSE 0

\* helloRecorder.Read of a chunk, or of what is left.
Read(chunk) ==
    LET n == Smaller(chunk, Header + body + Extra - taken) IN
    /\ kept = -1 /\ taken < Header + body
    /\ taken' = taken + n /\ buf' = buf + Room(n)
    /\ UNCHANGED <<body, kept>>

\* 5 + int(b[3])<<8 | int(b[4]): in Go + and | bind alike, to the left.
Total == (Header + (body \div 256) * 256) | (body % 256)

\* clientHelloRecord, once the fingerprint is there.
Trim ==
    /\ kept = -1 /\ taken >= Header + body
    /\ kept' = IF Total < Header \/ Total > buf THEN 0 ELSE Total
    /\ UNCHANGED <<body, taken, buf>>

Next == (\E chunk \in Chunks : Read(chunk)) \/ Trim

Spec == Init /\ [][Next]_vars

----------------------------------------------------------------------------
\* "trims recorded bytes to exactly one TLS record" (tls.go:114-117).
ExactlyOneRecord == kept > 0 => kept = Header + body
=============================================================================
