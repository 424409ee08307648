------------------------------ MODULE QuicWalk ------------------------------
(***************************************************************************)
(* The walk over the long-header packets of a datagram and the frames of   *)
(* an Initial (internal/quic/initial.go, frames.go).  It reads lengths out *)
(* of bytes a stranger sent and cuts slices with them; here the bytes are  *)
(* chosen when they are read, and the state keeps the offsets.             *)
(*                                                                         *)
(* The keys and the cipher are left out: an Initial decrypts or does not.  *)
(* What the walk returns, packets with or without frames, is what module   *)
(* Udp takes as the packets of a datagram.                                 *)
(***************************************************************************)
EXTENDS Integers, Sequences

CONSTANTS
    Sizes,      \* lengths of datagrams
    ConnLens,   \* lengths of connection IDs, as one byte says them
    Varints     \* variable-length integers: value v in w bytes

ASSUME QuicWalkAssumption ==
    /\ Sizes \subseteq Nat /\ ConnLens \subseteq 0..255
    /\ \A x \in Varints : x.v \in Nat /\ x.w \in {1, 2, 4, 8}

VARIABLES
    pc,      \* the part read next; "done" when ParseDatagram has returned
    left,    \* len(b): what the walk has not consumed yet
    off,     \* offset into b
    over,    \* is a connection ID longer than maxConnIDLen?
    end,     \* where the Initial ends
    body,    \* bytes left of its plaintext
    reach,   \* bytes of b that have been touched
    out,     \* the packets
    err      \* the error returned

walkVars == <<pc, left, off, over, end, body, reach, out, err>>

MaxConnIDLen == 20
Sample == 4 + 16      \* unprotect takes the sample after the longest packet number
Tag == 16             \* what the cipher adds to the plaintext

QuicInit ==
    /\ pc = "packet" /\ left \in Sizes /\ off = 0 /\ over = FALSE /\ end = 0 /\ body = 0
    /\ reach = 0 /\ out = <<>> /\ err = "none"

Touch(n) == reach' = IF n > reach THEN n ELSE reach

Goto(p, o) == pc' = p /\ off' = o
Leaves == UNCHANGED <<left, over, end, body, out, err>>

\* parseLong returned no packet, or no length: the loop ends.
Breaks(ps) ==
    /\ pc' = "done" /\ out' = ps
    /\ err' = IF ps = <<>> THEN "notQUIC" ELSE "none"
    /\ UNCHANGED <<left, off, over, end, body>>

Packet(k, f) == Append(out, [kind |-> k, framed |-> f])

\* The packet is returned with the error that stopped the walk.
Fails(k, e) ==
    /\ pc' = "done" /\ out' = Packet(k, FALSE) /\ err' = e
    /\ UNCHANGED <<left, off, over, end, body>>

\* The loop goes on after n bytes.
Consumes(n) ==
    /\ left' = left - n
    /\ Goto("packet", 0) /\ reach' = 0 /\ over' = FALSE /\ end' = 0 /\ body' = 0
    /\ UNCHANGED err

\* readVarint at offset o of m bytes.
Complete(x, o, m) == o < m /\ o + x.w <= m

----------------------------------------------------------------------------
(* parseLong. *)

\* Nothing is left, or a short header, or too little for a long one.
WalkEnds ==
    /\ pc = "packet"
    /\ Touch(IF left = 0 THEN 0 ELSE 1)
    /\ Breaks(out)

ReadsVersion ==
    /\ pc = "packet" /\ left >= 7
    /\ Touch(5) /\ Goto("dcid", 5) /\ Leaves

\* Mutant of DcidFits: room for the ID, none for the length that follows.
DcidFitsBarely(o, n) == o + n <= left

\* The ID must leave a byte for the length of the next.
DcidFits(o, n) == o + n < left
ScidFits(o, n) == o + n <= left

ReadsDcid(n) ==
    /\ pc = "dcid"
    /\ IF DcidFits(off + 1, n)
       THEN /\ Touch(off + 1 + n) /\ Goto("scid", off + 1 + n)
            /\ over' = (n > MaxConnIDLen)
            /\ UNCHANGED <<left, end, body, out, err>>
       ELSE Touch(off + 1) /\ Breaks(out)

ReadsScid(n) ==
    /\ pc = "scid"
    /\ IF ScidFits(off + 1, n)
       THEN /\ Touch(off + 1 + n) /\ Goto("header", off + 1 + n)
            /\ over' = (over \/ n > MaxConnIDLen)
            /\ UNCHANGED <<left, end, body, out, err>>
       ELSE Touch(off + 1) /\ Breaks(out)

UnknownVersion == pc = "header" /\ Touch(off) /\ Fails("unknown", "version")

TooLongID == pc = "header" /\ over /\ Touch(off) /\ Breaks(out)

SkipFits(x) == Complete(x, off, left) /\ x.v <= left - off - x.w

\* A 0-RTT or Handshake packet is skipped by its length.
SkipsPacket(x) ==
    /\ pc = "header" /\ ~over
    /\ IF SkipFits(x)
       THEN out' = Packet("other", FALSE) /\ Consumes(off + x.w + x.v)
       ELSE Touch(off) /\ Breaks(Packet("other", FALSE))

\* Mutant of MeetsRetry: a packet without a length is skipped by no bytes.
MeetsRetryOnce ==
    /\ pc = "header" /\ ~over
    /\ out' = Packet("other", FALSE) /\ Consumes(0)

\* A Retry carries no length.
MeetsRetry == pc = "header" /\ ~over /\ Touch(off) /\ Breaks(Packet("other", FALSE))

MeetsInitial == pc = "header" /\ ~over /\ Touch(off) /\ Goto("token", off) /\ Leaves

TokenFits(x) == Complete(x, off, left) /\ x.v <= left - off - x.w

ReadsToken(x) ==
    /\ pc = "token"
    /\ IF TokenFits(x)
       THEN Touch(off + x.w + x.v) /\ Goto("length", off + x.w + x.v) /\ Leaves
       ELSE Touch(off) /\ Fails("initial", "malformed")

LengthFits(x) == Complete(x, off, left) /\ x.v >= 20 /\ x.v <= left - off - x.w

ReadsLength(x) ==
    /\ pc = "length"
    /\ IF LengthFits(x)
       THEN /\ Touch(off + x.w) /\ Goto("unprotect", off + x.w)
            /\ end' = off + x.w + x.v
            /\ UNCHANGED <<left, over, body, out, err>>
       ELSE Touch(off) /\ Fails("initial", "malformed")

\* pn: length of the packet number, once the header protection is removed.
Unprotects(pn) ==
    /\ pc = "unprotect" /\ off + Sample <= end /\ off + pn + Tag <= end
    /\ Touch(end) /\ Goto("frames", off)
    /\ body' = end - (off + pn) - Tag
    /\ out' = Packet("initial", TRUE)
    /\ UNCHANGED <<left, over, end, err>>

\* Mutant of UnprotectFails: the packet is skipped and the walk goes on.
UnprotectSkips ==
    /\ pc = "unprotect"
    /\ out' = Packet("initial", FALSE) /\ Consumes(end)

\* Too short for the sample, or it does not authenticate.
UnprotectFails == pc = "unprotect" /\ Touch(end) /\ Fails("initial", "malformed")

----------------------------------------------------------------------------
(* parseFrames, over the plaintext.  Its errors end the packet and keep    *)
(* what was read before.                                                   *)

Reads(n) ==
    /\ pc = "frames" /\ n <= body
    /\ body' = body - n
    /\ UNCHANGED <<pc, left, off, over, end, reach, out, err>>

\* PADDING or PING.
ReadsByte == Reads(1)

CryptoEnd(x, y) == 1 + x.w + y.w + y.v

ReadsCrypto(x, y) == Reads(CryptoEnd(x, y))

\* skipAck: two numbers, the count, the first range and the pairs; with ECN three
\* more.  All but the count are taken to be of one width.
AckEnd(x, w, ecn) == 1 + 2 * w + x.w + (1 + 2 * x.v + (IF ecn THEN 3 ELSE 0)) * w

SkipsAck(x, w, ecn) == x.v <= 256 /\ Reads(AckEnd(x, w, ecn))

ReadsClose(w, y, transport) == Reads(1 + (IF transport THEN 2 * w ELSE w) + y.w + y.v)

\* The payload is read, or a frame is cut short, implausible or not allowed.
EndsPacket ==
    /\ pc = "frames"
    /\ Consumes(end)
    /\ UNCHANGED out

----------------------------------------------------------------------------

QuicNext ==
    \/ WalkEnds \/ ReadsVersion
    \/ \E n \in ConnLens : ReadsDcid(n) \/ ReadsScid(n)
    \/ UnknownVersion \/ TooLongID \/ MeetsRetry \/ MeetsInitial
    \/ \E x \in Varints : SkipsPacket(x) \/ ReadsToken(x) \/ ReadsLength(x)
    \/ \E pn \in 1..4 : Unprotects(pn)
    \/ UnprotectFails
    \/ ReadsByte \/ EndsPacket
    \/ \E x, y \in Varints : ReadsCrypto(x, y)
    \/ \E x, y \in Varints, b \in BOOLEAN : SkipsAck(x, y.w, b) \/ ReadsClose(x.w, y, b)

QuicSpec == QuicInit /\ [][QuicNext]_walkVars

----------------------------------------------------------------------------
(* Properties. *)

\* Types of the walk's state.
WalkTypeOK ==
    /\ pc \in {"packet", "dcid", "scid", "header", "token", "length", "unprotect", "frames", "done"}
    /\ left \in Nat /\ off \in Nat /\ over \in BOOLEAN /\ end \in Nat /\ body \in Nat
    /\ reach \in Nat
    /\ out \in Seq([kind : {"initial", "other", "unknown"}, framed : BOOLEAN])
    /\ err \in {"none", "notQUIC", "version", "malformed"}

\* Whatever lengths the datagram claims, no byte outside it is touched: parseLong,
\* skipLength, unprotect and parseFrames index and cut within the slice they hold
\* (initial.go:154-271, frames.go:32-133).
InBounds == reach <= left /\ end <= left /\ 0 <= left /\ 0 <= body

\* Every turn of ParseDatagram's loop consumes bytes, so that it ends on every
\* datagram (initial.go:135-147).
WalkAdvances == [][(pc' = "packet" /\ pc # "packet") => left' < left]_walkVars

\* handleQUIC reads "no error" as: every Initial of a known version gave frames;
\* with an error, the last packet and no earlier Initial lacks them
\* (initial.go:130-152, server.go:318-352).
InitialsRead ==
    pc = "done" =>
        LET failed == {i \in 1..Len(out) : out[i].kind # "other" /\ ~out[i].framed}
        IN  failed = IF err \in {"version", "malformed"} THEN {Len(out)} ELSE {}

\* What each part of the walk knows of its offsets: the strengthening that makes
\* InBounds and InitialsRead inductive.
Offsets ==
    /\ pc = "packet" => off = 0 /\ reach = 0 /\ end = 0
    /\ pc = "dcid" => off + 2 <= left
    /\ pc = "scid" => off + 1 <= left
    /\ pc \in {"header", "token", "length"} => off <= left
    /\ pc \in {"unprotect", "frames"} => 0 < end

\* No packet that stops the walk is among those behind it.
ReadSoFar ==
    pc # "done" => /\ err = "none"
                   /\ \A i \in 1..Len(out) : out[i].kind = "other" \/ out[i].framed

WalkInv == WalkTypeOK /\ InBounds /\ Offsets /\ ReadSoFar /\ InitialsRead

=============================================================================
