----------------------------- MODULE Assembler -----------------------------
(***************************************************************************)
(* Reassembly of QUIC ClientHellos (internal/quic/assemble.go): CRYPTO     *)
(* segments of a connection attempt are gathered, in any order, until the  *)
(* hello is whole or PendingTTL has passed, and the attempt is returned    *)
(* once.  The mutex makes Add and Expire atomic.                           *)
(*                                                                         *)
(* A segment is the stretch of the client's handshake stream it carries,   *)
(* [off, len]; the stream is the same in every retransmission.  The first  *)
(* unit of the stream is the header that announces the hello's length.     *)
(* Times are kept as ages, which saturate at the limit they are compared   *)
(* with.                                                                   *)
(***************************************************************************)
EXTENDS Integers, FiniteSets, Sequences, FiniteSetsExt, SequencesExt, Functions

CONSTANTS
    Keys,            \* source address and DCID of an attempt
    Need,            \* Need[k]: units of k's hello with its header; 0: no ClientHello
    MaxPending,
    TableFactor,     \* 8: completed attempts may fill the rest of this many tables
    MaxCryptoBytes,
    MaxSegments,     \* maxSegments
    PendingTTL, CompletedTTL

ASSUME AssemblerAssumption ==
    /\ Need \in [Keys -> Nat]
    /\ MaxPending \in Nat \ {0} /\ TableFactor \in Nat \ {0}
    /\ MaxCryptoBytes \in Nat \ {0} /\ MaxSegments \in Nat \ {0}
    /\ PendingTTL \in Nat \ {0} /\ CompletedTTL \in Nat \ {0}

VARIABLES
    pending,      \* key -> attempt
    completed,    \* key -> age since the attempt was returned
    overflow,     \* packets refused at capacity
    retransmits,  \* datagrams folded into an attempt already returned
    sinceReport,  \* history: key -> age of its last record, CompletedTTL if none
    arrived       \* history: key -> stream units seen since the attempt began

asmVars == <<pending, completed, overflow, retransmits, sinceReport, arrived>>

----------------------------------------------------------------------------
(* Segments. *)

Segment == [off : Nat, len : Nat]
NoSegments == [o \in {} |-> 0]
Stored(segs) == SumFunction(segs)

\* A frame that is empty, too far, one too many, at an offset already held, or
\* over the budget is skipped.
Skipped(segs, s) ==
    \/ s.len = 0 \/ s.off >= MaxCryptoBytes
    \/ Cardinality(DOMAIN segs) >= MaxSegments
    \/ s.off \in DOMAIN segs
    \/ Stored(segs) + s.len > MaxCryptoBytes

Keep(segs, s) ==
    IF Skipped(segs, s) THEN segs
    ELSE [o \in DOMAIN segs \cup {s.off} |-> IF o = s.off THEN s.len ELSE segs[o]]

Larger(x, y) == IF x > y THEN x ELSE y

\* Mutant of Extend: a segment that overlaps what is held is not used.
ExtendExact(have, o, len) == IF o = have THEN have + len ELSE have

\* One segment joined to a stream of `have` units: beyond a gap nothing counts.
Extend(have, o, len) == IF o > have THEN have ELSE Larger(have, o + len)

\* Length of the stream from offset 0 to the first gap: the segments are joined in the
\* order of their offsets, the highest last.
Contiguous(segs) ==
    MapThenFoldSet(LAMBDA o, have : Extend(have, o, segs[o]), 0,
                   LAMBDA o : o, LAMBDA offsets : Max(offsets), DOMAIN segs)

\* hello: the header is there, announces what fits, and all of it is there.
Whole(k, segs) ==
    LET have == Contiguous(segs)
    IN  have >= 1 /\ Need[k] > 0 /\ Need[k] <= MaxCryptoBytes /\ have >= Need[k]

Units(crypto) == UNION {s.off..(s.off + s.len - 1) : s \in Range(crypto)}

----------------------------------------------------------------------------
NoKey == [k \in {} |-> 0]

AsmInit ==
    /\ pending = NoKey /\ completed = NoKey
    /\ overflow = 0 /\ retransmits = 0
    /\ sinceReport = [k \in Keys |-> CompletedTTL]
    /\ arrived = [k \in Keys |-> {}]

Fresh == [age |-> 0, segs |-> NoSegments, datagrams |-> 0]

TableFull ==
    \/ Cardinality(DOMAIN pending) + Cardinality(DOMAIN completed) >= TableFactor * MaxPending
    \/ Cardinality(DOMAIN pending) >= MaxPending

Put(f, k, v) == [x \in DOMAIN f \cup {k} |-> IF x = k THEN v ELSE f[x]]

\* A packet of an attempt already returned is a retransmission.
Folded(k, first) ==
    /\ k \in DOMAIN completed
    /\ retransmits' = IF first THEN retransmits + 1 ELSE retransmits
    /\ UNCHANGED <<pending, completed, overflow, sinceReport, arrived>>

Refused(k) ==
    /\ k \notin DOMAIN completed \cup DOMAIN pending /\ TableFull
    /\ overflow' = overflow + 1
    /\ UNCHANGED <<pending, completed, retransmits, sinceReport, arrived>>

Admits(k) == k \notin DOMAIN completed /\ (k \in DOMAIN pending \/ ~TableFull)

\* The attempt with the packet's frames; `first` counts the datagram once.
With(k, crypto, first) ==
    LET at == IF k \in DOMAIN pending THEN pending[k] ELSE Fresh
    IN  [at EXCEPT !.segs = FoldLeft(Keep, at.segs, crypto),
                   !.datagrams = IF first THEN @ + 1 ELSE @]

Arrives(k, crypto) ==
    arrived' = [arrived EXCEPT ![k] = Units(crypto) \cup (IF k \in DOMAIN pending THEN @ ELSE {})]

\* Add of a packet that leaves the hello incomplete.
Gathers(k, crypto, first) ==
    /\ Admits(k)
    /\ LET at == With(k, crypto, first)
       IN  ~Whole(k, at.segs) /\ pending' = Put(pending, k, at)
    /\ Arrives(k, crypto)
    /\ UNCHANGED <<completed, overflow, retransmits, sinceReport>>

\* Mutant of Completes: the attempt is not remembered.
CompletesForgets(k, crypto, first) ==
    /\ Admits(k)
    /\ Whole(k, With(k, crypto, first).segs)
    /\ pending' = Restrict(pending, DOMAIN pending \ {k})
    /\ sinceReport' = [sinceReport EXCEPT ![k] = 0]
    /\ Arrives(k, crypto)
    /\ UNCHANGED <<completed, overflow, retransmits>>

\* Add of the packet that makes it whole; the attempt is returned.
Completes(k, crypto, first) ==
    /\ Admits(k)
    /\ Whole(k, With(k, crypto, first).segs)
    /\ pending' = Restrict(pending, DOMAIN pending \ {k})
    /\ completed' = Put(completed, k, 0)
    /\ sinceReport' = [sinceReport EXCEPT ![k] = 0]
    /\ Arrives(k, crypto)
    /\ UNCHANGED <<overflow, retransmits>>

\* Expire: the attempts `late` are returned incomplete and remembered, the
\* remembered ones `old` are forgotten.
ExpireOf(late, old) ==
    /\ pending' = Restrict(pending, DOMAIN pending \ late)
    /\ completed' = [k \in (DOMAIN completed \ old) \cup late |->
                        IF k \in late THEN 0 ELSE completed[k]]
    /\ sinceReport' = [k \in Keys |-> IF k \in late THEN 0 ELSE sinceReport[k]]
    /\ UNCHANGED <<overflow, retransmits, arrived>>

Late == {k \in DOMAIN pending : pending[k].age >= PendingTTL}
Old == {k \in DOMAIN completed : completed[k] >= CompletedTTL}

Expire == ExpireOf(Late, Old)

\* Flush is Expire at a time when everything is past its limit.
Flush == ExpireOf(DOMAIN pending, DOMAIN completed)

Older(age, limit) == IF age < limit THEN age + 1 ELSE limit

AsmTick ==
    /\ pending' = [k \in DOMAIN pending |->
                      [pending[k] EXCEPT !.age = Older(@, PendingTTL)]]
    /\ completed' = [k \in DOMAIN completed |-> Older(completed[k], CompletedTTL)]
    /\ sinceReport' = [k \in Keys |-> Older(sinceReport[k], CompletedTTL)]
    /\ UNCHANGED <<overflow, retransmits, arrived>>

----------------------------------------------------------------------------
(* Properties. *)

\* Types of the assembler's tables.
AsmTypeOK ==
    /\ DOMAIN pending \subseteq Keys
    /\ \A k \in DOMAIN pending : /\ pending[k].age \in 0..PendingTTL
                                 /\ pending[k].datagrams \in Nat
                                 /\ DOMAIN pending[k].segs \subseteq 0..(MaxCryptoBytes - 1)
    /\ DOMAIN completed \subseteq Keys
    /\ \A k \in DOMAIN completed : completed[k] \in 0..CompletedTTL
    /\ overflow \in Nat /\ retransmits \in Nat

Covered(segs) == UNION {o..(o + segs[o] - 1) : o \in DOMAIN segs}

\* What senders can make the sensor hold is bounded, in attempts and in remembered
\* keys, and no key is both waiting and done (assemble.go:9-19, 76-82).
TablesSound ==
    /\ Cardinality(DOMAIN pending) <= MaxPending
    /\ Cardinality(DOMAIN pending) + Cardinality(DOMAIN completed) <= TableFactor * MaxPending
    /\ DOMAIN pending \cap DOMAIN completed = {}

\* The tables are bounded, so are an attempt's bytes and segments, and the stream the
\* code joins is the longest prefix that the stored segments cover, however they
\* overlap and in whatever order they came (assemble.go:9-19, 130-150).
AssemblerSound ==
    /\ TablesSound
    /\ \A k \in DOMAIN pending :
          LET segs == pending[k].segs
              n == Contiguous(segs)
          IN  /\ Stored(segs) <= MaxCryptoBytes /\ Cardinality(DOMAIN segs) <= MaxSegments
              /\ 0..(n - 1) \subseteq Covered(segs) /\ n \notin Covered(segs)

\* "hello returns the ClientHello once the stream from offset 0 holds all of
\* it" and "Segments may overlap when a retransmission reframes the stream"
\* (assemble.go:116, 130-131): no attempt waits whose hello has arrived.
WholeWhenArrived ==
    \A k \in DOMAIN pending :
        Need[k] > 0 /\ Need[k] <= MaxCryptoBytes => ~(0..(Need[k] - 1) \subseteq arrived[k])

----------------------------------------------------------------------------
(* What makes these inductive; the proofs are in UdpProofs. *)

\* What an attempt can hold: segments by offset, none empty, within the two budgets.
Holding ==
    {segs \in UNION {[D -> 1..MaxCryptoBytes] : D \in SUBSET (0..(MaxCryptoBytes - 1))} :
        Stored(segs) <= MaxCryptoBytes /\ Cardinality(DOMAIN segs) <= MaxSegments}
SegmentsInv == \A k \in DOMAIN pending : pending[k].segs \in Holding

AttemptFields == {"age", "segs", "datagrams"}

\* The tables are finite and bounded, and an attempt is a record of its fields.
TablesInv ==
    /\ IsFiniteSet(DOMAIN pending) /\ IsFiniteSet(DOMAIN completed) /\ TablesSound
    /\ \A k \in DOMAIN pending : DOMAIN pending[k] = AttemptFields /\ pending[k].datagrams \in Nat

\* A key recorded within CompletedTTL is among the completed ones.
ReportsRemembered ==
    /\ sinceReport \in [Keys -> 0..CompletedTTL]
    /\ \A k \in DOMAIN completed : completed[k] \in 0..CompletedTTL
    /\ \A k \in Keys : sinceReport[k] < CompletedTTL =>
          k \in DOMAIN completed /\ completed[k] <= sinceReport[k]
=============================================================================
