-------------------------------- MODULE Udp --------------------------------
(***************************************************************************)
(* UDP capture (internal/udp/server.go): the Serve goroutine handles one   *)
(* datagram at a time, the sweeper expires QUIC attempts, and main closes  *)
(* the socket and calls Shutdown, which waits for the sweeper but not for  *)
(* Serve.  The limiter, the breaker and the assembler are the components   *)
(* it is composed of.                                                      *)
(*                                                                         *)
(* A datagram is what its handling tells apart: the sender, whether it was *)
(* addressed to the listener's own port, and its class.  A QUIC datagram   *)
(* has a key and its long-header packets; a packet without frames is not   *)
(* an Initial, or did not decrypt.                                         *)
(***************************************************************************)
EXTENDS SourceLimiter, CtBreaker, Assembler

CONSTANTS
    Datagrams,     \* what may arrive
    IgnoreNets,    \* addresses on the drop list
    GlobalRate, GlobalBurst,
    MaxReads,      \* bound on the datagrams read
    MaxPanics,     \* bound on the panics
    Shuts          \* may main shut the server down?

ASSUME UdpAssumption ==
    /\ IgnoreNets \subseteq Addrs
    /\ GlobalRate \in Nat \ {0} /\ GlobalBurst \in Nat \ {0}
    /\ MaxReads \in Nat /\ MaxPanics \in Nat /\ Shuts \in BOOLEAN
    /\ \A d \in Datagrams : d.src \in Addrs /\ d.class \in {"empty", "other", "probe", "quic"}
    /\ \A d \in Datagrams : d.class = "quic" => d.packets \in Seq([frames : BOOLEAN, crypto : Seq(Segment)])

VARIABLES
    serve,      \* where Serve is: "read", "resolve", "classify", "packet", "record", "returned"
    dgram,      \* the datagram it handles
    at,         \* index of the packet to add next
    decrypted,  \* handleQUIC's flag
    hand,       \* datagrams counted by the attempt Add returned, not yet logged
    global,     \* tokens of the global limiter
    main,       \* "running", "closed", "returned", "exited"
    sweeper,    \* does the sweeper run?
    reads,      \* datagrams read
    counts,     \* what became of them
    silent      \* history: those the code leaves no trace of, by the reason

srvVars == <<serve, dgram, at, decrypted, hand>>
udpVars == <<srvVars, global, main, sweeper, reads, counts, silent, limVars, brVars, asmVars>>

Counters == {"dropped", "sourceLimited", "limited", "panics", "recorded"}
Count(c, n) == counts' = [counts EXCEPT ![c] = @ + n]

NoDatagram == [class |-> "none"]

Init ==
    /\ serve = "read" /\ dgram = NoDatagram /\ at = 0 /\ decrypted = FALSE /\ hand = 0
    /\ global = GlobalBurst /\ main = "running" /\ sweeper = TRUE /\ reads = 0
    /\ counts = [c \in Counters |-> 0] /\ silent = [empty |-> 0, unmarked |-> 0, unlogged |-> 0]
    /\ LimInit /\ BrInit /\ AsmInit

Alive == main # "exited"

\* Where Serve is inside HandleDatagram.
Handled == {"resolve", "classify", "packet", "record"}

\* Serve is done with the datagram.
Reads == serve' = "read" /\ dgram' = NoDatagram /\ at' = 0 /\ decrypted' = FALSE /\ hand' = 0

Goes(pc) == serve' = pc /\ UNCHANGED <<dgram, at, decrypted, hand>>

----------------------------------------------------------------------------
(* HandleDatagram, up to the limits. *)

\* ReadMsgUDP returns a datagram.
Arrival ==
    /\ Alive /\ serve = "read" /\ main = "running" /\ reads < MaxReads
    /\ reads' = reads + 1
    /\ UNCHANGED <<main, sweeper, asmVars, brVars>>

\* n == 0: it is passed over.  The other silent returns ask for an address that a UDP
\* socket always gives.
ReadsEmpty(d) ==
    /\ Arrival /\ d.class = "empty" /\ silent' = [silent EXCEPT !.empty = @ + 1]
    /\ UNCHANGED <<srvVars, global, counts, limVars>>

Receives(d) == Arrival /\ d.class # "empty" /\ UNCHANGED silent

Ignored(d) ==
    /\ Receives(d) /\ d.src \in IgnoreNets
    /\ Count("dropped", 1) /\ Reads
    /\ UNCHANGED <<global, limVars>>

SourceLimited(d) ==
    /\ Receives(d) /\ d.src \notin IgnoreNets
    /\ Overspent(d.src) \/ TableRefuses(d.src)
    /\ Count("sourceLimited", 1) /\ Reads
    /\ UNCHANGED global

\* Mutant of Limited: the refusal is not counted.
LimitedUncounted(d) ==
    /\ Receives(d) /\ d.src \notin IgnoreNets /\ Allowed(d.src)
    /\ global < 1
    /\ Reads
    /\ UNCHANGED <<global, counts>>

\* The source's token is spent even when the global limit then refuses.
Limited(d) ==
    /\ Receives(d) /\ d.src \notin IgnoreNets /\ Allowed(d.src)
    /\ global < 1
    /\ Count("limited", 1) /\ Reads
    /\ UNCHANGED global

Admitted(d) ==
    /\ Receives(d) /\ d.src \notin IgnoreNets /\ Allowed(d.src)
    /\ global >= 1 /\ global' = global - 1
    /\ serve' = IF d.local THEN "resolve" ELSE "classify"
    /\ dgram' = d /\ at' = 1 /\ decrypted' = FALSE /\ hand' = 0
    /\ UNCHANGED counts

----------------------------------------------------------------------------
(* redirected: whatever the lookup says, the datagram goes on. *)

Resolving ==
    /\ Alive /\ serve = "resolve" /\ Goes("classify")
    /\ UNCHANGED <<global, main, sweeper, reads, counts, silent, limVars, asmVars>>

LookupPaused == Resolving /\ ~LookupAllowed /\ UNCHANGED brVars
LookupAnswered == Resolving /\ LookupAllowed /\ RecordAnswer
LookupFails == Resolving /\ LookupAllowed /\ RecordFailure

----------------------------------------------------------------------------
(* Classification and QUIC. *)

Busy(pc) ==
    /\ Alive /\ serve = pc
    /\ UNCHANGED <<global, main, sweeper, reads, limVars, brVars>>

Handling(pc) == Busy(pc) /\ UNCHANGED silent

\* Neither QUIC nor a probe of an unknown version: DNS, NetBIOS or raw bytes;
\* or a probe.  Either is one record.
RecordsDatagram ==
    /\ Handling("classify") /\ dgram.class # "quic"
    /\ Count("recorded", 1) /\ Reads
    /\ UNCHANGED asmVars

\* A lookup, a parser, Add or LogConnection panics, the last certainly once the
\* shipper's channel is closed; recoverDatagram counts one panic, also for an attempt
\* of several datagrams that was to be logged.
Panics(pc) ==
    /\ Busy(pc) /\ counts["panics"] < MaxPanics
    /\ Count("panics", 1) /\ silent' = [silent EXCEPT !.unlogged = @ + hand] /\ Reads
    /\ UNCHANGED asmVars

StartsQUIC ==
    /\ Handling("classify") /\ dgram.class = "quic"
    /\ Goes("packet")
    /\ UNCHANGED <<counts, asmVars>>

Packet == dgram.packets[at]

Skips ==
    /\ Handling("packet") /\ at <= Len(dgram.packets) /\ ~Packet.frames
    /\ at' = at + 1
    /\ UNCHANGED <<serve, dgram, decrypted, hand, counts, asmVars>>

\* i == 0
FirstInDatagram == at = 1

\* The first packet with frames is not the first of the datagram, which Add therefore
\* does not count.
Marks == silent' = IF decrypted \/ FirstInDatagram THEN silent ELSE [silent EXCEPT !.unmarked = @ + 1]

\* Add returns nil.
AddsPacket ==
    /\ Busy("packet") /\ Marks /\ at <= Len(dgram.packets) /\ Packet.frames
    /\ \/ Folded(dgram.key, FirstInDatagram)
       \/ Refused(dgram.key)
       \/ Gathers(dgram.key, Packet.crypto, FirstInDatagram)
    /\ at' = at + 1 /\ decrypted' = TRUE
    /\ UNCHANGED <<serve, dgram, hand, counts>>

\* Add returns the attempt.
CompletesAttempt ==
    /\ Busy("packet") /\ Marks /\ at <= Len(dgram.packets) /\ Packet.frames
    /\ Completes(dgram.key, Packet.crypto, FirstInDatagram)
    /\ hand' = With(dgram.key, Packet.crypto, FirstInDatagram).datagrams
    /\ serve' = "record" /\ at' = at + 1 /\ decrypted' = TRUE
    /\ UNCHANGED <<dgram, counts>>

\* logAttempt in handleQUIC
RecordsAttempt ==
    /\ Handling("record")
    /\ Count("recorded", hand) /\ hand' = 0 /\ serve' = "packet"
    /\ UNCHANGED <<dgram, at, decrypted, asmVars>>

\* The packets are done; a datagram that none was read from is recorded alone.
EndsQUIC ==
    /\ Handling("packet") /\ at > Len(dgram.packets)
    /\ Count("recorded", IF decrypted THEN 0 ELSE 1) /\ Reads
    /\ UNCHANGED asmVars

\* ReadMsgUDP fails: the socket was closed, or for good.
ServeReturns ==
    /\ Handling("read") /\ Goes("returned")
    /\ UNCHANGED <<counts, asmVars>>

----------------------------------------------------------------------------
(* The sweeper, Shutdown and time. *)

Counted(ks) == SumFunctionOnSet([k \in DOMAIN pending |-> pending[k].datagrams], ks)

\* Mutant of Sweep: what expired is forgotten, not logged.
SweepDiscards ==
    /\ Alive /\ sweeper /\ Expire
    /\ UNCHANGED <<srvVars, global, main, sweeper, reads, counts, silent, limVars, brVars>>

Sweep ==
    /\ Alive /\ sweeper /\ Expire
    /\ Count("recorded", Counted(Late))
    /\ UNCHANGED <<srvVars, global, main, sweeper, reads, silent, limVars, brVars>>

\* main closes the socket and Shutdown closes stop.
CloseConn ==
    /\ Shuts /\ main = "running" /\ main' = "closed"
    /\ UNCHANGED <<srvVars, global, sweeper, reads, counts, silent, limVars, brVars, asmVars>>

SweeperStops ==
    /\ main = "closed" /\ sweeper /\ sweeper' = FALSE
    /\ UNCHANGED <<srvVars, global, main, reads, counts, silent, limVars, brVars, asmVars>>

\* Mutant of ShutdownFlushes: Shutdown only stops the sweeper.
ShutdownStops ==
    /\ main = "closed" /\ ~sweeper /\ main' = "returned"
    /\ UNCHANGED <<srvVars, global, sweeper, reads, counts, silent, limVars, brVars, asmVars>>

\* After wg.Wait, Shutdown logs what Flush returns.
ShutdownFlushes ==
    /\ main = "closed" /\ ~sweeper /\ main' = "returned"
    /\ Flush /\ Count("recorded", Counted(DOMAIN pending))
    /\ UNCHANGED <<srvVars, global, sweeper, reads, silent, limVars, brVars>>

\* main returns, and Serve ends wherever it is.
ProcessExits ==
    /\ main = "returned" /\ main' = "exited"
    /\ UNCHANGED <<srvVars, global, sweeper, reads, counts, silent, limVars, brVars, asmVars>>

Tick ==
    /\ Alive
    /\ LimTick /\ BrTick /\ AsmTick
    /\ global' = Least(GlobalBurst, global + GlobalRate)
    /\ UNCHANGED <<srvVars, main, sweeper, reads, counts, silent>>

Handles ==
    \/ \E d \in Datagrams : ReadsEmpty(d) \/ Ignored(d) \/ SourceLimited(d) \/ Limited(d) \/ Admitted(d)
    \/ LookupPaused \/ LookupAnswered \/ LookupFails
    \/ RecordsDatagram \/ StartsQUIC
    \/ \E pc \in Handled : Panics(pc)
    \/ Skips \/ AddsPacket \/ CompletesAttempt \/ RecordsAttempt \/ EndsQUIC
    \/ ServeReturns

Closes == CloseConn \/ SweeperStops \/ ShutdownFlushes \/ ProcessExits

Next == Handles \/ Sweep \/ Closes \/ Tick

Spec == Init /\ [][Next]_udpVars

\* The sweeper's ticker, the steps of Shutdown once it was called, and time.
FairSpec ==
    /\ Spec
    /\ WF_udpVars(Sweep) /\ WF_udpVars(Tick)
    /\ WF_udpVars(SweeperStops) /\ WF_udpVars(ShutdownFlushes)

----------------------------------------------------------------------------
(* Properties. *)

\* Types of the composed state.
UdpTypeOK ==
    /\ LimTypeOK /\ AsmTypeOK /\ TableBounded
    /\ streak \in 0..(FailuresBeforePause - 1) /\ paused \in 0..CtPause
    /\ serve \in {"read", "resolve", "classify", "packet", "record", "returned"}
    /\ dgram \in Datagrams \cup {NoDatagram}
    /\ global \in 0..GlobalBurst /\ sweeper \in BOOLEAN
    /\ main \in {"running", "closed", "returned", "exited"}

\* Every datagram Serve is done with left its trace: dropped, limited, in a record, in
\* a pending attempt, folded, refused at capacity or in a panic.  Without trace are
\* only those without a payload, those with an Initial behind a packet that is none,
\* and those of the attempt that a panic took; and only refusals, which count
\* packets, and panics count one twice (server.go:149-151, 254-354).
Traces ==
    SumFunction(counts) + retransmits + overflow + Counted(DOMAIN pending) + hand
Underway == IF serve \in Handled THEN 1 ELSE 0
DatagramsAccounted ==
    /\ reads - Underway <= Traces + silent.empty + silent.unmarked + silent.unlogged
    /\ Traces - overflow - counts["panics"] <= reads - silent.empty

\* Retransmissions fold into the attempt: a key that was recorded is not
\* recorded again before CompletedTTL (assemble.go:21-22, 152-174), until
\* Shutdown's Flush, which forgets the completed ones, has returned.
OneRecordPerAttempt ==
    [][\A k \in Keys : main # "returned" /\ sinceReport'[k] = 0 /\ sinceReport[k] > 0 =>
          sinceReport[k] >= CompletedTTL]_udpVars

\* "Expire returns attempts still incomplete after PendingTTL, so a client whose
\* hello never completes is still recorded" (assemble.go:152-154); and Shutdown
\* records those pending when it is called (server.go:229).
AttemptsRecorded ==
    \A k \in Keys : (k \in DOMAIN pending /\ main = "running") ~> (k \notin DOMAIN pending)

\* "Shutdown stops the sweeper and records QUIC attempts still pending"
\* (server.go:229).  It does not wait for Serve: what the process may take with it
\* is one attempt, the one that the datagram in Serve's hands completed, or that it
\* alone began after the flush.
AtMostOneLost ==
    main \in {"returned", "exited"} =>
        /\ Cardinality(DOMAIN pending) + (IF hand > 0 THEN 1 ELSE 0) <= 1
        /\ \A k \in DOMAIN pending : pending[k].datagrams <= 1

----------------------------------------------------------------------------
(* What makes these inductive; the proofs are in UdpProofs. *)

\* An attempt is in hand only on its way to the record, and once Shutdown has flushed,
\* the one attempt there may be is of the datagram that Serve has in hand: none before
\* its first packet was added, none while one is in hand.
FlushInv ==
    /\ hand \in Nat /\ at \in Nat
    /\ hand > 0 => serve = "record"
    /\ serve \in Handled => at >= 1
    /\ main \in {"returned", "exited"} =>
          /\ ~sweeper
          /\ serve \in {"resolve", "classify", "record"} => DOMAIN pending = {}
          /\ serve = "packet" => DOMAIN pending \subseteq {dgram.key} /\ (at = 1 => DOMAIN pending = {})
          /\ DOMAIN pending = {} \/ \E k \in DOMAIN pending : DOMAIN pending = {k}
          /\ \A k \in DOMAIN pending : pending[k].datagrams <= 1

\* The datagrams with a payload that have left their trace or will leave none: all but
\* the one in hand, and that one too once a packet of it was added.
Traced ==
    reads - silent.empty - Underway + (IF serve \in {"packet", "record"} /\ decrypted THEN 1 ELSE 0)

\* The counters, and how far handleQUIC is in the packets of the datagram.
AccountShape ==
    /\ counts \in [Counters -> Nat] /\ reads \in Nat /\ retransmits \in Nat /\ overflow \in Nat
    /\ serve \in {"read", "resolve", "classify", "packet", "record", "returned"}
    /\ silent \in [empty : Nat, unmarked : Nat, unlogged : Nat]
    /\ decrypted \in BOOLEAN
    /\ serve \in {"resolve", "classify"} => at = 1 /\ ~decrypted
    /\ serve \in {"packet", "record"} => dgram \in Datagrams /\ dgram.class = "quic"
    /\ serve \in {"classify", "resolve"} => dgram \in Datagrams
    /\ serve = "packet" /\ at = 1 => ~decrypted
    /\ serve = "record" => decrypted /\ at > 1

AccountInv ==
    /\ AccountShape
    /\ Traces - overflow - counts["panics"] <= Traced
    /\ Traced <= Traces + silent.unmarked + silent.unlogged

\* Until Shutdown returns, what was recorded is remembered.
RememberInv == main \in {"running", "closed"} => ReportsRemembered
=============================================================================
