------------------------------ MODULE Handler ------------------------------
(***************************************************************************)
(* TCP capture: HandleConnection (internal/network/handler.go) with its    *)
(* personas (persona.go) and the TLS detection in front (internal/tls),    *)
(* one goroutine per connection, and main's accept loop and shutdown       *)
(* (cmd/spip-agent/main.go).                                               *)
(*                                                                         *)
(* What a client sends is a sequence of units, numbered, each of a kind    *)
(* that the handler tells apart; a unit stands for the bytes of one        *)
(* arrival.  A TLS client's ClientHello is a unit of kind "hello", number  *)
(* 0, and each later unit a record that the TLS layer decrypts.  Clients   *)
(* and the network are external.  Start-up, UDP and the order of a stop    *)
(* are in module Agent; here the process is up, and ships to Loom.         *)
(*                                                                         *)
(* hasPrintable reads telnet as bytes, three for each IAC, so a unit is of *)
(* the kind that loop makes of it: typed text that it sees ("text") or     *)
(* does not ("blank": white space, or skipped after a shorter command),    *)
(* negotiation that it skips ("iac") or of which it sees a visible byte    *)
(* ("sub": a subnegotiation, or the rest of a command).                    *)
(***************************************************************************)
EXTENDS Integers, Sequences, FiniteSets

CONSTANTS
    Conns,
    Persona,      \* personaForPort of each connection's original port
    TLSClients,   \* connections whose client may start with a ClientHello
    Shy,          \* connections whose client waits until the server has spoken
    Ignored,      \* connections from the drop list, all from one address
    Scenes        \* the surroundings that behaviours may have

ServerFirst == {"telnet", "ftp", "smtp", "pop3", "imap"}
Personas == ServerFirst \cup {"default", "redis"}
SentKinds == {"text", "blank", "iac", "sub", "ssh", "kex"}

ASSUME HandlerAssumption ==
    /\ Persona \in [Conns -> Personas]
    /\ TLSClients \subseteq Conns /\ Shy \subseteq Conns /\ Ignored \subseteq Conns
    /\ \A s \in Scenes :
          /\ s.conns \subseteq Conns /\ s.kinds \subseteq SentKinds /\ s.units \in Nat
          /\ s.certificate \in BOOLEAN /\ s.stops \in BOOLEAN
          /\ s.faults \subseteq {"write", "origDst", "limit", "accept", "timeout"}

VARIABLES
    pc,        \* where each connection's goroutine is
    inbox,     \* units in the socket's receive buffer
    sent,      \* units the client has sent
    fin,       \* has the client closed?
    cut,       \* has Shutdown closed the connection?
    spoken,    \* has the server written anything?
    tls,       \* is the stream a TLS stream?
    prefix,    \* prefixConn.prefix: what WrapConnection read and replays
    payload,   \* payloadBytes
    stage,
    done,
    logged,    \* units in the records of each connection
    discarded, \* history: units read and thrown away
    lines,     \* history: replies of the persona's script to text
    dropped,   \* Handler.dropped
    entry,     \* the counter in droppedByIP: the connections that allocated it
    count,     \* value of the counter each connection allocated
    ptr,       \* the counter in countDrop's hand, by the connection that allocated it
    table,     \* Handler.connections
    main,      \* where main is: see Agent for what comes before "accepting"
    listening, \* does the accept loop run?
    channel,   \* is the shipper's channel open?
    scene      \* the behaviour's surroundings, which do not change

conn == <<inbox, sent, fin, spoken, tls, prefix, payload, stage, done, logged, discarded, lines>>
proc == <<cut, table, main, listening, channel>>
drop == <<dropped, entry, count, ptr>>
vars == <<pc, conn, proc, drop, scene>>

TLSHandler == scene.certificate   \* is a certificate configured?
Kinds == scene.kinds              \* kinds of units the clients send
MaxUnits == scene.units           \* bound on the units of a client
Faults == scene.faults            \* what may fail
Stops == scene.stops              \* may the process be told to stop?

\* No connection, none dropped.
HandlerInit ==
    /\ pc = [c \in Conns |-> "absent"]
    /\ inbox = [c \in Conns |-> <<>>] /\ sent = [c \in Conns |-> 0]
    /\ fin = [c \in Conns |-> FALSE] /\ cut = [c \in Conns |-> FALSE]
    /\ spoken = [c \in Conns |-> FALSE] /\ tls = [c \in Conns |-> FALSE]
    /\ prefix = [c \in Conns |-> <<>>] /\ payload = [c \in Conns |-> <<>>]
    /\ stage = [c \in Conns |-> 0] /\ done = [c \in Conns |-> FALSE]
    /\ logged = [c \in Conns |-> <<>>] /\ discarded = [c \in Conns |-> <<>>] /\ lines = [c \in Conns |-> 0]
    /\ table = {} /\ dropped = 0 /\ entry = {}
    /\ count = [c \in Conns |-> 0] /\ ptr = [c \in Conns |-> {}]
    /\ scene \in Scenes

Init == HandlerInit /\ main = "accepting" /\ listening = TRUE /\ channel = TRUE

Runs == main \notin {"exited", "panicked", "failed"}

At(c, p) == Runs /\ pc[c] = p
Goto(c, p) == pc' = [pc EXCEPT ![c] = p]

\* The deferred calls: out of the table, and the connection is closed.
Leave(c) == Goto(c, "gone") /\ table' = table \ {c} /\ UNCHANGED <<cut, main, listening, channel>>

----------------------------------------------------------------------------
(* main's accept loop and the start of HandleConnection. *)

\* The listener is not closed.
Listens == main \in {"accepting", "signalled"}

Accept(c) ==
    /\ At(c, "absent") /\ c \in scene.conns /\ Listens /\ listening
    /\ Goto(c, "new") /\ UNCHANGED <<conn, proc>>

\* Any error of Accept ends the loop, also while nothing stops.
AcceptFails ==
    /\ Runs /\ listening /\ (Faults \cap {"accept", "timeout"} # {} \/ ~Listens)
    /\ listening' = FALSE /\ UNCHANGED <<pc, conn, cut, table, main, channel>>

\* The source is on the drop list; countDrop begins.
Drops(c) ==
    /\ At(c, "new") /\ c \in Ignored
    /\ dropped' = dropped + 1 /\ Goto(c, "dropLoad")
    /\ UNCHANGED <<conn, proc, entry, count, ptr>>

DropLoads(c) ==
    /\ At(c, "dropLoad")
    /\ ptr' = [ptr EXCEPT ![c] = entry]
    /\ Goto(c, IF entry = {} THEN "dropStore" ELSE "dropAdd")
    /\ UNCHANGED <<conn, proc, dropped, entry, count>>

\* Mutant of DropStores: Store, in place of LoadOrStore.
DropStoresOver(c) ==
    /\ At(c, "dropStore")
    /\ entry' = {c} /\ ptr' = [ptr EXCEPT ![c] = entry']
    /\ Goto(c, "dropAdd")
    /\ UNCHANGED <<conn, proc, dropped, count>>

\* LoadOrStore keeps the counter another connection stored in the meantime.
DropStores(c) ==
    /\ At(c, "dropStore")
    /\ entry' = (IF entry = {} THEN {c} ELSE entry) /\ ptr' = [ptr EXCEPT ![c] = entry']
    /\ Goto(c, "dropAdd")
    /\ UNCHANGED <<conn, proc, dropped, count>>

\* The counter is raised and the connection closed.
DropAdds(c) ==
    /\ At(c, "dropAdd")
    /\ count' = [d \in Conns |-> IF d \in ptr[c] THEN count[d] + 1 ELSE count[d]]
    /\ Goto(c, "gone")
    /\ UNCHANGED <<conn, proc, dropped, entry, ptr>>

RateLimited(c) ==
    /\ At(c, "new") /\ c \notin Ignored /\ "limit" \in Faults
    /\ Goto(c, "gone") /\ UNCHANGED <<conn, proc>>

Stores(c) ==
    /\ At(c, "new") /\ c \notin Ignored
    /\ Goto(c, "stored") /\ table' = table \cup {c}
    /\ UNCHANGED <<conn, cut, main, listening, channel>>

NoOrigDst(c) == At(c, "stored") /\ "origDst" \in Faults /\ Leave(c) /\ UNCHANGED conn

Begins(c) ==
    /\ At(c, "stored") /\ Goto(c, IF TLSHandler THEN "sniff" ELSE "greet")
    /\ UNCHANGED <<conn, proc>>

----------------------------------------------------------------------------
(* WrapConnection: no deadline is set on these reads. *)

\* Mutant of SniffsPlain: the byte is not replayed.
SniffsPlainLoses(c) ==
    /\ At(c, "sniff") /\ ~cut[c] /\ inbox[c] # <<>> /\ Head(inbox[c]).kind # "hello"
    /\ inbox' = [inbox EXCEPT ![c] = Tail(@)]
    /\ Goto(c, "greet")
    /\ UNCHANGED <<prefix, sent, fin, spoken, tls, payload, stage, done, logged, discarded, lines, proc>>

SniffsPlain(c) ==
    /\ At(c, "sniff") /\ ~cut[c] /\ inbox[c] # <<>> /\ Head(inbox[c]).kind # "hello"
    /\ prefix' = [prefix EXCEPT ![c] = <<Head(inbox[c])>>]
    /\ inbox' = [inbox EXCEPT ![c] = Tail(@)]
    /\ Goto(c, "greet")
    /\ UNCHANGED <<sent, fin, spoken, tls, payload, stage, done, logged, discarded, lines, proc>>

SniffsTLS(c) ==
    /\ At(c, "sniff") /\ ~cut[c] /\ inbox[c] # <<>> /\ Head(inbox[c]).kind = "hello"
    /\ inbox' = [inbox EXCEPT ![c] = Tail(@)]
    /\ Goto(c, "handshake")
    /\ UNCHANGED <<prefix, sent, fin, spoken, tls, payload, stage, done, logged, discarded, lines, proc>>

\* The first byte does not come: the error says plain, and the plain path goes on.
SniffFails(c) ==
    /\ At(c, "sniff") /\ (cut[c] \/ (fin[c] /\ inbox[c] = <<>>))
    /\ Goto(c, "greet") /\ UNCHANGED <<conn, proc>>

Handshakes(c) ==
    /\ At(c, "handshake") /\ ~cut[c] /\ ~fin[c]
    /\ tls' = [tls EXCEPT ![c] = TRUE] /\ spoken' = [spoken EXCEPT ![c] = TRUE]
    /\ Goto(c, "greet")
    /\ UNCHANGED <<inbox, sent, fin, prefix, payload, stage, done, logged, discarded, lines, proc>>

HandshakeFails(c) ==
    /\ At(c, "handshake") /\ (cut[c] \/ fin[c])
    /\ Leave(c) /\ UNCHANGED conn

----------------------------------------------------------------------------
(* Writes.  One fails when the connection is gone, or its deadline passes. *)

CanWrite(c) == ~cut[c]
CanFail(c) == cut[c] \/ "write" \in Faults

Greeting(c) == Persona[c] \in ServerFirst

NoGreeting(c) == At(c, "greet") /\ ~Greeting(c) /\ Goto(c, "read") /\ UNCHANGED <<conn, proc>>

\* Mutant of Greets: the client's first bytes are awaited, as WrapConnection does.
GreetsAfterClient(c) ==
    /\ At(c, "greet") /\ Greeting(c) /\ CanWrite(c) /\ inbox[c] # <<>>
    /\ spoken' = [spoken EXCEPT ![c] = TRUE]
    /\ Goto(c, "read")
    /\ UNCHANGED <<inbox, sent, fin, tls, prefix, payload, stage, done, logged, discarded, lines, proc>>

Greets(c) ==
    /\ At(c, "greet") /\ Greeting(c) /\ CanWrite(c)
    /\ spoken' = [spoken EXCEPT ![c] = TRUE]
    /\ Goto(c, "read")
    /\ UNCHANGED <<inbox, sent, fin, tls, prefix, payload, stage, done, logged, discarded, lines, proc>>

GreetFails(c) ==
    /\ At(c, "greet") /\ Greeting(c) /\ CanFail(c) /\ Leave(c) /\ UNCHANGED conn

----------------------------------------------------------------------------
(* The read loop. *)

\* prefixConn.Read serves the replayed byte alone.
Available(c) == IF prefix[c] # <<>> THEN prefix[c] ELSE IF cut[c] THEN <<>> ELSE inbox[c]

\* A TLS read returns one record, a plain one everything.
Chunk(c) == IF tls[c] /\ prefix[c] = <<>> THEN SubSeq(Available(c), 1, 1) ELSE Available(c)

\* A read into the payload.
Takes(c) ==
    /\ Available(c) # <<>>
    /\ payload' = [payload EXCEPT ![c] = @ \o Chunk(c)]
    /\ prefix' = [prefix EXCEPT ![c] = <<>>]
    /\ inbox' = [inbox EXCEPT ![c] = IF prefix[c] # <<>> THEN @ ELSE SubSeq(@, Len(Chunk(c)) + 1, Len(@))]
    /\ UNCHANGED <<sent, fin, spoken, tls, stage, done, logged, discarded, lines>>

\* crypto/tls returns the last record together with the error when the client's alert
\* is buffered behind it, in versions up to 1.2; whoever looks at the error first
\* throws the record away.
Discards(c) ==
    /\ tls[c] /\ fin[c] /\ ~cut[c] /\ Len(inbox[c]) = 1
    /\ discarded' = [discarded EXCEPT ![c] = inbox[c]]
    /\ inbox' = [inbox EXCEPT ![c] = <<>>]
    /\ UNCHANGED <<sent, fin, spoken, tls, prefix, payload, stage, done, logged, lines>>

Reads(c) == At(c, "read") /\ Takes(c) /\ Goto(c, "coalesce") /\ UNCHANGED proc

\* Read returns n > 0 and the error: the connection ends.
ReadDiscards(c) == At(c, "read") /\ Discards(c) /\ Leave(c)

\* Mutant of ReadEnds: no read deadline.
ReadEndsNoDeadline(c) ==
    /\ At(c, "read") /\ Available(c) = <<>> /\ (fin[c] \/ cut[c]) /\ Leave(c) /\ UNCHANGED conn

\* The client closed, Shutdown did, or readTimeout passed.
ReadEnds(c) == At(c, "read") /\ Available(c) = <<>> /\ Leave(c) /\ UNCHANGED conn

Coalesces(c) == At(c, "coalesce") /\ Takes(c) /\ UNCHANGED <<pc, proc>>

KindsOf(s) == {s[i].kind : i \in DOMAIN s}

\* A client banner without its KEXINIT.
NeedsKex(c) == Head(payload[c]).kind = "ssh" /\ "kex" \notin KindsOf(payload[c])

\* 100 ms have passed, or a read failed.
CoalesceEnds(c) ==
    /\ At(c, "coalesce") /\ Goto(c, IF NeedsKex(c) THEN "ssh" ELSE "reply")
    /\ UNCHANGED <<conn, proc>>

SshBanner(c) ==
    /\ At(c, "ssh") /\ CanWrite(c)
    /\ spoken' = [spoken EXCEPT ![c] = TRUE] /\ Goto(c, "kexinit")
    /\ UNCHANGED <<inbox, sent, fin, tls, prefix, payload, stage, done, logged, discarded, lines, proc>>

SshBannerFails(c) == At(c, "ssh") /\ CanFail(c) /\ Goto(c, "reply") /\ UNCHANGED <<conn, proc>>

SshReads(c) == At(c, "kexinit") /\ Takes(c) /\ Goto(c, "reply") /\ UNCHANGED proc

\* Here the record is thrown away and the banner alone is answered.
SshDiscards(c) == At(c, "kexinit") /\ Discards(c) /\ Goto(c, "reply") /\ UNCHANGED proc

\* 2 seconds have passed, or the read failed.
SshReadEnds(c) == At(c, "kexinit") /\ Goto(c, "reply") /\ UNCHANGED <<conn, proc>>

----------------------------------------------------------------------------
(* The reply, the record, and the next round. *)

\* Length of a banner script.
Replies(p) == CASE p = "ftp" -> 2 [] p = "smtp" -> 4 [] p = "pop3" -> 2 [] p = "imap" -> 1

\* Bytes that are no negotiation and have a visible character.
Texts == {"text", "ssh", "kex", "hello"}
HasText(c) == KindsOf(payload[c]) \cap Texts # {}

\* The loop also meets the visible bytes of a subnegotiation.
HasPrintable(c) == KindsOf(payload[c]) \cap (Texts \cup {"sub"}) # {}

\* Mutant of NextStage: option negotiation counts as a login line.
NextStageAny(c) ==
    IF Persona[c] = "telnet" THEN IF stage[c] = 0 THEN 1 ELSE 2
    ELSE IF Persona[c] \in ServerFirst THEN stage[c] + 1 ELSE stage[c]

\* telnetReply and bannerReply advance the stage.
NextStage(c) ==
    IF Persona[c] = "telnet"
    THEN IF HasPrintable(c) THEN IF stage[c] = 0 THEN 1 ELSE 2 ELSE stage[c]
    ELSE IF Persona[c] \in ServerFirst THEN stage[c] + 1 ELSE stage[c]

Done(c, s) ==
    IF Persona[c] = "telnet" THEN HasPrintable(c) /\ s = 2
    ELSE Persona[c] \in ServerFirst /\ s >= Replies(Persona[c])

Responds(c) ==
    /\ At(c, "reply") /\ CanWrite(c)
    /\ stage' = [stage EXCEPT ![c] = NextStage(c)]
    /\ done' = [done EXCEPT ![c] = Done(c, NextStage(c))]
    /\ lines' = [lines EXCEPT ![c] = IF HasText(c) THEN @ + 1 ELSE @]
    /\ spoken' = [spoken EXCEPT ![c] = TRUE] /\ Goto(c, "log")
    /\ UNCHANGED <<inbox, sent, fin, tls, prefix, payload, logged, discarded, proc>>

\* The response cannot be written: the connection ends, unlogged.
RespondFails(c) == At(c, "reply") /\ CanFail(c) /\ Leave(c) /\ UNCHANGED conn

\* LogConnection: the record goes to the shipper and to the local log.
Record(c) ==
    /\ logged' = [logged EXCEPT ![c] = @ \o payload[c]]
    /\ payload' = [payload EXCEPT ![c] = <<>>]
    /\ UNCHANGED <<inbox, sent, fin, spoken, tls, prefix, stage, done, discarded, lines>>

LogsAndReads(c) ==
    /\ At(c, "log") /\ channel /\ ~done[c] /\ Record(c) /\ Goto(c, "read") /\ UNCHANGED proc

\* Mutant of LogsAndCloses: the end of the script is looked at before the record.
LogsAndClosesUnrecorded(c) == At(c, "log") /\ channel /\ done[c] /\ Leave(c) /\ UNCHANGED conn

LogsAndCloses(c) == At(c, "log") /\ channel /\ done[c] /\ Record(c) /\ Leave(c)

\* A send on the closed channel panics, and nothing here recovers.
LogPanics(c) ==
    /\ At(c, "log") /\ ~channel
    /\ main' = "panicked" /\ UNCHANGED <<pc, conn, cut, table, listening, channel>>

----------------------------------------------------------------------------
(* Clients. *)

Unit(n, kind) == [n |-> n, kind |-> kind]

Arrives(c, u) ==
    /\ inbox' = [inbox EXCEPT ![c] = Append(@, u)]
    /\ UNCHANGED <<pc, fin, spoken, tls, prefix, payload, stage, done, logged, discarded, lines, proc>>

\* What the client of an ignored connection does, nobody sees.
Up(c) == Runs /\ c \notin Ignored /\ pc[c] \notin {"absent", "gone"} /\ ~fin[c] /\ ~cut[c]

SendsHello(c) ==
    /\ Up(c) /\ c \in TLSClients /\ pc[c] \in {"new", "stored", "sniff"} /\ inbox[c] = <<>>
    /\ Arrives(c, Unit(0, "hello")) /\ UNCHANGED sent

Sends(c) ==
    /\ Up(c) /\ sent[c] < MaxUnits
    /\ pc[c] # "handshake" /\ "hello" \notin KindsOf(inbox[c])
    /\ (c \in Shy => spoken[c])
    /\ sent' = [sent EXCEPT ![c] = @ + 1]
    /\ \E kind \in Kinds : Arrives(c, Unit(sent[c] + 1, kind))

Closes(c) ==
    /\ Up(c) /\ fin' = [fin EXCEPT ![c] = TRUE]
    /\ UNCHANGED <<pc, inbox, sent, spoken, tls, prefix, payload, stage, done, logged, discarded, lines, proc>>

----------------------------------------------------------------------------
(* main's shutdown and Handler.Shutdown. *)

Signal ==
    /\ Stops /\ main = "accepting" /\ main' = "signalled"
    /\ UNCHANGED <<pc, conn, cut, table, listening, channel>>

ClosesListener ==
    /\ main = "signalled" /\ main' = "closing"
    /\ UNCHANGED <<pc, conn, cut, table, listening, channel>>

\* Shutdown finds no connection in the table.
ShutdownNil ==
    /\ main = "closing" /\ table = {} /\ main' = "stopping"
    /\ UNCHANGED <<pc, conn, cut, table, listening, channel>>

\* Mutant of ShutdownForces: it waits for the connections to end by themselves.
ShutdownWaits == FALSE /\ UNCHANGED vars

\* The time is up: what is in the table is closed, and not waited for.
ShutdownForces ==
    /\ main = "closing" /\ table # {} /\ main' = "stopping"
    /\ cut' = [c \in Conns |-> cut[c] \/ c \in table]
    /\ UNCHANGED <<pc, conn, table, listening, channel>>

\* Shipper.Shutdown closes the channel.
ClosesChannel ==
    /\ main = "stopping" /\ channel /\ channel' = FALSE
    /\ UNCHANGED <<pc, conn, cut, table, main, listening>>

Exits ==
    /\ main = "stopping" /\ ~channel /\ main' = "exited"
    /\ UNCHANGED <<pc, conn, cut, table, listening, channel>>

\* countDrop; nothing else changes the counters.
Counts(c) == Drops(c) \/ DropLoads(c) \/ DropStores(c) \/ DropAdds(c)

Handles(c) ==
    \/ RateLimited(c) \/ Stores(c) \/ NoOrigDst(c) \/ Begins(c)
    \/ SniffsPlain(c) \/ SniffsTLS(c) \/ SniffFails(c) \/ HandshakeFails(c)
    \/ NoGreeting(c) \/ Greets(c) \/ GreetFails(c)
    \/ Reads(c) \/ ReadDiscards(c) \/ ReadEnds(c) \/ CoalesceEnds(c)
    \/ SshBanner(c) \/ SshBannerFails(c) \/ SshReads(c) \/ SshDiscards(c) \/ SshReadEnds(c)
    \/ Responds(c) \/ RespondFails(c) \/ LogsAndReads(c) \/ LogsAndCloses(c) \/ LogPanics(c)

\* The goroutine's own steps, which end by themselves or by a deadline.
Proceeds(c) == Counts(c) \/ (Handles(c) /\ UNCHANGED drop)

Client(c) == SendsHello(c) \/ Sends(c) \/ Closes(c)

\* What the sensor and a client do with one connection.
Connection(c) ==
    \/ Proceeds(c)
    \/ (Accept(c) \/ Coalesces(c) \/ Handshakes(c) \/ Client(c)) /\ UNCHANGED drop

Process ==
    \/ AcceptFails \/ Signal \/ ClosesListener \/ ShutdownNil \/ ShutdownForces \/ ClosesChannel \/ Exits

Next ==
    /\ (\E c \in Conns : Connection(c)) \/ (Process /\ UNCHANGED drop)
    /\ UNCHANGED scene

Spec == Init /\ [][Next]_vars

\* Goroutines run and deadlines pass.  No client has to send, to finish a
\* handshake or to close.
FairSpec ==
    /\ Spec
    /\ \A c \in Conns : WF_vars(Proceeds(c) /\ UNCHANGED scene)

----------------------------------------------------------------------------
(* Properties. *)

Points ==
    {"absent", "new", "stored", "sniff", "handshake", "greet", "read", "coalesce", "ssh", "kexinit",
     "reply", "log", "gone", "dropLoad", "dropStore", "dropAdd"}
Units == [n : Nat, kind : SentKinds \cup {"hello"}]

\* Types of the connections' state and of the drop counters.
HandlerTypeOK ==
    /\ pc \in [Conns -> Points] /\ table \subseteq Conns /\ scene \in Scenes
    /\ inbox \in [Conns -> Seq(Units)] /\ prefix \in [Conns -> Seq(Units)]
    /\ payload \in [Conns -> Seq(Units)] /\ logged \in [Conns -> Seq(Units)]
    /\ discarded \in [Conns -> Seq(Units)]
    /\ tls \in [Conns -> BOOLEAN] /\ fin \in [Conns -> BOOLEAN]
    /\ sent \in [Conns -> Nat] /\ stage \in [Conns -> Nat] /\ lines \in [Conns -> Nat]
    /\ done \in [Conns -> BOOLEAN]
    /\ dropped \in Nat /\ count \in [Conns -> Nat]
    /\ entry \subseteq Conns /\ ptr \in [Conns -> SUBSET Conns]

\* What is recorded, in hand, to be replayed and unread, and then what was thrown away.
Kept(c) == logged[c] \o payload[c] \o prefix[c] \o inbox[c]
Stream(c) == Kept(c) \o discarded[c]

\* Between the socket and the records no byte is doubled or moved, and none is lost but
\* the last record of a TLS stream that its client has closed: the units in the stream
\* are those the client sent, in order, behind a ClientHello that no TLS layer has
\* taken (tls.go:131-156, handler.go:321-363).
StreamIntact ==
    \A c \in Conns :
        /\ \E k \in 0..1 :
              /\ Len(Stream(c)) = sent[c] + k
              /\ \A i \in 1..Len(Stream(c)) : Stream(c)[i].n = i - k
        /\ discarded[c] # <<>> =>
              tls[c] /\ fin[c] /\ inbox[c] = <<>> /\ Len(discarded[c]) = 1

\* A scripted login ends with its script, neither later nor earlier: after the last
\* reply the connection is closed, and a telnet session that ended so has sent two
\* payloads with text, whatever options came between them, unless a subnegotiation
\* was taken for one (persona.go:86-113, 181-194; handler.go:303-305).
ScriptLength(p) == IF p = "telnet" THEN 2 ELSE Replies(p)
Subnegotiated(c) == "sub" \in KindsOf(logged[c]) \cup KindsOf(payload[c])
ScriptEnds ==
    \A c \in Conns : Persona[c] \in ServerFirst =>
        /\ lines[c] <= ScriptLength(Persona[c])
        /\ lines[c] = ScriptLength(Persona[c]) => pc[c] \in {"log", "gone"}
        /\ done[c] /\ Persona[c] = "telnet" /\ ~Subnegotiated(c) => lines[c] = 2

\* "writes each exchange as one JSON record" (README.md:3): a connection that
\* ended left nothing it had read unrecorded.
ExchangesRecorded == \A c \in Conns : pc[c] = "gone" => payload[c] = <<>> /\ discarded[c] = <<>>

\* "idle read timeout and write timeout per connection" (README.md:40): every
\* connection ends.
ConnectionsEnd == \A c \in Conns : (pc[c] = "stored") ~> (pc[c] = "gone" \/ ~Runs)

\* "expect the server to send a banner/prompt before the client sends anything,
\* so emit it before the read loop" (handler.go:303-305).
GreetingComesFirst ==
    \A c \in Conns : (pc[c] = "stored" /\ Greeting(c)) ~> (spoken[c] \/ pc[c] = "gone" \/ ~Runs)

\* "waits up to 15 seconds for open connections and writes any pending Loom
\* batch" (README.md:66): no connection records after the channel is closed.
StopsCleanly == main # "panicked"

----------------------------------------------------------------------------
(* What makes these inductive; the proofs are in AgentProofs. *)

\* Nothing is read before the stream's kind is known.
Unread == \A c \in Conns :
    pc[c] \in {"absent", "new", "stored", "sniff"} =>
        logged[c] = <<>> /\ payload[c] = <<>> /\ prefix[c] = <<>> /\ discarded[c] = <<>>

\* A ClientHello that is not read yet is all there is.
HelloAlone == \A c \in Conns :
    "hello" \in KindsOf(inbox[c]) => Len(inbox[c]) = 1 /\ sent[c] = 0

StreamInv == Unread /\ HelloAlone /\ StreamIntact

\* The connections whose drop is counted in total and not yet by source.
Counting == {c \in Conns : pc[c] \in {"dropLoad", "dropStore", "dropAdd"}}

\* The value of the source's counter, when there is one.
BySource == IF entry = {} THEN 0 ELSE count[CHOOSE c \in entry : TRUE]

\* There is one counter, everyone who is to raise a counter holds that one, and the
\* total is ahead of it by those who have not.
DropInv ==
    /\ entry = {} \/ \E e \in Conns : entry = {e}
    /\ \A c \in Conns : /\ pc[c] = "dropAdd" => entry # {} /\ ptr[c] = entry
                        /\ c \notin entry => count[c] = 0
    /\ IsFiniteSet(Counting) /\ Counting \subseteq Ignored
    /\ dropped = BySource + Cardinality(Counting)

\* The stage of a script, and that its end is noticed at the record of its last reply.
ScriptInv == \A c \in Conns : Persona[c] \in ServerFirst =>
    /\ lines[c] <= stage[c] /\ stage[c] <= ScriptLength(Persona[c])
    /\ Persona[c] = "telnet" /\ ~Subnegotiated(c) => lines[c] = stage[c]
    /\ done[c] => stage[c] = ScriptLength(Persona[c])
    /\ stage[c] = ScriptLength(Persona[c]) => done[c] /\ pc[c] \in {"log", "gone"}

\* While nothing stops and no write fails, and no stream is a TLS stream, a payload is
\* in hand only between the read and the record.
InHandInv ==
    /\ main = "accepting" /\ channel /\ \A c \in Conns : ~cut[c]
    /\ \A c \in Conns : pc[c] \notin {"sniff", "handshake"} /\ ~tls[c] /\ discarded[c] = <<>>
    /\ \A c \in Conns :
          pc[c] \notin {"coalesce", "ssh", "kexinit", "reply", "log"} => payload[c] = <<>>
=============================================================================
