------------------------------- MODULE Record -------------------------------
(***************************************************************************)
(* From a payload to its record: HandleDatagram's classification and       *)
(* logAttempt (internal/udp/server.go), the end of a round of              *)
(* HandleConnection (internal/network/handler.go), and LogConnection       *)
(* behind both.  The decoders QuicWalk, DnsFrame, HelloWalk and HasshWalk  *)
(* run one after the other as the code calls them; the limits in front and *)
(* the assembler between are in module Udp.                                *)
(*                                                                         *)
(* One payload is followed: a datagram, what an attempt that expired holds *)
(* of its hello, or the payload of a round over TCP.  Two decoders that    *)
(* read the same datagram choose its bytes apart.                          *)
(***************************************************************************)
EXTENDS QuicWalk, DnsFrame, HelloWalk, HasshWalk, TransportParams, Document

CONSTANTS
    MinQUICDatagram,   \* least size of a probe of an unknown version
    HelloSizes,        \* lengths of what an attempt holds of its hello
    TcpSizes,          \* lengths of payloads over TCP
    Texts              \* payloads as text

ASSUME RecordAssumption ==
    /\ MinQUICDatagram \in Nat /\ HelloSizes \subseteq Nat /\ TcpSizes \subseteq Nat \ {0}
    /\ Texts \subseteq Seq(Lines)
    /\ \A p \in ParamForms : p.id \in TpVersionInfos => p.val \in Seq(STRING)

VARIABLES
    phase,      \* the decoder that runs; "done" once the payload is recorded or held
    size,       \* length of the payload, or of the hello
    complete,   \* Attempt.Complete
    held,       \* does the assembler keep the datagram's attempt?
    docs        \* the documents written

ownVars == <<phase, size, complete, held, docs>>
recVars == <<ownVars, walkVars, dnsVars, helloVars, sshVars>>

\* HandleDatagram returns at once for an empty payload.
Init ==
    /\ QuicInit /\ DnsInit /\ HelloInit /\ SshInit
    /\ \/ phase = "quic" /\ left > 0 /\ size = left
       \/ phase = "expired" /\ left = 0 /\ size = 0
       \/ phase = "tcp" /\ left = 0 /\ size \in TcpSizes
    /\ complete = FALSE /\ held = FALSE /\ docs = <<>>

Runs(p, step) == phase = p /\ step /\ UNCHANGED ownVars

Writes(d) == docs' = Append(docs, DocumentOf(d)) /\ phase' = "done"

----------------------------------------------------------------------------
(* handleQUIC. *)

WalksQuic == Runs("quic", QuicNext) /\ UNCHANGED <<dnsVars, helloVars, sshVars>>

Walked == phase = "quic" /\ pc = "done"

\* ParseDatagram has returned and its variables are gone.
QuicReturned ==
    /\ pc' = "done" /\ left' = 0 /\ off' = 0 /\ over' = FALSE /\ end' = 0 /\ body' = 0
    /\ reach' = 0 /\ out' = <<>> /\ err' = "none"

OtherClassifiers ==
    /\ phase' = "dns" /\ DnsStarts(size) /\ QuicReturned
    /\ UNCHANGED <<size, complete, held, docs, helloVars, sshVars>>

NotQuic == Walked /\ out = <<>> /\ OtherClassifiers

UnknownFirst == Walked /\ out # <<>> /\ out[1].kind = "unknown"

\* The shape of a client's first datagram; its fixed bit and version are bytes.
ProbeShape == size >= MinQUICDatagram /\ ~over

NotAProbe == UnknownFirst /\ OtherClassifiers

QuicData(text) == [NoData EXCEPT !.transport = "udp", !.protocol = "quic", !.quic = TRUE, !.text = text]

RecordsProbe ==
    /\ UnknownFirst /\ ProbeShape /\ Writes(QuicData(<<"other">>)) /\ QuicReturned
    /\ UNCHANGED <<size, complete, held, dnsVars, helloVars, sshVars>>

KnownFirst == Walked /\ out # <<>> /\ out[1].kind # "unknown"
Decrypted == \E i \in DOMAIN out : out[i].framed

RecordsHeader ==
    /\ KnownFirst /\ ~Decrypted /\ Writes(QuicData(<<"other">>)) /\ QuicReturned
    /\ UNCHANGED <<size, complete, held, dnsVars, helloVars, sshVars>>

\* Add returns nil for each packet: the attempt waits, or folds the datagram in.
Holds ==
    /\ KnownFirst /\ Decrypted /\ phase' = "done" /\ held' = TRUE /\ QuicReturned
    /\ UNCHANGED <<size, complete, docs, dnsVars, helloVars, sshVars>>

\* Add returns the attempt, complete.
Completed(n) ==
    /\ KnownFirst /\ Decrypted /\ phase' = "hello" /\ complete' = TRUE
    /\ HelloStarts(n) /\ size' = n /\ QuicReturned
    /\ UNCHANGED <<held, docs, dnsVars, sshVars>>

\* Expire or Flush returns an attempt; its hello is looked at all the same.
Expired(n) ==
    /\ phase = "expired" /\ phase' = "hello" /\ HelloStarts(n) /\ size' = n
    /\ UNCHANGED <<complete, held, docs, walkVars, dnsVars, sshVars>>

WalksHello == Runs("hello", HelloNext) /\ UNCHANGED <<walkVars, dnsVars, sshVars>>

Parsed == helloPc = "ok"
HasUserAgent == \E i \in DOMAIN params : params[i].id = TpUserAgent /\ params[i].len > 0

\* Mutant of AttemptData: the hello's fields are kept though it is not complete.
AttemptDataParsed ==
    [QuicData(<<"other">>) EXCEPT !.tls = Parsed, !.hash = Parsed /\ params # <<>>,
                                  !.agent = Parsed /\ HasUserAgent]

\* The hello's fields, unless it is incomplete or did not parse.
AttemptData ==
    LET good == complete /\ Parsed
    IN  [QuicData(<<"other">>) EXCEPT !.tls = good, !.hash = good /\ params # <<>>,
                                      !.agent = good /\ HasUserAgent]

LogsAttempt ==
    /\ phase = "hello" /\ helloPc \in {"ok", "not"} /\ Writes(AttemptData)
    /\ UNCHANGED <<size, complete, held, walkVars, dnsVars, helloVars, sshVars>>

----------------------------------------------------------------------------
(* The other datagrams. *)

WalksDns == Runs("dns", DnsNext) /\ UNCHANGED <<walkVars, helloVars, sshVars>>

\* A NetBIOS name does not land in the DNS fields.
DnsData ==
    [NoData EXCEPT !.transport = "udp", !.text = <<"other">>, !.dns = ~info.netbios,
                   !.protocol = IF info.netbios THEN "netbios" ELSE "dns"]

RecordsDns ==
    /\ phase = "dns" /\ dnsPc = "ok" /\ Writes(DnsData)
    /\ UNCHANGED <<size, complete, held, walkVars, dnsVars, helloVars, sshVars>>

RecordsRaw(text) ==
    /\ phase = "dns" /\ dnsPc = "not"
    /\ Writes([NoData EXCEPT !.transport = "udp", !.text = text])
    /\ UNCHANGED <<size, complete, held, walkVars, dnsVars, helloVars, sshVars>>

----------------------------------------------------------------------------
(* The end of a round over TCP. *)

\* tls: the stream is TLS; alpn: it agreed on HTTP.
RecordsTcp(text, tls, alpn) ==
    /\ phase = "tcp"
    /\ Writes([NoData EXCEPT !.text = text, !.tls = tls, !.alpn = tls /\ alpn])
    /\ UNCHANGED <<size, complete, held, walkVars, dnsVars, helloVars, sshVars>>

\* The payload starts with SSH-2.0.
StartsSsh ==
    /\ phase = "tcp" /\ size >= 7 /\ phase' = "ssh" /\ SshStarts(size)
    /\ UNCHANGED <<size, complete, held, docs, walkVars, dnsVars, helloVars>>

WalksSsh == Runs("ssh", SshNext) /\ UNCHANGED <<walkVars, dnsVars, helloVars>>

RecordsSsh ==
    /\ phase = "ssh" /\ sshPc \in {"ok", "not"}
    /\ Writes([NoData EXCEPT !.text = <<"other">>, !.hassh = (sshPc = "ok")])
    /\ UNCHANGED <<size, complete, held, walkVars, dnsVars, helloVars, sshVars>>

----------------------------------------------------------------------------

Next ==
    \/ WalksQuic \/ NotQuic \/ NotAProbe \/ RecordsProbe \/ RecordsHeader
    \/ Holds \/ \E n \in HelloSizes : Completed(n) \/ Expired(n)
    \/ WalksHello \/ LogsAttempt
    \/ WalksDns \/ RecordsDns \/ \E t \in Texts : RecordsRaw(t)
    \/ \E t \in Texts, tls, alpn \in BOOLEAN : RecordsTcp(t, tls, alpn)
    \/ StartsSsh \/ WalksSsh \/ RecordsSsh

\* The goroutine that decodes runs.
Spec == Init /\ [][Next]_recVars /\ WF_recVars(Next)

----------------------------------------------------------------------------
(* Properties. *)

\* "Every input is treated as hostile" (README.md:207): none of the decoders
\* touches a byte outside what it was given (dnsinfo.go:190-262,
\* hello.go:118-201, hassh.go:16-81).
StaysInside == DnsInBounds /\ HelloInBounds /\ SshInBounds

\* A payload leaves one record, unless the assembler holds its attempt; and the
\* record claims no more than was decoded: DNS that fits the datagram, the fields
\* of a hello only when it was complete, NetBIOS names not as DNS
\* (server.go:284-354, 373-421).
RecordedOnce ==
    phase = "done" =>
        /\ Len(docs) = IF held THEN 0 ELSE 1
        /\ \A i \in DOMAIN docs :
              LET e == docs[i] IN
              /\ e.protocol \in {"dns", "netbios"} => dnsPc = "ok" /\ InfoIsThere
              /\ e.dns => e.protocol = "dns" /\ ~info.netbios
              /\ e.quic /\ e.tls => complete

\* Whatever the text, the summary is there when it was before requests of any
\* method were parsed, and a request's head and body are told apart
\* (logger.go:135-138, 326-364).
DocumentKeeps == \A i \in DOMAIN docs : SummaryAsBefore(docs[i]) /\ HeadAndBodyApart(docs[i])

\* "Values that change per connection are left out, including randomly inserted
\* GREASE versions, so the hash stays stable across connections from one client"
\* (README.md:179): the text is the same for every order of the parameters and
\* every choice of reserved numbers, connection IDs and reserved versions offered
\* (hello.go:203-278).
FingerprintStable ==
    helloPc = "ok" /\ DistinctIds(params) =>
        \A q \in NextConnection(params) :
            DistinctIds(q) => DescribeParams(q) = DescribeParams(params)

\* Every decoder ends, whatever lengths and counts it is given: the loops of
\* ParseDatagram, parseFrames, framedLen, skipName, helloExtensions, parseSNI,
\* parseTransportParams and Hassh advance (server.go:284-354).
DecodingEnds == <>(phase = "done")

\* Types of the payload's way.
RecTypeOK ==
    /\ phase \in {"quic", "expired", "tcp", "dns", "hello", "ssh", "done"}
    /\ size \in Nat /\ complete \in BOOLEAN /\ held \in BOOLEAN

\* The strengthening for RecordedOnce and DocumentKeeps: until the payload is done
\* there is no document and no attempt is held, and the only document there may be
\* is one of data with a text.
NotYet == phase # "done" => docs = <<>> /\ ~held
Written == docs = <<>> \/ \E d : docs = <<DocumentOf(d)>> /\ d.text \in Seq(Lines)

RecInv ==
    /\ RecTypeOK /\ WalkInv /\ DnsInv /\ HelloInv /\ SshInv
    /\ NotYet /\ Written /\ RecordedOnce
=============================================================================
