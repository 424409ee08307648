------------------------------ MODULE Document ------------------------------
(***************************************************************************)
(* LogConnection (internal/logging/logger.go): the document made of the    *)
(* data of one record.  Which objects and fields there are is kept, and    *)
(* what the payload's lines become; the values that are copied are not.    *)
(*                                                                         *)
(* A text is the sequence of its lines between CRLFs, by what the logger   *)
(* tells apart: a request line of the seven methods ("legacy") or of any   *)
(* other ("token"), a Host, User-Agent or other header, an empty line, or  *)
(* a line that is none of these.                                           *)
(***************************************************************************)
EXTENDS Integers, Sequences

RequestLines == {"legacy", "token"}
HeaderLines == {"host", "agent", "header"}
Lines == RequestLines \cup HeaderLines \cup {"empty", "other"}

\* strings.Contains(payload, "\r\n\r\n"): an empty line that another line follows.
HasTerminator(text) == \E i \in 2..(Len(text) - 1) : text[i] = "empty"

\* Lines of the head, after the request line and before the first empty line.
HeadLines(text) == {i \in 2..Len(text) : \A j \in 2..i : text[j] # "empty"}

IsHTTP(text, alpnHTTP) ==
    /\ text # <<>> /\ text[1] \in RequestLines
    /\ HasTerminator(text) \/ alpnHTTP \/ \E i \in HeadLines(text) : text[i] = "host"

\* The lines after the first empty one, unless that leaves no byte.
BodyOf(text) ==
    LET rest == {i \in 2..Len(text) : HasTerminator(text) /\ \E j \in 2..(i - 1) : text[j] = "empty"}
    IN  IF rest = {Len(text)} /\ text[Len(text)] = "empty" THEN {} ELSE rest

\* Mutant of KeepsSummary: a request of any method loses its summary.
KeepsSummaryUnparsed(text, alpnHTTP) == text # <<>> /\ ~IsHTTP(text, alpnHTTP)

\* event.summary: the text is no request, or one that the older expression refused.
KeepsSummary(text, alpnHTTP) ==
    text # <<>> /\ (~IsHTTP(text, alpnHTTP) \/ text[1] = "token")

\* d: what the producer put into ConnectionData.
DocumentOf(d) ==
    LET http == IsHTTP(d.text, d.tls /\ d.alpn)
    IN [transport |-> d.transport,
        protocol  |-> IF d.protocol # "" THEN d.protocol ELSE IF d.tls THEN "tls" ELSE "",
        text      |-> d.text,
        summary   |-> KeepsSummary(d.text, d.tls /\ d.alpn),
        http      |-> http,
        headers   |-> IF http THEN {i \in HeadLines(d.text) : d.text[i] \in HeaderLines} ELSE {},
        body      |-> IF http THEN BodyOf(d.text) ELSE {},
        agent     |-> IF http /\ (\E i \in HeadLines(d.text) : d.text[i] = "agent") THEN "http"
                      ELSE IF d.agent THEN "quic" ELSE "",
        tls       |-> d.tls, alpn |-> d.tls /\ d.alpn,
        dns       |-> d.dns, quic |-> d.quic, hash |-> d.hash, hassh |-> d.hassh]

NoData == [transport |-> "tcp", protocol |-> "", text |-> <<>>, tls |-> FALSE, alpn |-> FALSE,
           dns |-> FALSE, quic |-> FALSE, hash |-> FALSE, hassh |-> FALSE, agent |-> FALSE]

----------------------------------------------------------------------------
(* Properties of a document. *)

\* "A request only httpReqLineRe accepts still carries event.summary, as it did
\* when it was not parsed, so consumers that read the summary see the same value
\* for the same input" (logger.go:135-138, 434-452).
SummaryAsBefore(e) ==
    LET parsedBefore == /\ e.text # <<>> /\ e.text[1] = "legacy"
                        /\ \/ HasTerminator(e.text) \/ e.alpn
                           \/ \E i \in HeadLines(e.text) : e.text[i] = "host"
    IN  e.summary = (e.text # <<>> /\ ~parsedBefore)

\* Every line of a request with a terminator is in its head or in its body, and
\* in one of them (logger.go:326-364, 421-430).
HeadAndBodyApart(e) ==
    e.http /\ HasTerminator(e.text) =>
        /\ HeadLines(e.text) \cap e.body = {} /\ e.headers \subseteq HeadLines(e.text)
        /\ \A i \in 2..Len(e.text) : e.text[i] # "empty" => i \in HeadLines(e.text) \cup e.body
=============================================================================
