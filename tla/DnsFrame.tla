------------------------------ MODULE DnsFrame ------------------------------
(***************************************************************************)
(* dnsinfo.Parse (internal/dnsinfo/dnsinfo.go): the scan that frames a     *)
(* whole datagram as one DNS message, and the walk over the sections that  *)
(* follows it.  As in QuicWalk the bytes are chosen when they are read and *)
(* the state keeps the offsets.                                            *)
(*                                                                         *)
(* The package dnsmessage is external: its parser gives the questions or   *)
(* an error, then one record of a section after the other until the count  *)
(* in the header is reached, or an error.  Names, types and codes as text  *)
(* are left out.                                                           *)
(***************************************************************************)
EXTENDS Integers, Sequences

CONSTANTS
    MaxQuestions, MaxRecords, MaxNameBytes, MaxTrailing, MaxEDNSOptions,
    Counts,      \* values of the header's four counts
    Labels,      \* lengths of labels
    Pointers,    \* targets of compression pointers
    DataLens,    \* lengths of a record's data
    OptionLens   \* numbers of options in an OPT record

ASSUME DnsFrameAssumption ==
    /\ MaxQuestions \in Nat \ {0} /\ MaxRecords \in Nat /\ MaxNameBytes \in Nat
    /\ MaxTrailing \in Nat /\ MaxEDNSOptions \in Nat
    /\ Counts \subseteq 0..(2 ^ 16 - 1) /\ Labels \subseteq 1..63
    /\ Pointers \subseteq 0..(2 ^ 14 - 1)
    /\ DataLens \subseteq 0..(2 ^ 16 - 1) /\ OptionLens \subseteq Nat

VARIABLES
    dnsPc,       \* the part read next; "none" before Parse, "ok" and "not" after it
    dnsLen,      \* len(b)
    dnsOff,      \* offset into b
    dnsReach,    \* bytes of b that have been touched
    nameStart,   \* skipName's start
    nameTotal,   \* skipName's total
    toRead,      \* questions or records that framedLen has yet to skip
    announced,   \* the header's counts
    info         \* what Parse returns

dnsVars == <<dnsPc, dnsLen, dnsOff, dnsReach, nameStart, nameTotal, toRead, announced, info>>

NoCounts == [qd |-> 0, an |-> 0, ns |-> 0, ar |-> 0]
NoInfo == [questions |-> 0, answers |-> 0, authority |-> 0, additional |-> 0,
           options |-> 0, edns |-> FALSE, netbios |-> FALSE, trailing |-> 0]

DnsInit ==
    /\ dnsPc = "none" /\ dnsLen = 0 /\ dnsOff = 0 /\ dnsReach = 0
    /\ nameStart = 0 /\ nameTotal = 0 /\ toRead = 0
    /\ announced = NoCounts /\ info = NoInfo

\* Parse is called for n bytes.
DnsStarts(n) ==
    /\ dnsPc = "none" /\ dnsPc' = "header" /\ dnsLen' = n
    /\ UNCHANGED <<dnsOff, dnsReach, nameStart, nameTotal, toRead, announced, info>>

DnsTouch(n) == dnsReach' = IF n > dnsReach THEN n ELSE dnsReach

\* Parse returns an error; what it holds is let go.
NotDns ==
    /\ dnsPc' = "not" /\ info' = NoInfo
    /\ UNCHANGED <<dnsLen, dnsOff, nameStart, nameTotal, toRead, announced>>

----------------------------------------------------------------------------
(* framedLen. *)

HeaderCut == dnsPc = "header" /\ dnsLen < 12 /\ DnsTouch(0) /\ NotDns

Plausible(c) == c.qd \in 1..MaxQuestions /\ c.an + c.ns + c.ar <= MaxRecords

\* A name begins at o, the first of n in its section; with none left the next part begins.
NameAt(p, o, n) ==
    /\ dnsPc' = p /\ dnsOff' = o /\ nameStart' = o /\ nameTotal' = 0 /\ toRead' = n

RecordsOf(c) == c.an + c.ns + c.ar

ReadsCounts(c) ==
    /\ dnsPc = "header" /\ dnsLen >= 12 /\ DnsTouch(12)
    /\ IF Plausible(c)
       THEN NameAt("question", 12, c.qd) /\ announced' = c /\ UNCHANGED <<dnsLen, info>>
       ELSE NotDns

Naming == dnsPc \in {"question", "record"}

\* Where the fixed part after a name is read.
Fixed(p) == IF p = "question" THEN "qfixed" ELSE "rfixed"

NameEndsAt(o) ==
    /\ dnsPc' = Fixed(dnsPc) /\ dnsOff' = o
    /\ UNCHANGED <<dnsLen, nameStart, nameTotal, toRead, announced, info>>

NameCut == Naming /\ dnsOff >= dnsLen /\ DnsTouch(0) /\ NotDns

RootLabel == Naming /\ dnsOff < dnsLen /\ DnsTouch(dnsOff + 1) /\ NameEndsAt(dnsOff + 1)

\* The pointer is whole, and points back into the message before its name.
PointsBack(ptr) == dnsOff + 1 < dnsLen /\ 12 <= ptr /\ ptr < nameStart

\* Mutant of Pointer: the pointer is followed.
PointerJumps(ptr) ==
    /\ Naming /\ dnsOff + 1 < dnsLen /\ DnsTouch(dnsOff + 2)
    /\ dnsOff' = ptr
    /\ UNCHANGED <<dnsPc, dnsLen, nameStart, nameTotal, toRead, announced, info>>

Pointer(ptr) ==
    /\ Naming /\ dnsOff < dnsLen
    /\ DnsTouch(IF dnsOff + 1 < dnsLen THEN dnsOff + 2 ELSE dnsOff + 1)
    /\ IF PointsBack(ptr) THEN NameEndsAt(dnsOff + 2) ELSE NotDns

\* The two top bits are neither 00 nor 11.
ReservedLabel == Naming /\ dnsOff < dnsLen /\ DnsTouch(dnsOff + 1) /\ NotDns

Label(n) ==
    /\ Naming /\ dnsOff < dnsLen /\ DnsTouch(dnsOff + 1)
    /\ IF nameTotal + n + 1 <= MaxNameBytes
       THEN /\ dnsOff' = dnsOff + 1 + n /\ nameTotal' = nameTotal + n + 1
            /\ UNCHANGED <<dnsPc, dnsLen, nameStart, toRead, announced, info>>
       ELSE NotDns

\* After the questions the records, after those the padding.
AfterQuestion(o) ==
    IF toRead > 1 THEN NameAt("question", o, toRead - 1)
    ELSE IF RecordsOf(announced) > 0 THEN NameAt("record", o, RecordsOf(announced))
    ELSE NameAt("padding", o, 0)

AfterRecord(o) ==
    IF toRead > 1 THEN NameAt("record", o, toRead - 1) ELSE NameAt("padding", o, 0)

\* Type and class of a question are skipped.
SkipsQuestion ==
    /\ dnsPc = "qfixed" /\ DnsTouch(0)
    /\ IF dnsOff + 4 <= dnsLen
       THEN AfterQuestion(dnsOff + 4) /\ UNCHANGED <<dnsLen, announced, info>>
       ELSE NotDns

RecordFits(n) == dnsOff + 10 <= dnsLen /\ dnsOff + 10 + n <= dnsLen

SkipsRecord(n) ==
    /\ dnsPc = "rfixed"
    /\ DnsTouch(IF dnsOff + 10 <= dnsLen THEN dnsOff + 10 ELSE 0)
    /\ IF RecordFits(n)
       THEN AfterRecord(dnsOff + 10 + n) /\ UNCHANGED <<dnsLen, announced, info>>
       ELSE NotDns

----------------------------------------------------------------------------
(* The rest of Parse. *)

\* The bytes b[end:] are few and all zero, CR or LF.
Padded ==
    /\ dnsPc = "padding" /\ dnsLen - dnsOff <= MaxTrailing /\ DnsTouch(dnsOff)
    /\ dnsPc' = "parse" /\ info' = [info EXCEPT !.trailing = dnsLen - dnsOff]
    /\ UNCHANGED <<dnsLen, dnsOff, nameStart, nameTotal, toRead, announced>>

\* Too many, or one is another byte.
NotPadded ==
    /\ dnsPc = "padding" /\ dnsLen > dnsOff /\ DnsTouch(dnsOff) /\ NotDns

\* Start or AllQuestions fails, or the opcode, a type or a class is not one.
Undecoded == dnsPc = "parse" /\ DnsTouch(dnsLen) /\ NotDns

Section(p, i) ==
    /\ dnsPc' = p /\ info' = i /\ DnsTouch(dnsLen)
    /\ UNCHANGED <<dnsLen, dnsOff, nameStart, nameTotal, toRead, announced>>

\* nb: the first question, which there must be, is a NetBIOS name.
Questions(nb) ==
    /\ dnsPc = "parse"
    /\ Section("answers", [info EXCEPT !.questions = IF announced.qd > MaxQuestions THEN MaxQuestions ELSE announced.qd,
                                       !.netbios = nb])

\* countSection reaches the section's end.
CountsAnswers == dnsPc = "answers" /\ Section("authority", [info EXCEPT !.answers = announced.an])
CountsAuthority == dnsPc = "authority" /\ Section("additional", [info EXCEPT !.authority = announced.ns])

\* A record does not decode: the count is dropped and the query kept.
SectionFails == dnsPc \in {"answers", "authority"} /\ Section("ok", info)

KeepsOptions(n) == IF info.options + n > MaxEDNSOptions THEN MaxEDNSOptions ELSE info.options + n

\* opt: it is an OPT record, of n options; ok: its data decodes.
CountsAdditional(opt, n, ok) ==
    /\ dnsPc = "additional" /\ info.additional < announced.ar
    /\ Section(IF ok THEN "additional" ELSE "ok",
               [info EXCEPT !.additional = @ + 1, !.edns = @ \/ opt,
                            !.options = IF opt /\ ok THEN KeepsOptions(n) ELSE @])

\* The section is done, or a header does not decode.
AdditionalEnds == dnsPc = "additional" /\ Section("ok", info)

----------------------------------------------------------------------------

HeaderCounts == [qd : Counts, an : Counts, ns : Counts, ar : Counts]

DnsNext ==
    \/ HeaderCut \/ \E c \in HeaderCounts : ReadsCounts(c)
    \/ NameCut \/ RootLabel \/ ReservedLabel
    \/ \E ptr \in Pointers : Pointer(ptr)
    \/ \E n \in Labels : Label(n)
    \/ SkipsQuestion \/ \E n \in DataLens : SkipsRecord(n)
    \/ Padded \/ NotPadded \/ Undecoded
    \/ \E nb \in BOOLEAN : Questions(nb)
    \/ CountsAnswers \/ CountsAuthority \/ SectionFails
    \/ \E opt, ok \in BOOLEAN, n \in OptionLens : CountsAdditional(opt, n, ok)
    \/ AdditionalEnds

----------------------------------------------------------------------------
(* Properties. *)

\* Types of the scan's state.
DnsTypeOK ==
    /\ dnsPc \in {"none", "header", "question", "record", "qfixed", "rfixed", "padding", "parse",
                  "answers", "authority", "additional", "ok", "not"}
    /\ dnsLen \in Nat /\ dnsOff \in Nat /\ dnsReach \in Nat
    /\ nameStart \in Nat /\ nameTotal \in Nat /\ toRead \in Nat
    /\ announced \in [qd : Nat, an : Nat, ns : Nat, ar : Nat]
    /\ info \in [questions : Nat, answers : Nat, authority : Nat, additional : Nat,
                 options : Nat, edns : BOOLEAN, netbios : BOOLEAN, trailing : Nat]

\* The scan touches no byte outside the datagram, whatever its counts, labels,
\* pointers and lengths say (dnsinfo.go:190-262).
DnsInBounds == dnsReach <= dnsLen /\ nameTotal <= MaxNameBytes

\* What Parse reports, the datagram holds: a question takes at least five bytes,
\* a record eleven, and with the header and the padding they fit.  There is a
\* first question, which Parse takes without looking (dnsinfo.go:69-172).
InfoIsThere ==
    dnsPc = "ok" =>
        /\ info.questions \in 1..MaxQuestions /\ info.trailing <= MaxTrailing
        /\ info.options <= MaxEDNSOptions
        /\ 12 + 5 * info.questions + 11 * (info.answers + info.authority + info.additional)
              + info.trailing <= dnsLen

\* What the scan has passed, in bytes: each question took five, each record eleven.
Passed(q, r) == 12 + 5 * q + 11 * r

\* What each part of the scan knows of its offsets, and what is counted of a section
\* is no more than its header announced: the strengthening that makes DnsInBounds
\* and InfoIsThere inductive.
DnsScan ==
    /\ dnsPc = "none" => dnsReach = 0
    /\ dnsPc \in {"none", "header"} => info = NoInfo
    /\ dnsPc \notin {"none", "header", "not"} => announced.qd \in 1..MaxQuestions
    /\ dnsPc \in {"question", "qfixed"} =>
          toRead \in 1..announced.qd /\ nameStart >= Passed(announced.qd - toRead, 0)
    /\ dnsPc \in {"record", "rfixed"} =>
          /\ toRead \in 1..RecordsOf(announced)
          /\ nameStart >= Passed(announced.qd, RecordsOf(announced) - toRead)
    /\ dnsPc \in {"question", "record"} => dnsOff >= nameStart
    /\ dnsPc \in {"qfixed", "rfixed"} => dnsOff >= nameStart + 1
    /\ dnsPc = "padding" =>
          dnsOff >= Passed(announced.qd, RecordsOf(announced)) /\ dnsOff <= dnsLen
    /\ dnsPc \in {"parse", "answers", "authority", "additional", "ok"} =>
          /\ Passed(announced.qd, RecordsOf(announced)) + info.trailing <= dnsLen
          /\ info.trailing <= MaxTrailing
    /\ dnsPc \in {"answers", "authority", "additional", "ok"} => info.questions = announced.qd
    /\ info.answers <= announced.an /\ info.authority <= announced.ns
    /\ info.additional <= announced.ar /\ info.options <= MaxEDNSOptions

DnsInv == DnsTypeOK /\ DnsInBounds /\ DnsScan
=============================================================================
