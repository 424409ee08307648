----------------------------- MODULE HelloWalk -----------------------------
(***************************************************************************)
(* quic.ParseHello (internal/quic/hello.go): the walk over a ClientHello's *)
(* extensions, over the server name and over the QUIC transport            *)
(* parameters.  The bytes are chosen when they are read.  The message may  *)
(* be cut anywhere: logAttempt parses what an attempt holds even when the  *)
(* hello never completed.  The fingerprints over the whole record are      *)
(* external (tlsfingerprint), which reads the message or refuses it.       *)
(***************************************************************************)
EXTENDS Integers, Sequences

CONSTANTS
    MaxHello,    \* longest message that fits a record, 0xffff
    MaxParams,
    FieldLens,   \* lengths of the session ID, the cipher suites and the compression methods
    BlockLens,   \* lengths of all extensions
    ExtLens,     \* lengths of one, and of the names in a server name list
    ParamForms   \* transport parameters: the id and its width, the length and its width, the value

ASSUME HelloWalkAssumption ==
    /\ MaxHello \in Nat /\ MaxParams \in Nat
    /\ FieldLens \subseteq Nat /\ BlockLens \subseteq Nat /\ ExtLens \subseteq 0..(2 ^ 16 - 1)
    /\ \A p \in ParamForms : p.id \in Nat /\ p.len \in Nat /\ {p.idw, p.lnw} \subseteq {1, 2, 4, 8}

VARIABLES
    helloPc,     \* the part read next; "none" before ParseHello, "ok" and "not" after it
    helloLen,    \* len(b), without the handshake header
    helloOff,    \* offset into b, or into the extension read
    helloEnd,    \* end of the extensions, or of the extension read
    helloReach,  \* bytes of b that have been touched
    exts,        \* the extensions kept: where they are
    serverName,
    params

helloVars == <<helloPc, helloLen, helloOff, helloEnd, helloReach, exts, serverName, params>>

ExtKinds == {"sni", "params", "draft", "other"}

HelloInit ==
    /\ helloPc = "none" /\ helloLen = 0 /\ helloOff = 0 /\ helloEnd = 0 /\ helloReach = 0
    /\ exts = [k \in {} |-> 0] /\ serverName = FALSE /\ params = <<>>

\* ParseHello is called for a message of n bytes.
HelloStarts(n) ==
    /\ helloPc = "none"
    /\ helloPc' = (IF n < 4 \/ n > MaxHello THEN "not" ELSE "fingerprint")
    /\ helloLen' = (IF n < 4 THEN 0 ELSE n - 4)
    /\ UNCHANGED <<helloOff, helloEnd, helloReach, exts, serverName, params>>

HelloTouch(n) == helloReach' = IF n > helloReach THEN n ELSE helloReach

HelloGoes(p, o) == helloPc' = p /\ helloOff' = o /\ UNCHANGED helloLen

Kept == UNCHANGED <<helloEnd, exts, serverName, params>>

\* It is not a ClientHello, or tlsfingerprint refuses it.
Unfingerprinted == helloPc = "fingerprint" /\ HelloGoes("not", 0) /\ HelloTouch(0) /\ Kept

Fingerprints == helloPc = "fingerprint" /\ HelloGoes("session", 34) /\ HelloTouch(0) /\ Kept

\* The hello is returned with what was read of it; errors of the walk are dropped.
Returned == helloPc' = "ok" /\ UNCHANGED <<helloLen, helloOff, helloEnd, exts, serverName, params>>

----------------------------------------------------------------------------
(* helloExtensions. *)

Width(p) == IF p = "ciphers" THEN 2 ELSE 1
After(p) == CASE p = "session" -> "ciphers" [] p = "ciphers" -> "compression"
              [] p = "compression" -> "extensions"

\* Nothing is kept of a walk cut short: ParseHello drops the map.
CutShort == exts' = [k \in {} |-> 0] /\ helloPc' = "ok" /\ UNCHANGED <<helloLen, helloOff, helloEnd, serverName, params>>

\* A field of n bytes behind its length.  It may end beyond the message; the next
\* length is then missing.
ReadsField(n) ==
    /\ helloPc \in {"session", "ciphers", "compression"}
    /\ IF helloLen >= helloOff + Width(helloPc)
       THEN /\ HelloTouch(helloOff + Width(helloPc))
            /\ HelloGoes(After(helloPc), helloOff + Width(helloPc) + n) /\ Kept
       ELSE HelloTouch(0) /\ CutShort

\* Mutant of ExtensionsFit: the extensions are not compared with the message.
ExtensionsFitAlways(n) == TRUE

ExtensionsFit(n) == helloOff + 2 + n <= helloLen

ReadsExtensions(n) ==
    /\ helloPc = "extensions"
    /\ IF helloLen >= helloOff + 2
       THEN /\ HelloTouch(helloOff + 2)
            /\ IF ExtensionsFit(n)
               THEN /\ HelloGoes("extension", helloOff + 2) /\ helloEnd' = helloOff + 2 + n
                    /\ UNCHANGED <<exts, serverName, params>>
               ELSE CutShort
       ELSE HelloTouch(0) /\ CutShort

\* Of two extensions of one type the first is kept.
Keep(k, at, n) ==
    IF k \in DOMAIN exts THEN exts
    ELSE [j \in DOMAIN exts \cup {k} |-> IF j = k THEN [at |-> at, len |-> n] ELSE exts[j]]

ReadsExtension(k, n) ==
    /\ helloPc = "extension" /\ helloOff + 4 <= helloEnd /\ HelloTouch(helloOff + 4)
    /\ IF helloOff + 4 + n <= helloEnd
       THEN /\ HelloGoes("extension", helloOff + 4 + n)
            /\ exts' = Keep(k, helloOff + 4, n)
            /\ UNCHANGED <<helloEnd, serverName, params>>
       ELSE CutShort

ExtensionsEnd ==
    /\ helloPc = "extension" /\ helloOff + 4 > helloEnd /\ HelloTouch(0)
    /\ UNCHANGED <<helloLen, exts, serverName, params>>
    /\ IF "sni" \in DOMAIN exts /\ exts["sni"].len >= 2
       THEN /\ helloPc' = "name" /\ helloOff' = exts["sni"].at + 2
            /\ helloEnd' = exts["sni"].at + exts["sni"].len
       ELSE helloPc' = "transport" /\ UNCHANGED <<helloOff, helloEnd>>

----------------------------------------------------------------------------
(* parseSNI, over the extension's bytes. *)

NamesDone(found) ==
    /\ helloPc' = "transport" /\ serverName' = found
    /\ UNCHANGED <<helloLen, helloOff, helloEnd, exts, params>>

\* host: the entry is a host name; printable: as IsPrintable takes it.
ReadsName(host, printable, n) ==
    /\ helloPc = "name" /\ helloOff + 3 <= helloEnd
    /\ CASE helloOff + 3 + n > helloEnd -> HelloTouch(helloOff + 3) /\ NamesDone(FALSE)
         [] helloOff + 3 + n <= helloEnd /\ host ->
                HelloTouch(helloOff + 3 + n) /\ NamesDone(printable /\ n > 0)
         [] OTHER -> /\ HelloTouch(helloOff + 3) /\ HelloGoes("name", helloOff + 3 + n) /\ Kept

NamesEnd == helloPc = "name" /\ helloOff + 3 > helloEnd /\ HelloTouch(0) /\ NamesDone(FALSE)

----------------------------------------------------------------------------
(* parseTransportParams. *)

\* The draft's extension is read only without the final one.
ParamsExt == IF "params" \in DOMAIN exts THEN "params" ELSE "draft"

TakesParams ==
    /\ helloPc = "transport" /\ ParamsExt \in DOMAIN exts /\ HelloTouch(0)
    /\ HelloGoes("param", exts[ParamsExt].at)
    /\ helloEnd' = exts[ParamsExt].at + exts[ParamsExt].len
    /\ UNCHANGED <<exts, serverName, params>>

NoParams == helloPc = "transport" /\ ParamsExt \notin DOMAIN exts /\ HelloTouch(0) /\ Returned

\* Both numbers are whole and the value lies in the extension.
ParamFits(p) ==
    /\ helloOff + p.idw + p.lnw <= helloEnd
    /\ p.len <= helloEnd - helloOff - p.idw - p.lnw

ParamEnd(p) == helloOff + p.idw + p.lnw + p.len

ReadsParam(p) ==
    /\ helloPc = "param" /\ helloOff < helloEnd /\ Len(params) < MaxParams /\ ParamFits(p)
    /\ HelloTouch(ParamEnd(p)) /\ HelloGoes("param", ParamEnd(p))
    /\ params' = Append(params, [id |-> p.id, val |-> p.val, len |-> p.len])
    /\ UNCHANGED <<helloEnd, exts, serverName>>

\* There are too many, or one is cut short or too long: no text is made of them.
ParamsFail ==
    /\ helloPc = "param" /\ helloOff < helloEnd /\ HelloTouch(0)
    /\ helloPc' = "ok" /\ params' = <<>>
    /\ UNCHANGED <<helloLen, helloOff, helloEnd, exts, serverName>>

\* describeParams gets them.
ParamsRead == helloPc = "param" /\ helloOff >= helloEnd /\ HelloTouch(0) /\ Returned

----------------------------------------------------------------------------

HelloNext ==
    \/ Unfingerprinted \/ Fingerprints
    \/ \E n \in FieldLens : ReadsField(n)
    \/ \E n \in BlockLens : ReadsExtensions(n)
    \/ \E n \in ExtLens, k \in ExtKinds : ReadsExtension(k, n)
    \/ ExtensionsEnd
    \/ \E n \in ExtLens, host, printable \in BOOLEAN : ReadsName(host, printable, n)
    \/ NamesEnd \/ TakesParams \/ NoParams
    \/ \E p \in ParamForms : ReadsParam(p)
    \/ ParamsFail \/ ParamsRead

----------------------------------------------------------------------------
(* Properties. *)

\* Types of the walk's state.
HelloTypeOK ==
    /\ helloPc \in {"none", "fingerprint", "session", "ciphers", "compression", "extensions",
                    "extension", "name", "transport", "param", "ok", "not"}
    /\ helloLen \in Nat /\ helloOff \in Nat /\ helloEnd \in Nat /\ helloReach \in Nat
    /\ DOMAIN exts \subseteq ExtKinds /\ serverName \in BOOLEAN
    /\ \A k \in DOMAIN exts : exts[k] \in [at : Nat, len : Nat]
    /\ \A i \in 1..Len(params) : params[i].id \in Nat /\ params[i].len \in Nat

\* No byte outside the message is touched, and an extension kept lies inside it,
\* also for a hello that was cut anywhere (hello.go:118-201).
HelloInBounds ==
    /\ helloReach <= helloLen
    /\ \A k \in DOMAIN exts : exts[k].at + exts[k].len <= helloLen
    /\ Len(params) <= MaxParams

\* The parameters as they are kept.
KeptParams == {[id |-> p.id, val |-> p.val, len |-> p.len] : p \in ParamForms}

\* The strengthening that makes HelloInBounds inductive: the part that is read ends
\* inside the message, and before ParseHello nothing is kept.
HelloOffsets ==
    /\ helloEnd <= helloLen
    /\ helloPc = "none" => helloReach = 0 /\ helloEnd = 0 /\ exts = [k \in {} |-> 0] /\ params = <<>>
    /\ params \in Seq(KeptParams)

HelloInv == HelloTypeOK /\ HelloInBounds /\ HelloOffsets
=============================================================================
