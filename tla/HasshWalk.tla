----------------------------- MODULE HasshWalk -----------------------------
(***************************************************************************)
(* fingerprint.Hassh (internal/fingerprint/hassh.go): the walk from an SSH *)
(* client's banner to the name lists of its KEXINIT, over a payload that   *)
(* may end anywhere.  The bytes are chosen when they are read; the hash of *)
(* the names is left out.                                                  *)
(***************************************************************************)
EXTENDS Integers

CONSTANTS
    Banners,      \* offsets of the first newline
    PacketLens,   \* packet_length
    PadLens,      \* padding_length
    ListLens,     \* lengths of name lists
    NameLists     \* name lists of a KEXINIT that are read: 8

ASSUME HasshWalkAssumption ==
    /\ Banners \subseteq Nat /\ PacketLens \subseteq Nat /\ PadLens \subseteq 0..255
    /\ ListLens \subseteq Nat /\ NameLists \in Nat

VARIABLES
    sshPc,     \* the part read next; "none" before Hassh, "ok" and "not" after it
    sshLen,    \* len(payload)
    sshOff,
    sshEnd,    \* payloadEnd
    sshReach,  \* bytes of the payload that have been touched
    lists      \* len(names)

sshVars == <<sshPc, sshLen, sshOff, sshEnd, sshReach, lists>>

MaxPacket == 256 * 1024

SshInit == sshPc = "none" /\ sshLen = 0 /\ sshOff = 0 /\ sshEnd = 0 /\ sshReach = 0 /\ lists = 0

SshStarts(n) ==
    /\ sshPc = "none" /\ sshPc' = (IF n < 4 THEN "not" ELSE "banner") /\ sshLen' = n
    /\ UNCHANGED <<sshOff, sshEnd, sshReach, lists>>

SshTouch(n) == sshReach' = IF n > sshReach THEN n ELSE sshReach

\* The fingerprint is the empty string.
NoHassh == sshPc' = "not" /\ UNCHANGED <<sshLen, sshOff, sshEnd, lists>>

SkipsBanner(k) ==
    /\ sshPc = "banner" /\ k < sshLen /\ SshTouch(k + 1)
    /\ sshPc' = "packet" /\ sshOff' = k + 1 /\ UNCHANGED <<sshLen, sshEnd, lists>>

NoNewline == sshPc = "banner" /\ SshTouch(sshLen) /\ NoHassh

PacketFits(n) == n \in 1..MaxPacket /\ sshOff + 4 + n <= sshLen

\* Where the message ends, behind length and padding length.
MessageEnd(n, pad) == sshOff + 4 + n - pad

HasType(n, pad) == pad <= n - 1 /\ sshOff + 5 < MessageEnd(n, pad)

\* Behind the type there is the cookie.
KexInitFits(n, pad) == HasType(n, pad) /\ sshOff + 6 + 16 <= MessageEnd(n, pad)

\* kex: the message's type is SSH_MSG_KEXINIT.
ReadsPacket(n, pad, kex) ==
    /\ sshPc = "packet"
    /\ IF sshOff + 5 <= sshLen /\ PacketFits(n)
       THEN IF kex /\ KexInitFits(n, pad)
            THEN /\ SshTouch(sshOff + 6) /\ sshPc' = "lists" /\ sshOff' = sshOff + 22
                 /\ sshEnd' = MessageEnd(n, pad) /\ UNCHANGED <<sshLen, lists>>
            ELSE SshTouch(sshOff + (IF HasType(n, pad) THEN 6 ELSE 5)) /\ NoHassh
       ELSE SshTouch(sshOff) /\ NoHassh

ListFits(n) == sshOff + 4 + n <= sshEnd

ReadsList(n) ==
    /\ sshPc = "lists" /\ lists < NameLists /\ sshOff + 4 <= sshEnd
    /\ IF n = 0 \/ ListFits(n)
       THEN /\ SshTouch(sshOff + 4 + n) /\ sshOff' = sshOff + 4 + n /\ lists' = lists + 1
            /\ UNCHANGED <<sshPc, sshLen, sshEnd>>
       ELSE SshTouch(sshOff + 4) /\ NoHassh

ListsEnd ==
    /\ sshPc = "lists" /\ (lists = NameLists \/ sshOff + 4 > sshEnd) /\ SshTouch(0)
    /\ sshPc' = (IF lists = NameLists THEN "ok" ELSE "not")
    /\ UNCHANGED <<sshLen, sshOff, sshEnd, lists>>

SshNext ==
    \/ \E k \in Banners : SkipsBanner(k)
    \/ NoNewline
    \/ \E n \in PacketLens, pad \in PadLens, kex \in BOOLEAN : ReadsPacket(n, pad, kex)
    \/ \E n \in ListLens : ReadsList(n)
    \/ ListsEnd

----------------------------------------------------------------------------
(* Properties. *)

\* Types of the walk's state.
SshTypeOK ==
    /\ sshPc \in {"none", "banner", "packet", "lists", "ok", "not"}
    /\ sshLen \in Nat /\ sshOff \in Nat /\ sshEnd \in Nat /\ sshReach \in Nat /\ lists \in Nat

\* No byte behind the payload, nor behind the message for a name, is touched
\* (hassh.go:16-81).
SshInBounds ==
    /\ sshReach <= sshLen
    /\ sshPc = "lists" => sshOff <= sshEnd /\ sshEnd <= sshLen

\* The strengthening that makes SshInBounds inductive: a packet begins inside the
\* payload, and before Hassh nothing is touched.
SshOffsets ==
    /\ sshPc = "none" => sshReach = 0
    /\ sshPc = "packet" => sshOff <= sshLen

SshInv == SshTypeOK /\ SshInBounds /\ SshOffsets
=============================================================================
