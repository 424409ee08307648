---------------------------- MODULE RecordProofs ----------------------------
(***************************************************************************)
(* From a payload to its record, for payloads of every size and whatever   *)
(* they claim: the decoders stay inside, one record claims no more than    *)
(* was decoded, and the text of the transport parameters that is hashed    *)
(* tells nothing that changes from one connection to the next.             *)
(***************************************************************************)
EXTENDS Record, FoldProofs, TLAPS

(* The walk over the packets of a datagram. *)

\* Initially nothing is read.
LEMMA WalkInitOK == QuicInit => WalkInv
  <1> SUFFICES ASSUME QuicInit PROVE WalkInv  OBVIOUS
  <1>1. left \in Nat  BY QuicWalkAssumption DEF QuicInit
  <1>o. out \in Seq([kind : {"initial", "other", "unknown"}, framed : BOOLEAN])  BY DEF QuicInit
  <1>b. over \in BOOLEAN  BY Zenon DEF QuicInit
  <1>2. WalkTypeOK /\ InBounds /\ Offsets
    BY <1>1, <1>o, <1>b DEF QuicInit, WalkTypeOK, InBounds, Offsets
  <1>3. ReadSoFar /\ InitialsRead  BY DEF QuicInit, ReadSoFar, InitialsRead
  <1> QED  BY <1>2, <1>3 DEF WalkInv

\* Adding a packet keeps the type of the list and the packets before it.
LEMMA PacketOK ==
    ASSUME WalkInv, NEW k \in {"initial", "other", "unknown"}, NEW f \in BOOLEAN
    PROVE  /\ Packet(k, f) \in Seq([kind : {"initial", "other", "unknown"}, framed : BOOLEAN])
           /\ Len(Packet(k, f)) = Len(out) + 1
           /\ Len(out) \in Nat
           /\ Packet(k, f) # <<>>
           /\ \A i \in 1..Len(out) : Packet(k, f)[i] = out[i]
           /\ Packet(k, f)[Len(out) + 1] = [kind |-> k, framed |-> f]
  <1>1. out \in Seq([kind : {"initial", "other", "unknown"}, framed : BOOLEAN])
    BY DEF WalkInv, WalkTypeOK
  <1> QED  BY <1>1 DEF Packet

\* After a break no packet has failed.
LEMMA BreaksOK ==
    ASSUME WalkInv, pc # "done", NEW ps, Breaks(ps), reach' \in Nat, reach' <= left,
           ps = out \/ ps = Packet("other", FALSE)
    PROVE  WalkInv'
  <1>1. ps \in Seq([kind : {"initial", "other", "unknown"}, framed : BOOLEAN])
    BY PacketOK DEF WalkInv, WalkTypeOK
  <1>2. \A i \in 1..Len(ps) : ps[i].kind = "other" \/ ps[i].framed
    <2>1. CASE ps = out  BY <2>1 DEF WalkInv, ReadSoFar
    <2>2. CASE ps = Packet("other", FALSE)
      <3> SUFFICES ASSUME NEW i \in 1..Len(ps) PROVE ps[i].kind = "other" \/ ps[i].framed
        OBVIOUS
      <3>n. Len(ps) = Len(out) + 1 /\ Len(out) \in Nat  BY <2>2, PacketOK
      <3>1. CASE i \in 1..Len(out)
        <4>1. ps[i] = out[i]  BY <3>1, <2>2, PacketOK
        <4> QED  BY <3>1, <4>1 DEF WalkInv, ReadSoFar
      <3>2. CASE i = Len(out) + 1
        <4>1. ps[i] = [kind |-> "other", framed |-> FALSE]  BY <3>2, <2>2, PacketOK
        <4> QED  BY <4>1
      <3> QED  BY <3>1, <3>2, <3>n
    <2> QED  BY <2>1, <2>2
  <1>3. WalkTypeOK'  BY <1>1 DEF WalkInv, WalkTypeOK, Breaks
  <1>4. InBounds' /\ Offsets' /\ ReadSoFar'  BY DEF WalkInv, InBounds, Offsets, ReadSoFar, Breaks
  <1>5. InitialsRead'  BY <1>2 DEF InitialsRead, Breaks
  <1> QED  BY <1>3, <1>4, <1>5 DEF WalkInv

\* After a failure the last packet is the one that failed.
LEMMA FailsOK ==
    ASSUME WalkInv, pc # "done", NEW k \in {"initial", "unknown"},
           NEW e \in {"version", "malformed"}, Fails(k, e), reach' \in Nat, reach' <= left
    PROVE  WalkInv'
  <1>n. Len(out') = Len(out) + 1 /\ Len(out) \in Nat  BY PacketOK DEF Fails
  <1>o. \A i \in 1..Len(out) : out'[i] = out[i]  BY PacketOK DEF Fails
  <1>l. out'[Len(out) + 1] = [kind |-> k, framed |-> FALSE]  BY PacketOK DEF Fails
  <1>1. out' \in Seq([kind : {"initial", "other", "unknown"}, framed : BOOLEAN])
    BY PacketOK DEF Fails
  <1>3. WalkTypeOK'  BY <1>1 DEF WalkInv, WalkTypeOK, Fails
  <1>4. InBounds' /\ Offsets' /\ ReadSoFar'  BY DEF WalkInv, InBounds, Offsets, ReadSoFar, Fails
  <1>5. \A i \in 1..Len(out) : out'[i].kind = "other" \/ out'[i].framed
    BY <1>o DEF WalkInv, ReadSoFar
  <1>6. {i \in 1..Len(out') : out'[i].kind # "other" /\ ~out'[i].framed} = {Len(out')}
    <2>1. \A i \in 1..Len(out') : i \in 1..Len(out) \/ i = Len(out')  BY <1>n
    <2>2. Len(out') \in 1..Len(out')  BY <1>n
    <2>3. out'[Len(out')].kind = k /\ ~out'[Len(out')].framed  BY <1>n, <1>l
    <2> QED  BY <2>1, <2>2, <2>3, <1>5
  <1>7. InitialsRead'  BY <1>6 DEF InitialsRead, Fails
  <1> QED  BY <1>3, <1>4, <1>7 DEF WalkInv

\* A turn of the loop that consumes bytes it has leaves the walk at a packet.
LEMMA ConsumesOK ==
    ASSUME WalkInv, pc # "done", NEW n \in Nat, n <= left, Consumes(n),
           out' \in Seq([kind : {"initial", "other", "unknown"}, framed : BOOLEAN]),
           \A i \in 1..Len(out') : out'[i].kind = "other" \/ out'[i].framed
    PROVE  WalkInv'
  <1>n. left - n \in Nat  BY DEF WalkInv, WalkTypeOK
  <1>1. WalkTypeOK'  BY <1>n DEF WalkInv, WalkTypeOK, Consumes, Goto
  <1>2. InBounds' /\ Offsets'  BY DEF WalkInv, WalkTypeOK, InBounds, Offsets, Consumes, Goto
  <1>3. ReadSoFar'  BY DEF WalkInv, ReadSoFar, Consumes, Goto
  <1>4. InitialsRead'  BY DEF InitialsRead, Consumes, Goto
  <1> QED  BY <1>1, <1>2, <1>3, <1>4 DEF WalkInv

\* Each step of the walk keeps the invariant: the guards on the lengths read are
\* what the next reads need.
LEMMA WalkNextOK == WalkInv /\ [QuicNext]_walkVars => WalkInv'
  <1> SUFFICES ASSUME WalkInv, [QuicNext]_walkVars PROVE WalkInv'  OBVIOUS
  <1>t. /\ left \in Nat /\ off \in Nat /\ end \in Nat /\ body \in Nat /\ reach \in Nat
        /\ reach <= left /\ end <= left
    BY DEF WalkInv, WalkTypeOK, InBounds
  <1>v. \A x \in Varints : x.v \in Nat /\ x.w \in Nat /\ x.w > 0  BY QuicWalkAssumption
  <1>c. \A n \in ConnLens : n \in Nat  BY QuicWalkAssumption
  <1>1. CASE WalkEnds
    <2>1. pc # "done" /\ reach' \in Nat /\ reach' <= left  BY <1>1, <1>t DEF WalkEnds, Touch
    <2>2. Breaks(out)  BY <1>1 DEF WalkEnds
    <2> QED  BY <2>1, <2>2, BreaksOK
  <1>2. CASE ReadsVersion
    <2>1. WalkTypeOK' /\ InBounds' /\ Offsets'
      BY <1>2, <1>t DEF ReadsVersion, Touch, Goto, Leaves, WalkInv, WalkTypeOK, InBounds, Offsets
    <2>2. ReadSoFar' /\ InitialsRead'
      BY <1>2 DEF ReadsVersion, Goto, Leaves, WalkInv, ReadSoFar, InitialsRead
    <2> QED  BY <2>1, <2>2 DEF WalkInv
  <1>3. ASSUME NEW n \in ConnLens, ReadsDcid(n) PROVE WalkInv'
    <2>t. n \in Nat /\ off + 2 <= left /\ pc = "dcid"
      BY <1>3, <1>c DEF ReadsDcid, WalkInv, Offsets
    <2>1. CASE DcidFits(off + 1, n)
      <3>b. over' \in BOOLEAN  BY <1>3, <2>1 DEF ReadsDcid
      <3>1. WalkTypeOK' /\ InBounds' /\ Offsets'
        BY <1>3, <2>1, <2>t, <1>t, <3>b
        DEF ReadsDcid, DcidFits, Touch, Goto, WalkInv, WalkTypeOK, InBounds, Offsets
      <3>2. ReadSoFar' /\ InitialsRead'
        BY <1>3, <2>1 DEF ReadsDcid, Goto, WalkInv, ReadSoFar, InitialsRead
      <3> QED  BY <3>1, <3>2 DEF WalkInv
    <2>2. CASE ~DcidFits(off + 1, n)
      <3>1. reach' \in Nat /\ reach' <= left  BY <1>3, <2>2, <2>t, <1>t DEF ReadsDcid, Touch
      <3>2. Breaks(out)  BY <1>3, <2>2 DEF ReadsDcid
      <3> QED  BY <3>1, <3>2, <2>t, BreaksOK
    <2> QED  BY <2>1, <2>2
  <1>4. ASSUME NEW n \in ConnLens, ReadsScid(n) PROVE WalkInv'
    <2>t. n \in Nat /\ off + 1 <= left /\ pc = "scid"
      BY <1>4, <1>c DEF ReadsScid, WalkInv, Offsets
    <2>1. CASE ScidFits(off + 1, n)
      <3>b. over' \in BOOLEAN  BY <1>4, <2>1 DEF ReadsScid
      <3>1. WalkTypeOK' /\ InBounds' /\ Offsets'
        BY <1>4, <2>1, <2>t, <1>t, <3>b
        DEF ReadsScid, ScidFits, Touch, Goto, WalkInv, WalkTypeOK, InBounds, Offsets
      <3>2. ReadSoFar' /\ InitialsRead'
        BY <1>4, <2>1 DEF ReadsScid, Goto, WalkInv, ReadSoFar, InitialsRead
      <3> QED  BY <3>1, <3>2 DEF WalkInv
    <2>2. CASE ~ScidFits(off + 1, n)
      <3>1. reach' \in Nat /\ reach' <= left  BY <1>4, <2>2, <2>t, <1>t DEF ReadsScid, Touch
      <3>2. Breaks(out)  BY <1>4, <2>2 DEF ReadsScid
      <3> QED  BY <3>1, <3>2, <2>t, BreaksOK
    <2> QED  BY <2>1, <2>2
  <1>h. pc \in {"header", "token", "length"} => off <= left  BY DEF WalkInv, Offsets
  <1>5. CASE UnknownVersion
    <2>1. reach' \in Nat /\ reach' <= left  BY <1>5, <1>t, <1>h DEF UnknownVersion, Touch
    <2>2. pc # "done" /\ Fails("unknown", "version")  BY <1>5 DEF UnknownVersion
    <2> QED  BY <2>1, <2>2, FailsOK
  <1>6. CASE TooLongID
    <2>1. reach' \in Nat /\ reach' <= left  BY <1>6, <1>t, <1>h DEF TooLongID, Touch
    <2>2. pc # "done" /\ Breaks(out)  BY <1>6 DEF TooLongID
    <2> QED  BY <2>1, <2>2, BreaksOK
  <1>7. CASE MeetsRetry
    <2>1. reach' \in Nat /\ reach' <= left  BY <1>7, <1>t, <1>h DEF MeetsRetry, Touch
    <2>2. pc # "done" /\ Breaks(Packet("other", FALSE))  BY <1>7 DEF MeetsRetry
    <2> QED  BY <2>1, <2>2, BreaksOK
  <1>8. CASE MeetsInitial
    <2>1. WalkTypeOK' /\ InBounds' /\ Offsets'
      BY <1>8, <1>t, <1>h
      DEF MeetsInitial, Touch, Goto, Leaves, WalkInv, WalkTypeOK, InBounds, Offsets
    <2>2. ReadSoFar' /\ InitialsRead'
      BY <1>8 DEF MeetsInitial, Goto, Leaves, WalkInv, ReadSoFar, InitialsRead
    <2> QED  BY <2>1, <2>2 DEF WalkInv
  <1>9. ASSUME NEW x \in Varints, SkipsPacket(x) PROVE WalkInv'
    <2>t. x.v \in Nat /\ x.w \in Nat /\ off <= left /\ pc = "header"
      BY <1>9, <1>v, <1>h DEF SkipsPacket
    <2>1. CASE SkipFits(x)
      <3>1. Consumes(off + x.w + x.v) /\ out' = Packet("other", FALSE)
        BY <1>9, <2>1 DEF SkipsPacket
      <3>2. off + x.w + x.v \in Nat /\ off + x.w + x.v <= left
        BY <2>1, <2>t, <1>t DEF SkipFits, Complete
      <3>n. Len(out') = Len(out) + 1 /\ Len(out) \in Nat  BY <3>1, PacketOK
      <3>o. \A i \in 1..Len(out) : out'[i] = out[i]  BY <3>1, PacketOK
      <3>l. out'[Len(out) + 1] = [kind |-> "other", framed |-> FALSE]  BY <3>1, PacketOK
      <3>3. out' \in Seq([kind : {"initial", "other", "unknown"}, framed : BOOLEAN])
        BY <3>1, PacketOK
      <3>4. \A i \in 1..Len(out) : out'[i].kind = "other" \/ out'[i].framed
        BY <3>o, <2>t DEF WalkInv, ReadSoFar
      <3>5. out'[Len(out) + 1].kind = "other"  BY <3>l
      <3>6. \A i \in 1..Len(out') : i \in 1..Len(out) \/ i = Len(out) + 1  BY <3>n
      <3>7. \A i \in 1..Len(out') : out'[i].kind = "other" \/ out'[i].framed
        BY <3>4, <3>5, <3>6
      <3> QED  BY <3>1, <3>2, <3>3, <3>7, <2>t, ConsumesOK
    <2>2. CASE ~SkipFits(x)
      <3>1. reach' \in Nat /\ reach' <= left  BY <1>9, <2>2, <2>t, <1>t DEF SkipsPacket, Touch
      <3>2. Breaks(Packet("other", FALSE))  BY <1>9, <2>2 DEF SkipsPacket
      <3> QED  BY <3>1, <3>2, <2>t, BreaksOK
    <2> QED  BY <2>1, <2>2
  <1>10. ASSUME NEW x \in Varints, ReadsToken(x) PROVE WalkInv'
    <2>t. x.v \in Nat /\ x.w \in Nat /\ off <= left /\ pc = "token"
      BY <1>10, <1>v, <1>h DEF ReadsToken
    <2>1. CASE TokenFits(x)
      <3>1. WalkTypeOK' /\ InBounds' /\ Offsets'
        BY <1>10, <2>1, <2>t, <1>t, SMTT(30)
        DEF ReadsToken, TokenFits, Touch, Goto, Leaves, WalkInv, WalkTypeOK, InBounds, Offsets
      <3>2. ReadSoFar' /\ InitialsRead'
        BY <1>10, <2>1 DEF ReadsToken, Goto, Leaves, WalkInv, ReadSoFar, InitialsRead
      <3> QED  BY <3>1, <3>2 DEF WalkInv
    <2>2. CASE ~TokenFits(x)
      <3>1. reach' \in Nat /\ reach' <= left  BY <1>10, <2>2, <2>t, <1>t DEF ReadsToken, Touch
      <3>2. Fails("initial", "malformed")  BY <1>10, <2>2 DEF ReadsToken
      <3> QED  BY <3>1, <3>2, <2>t, FailsOK
    <2> QED  BY <2>1, <2>2
  <1>11. ASSUME NEW x \in Varints, ReadsLength(x) PROVE WalkInv'
    <2>t. x.v \in Nat /\ x.w \in Nat /\ off <= left /\ pc = "length"
      BY <1>11, <1>v, <1>h DEF ReadsLength
    <2>1. CASE LengthFits(x)
      <3>0. /\ pc' = "unprotect" /\ off' \in Nat /\ end' \in Nat /\ 0 < end' /\ end' <= left
            /\ reach' \in Nat /\ reach' <= left
            /\ UNCHANGED <<left, over, body, out, err>>
        BY <1>11, <2>1, <2>t, <1>t DEF ReadsLength, LengthFits, Touch, Goto
      <3>1. WalkTypeOK' /\ InBounds' /\ Offsets'
        BY <3>0 DEF WalkInv, WalkTypeOK, InBounds, Offsets
      <3>2. ReadSoFar' /\ InitialsRead'
        BY <1>11, <2>1 DEF ReadsLength, Goto, WalkInv, ReadSoFar, InitialsRead
      <3> QED  BY <3>1, <3>2 DEF WalkInv
    <2>2. CASE ~LengthFits(x)
      <3>1. reach' \in Nat /\ reach' <= left  BY <1>11, <2>2, <2>t, <1>t DEF ReadsLength, Touch
      <3>2. Fails("initial", "malformed")  BY <1>11, <2>2 DEF ReadsLength
      <3> QED  BY <3>1, <3>2, <2>t, FailsOK
    <2> QED  BY <2>1, <2>2
  <1>12. ASSUME NEW pn \in 1..4, Unprotects(pn) PROVE WalkInv'
    <2>1. pc = "unprotect" /\ out' = Packet("initial", TRUE)  BY <1>12 DEF Unprotects
    <2>n. Len(out') = Len(out) + 1 /\ Len(out) \in Nat  BY <2>1, PacketOK
    <2>o. \A i \in 1..Len(out) : out'[i] = out[i]  BY <2>1, PacketOK
    <2>l. out'[Len(out) + 1] = [kind |-> "initial", framed |-> TRUE]  BY <2>1, PacketOK
    <2>2. out' \in Seq([kind : {"initial", "other", "unknown"}, framed : BOOLEAN])
      BY <2>1, PacketOK
    <2>3. body' \in Nat  BY <1>12, <1>t DEF Unprotects, Tag, Sample
    <2>0. /\ pc' = "frames" /\ off' = off /\ reach' \in Nat /\ reach' <= left
          /\ UNCHANGED <<left, over, end, err>>
      BY <1>12, <1>t DEF Unprotects, Touch, Goto
    <2>p. over \in BOOLEAN /\ 0 < end  BY <2>1 DEF WalkInv, WalkTypeOK, Offsets
    <2>t. WalkTypeOK'  BY <2>0, <2>2, <2>3, <2>p, <1>t DEF WalkInv, WalkTypeOK
    <2>i. InBounds' /\ Offsets'  BY <2>0, <2>3, <2>p, <1>t DEF InBounds, Offsets
    <2>5. \A i \in 1..Len(out) : out'[i].kind = "other" \/ out'[i].framed
      BY <2>o, <2>1 DEF WalkInv, ReadSoFar
    <2>6. out'[Len(out) + 1].framed  BY <2>l
    <2>7. \A i \in 1..Len(out') : i \in 1..Len(out) \/ i = Len(out) + 1  BY <2>n
    <2>8. err' = "none" /\ pc' # "done"  BY <1>12 DEF Unprotects, Goto, WalkInv, ReadSoFar
    <2>9. ReadSoFar' /\ InitialsRead'
      BY <2>5, <2>6, <2>7, <2>8 DEF ReadSoFar, InitialsRead
    <2> QED  BY <2>t, <2>i, <2>9 DEF WalkInv
  <1>13. CASE UnprotectFails
    <2>1. reach' \in Nat /\ reach' <= left  BY <1>13, <1>t DEF UnprotectFails, Touch
    <2>2. pc # "done" /\ Fails("initial", "malformed")  BY <1>13 DEF UnprotectFails
    <2> QED  BY <2>1, <2>2, FailsOK
  <1>14. ASSUME NEW n \in Nat, Reads(n) PROVE WalkInv'
    <2>1. body - n \in Nat  BY <1>14, <1>t DEF Reads
    <2>2. WalkTypeOK' /\ InBounds' /\ Offsets'
      BY <1>14, <2>1, <1>t DEF Reads, WalkInv, WalkTypeOK, InBounds, Offsets
    <2>3. ReadSoFar' /\ InitialsRead'
      BY <1>14 DEF Reads, WalkInv, ReadSoFar, InitialsRead
    <2> QED  BY <2>2, <2>3 DEF WalkInv
  <1>15. CASE ReadsByte  BY <1>15, <1>14 DEF ReadsByte
  <1>16. ASSUME NEW x \in Varints, NEW y \in Varints, ReadsCrypto(x, y) PROVE WalkInv'
    <2>1. CryptoEnd(x, y) \in Nat  BY <1>v DEF CryptoEnd
    <2> QED  BY <1>16, <2>1, <1>14 DEF ReadsCrypto
  <1>17. ASSUME NEW x \in Varints, NEW y \in Varints, NEW b \in BOOLEAN,
                SkipsAck(x, y.w, b) \/ ReadsClose(x.w, y, b)
         PROVE  WalkInv'
    <2>1. CASE SkipsAck(x, y.w, b)
      <3>1. x.w \in Nat /\ x.v \in Nat /\ y.w \in Nat  BY <1>v
      <3>2. (1 + 2 * x.v) * y.w \in Nat /\ (1 + 2 * x.v + 3) * y.w \in Nat  BY <3>1
      <3>3. AckEnd(x, y.w, b) \in Nat
        <4>1. CASE b
          <5>1. AckEnd(x, y.w, b) = 1 + 2 * y.w + x.w + (1 + 2 * x.v + 3) * y.w  BY <4>1 DEF AckEnd
          <5> QED  BY <5>1, <3>1, <3>2
        <4>2. CASE ~b
          <5>1. AckEnd(x, y.w, b) = 1 + 2 * y.w + x.w + (1 + 2 * x.v + 0) * y.w  BY <4>2 DEF AckEnd
          <5> QED  BY <5>1, <3>1, <3>2
        <4> QED  BY <4>1, <4>2
      <3> QED  BY <2>1, <3>3, <1>14 DEF SkipsAck
    <2>2. CASE ReadsClose(x.w, y, b)
      <3>1. 1 + (IF b THEN 2 * x.w ELSE x.w) + y.w + y.v \in Nat  BY <1>v
      <3> QED  BY <2>2, <3>1, <1>14 DEF ReadsClose
    <2> QED  BY <1>17, <2>1, <2>2
  <1>18. CASE EndsPacket
    <2>1. pc = "frames" /\ Consumes(end) /\ out' = out  BY <1>18 DEF EndsPacket
    <2>2. out' \in Seq([kind : {"initial", "other", "unknown"}, framed : BOOLEAN])
      BY <2>1 DEF WalkInv, WalkTypeOK
    <2>3. \A i \in 1..Len(out') : out'[i].kind = "other" \/ out'[i].framed
      BY <2>1 DEF WalkInv, ReadSoFar
    <2> QED  BY <2>1, <2>2, <2>3, <1>t, ConsumesOK
  <1>19. CASE UNCHANGED walkVars
    BY <1>19 DEF walkVars, WalkInv, WalkTypeOK, InBounds, Offsets, ReadSoFar, InitialsRead
  <1> QED
    BY <1>1, <1>2, <1>3, <1>4, <1>5, <1>6, <1>7, <1>8, <1>9, <1>10, <1>11, <1>12, <1>13, <1>15,
       <1>16, <1>17, <1>18, <1>19 DEF QuicNext

\* For datagrams of every size and every length they claim: the walk stays inside
\* the datagram, and its result says which Initials were read.
THEOREM WalkStaysInside == QuicSpec => [](InBounds /\ InitialsRead)
  <1>1. WalkInv => InBounds /\ InitialsRead  BY DEF WalkInv
  <1> QED  BY WalkInitOK, WalkNextOK, <1>1, PTL DEF QuicSpec

\* Every turn of ParseDatagram's loop consumes bytes, for every datagram.
THEOREM WalkEndsAlways == QuicSpec => WalkAdvances
  <1>1. ASSUME WalkInv, [QuicNext]_walkVars
        PROVE  [(pc' = "packet" /\ pc # "packet") => left' < left]_walkVars
    <2> SUFFICES ASSUME QuicNext, pc' = "packet", pc # "packet" PROVE left' < left
      BY <1>1
    <2>t. left \in Nat /\ off \in Nat /\ end \in Nat  BY <1>1 DEF WalkInv, WalkTypeOK
    <2>v. \A x \in Varints : x.v \in Nat /\ x.w \in Nat /\ x.w > 0  BY QuicWalkAssumption
    <2>1. EndsPacket \/ \E x \in Varints : SkipsPacket(x)
      BY DEF QuicNext, WalkEnds, ReadsVersion, ReadsDcid, ReadsScid, UnknownVersion, TooLongID,
         MeetsRetry, MeetsInitial, ReadsToken, ReadsLength, Unprotects, UnprotectFails,
         ReadsByte, ReadsCrypto, SkipsAck, ReadsClose, Reads, Breaks, Fails, Goto
    <2>2. CASE EndsPacket
      <3>1. 0 < end  BY <2>2, <1>1 DEF EndsPacket, WalkInv, Offsets
      <3> QED  BY <2>2, <2>t, <3>1 DEF EndsPacket, Consumes
    <2>3. ASSUME NEW x \in Varints, SkipsPacket(x) PROVE left' < left
      <3>1. Consumes(off + x.w + x.v)  BY <2>3 DEF SkipsPacket, Breaks
      <3> QED  BY <3>1, <2>t, <2>v DEF Consumes
    <2> QED  BY <2>1, <2>2, <2>3
  <1> QED  BY <1>1, WalkInitOK, WalkNextOK, PTL DEF QuicSpec, WalkAdvances

----------------------------------------------------------------------------
(* The scan of a DNS message. *)

\* What framedLen's constants and choices are.
LEMMA DnsConstants ==
    /\ MaxQuestions \in Nat /\ MaxQuestions > 0 /\ MaxRecords \in Nat /\ MaxNameBytes \in Nat
    /\ MaxTrailing \in Nat /\ MaxEDNSOptions \in Nat
    /\ \A c \in Counts : c \in Nat
    /\ \A n \in Labels : n \in Nat /\ n > 0
    /\ \A n \in Pointers : n \in Nat
    /\ \A n \in DataLens : n \in Nat
    /\ \A n \in OptionLens : n \in Nat
  <1>0. /\ MaxQuestions \in Nat \ {0} /\ MaxRecords \in Nat /\ MaxNameBytes \in Nat
        /\ MaxTrailing \in Nat /\ MaxEDNSOptions \in Nat /\ Labels \subseteq 1..63
    BY Zenon, DnsFrameAssumption
  <1>1. MaxQuestions \in Nat /\ MaxQuestions > 0  BY <1>0
  <1>2. \A n \in Labels : n \in Nat /\ n > 0  BY <1>0
  <1>3. \A n \in OptionLens : n \in Nat  BY DnsFrameAssumption
  <1>4. ASSUME NEW S, NEW m, S \subseteq 0..m PROVE \A c \in S : c \in Nat  BY <1>4
  <1>5. /\ \A c \in Counts : c \in Nat
        /\ \A n \in Pointers : n \in Nat
        /\ \A n \in DataLens : n \in Nat
    BY <1>4, DnsFrameAssumption
  <1> QED  BY <1>0, <1>1, <1>2, <1>3, <1>5

\* Before Parse nothing is touched.
LEMMA DnsInitOK == DnsInit => DnsInv
  <1> SUFFICES ASSUME DnsInit PROVE DnsInv  OBVIOUS
  <1>1. DnsTypeOK  BY DEF DnsInit, DnsTypeOK, NoCounts, NoInfo
  <1>2. DnsInBounds /\ DnsScan
    BY DnsConstants DEF DnsInit, DnsInBounds, DnsScan, NoCounts, NoInfo
  <1> QED  BY <1>1, <1>2 DEF DnsInv

\* Parse may be called with any number of bytes.
LEMMA DnsStartsOK == ASSUME DnsInv, NEW n \in Nat, DnsStarts(n) PROVE DnsInv'
  <1>1. DnsTypeOK'  BY DEF DnsInv, DnsTypeOK, DnsStarts
  <1>2. DnsInBounds'  BY DEF DnsInv, DnsInBounds, DnsScan, DnsStarts
  <1>3. DnsScan'  BY DEF DnsInv, DnsScan, DnsStarts
  <1> QED  BY <1>1, <1>2, <1>3 DEF DnsInv

\* Parse gives up: what it touched lies in the datagram.
LEMMA NotDnsOK ==
    ASSUME DnsInv, NotDns, dnsReach' \in Nat, dnsReach' <= dnsLen PROVE DnsInv'
  <1>1. DnsTypeOK'  BY DEF DnsInv, DnsTypeOK, NotDns, NoInfo
  <1>2. DnsInBounds'  BY DEF DnsInv, DnsInBounds, NotDns
  <1>3. DnsScan'  BY DnsConstants DEF DnsInv, DnsTypeOK, DnsScan, NotDns, NoInfo
  <1> QED  BY <1>1, <1>2, <1>3 DEF DnsInv

\* Each step of Parse keeps the invariant: an offset behind the datagram is met by
\* the next bounds check before a byte is read there.
LEMMA DnsNextOK == DnsInv /\ [DnsNext]_dnsVars => DnsInv'
  <1> SUFFICES ASSUME DnsInv, [DnsNext]_dnsVars PROVE DnsInv'  OBVIOUS
  <1>t. /\ dnsLen \in Nat /\ dnsOff \in Nat /\ dnsReach \in Nat
        /\ nameStart \in Nat /\ nameTotal \in Nat /\ toRead \in Nat
        /\ announced.qd \in Nat /\ announced.an \in Nat /\ announced.ns \in Nat
        /\ announced.ar \in Nat
        /\ dnsReach <= dnsLen /\ nameTotal <= MaxNameBytes
    BY DEF DnsInv, DnsTypeOK, DnsInBounds
  <1>r. RecordsOf(announced) \in Nat  BY <1>t DEF RecordsOf
  <1>1. CASE HeaderCut
    <2>1. NotDns /\ dnsReach' \in Nat /\ dnsReach' <= dnsLen
      BY <1>1, <1>t DEF HeaderCut, DnsTouch
    <2> QED  BY <2>1, NotDnsOK
  <1>2. ASSUME NEW c \in HeaderCounts, ReadsCounts(c) PROVE DnsInv'
    <2>c. /\ c.qd \in Nat /\ c.an \in Nat /\ c.ns \in Nat /\ c.ar \in Nat
          /\ c \in [qd : Nat, an : Nat, ns : Nat, ar : Nat]
      BY DnsConstants DEF HeaderCounts
    <2>h. dnsPc = "header" /\ dnsReach' \in Nat /\ dnsReach' <= dnsLen
      BY <1>2, <1>t DEF ReadsCounts, DnsTouch
    <2>1. CASE Plausible(c)
      <3>0. /\ dnsPc' = "question" /\ dnsOff' = 12 /\ nameStart' = 12 /\ nameTotal' = 0
            /\ toRead' = c.qd /\ announced' = c /\ dnsLen' = dnsLen /\ info' = info
        BY <1>2, <2>1 DEF ReadsCounts, NameAt
      <3>1. DnsTypeOK'  BY <3>0, <2>c, <2>h DEF DnsInv, DnsTypeOK
      <3>2. DnsInBounds'  BY <3>0, <2>h, DnsConstants DEF DnsInBounds
      <3>3. DnsScan'
        BY <3>0, <2>1, <2>c, <2>h, DnsConstants DEF DnsInv, DnsScan, Plausible, Passed, NoInfo
      <3> QED  BY <3>1, <3>2, <3>3 DEF DnsInv
    <2>2. CASE ~Plausible(c)
      <3>1. NotDns  BY <1>2, <2>2 DEF ReadsCounts
      <3> QED  BY <3>1, <2>h, NotDnsOK
    <2> QED  BY <2>1, <2>2
  <1>3. CASE NameCut
    <2>1. NotDns /\ dnsReach' \in Nat /\ dnsReach' <= dnsLen
      BY <1>3, <1>t DEF NameCut, DnsTouch
    <2> QED  BY <2>1, NotDnsOK
  <1>n. ASSUME Naming, NEW o \in Nat, o > dnsOff, NameEndsAt(o),
               dnsReach' \in Nat, dnsReach' <= dnsLen
        PROVE  DnsInv'
    <2>0. /\ dnsPc \in {"question", "record"}
          /\ dnsPc' = IF dnsPc = "question" THEN "qfixed" ELSE "rfixed"
          /\ dnsOff' = o
          /\ UNCHANGED <<dnsLen, nameStart, nameTotal, toRead, announced, info>>
      BY <1>n DEF NameEndsAt, Naming, Fixed
    <2>1. DnsTypeOK'  BY <2>0, <1>n DEF DnsInv, DnsTypeOK
    <2>2. DnsInBounds'  BY <2>0, <1>n DEF DnsInv, DnsInBounds
    <2>3. DnsScan'
      <3>1. CASE dnsPc = "question"
        BY <3>1, <2>0, <1>n, <1>t DEF DnsInv, DnsScan
      <3>2. CASE dnsPc = "record"
        BY <3>2, <2>0, <1>n, <1>t, <1>r DEF DnsInv, DnsScan
      <3> QED  BY <3>1, <3>2, <2>0
    <2> QED  BY <2>1, <2>2, <2>3 DEF DnsInv
  <1>4. CASE RootLabel
    <2>1. /\ Naming /\ NameEndsAt(dnsOff + 1) /\ dnsOff + 1 \in Nat /\ dnsOff + 1 > dnsOff
          /\ dnsReach' \in Nat /\ dnsReach' <= dnsLen
      BY <1>4, <1>t DEF RootLabel, DnsTouch
    <2> QED  BY <2>1, <1>n
  <1>5. CASE ReservedLabel
    <2>1. NotDns /\ dnsReach' \in Nat /\ dnsReach' <= dnsLen
      BY <1>5, <1>t DEF ReservedLabel, DnsTouch
    <2> QED  BY <2>1, NotDnsOK
  <1>6. ASSUME NEW ptr \in Pointers, Pointer(ptr) PROVE DnsInv'
    <2>1. Naming /\ dnsReach' \in Nat /\ dnsReach' <= dnsLen
      BY <1>6, <1>t DEF Pointer, DnsTouch
    <2>2. CASE PointsBack(ptr)
      <3>1. NameEndsAt(dnsOff + 2) /\ dnsOff + 2 \in Nat /\ dnsOff + 2 > dnsOff
        BY <1>6, <2>2, <1>t DEF Pointer
      <3> QED  BY <3>1, <2>1, <1>n
    <2>3. CASE ~PointsBack(ptr)
      <3>1. NotDns  BY <1>6, <2>3 DEF Pointer
      <3> QED  BY <3>1, <2>1, NotDnsOK
    <2> QED  BY <2>2, <2>3
  <1>7. ASSUME NEW n \in Labels, Label(n) PROVE DnsInv'
    <2>1. Naming /\ dnsReach' \in Nat /\ dnsReach' <= dnsLen
      BY <1>7, <1>t DEF Label, DnsTouch
    <2>n. n \in Nat /\ n > 0  BY DnsConstants
    <2>2. CASE nameTotal + n + 1 <= MaxNameBytes
      <3>0. /\ dnsOff' = dnsOff + 1 + n /\ nameTotal' = nameTotal + n + 1
            /\ UNCHANGED <<dnsPc, dnsLen, nameStart, toRead, announced, info>>
        BY <1>7, <2>2 DEF Label
      <3>1. DnsTypeOK'  BY <3>0, <2>1, <2>n, <1>t DEF DnsInv, DnsTypeOK
      <3>2. DnsInBounds'  BY <3>0, <2>1, <2>2 DEF DnsInBounds
      <3>p. dnsPc \in {"question", "record"}  BY <2>1 DEF Naming
      <3>3. DnsScan'  BY <3>0, <3>p, <2>n, <1>t, <1>r DEF DnsInv, DnsScan
      <3> QED  BY <3>1, <3>2, <3>3 DEF DnsInv
    <2>3. CASE ~(nameTotal + n + 1 <= MaxNameBytes)
      <3>1. NotDns  BY <1>7, <2>3 DEF Label
      <3> QED  BY <3>1, <2>1, NotDnsOK
    <2> QED  BY <2>2, <2>3
  <1>p. ASSUME DnsInv, dnsReach' \in Nat, dnsReach' <= dnsLen,
               NEW p \in {"question", "record", "padding"}, NEW o \in Nat, NEW n \in Nat,
               dnsPc \notin {"none", "header", "not"},
               NameAt(p, o, n), UNCHANGED <<dnsLen, announced, info>>,
               p = "question" => n \in 1..announced.qd /\ o >= Passed(announced.qd - n, 0),
               p = "record" =>
                  /\ n \in 1..RecordsOf(announced)
                  /\ o >= Passed(announced.qd, RecordsOf(announced) - n),
               p = "padding" =>
                  o >= Passed(announced.qd, RecordsOf(announced)) /\ o <= dnsLen
        PROVE  DnsInv'
    <2>0. /\ dnsPc' = p /\ dnsOff' = o /\ nameStart' = o /\ nameTotal' = 0 /\ toRead' = n
      BY <1>p DEF NameAt
    <2>1. DnsTypeOK'  BY <2>0, <1>p DEF DnsInv, DnsTypeOK
    <2>2. DnsInBounds'  BY <2>0, <1>p, DnsConstants DEF DnsInBounds
    <2>3. DnsScan'  BY <2>0, <1>p DEF DnsInv, DnsScan
    <2> QED  BY <2>1, <2>2, <2>3 DEF DnsInv
  <1>8. CASE SkipsQuestion
    <2>1. dnsPc = "qfixed" /\ dnsReach' \in Nat /\ dnsReach' <= dnsLen
      BY <1>8, <1>t DEF SkipsQuestion, DnsTouch
    <2>2. CASE dnsOff + 4 <= dnsLen
      <3>0. AfterQuestion(dnsOff + 4) /\ UNCHANGED <<dnsLen, announced, info>>
        BY <1>8, <2>2 DEF SkipsQuestion
      <3>s. /\ toRead \in 1..announced.qd /\ nameStart >= Passed(announced.qd - toRead, 0)
            /\ dnsOff >= nameStart + 1
        BY <2>1 DEF DnsInv, DnsScan
      <3>1. CASE toRead > 1
        <4>1. NameAt("question", dnsOff + 4, toRead - 1)  BY <3>0, <3>1 DEF AfterQuestion
        <4>2. toRead - 1 \in 1..announced.qd /\ dnsOff + 4 >= Passed(announced.qd - (toRead - 1), 0)
          BY <3>1, <3>s, <1>t DEF Passed
        <4>3. dnsOff + 4 \in Nat /\ toRead - 1 \in Nat  BY <3>1, <1>t
        <4> QED  BY <4>1, <4>2, <4>3, <3>0, <2>1, <1>p
      <3>2. CASE ~(toRead > 1)
        <4>t. toRead = 1  BY <3>2, <3>s, <1>t
        <4>p. dnsOff + 4 >= Passed(announced.qd, 0)  BY <4>t, <3>s, <1>t DEF Passed
        <4>1. CASE RecordsOf(announced) > 0
          <5>1. NameAt("record", dnsOff + 4, RecordsOf(announced))
            BY <3>0, <3>2, <4>1 DEF AfterQuestion
          <5>2. /\ RecordsOf(announced) \in 1..RecordsOf(announced)
                /\ dnsOff + 4 >= Passed(announced.qd, RecordsOf(announced) - RecordsOf(announced))
            BY <4>1, <4>p, <1>r
          <5>3. dnsOff + 4 \in Nat  BY <1>t
          <5> QED  BY <5>1, <5>2, <5>3, <3>0, <2>1, <1>r, <1>p
        <4>2. CASE ~(RecordsOf(announced) > 0)
          <5>1. NameAt("padding", dnsOff + 4, 0)  BY <3>0, <3>2, <4>2 DEF AfterQuestion
          <5>2. RecordsOf(announced) = 0  BY <4>2, <1>r
          <5>3. dnsOff + 4 \in Nat  BY <1>t
          <5> QED  BY <5>1, <5>2, <5>3, <4>p, <3>0, <2>1, <2>2, <1>p
        <4> QED  BY <4>1, <4>2
      <3> QED  BY <3>1, <3>2
    <2>3. CASE ~(dnsOff + 4 <= dnsLen)
      <3>1. NotDns  BY <1>8, <2>3 DEF SkipsQuestion
      <3> QED  BY <3>1, <2>1, NotDnsOK
    <2> QED  BY <2>2, <2>3
  <1>9. ASSUME NEW n \in DataLens, SkipsRecord(n) PROVE DnsInv'
    <2>1. dnsPc = "rfixed" /\ dnsReach' \in Nat /\ dnsReach' <= dnsLen
      BY <1>9, <1>t DEF SkipsRecord, DnsTouch
    <2>n. n \in Nat  BY DnsConstants
    <2>2. CASE RecordFits(n)
      <3>0. AfterRecord(dnsOff + 10 + n) /\ UNCHANGED <<dnsLen, announced, info>>
        BY <1>9, <2>2 DEF SkipsRecord
      <3>s. /\ toRead \in 1..RecordsOf(announced)
            /\ nameStart >= Passed(announced.qd, RecordsOf(announced) - toRead)
            /\ dnsOff >= nameStart + 1
        BY <2>1 DEF DnsInv, DnsScan
      <3>3. dnsOff + 10 + n \in Nat /\ dnsOff + 10 + n <= dnsLen
        BY <2>2, <2>n, <1>t DEF RecordFits
      <3>1. CASE toRead > 1
        <4>1. NameAt("record", dnsOff + 10 + n, toRead - 1)  BY <3>0, <3>1 DEF AfterRecord
        <4>2. /\ toRead - 1 \in 1..RecordsOf(announced)
              /\ dnsOff + 10 + n >= Passed(announced.qd, RecordsOf(announced) - (toRead - 1))
          BY <3>1, <3>s, <2>n, <1>t, <1>r DEF Passed
        <4>3. toRead - 1 \in Nat  BY <3>1, <1>t
        <4> QED  BY <4>1, <4>2, <4>3, <3>3, <3>0, <2>1, <1>p
      <3>2. CASE ~(toRead > 1)
        <4>t. toRead = 1  BY <3>2, <3>s, <1>t
        <4>1. NameAt("padding", dnsOff + 10 + n, 0)  BY <3>0, <3>2 DEF AfterRecord
        <4>2. dnsOff + 10 + n >= Passed(announced.qd, RecordsOf(announced))
          BY <4>t, <3>s, <2>n, <1>t, <1>r DEF Passed
        <4> QED  BY <4>1, <4>2, <3>3, <3>0, <2>1, <1>p
      <3> QED  BY <3>1, <3>2
    <2>3. CASE ~RecordFits(n)
      <3>1. NotDns  BY <1>9, <2>3 DEF SkipsRecord
      <3> QED  BY <3>1, <2>1, NotDnsOK
    <2> QED  BY <2>2, <2>3
  <1>10. CASE Padded
    <2>0. /\ dnsPc = "padding" /\ dnsPc' = "parse" /\ dnsLen - dnsOff <= MaxTrailing
          /\ info' = [info EXCEPT !.trailing = dnsLen - dnsOff]
          /\ UNCHANGED <<dnsLen, dnsOff, nameStart, nameTotal, toRead, announced>>
      BY <1>10 DEF Padded
    <2>1. /\ dnsOff >= Passed(announced.qd, RecordsOf(announced)) /\ dnsOff <= dnsLen
      BY <2>0 DEF DnsInv, DnsScan
    <2>2. dnsReach' \in Nat /\ dnsReach' <= dnsLen  BY <1>10, <2>1, <1>t DEF Padded, DnsTouch
    <2>3. dnsLen - dnsOff \in Nat  BY <2>1, <1>t
    <2>4. DnsTypeOK'  BY <2>0, <2>2, <2>3 DEF DnsInv, DnsTypeOK
    <2>5. DnsInBounds'  BY <2>0, <2>2, <1>t DEF DnsInBounds
    <2>i. /\ info'.trailing = dnsLen - dnsOff /\ info'.answers = info.answers
          /\ info'.authority = info.authority /\ info'.additional = info.additional
          /\ info'.options = info.options
      BY <2>0 DEF DnsInv, DnsTypeOK
    <2>6. Passed(announced.qd, RecordsOf(announced)) + info'.trailing <= dnsLen
      BY <2>i, <2>1, <1>t, <1>r DEF Passed
    <2>7. DnsScan'  BY <2>0, <2>1, <2>i, <2>6 DEF DnsInv, DnsScan
    <2> QED  BY <2>4, <2>5, <2>7 DEF DnsInv
  <1>11. CASE NotPadded
    <2>1. NotDns /\ dnsReach' \in Nat /\ dnsReach' <= dnsLen
      BY <1>11, <1>t DEF NotPadded, DnsTouch
    <2> QED  BY <2>1, NotDnsOK
  <1>12. CASE Undecoded
    <2>1. NotDns /\ dnsReach' \in Nat /\ dnsReach' <= dnsLen
      BY <1>12, <1>t DEF Undecoded, DnsTouch
    <2> QED  BY <2>1, NotDnsOK
  <1>s. ASSUME NEW p \in {"answers", "authority", "additional", "ok"}, NEW i,
               dnsPc \in {"parse", "answers", "authority", "additional"}, Section(p, i),
               i \in [questions : Nat, answers : Nat, authority : Nat, additional : Nat,
                      options : Nat, edns : BOOLEAN, netbios : BOOLEAN, trailing : Nat],
               i.questions = announced.qd, i.trailing = info.trailing,
               i.answers <= announced.an, i.authority <= announced.ns,
               i.additional <= announced.ar, i.options <= MaxEDNSOptions
        PROVE  DnsInv'
    <2>0. /\ dnsPc' = p /\ info' = i
          /\ UNCHANGED <<dnsLen, dnsOff, nameStart, nameTotal, toRead, announced>>
      BY <1>s DEF Section
    <2>1. dnsReach' \in Nat /\ dnsReach' <= dnsLen  BY <1>s, <1>t DEF Section, DnsTouch
    <2>2. DnsTypeOK'  BY <2>0, <2>1, <1>s DEF DnsInv, DnsTypeOK
    <2>3. DnsInBounds'  BY <2>0, <2>1, <1>t DEF DnsInBounds
    <2>4. DnsScan'  BY <2>0, <1>s DEF DnsInv, DnsScan
    <2> QED  BY <2>2, <2>3, <2>4 DEF DnsInv
  <1>i. /\ info \in [questions : Nat, answers : Nat, authority : Nat, additional : Nat,
                     options : Nat, edns : BOOLEAN, netbios : BOOLEAN, trailing : Nat]
        /\ info.answers <= announced.an /\ info.authority <= announced.ns
        /\ info.additional <= announced.ar /\ info.options <= MaxEDNSOptions
        /\ dnsPc \in {"answers", "authority", "additional"} => info.questions = announced.qd
        /\ dnsPc = "parse" => announced.qd \in 1..MaxQuestions
    BY DEF DnsInv, DnsTypeOK, DnsScan
  <1>13. ASSUME NEW nb \in BOOLEAN, Questions(nb) PROVE DnsInv'
    <2> DEFINE q == IF announced.qd > MaxQuestions THEN MaxQuestions ELSE announced.qd
               i == [info EXCEPT !.questions = q, !.netbios = nb]
    <2>1. dnsPc = "parse" /\ Section("answers", i)  BY <1>13 DEF Questions
    <2>2. q = announced.qd  BY <2>1, <1>i, <1>t, DnsConstants
    <2> HIDE DEF q
    <2>3. /\ i \in [questions : Nat, answers : Nat, authority : Nat, additional : Nat,
                    options : Nat, edns : BOOLEAN, netbios : BOOLEAN, trailing : Nat]
          /\ i.questions = announced.qd /\ i.trailing = info.trailing
          /\ i.answers = info.answers /\ i.authority = info.authority
          /\ i.additional = info.additional /\ i.options = info.options
      BY <2>2, <1>i, <1>t
    <2> HIDE DEF i
    <2> QED  BY <2>1, <2>3, <1>i, <1>s
  <1>14. CASE CountsAnswers
    <2> DEFINE i == [info EXCEPT !.answers = announced.an]
    <2>1. dnsPc = "answers" /\ Section("authority", i)  BY <1>14 DEF CountsAnswers
    <2>3. /\ i \in [questions : Nat, answers : Nat, authority : Nat, additional : Nat,
                    options : Nat, edns : BOOLEAN, netbios : BOOLEAN, trailing : Nat]
          /\ i.questions = info.questions /\ i.trailing = info.trailing
          /\ i.answers = announced.an /\ i.authority = info.authority
          /\ i.additional = info.additional /\ i.options = info.options
      BY <1>i, <1>t
    <2> HIDE DEF i
    <2> QED  BY <2>1, <2>3, <1>i, <1>t, <1>s
  <1>15. CASE CountsAuthority
    <2> DEFINE i == [info EXCEPT !.authority = announced.ns]
    <2>1. dnsPc = "authority" /\ Section("additional", i)  BY <1>15 DEF CountsAuthority
    <2>3. /\ i \in [questions : Nat, answers : Nat, authority : Nat, additional : Nat,
                    options : Nat, edns : BOOLEAN, netbios : BOOLEAN, trailing : Nat]
          /\ i.questions = info.questions /\ i.trailing = info.trailing
          /\ i.answers = info.answers /\ i.authority = announced.ns
          /\ i.additional = info.additional /\ i.options = info.options
      BY <1>i, <1>t
    <2> HIDE DEF i
    <2> QED  BY <2>1, <2>3, <1>i, <1>t, <1>s
  <1>16. CASE SectionFails
    <2>1. dnsPc \in {"answers", "authority"} /\ Section("ok", info)  BY <1>16 DEF SectionFails
    <2> QED  BY <2>1, <1>i, <1>s
  <1>17. ASSUME NEW opt \in BOOLEAN, NEW ok \in BOOLEAN, NEW n \in OptionLens,
                CountsAdditional(opt, n, ok)
         PROVE  DnsInv'
    <2>n. n \in Nat  BY DnsConstants
    <2>k. KeepsOptions(n) \in Nat /\ KeepsOptions(n) <= MaxEDNSOptions
      BY <2>n, <1>i, DnsConstants DEF KeepsOptions
    <2> DEFINE e == info.edns \/ opt
               o == IF opt /\ ok THEN KeepsOptions(n) ELSE info.options
               i == [info EXCEPT !.additional = info.additional + 1, !.edns = e, !.options = o]
               p == IF ok THEN "additional" ELSE "ok"
    <2>1. dnsPc = "additional" /\ Section(p, i) /\ info.additional < announced.ar
      BY <1>17 DEF CountsAdditional
    <2>b. e \in BOOLEAN  BY Zenon
    <2>o. o \in Nat /\ o <= MaxEDNSOptions  BY <2>k, <1>i
    <2>p. p \in {"answers", "authority", "additional", "ok"}  OBVIOUS
    <2>f. PICK f \in BOOLEAN : f = e  BY Zenon, <2>b
    <2>m. PICK m \in Nat : m = o  BY Zenon, <2>o
    <2>a. PICK a \in Nat : a = info.additional + 1  BY <1>i
    <2>j. i = [info EXCEPT !.additional = a, !.edns = f, !.options = m]
      BY Zenon, <2>f, <2>m, <2>a
    <2> HIDE DEF e, o, p, i
    <2>3. /\ i \in [questions : Nat, answers : Nat, authority : Nat, additional : Nat,
                    options : Nat, edns : BOOLEAN, netbios : BOOLEAN, trailing : Nat]
          /\ i.questions = info.questions /\ i.trailing = info.trailing
          /\ i.answers = info.answers /\ i.authority = info.authority
          /\ i.additional = a /\ i.options = m
      BY <1>i, <2>j
    <2>4. i.additional <= announced.ar /\ i.options <= MaxEDNSOptions
      BY <2>1, <2>3, <2>a, <2>m, <2>o, <1>i, <1>t
    <2> QED  BY <2>1, <2>3, <2>4, <2>p, <1>i, <1>s
  <1>18. CASE AdditionalEnds
    <2>1. dnsPc = "additional" /\ Section("ok", info)  BY <1>18 DEF AdditionalEnds
    <2> QED  BY <2>1, <1>i, <1>s
  <1>19. CASE UNCHANGED dnsVars
    <2>1. DnsTypeOK' /\ DnsInBounds'  BY <1>19 DEF dnsVars, DnsInv, DnsTypeOK, DnsInBounds
    <2>2. DnsScan'  BY <1>19 DEF dnsVars, DnsInv, DnsScan
    <2> QED  BY <2>1, <2>2 DEF DnsInv
  <1> QED
    BY <1>1, <1>2, <1>3, <1>4, <1>5, <1>6, <1>7, <1>8, <1>9, <1>10, <1>11, <1>12, <1>13, <1>14,
       <1>15, <1>16, <1>17, <1>18, <1>19 DEF DnsNext

\* What Parse reports, the datagram holds.
LEMMA InfoIsThereOK == DnsInv => InfoIsThere
  <1> SUFFICES ASSUME DnsInv, dnsPc = "ok" PROVE InfoIsThere  BY DEF InfoIsThere
  <1>1. /\ announced.qd \in 1..MaxQuestions /\ info.questions = announced.qd
        /\ Passed(announced.qd, RecordsOf(announced)) + info.trailing <= dnsLen
        /\ info.trailing <= MaxTrailing /\ info.options <= MaxEDNSOptions
        /\ info.answers <= announced.an /\ info.authority <= announced.ns
        /\ info.additional <= announced.ar
    BY DEF DnsInv, DnsScan
  <1>2. /\ dnsLen \in Nat /\ announced.qd \in Nat /\ announced.an \in Nat
        /\ announced.ns \in Nat /\ announced.ar \in Nat
        /\ info.answers \in Nat /\ info.authority \in Nat /\ info.additional \in Nat
        /\ info.trailing \in Nat
    BY DEF DnsInv, DnsTypeOK
  <1>3. 12 + 5 * info.questions + 11 * (info.answers + info.authority + info.additional)
          + info.trailing <= dnsLen
    BY <1>1, <1>2 DEF Passed, RecordsOf
  <1> QED  BY <1>1, <1>3 DEF InfoIsThere

----------------------------------------------------------------------------
(* The walk over a ClientHello. *)

\* What the lengths a hello may claim are.
LEMMA HelloConstants ==
    /\ MaxHello \in Nat /\ MaxParams \in Nat
    /\ \A n \in FieldLens : n \in Nat
    /\ \A n \in BlockLens : n \in Nat
    /\ \A n \in ExtLens : n \in Nat
    /\ \A p \in ParamForms : p.id \in Nat /\ p.len \in Nat /\ p.idw \in Nat /\ p.lnw \in Nat
  <1>1. /\ MaxHello \in Nat /\ MaxParams \in Nat /\ FieldLens \subseteq Nat /\ BlockLens \subseteq Nat
    BY Zenon, HelloWalkAssumption
  <1>2. ASSUME NEW S, NEW m, S \subseteq 0..m PROVE \A c \in S : c \in Nat  BY <1>2
  <1>3. \A n \in ExtLens : n \in Nat  BY <1>2, HelloWalkAssumption
  <1>4. \A p \in ParamForms : p.id \in Nat /\ p.len \in Nat /\ {p.idw, p.lnw} \subseteq {1, 2, 4, 8}
    BY Zenon, HelloWalkAssumption
  <1> QED  BY <1>1, <1>3, <1>4

\* Before ParseHello nothing is kept.
LEMMA HelloInitOK == HelloInit => HelloInv
  <1> SUFFICES ASSUME HelloInit PROVE HelloInv  OBVIOUS
  <1>s. params \in Seq(KeptParams)  BY DEF HelloInit
  <1>b. serverName \in BOOLEAN  BY Zenon DEF HelloInit
  <1>1. HelloTypeOK  BY <1>b DEF HelloInit, HelloTypeOK
  <1>2. HelloInBounds /\ HelloOffsets
    BY <1>s, HelloConstants DEF HelloInit, HelloInBounds, HelloOffsets
  <1> QED  BY <1>1, <1>2 DEF HelloInv

\* ParseHello may be called for what an attempt holds, however little.
LEMMA HelloStartsOK == ASSUME HelloInv, NEW n \in Nat, HelloStarts(n) PROVE HelloInv'
  <1>0. /\ helloPc = "none" /\ helloPc' \in {"not", "fingerprint"} /\ helloLen' \in Nat
        /\ UNCHANGED <<helloOff, helloEnd, helloReach, exts, serverName, params>>
    BY DEF HelloStarts
  <1>1. helloReach = 0 /\ helloEnd = 0 /\ DOMAIN exts = {} /\ params = <<>>
    BY <1>0 DEF HelloInv, HelloOffsets
  <1>2. HelloTypeOK'  BY <1>0 DEF HelloInv, HelloTypeOK
  <1>3. HelloInBounds' /\ HelloOffsets'
    BY <1>0, <1>1, HelloConstants DEF HelloInv, HelloInBounds, HelloOffsets
  <1> QED  BY <1>2, <1>3 DEF HelloInv

\* A step that keeps no extension and no parameter needs only its offsets right.
LEMMA HelloGoesOn ==
    ASSUME HelloInv, helloPc # "none",
           helloPc' \in {"session", "ciphers", "compression", "extensions", "extension",
                         "name", "transport", "param", "ok", "not"},
           helloLen' = helloLen, helloOff' \in Nat, helloEnd' \in Nat, helloEnd' <= helloLen,
           helloReach' \in Nat, helloReach' <= helloLen, serverName' \in BOOLEAN,
           exts' = exts \/ DOMAIN exts' = {}, params' = params \/ params' = <<>>
    PROVE  HelloInv'
  <1>e. /\ DOMAIN exts' \subseteq ExtKinds
        /\ \A k \in DOMAIN exts' : exts'[k] \in [at : Nat, len : Nat]
        /\ \A k \in DOMAIN exts' : exts'[k].at + exts'[k].len <= helloLen
    BY DEF HelloInv, HelloTypeOK, HelloInBounds
  <1>p. /\ params' \in Seq(KeptParams) /\ Len(params') <= MaxParams
        /\ \A i \in 1..Len(params') : params'[i].id \in Nat /\ params'[i].len \in Nat
    <2>1. CASE params' = params
      BY <2>1 DEF HelloInv, HelloTypeOK, HelloInBounds, HelloOffsets
    <2>2. CASE params' = <<>>  BY <2>2, HelloConstants
    <2> QED  BY <2>1, <2>2
  <1>1. HelloTypeOK'  BY <1>e, <1>p DEF HelloInv, HelloTypeOK
  <1>2. HelloInBounds' /\ HelloOffsets'
    BY <1>e, <1>p DEF HelloInBounds, HelloOffsets
  <1> QED  BY <1>1, <1>2 DEF HelloInv

\* Each step of ParseHello keeps the invariant.
LEMMA HelloNextOK == HelloInv /\ [HelloNext]_helloVars => HelloInv'
  <1> SUFFICES ASSUME HelloInv, [HelloNext]_helloVars PROVE HelloInv'  OBVIOUS
  <1>t. /\ helloLen \in Nat /\ helloOff \in Nat /\ helloEnd \in Nat /\ helloReach \in Nat
        /\ helloReach <= helloLen /\ helloEnd <= helloLen
    BY DEF HelloInv, HelloTypeOK, HelloInBounds, HelloOffsets
  <1>b. serverName \in BOOLEAN  BY DEF HelloInv, HelloTypeOK
  <1>e. \A k \in DOMAIN exts : /\ exts[k].at \in Nat /\ exts[k].len \in Nat
                               /\ exts[k].at + exts[k].len <= helloLen
    BY DEF HelloInv, HelloTypeOK, HelloInBounds
  <1>c. ASSUME CutShort, helloReach' \in Nat, helloReach' <= helloLen, helloPc # "none"
        PROVE  HelloInv'
    <2>1. /\ DOMAIN exts' = {} /\ helloPc' = "ok"
          /\ UNCHANGED <<helloLen, helloOff, helloEnd, serverName, params>>
      BY <1>c DEF CutShort
    <2> QED  BY <2>1, <1>c, <1>t, <1>b, HelloGoesOn
  <1>1. CASE Unfingerprinted
    <2>1. /\ helloPc # "none" /\ helloPc' = "not" /\ helloLen' = helloLen /\ helloOff' = 0
          /\ helloReach' = helloReach /\ UNCHANGED <<helloEnd, exts, serverName, params>>
      BY <1>1, <1>t DEF Unfingerprinted, HelloGoes, HelloTouch, Kept
    <2> QED  BY <2>1, <1>t, <1>b, HelloGoesOn
  <1>2. CASE Fingerprints
    <2>1. /\ helloPc # "none" /\ helloPc' = "session" /\ helloLen' = helloLen /\ helloOff' = 34
          /\ helloReach' = helloReach /\ UNCHANGED <<helloEnd, exts, serverName, params>>
      BY <1>2, <1>t DEF Fingerprints, HelloGoes, HelloTouch, Kept
    <2> QED  BY <2>1, <1>t, <1>b, HelloGoesOn
  <1>3. ASSUME NEW n \in FieldLens, ReadsField(n) PROVE HelloInv'
    <2>n. n \in Nat  BY HelloConstants
    <2>p. helloPc \in {"session", "ciphers", "compression"}  BY <1>3 DEF ReadsField
    <2>w. Width(helloPc) \in Nat /\ After(helloPc) \in {"ciphers", "compression", "extensions"}
      BY <2>p DEF Width, After
    <2>1. CASE helloLen >= helloOff + Width(helloPc)
      <3>1. /\ helloPc' = After(helloPc) /\ helloOff' = helloOff + Width(helloPc) + n
            /\ helloReach' \in Nat /\ helloReach' <= helloLen
            /\ UNCHANGED <<helloLen, helloEnd, exts, serverName, params>>
        BY <1>3, <2>1, <2>w, <1>t DEF ReadsField, HelloTouch, HelloGoes, Kept
      <3>2. helloOff' \in Nat  BY <3>1, <2>n, <2>w, <1>t
      <3> QED  BY <3>1, <3>2, <2>p, <2>w, <1>t, <1>b, HelloGoesOn
    <2>2. CASE ~(helloLen >= helloOff + Width(helloPc))
      <3>1. CutShort /\ helloReach' \in Nat /\ helloReach' <= helloLen
        BY <1>3, <2>2, <1>t DEF ReadsField, HelloTouch
      <3> QED  BY <3>1, <2>p, <1>c
    <2> QED  BY <2>1, <2>2
  <1>4. ASSUME NEW n \in BlockLens, ReadsExtensions(n) PROVE HelloInv'
    <2>n. n \in Nat  BY HelloConstants
    <2>p. helloPc = "extensions"  BY <1>4 DEF ReadsExtensions
    <2>r. helloReach' \in Nat /\ helloReach' <= helloLen
      BY <1>4, <1>t DEF ReadsExtensions, HelloTouch
    <2>1. CASE helloLen >= helloOff + 2 /\ ExtensionsFit(n)
      <3>1. /\ helloPc' = "extension" /\ helloOff' = helloOff + 2 /\ helloEnd' = helloOff + 2 + n
            /\ UNCHANGED <<helloLen, exts, serverName, params>>
        BY <1>4, <2>1 DEF ReadsExtensions, HelloGoes
      <3>2. helloOff' \in Nat /\ helloEnd' \in Nat /\ helloEnd' <= helloLen
        BY <3>1, <2>1, <2>n, <1>t DEF ExtensionsFit
      <3> QED  BY <3>1, <3>2, <2>p, <2>r, <1>b, HelloGoesOn
    <2>2. CASE ~(helloLen >= helloOff + 2 /\ ExtensionsFit(n))
      <3>1. CutShort  BY <1>4, <2>2 DEF ReadsExtensions
      <3> QED  BY <3>1, <2>p, <2>r, <1>c
    <2> QED  BY <2>1, <2>2
  <1>5. ASSUME NEW n \in ExtLens, NEW k \in ExtKinds, ReadsExtension(k, n) PROVE HelloInv'
    <2>n. n \in Nat  BY HelloConstants
    <2>p. helloPc = "extension" /\ helloReach' \in Nat /\ helloReach' <= helloLen
      BY <1>5, <1>t DEF ReadsExtension, HelloTouch
    <2>1. CASE helloOff + 4 + n <= helloEnd
      <3>1. /\ helloPc' = "extension" /\ helloOff' = helloOff + 4 + n
            /\ exts' = Keep(k, helloOff + 4, n)
            /\ UNCHANGED <<helloLen, helloEnd, serverName, params>>
        BY <1>5, <2>1 DEF ReadsExtension, HelloGoes
      <3>o. helloOff' \in Nat /\ helloOff + 4 \in Nat  BY <3>1, <2>n, <1>t
      <3>2. CASE k \in DOMAIN exts
        <4>1. exts' = exts  BY <3>1, <3>2 DEF Keep
        <4> QED  BY <4>1, <3>1, <3>o, <2>p, <1>t, <1>b, HelloGoesOn
      <3>3. CASE k \notin DOMAIN exts
        <4> DEFINE ext == [at |-> helloOff + 4, len |-> n]
        <4>1. exts' = [j \in DOMAIN exts \cup {k} |-> IF j = k THEN ext ELSE exts[j]]
          BY <3>1, <3>3 DEF Keep
        <4>x. ext \in [at : Nat, len : Nat] /\ ext.at + ext.len <= helloLen
          BY <3>o, <2>n, <2>1, <1>t
        <4> HIDE DEF ext
        <4>2. DOMAIN exts' = DOMAIN exts \cup {k}  BY <4>1
        <4>3. \A j \in DOMAIN exts' : exts'[j] = ext \/ (j \in DOMAIN exts /\ exts'[j] = exts[j])
          BY <4>1
        <4>4. /\ DOMAIN exts' \subseteq ExtKinds
              /\ \A j \in DOMAIN exts' : exts'[j] \in [at : Nat, len : Nat]
          BY <4>2, <4>3, <4>x DEF HelloInv, HelloTypeOK
        <4>5. \A j \in DOMAIN exts' : exts'[j].at + exts'[j].len <= helloLen
          BY <4>3, <4>x, <1>e
        <4>6. HelloTypeOK'
          BY <4>4, <3>1, <3>o, <2>p, <1>t, <1>b DEF HelloInv, HelloTypeOK
        <4>7. HelloInBounds'  BY <4>5, <3>1, <2>p DEF HelloInv, HelloInBounds
        <4>8. HelloOffsets'  BY <3>1 DEF HelloInv, HelloOffsets
        <4> QED  BY <4>6, <4>7, <4>8 DEF HelloInv
      <3> QED  BY <3>2, <3>3
    <2>2. CASE ~(helloOff + 4 + n <= helloEnd)
      <3>1. CutShort  BY <1>5, <2>2 DEF ReadsExtension
      <3> QED  BY <3>1, <2>p, <1>c
    <2> QED  BY <2>1, <2>2
  <1>6. CASE ExtensionsEnd
    <2>1. /\ helloPc = "extension" /\ helloReach' = helloReach
          /\ UNCHANGED <<helloLen, exts, serverName, params>>
      BY <1>6, <1>t DEF ExtensionsEnd, HelloTouch
    <2>2. CASE "sni" \in DOMAIN exts /\ exts["sni"].len >= 2
      <3>1. /\ helloPc' = "name" /\ helloOff' = exts["sni"].at + 2
            /\ helloEnd' = exts["sni"].at + exts["sni"].len
        BY <1>6, <2>2 DEF ExtensionsEnd
      <3>2. helloOff' \in Nat /\ helloEnd' \in Nat /\ helloEnd' <= helloLen
        BY <3>1, <2>2, <1>e
      <3> QED  BY <3>1, <3>2, <2>1, <1>t, <1>b, HelloGoesOn
    <2>3. CASE ~("sni" \in DOMAIN exts /\ exts["sni"].len >= 2)
      <3>1. helloPc' = "transport" /\ UNCHANGED <<helloOff, helloEnd>>
        BY <1>6, <2>3 DEF ExtensionsEnd
      <3> QED  BY <3>1, <2>1, <1>t, <1>b, HelloGoesOn
    <2> QED  BY <2>2, <2>3
  <1>7. ASSUME NEW n \in ExtLens, NEW host \in BOOLEAN, NEW printable \in BOOLEAN,
               ReadsName(host, printable, n)
        PROVE  HelloInv'
    <2>n. n \in Nat  BY HelloConstants
    <2>p. helloPc = "name" /\ helloOff + 3 <= helloEnd  BY <1>7 DEF ReadsName
    <2>1. CASE helloOff + 3 + n > helloEnd
      <3>0. ~(helloOff + 3 + n <= helloEnd)  BY <2>1, <2>n, <1>t
      <3>1. HelloTouch(helloOff + 3) /\ NamesDone(FALSE)  BY Zenon, <1>7, <2>1, <3>0 DEF ReadsName
      <3>2. /\ helloReach' \in Nat /\ helloReach' <= helloLen /\ helloPc' = "transport"
            /\ UNCHANGED <<helloLen, helloOff, helloEnd, exts, params>>
        BY <3>1, <2>p, <1>t DEF HelloTouch, NamesDone
      <3>3. serverName' \in BOOLEAN  BY Zenon, <3>1 DEF NamesDone
      <3> QED  BY <3>2, <3>3, <2>p, <1>t, HelloGoesOn
    <2>2. CASE helloOff + 3 + n <= helloEnd /\ host
      <3>0. ~(helloOff + 3 + n > helloEnd)  BY <2>2, <2>n, <1>t
      <3>1. HelloTouch(helloOff + 3 + n) /\ NamesDone(printable /\ n > 0)
        BY <1>7, <2>2, <3>0 DEF ReadsName
      <3>2. /\ helloReach' \in Nat /\ helloReach' <= helloLen /\ helloPc' = "transport"
            /\ UNCHANGED <<helloLen, helloOff, helloEnd, exts, params>>
        BY <3>1, <2>2, <2>n, <1>t DEF HelloTouch, NamesDone
      <3>3. serverName' \in BOOLEAN  BY Zenon, <3>1 DEF NamesDone
      <3> QED  BY <3>2, <3>3, <2>p, <1>t, HelloGoesOn
    <2>3. CASE helloOff + 3 + n <= helloEnd /\ ~host
      <3>0. ~(helloOff + 3 + n > helloEnd)  BY <2>3, <2>n, <1>t
      <3>1. HelloTouch(helloOff + 3) /\ HelloGoes("name", helloOff + 3 + n) /\ Kept
        BY <1>7, <2>3, <3>0 DEF ReadsName
      <3>2. /\ helloReach' \in Nat /\ helloReach' <= helloLen /\ helloPc' = "name"
            /\ helloOff' \in Nat /\ UNCHANGED <<helloLen, helloEnd, exts, serverName, params>>
        BY <3>1, <2>p, <2>n, <1>t DEF HelloTouch, HelloGoes, Kept
      <3> QED  BY <3>2, <2>p, <1>t, <1>b, HelloGoesOn
    <2> QED  BY <2>1, <2>2, <2>3, <2>n, <1>t
  <1>8. CASE NamesEnd
    <2>1. /\ helloPc = "name" /\ helloReach' = helloReach /\ helloPc' = "transport"
          /\ UNCHANGED <<helloLen, helloOff, helloEnd, exts, params>>
      BY <1>8, <1>t DEF NamesEnd, HelloTouch, NamesDone
    <2>2. serverName' \in BOOLEAN  BY Zenon, <1>8 DEF NamesEnd, NamesDone
    <2> QED  BY <2>1, <2>2, <1>t, HelloGoesOn
  <1>9. CASE TakesParams
    <2>1. /\ helloPc = "transport" /\ helloReach' = helloReach /\ helloPc' = "param"
          /\ ParamsExt \in DOMAIN exts /\ helloOff' = exts[ParamsExt].at
          /\ helloEnd' = exts[ParamsExt].at + exts[ParamsExt].len
          /\ UNCHANGED <<helloLen, exts, serverName, params>>
      BY <1>9, <1>t DEF TakesParams, HelloTouch, HelloGoes
    <2>2. helloOff' \in Nat /\ helloEnd' \in Nat /\ helloEnd' <= helloLen  BY <2>1, <1>e
    <2> QED  BY <2>1, <2>2, <1>t, <1>b, HelloGoesOn
  <1>10. CASE NoParams
    <2>1. /\ helloPc = "transport" /\ helloReach' = helloReach /\ helloPc' = "ok"
          /\ UNCHANGED <<helloLen, helloOff, helloEnd, exts, serverName, params>>
      BY <1>10, <1>t DEF NoParams, HelloTouch, Returned
    <2> QED  BY <2>1, <1>t, <1>b, HelloGoesOn
  <1>11. ASSUME NEW p \in ParamForms, ReadsParam(p) PROVE HelloInv'
    <2>n. p.id \in Nat /\ p.len \in Nat /\ p.idw \in Nat /\ p.lnw \in Nat  BY HelloConstants
    <2> DEFINE q == [id |-> p.id, val |-> p.val, len |-> p.len]
    <2>1. /\ helloPc = "param" /\ helloPc' = "param" /\ Len(params) < MaxParams /\ ParamFits(p)
          /\ helloOff' = ParamEnd(p) /\ HelloTouch(ParamEnd(p)) /\ params' = Append(params, q)
          /\ UNCHANGED <<helloLen, helloEnd, exts, serverName>>
      BY <1>11 DEF ReadsParam, HelloGoes
    <2>2. ParamEnd(p) \in Nat /\ ParamEnd(p) <= helloEnd
      <3>1. \A a, b, c \in Nat : c <= helloEnd - helloOff - a - b =>
               helloOff + a + b + c \in Nat /\ helloOff + a + b + c <= helloEnd
        BY <1>t
      <3> QED  BY Zenon, <3>1, <2>1, <2>n DEF ParamEnd, ParamFits
    <2>3. helloReach' \in Nat /\ helloReach' <= helloLen
      BY <2>1, <2>2, <1>t DEF HelloTouch
    <2>q. q \in KeptParams /\ q.id \in Nat /\ q.len \in Nat  BY <2>n DEF KeptParams
    <2> HIDE DEF q
    <2>s. params \in Seq(KeptParams)  BY DEF HelloInv, HelloOffsets
    <2>4. /\ params' \in Seq(KeptParams) /\ Len(params') = Len(params) + 1 /\ Len(params) \in Nat
          /\ \A i \in 1..Len(params) : params'[i] = params[i]
          /\ params'[Len(params) + 1] = q
      BY <2>1, <2>s, <2>q
    <2>5. \A i \in 1..Len(params') : params'[i].id \in Nat /\ params'[i].len \in Nat
      <3> SUFFICES ASSUME NEW i \in 1..Len(params')
                   PROVE  params'[i].id \in Nat /\ params'[i].len \in Nat
        OBVIOUS
      <3>1. CASE i \in 1..Len(params)  BY <3>1, <2>4 DEF HelloInv, HelloTypeOK
      <3>2. CASE i = Len(params) + 1  BY <3>2, <2>4, <2>q
      <3> QED  BY <3>1, <3>2, <2>4
    <2>6. Len(params') <= MaxParams  BY <2>1, <2>4, HelloConstants
    <2>7. HelloTypeOK'  BY <2>1, <2>2, <2>3, <2>5 DEF HelloInv, HelloTypeOK
    <2>8. HelloInBounds'  BY <2>1, <2>3, <2>6 DEF HelloInv, HelloInBounds
    <2>9. HelloOffsets'  BY <2>1, <2>4 DEF HelloInv, HelloOffsets
    <2> QED  BY <2>7, <2>8, <2>9 DEF HelloInv
  <1>12. CASE ParamsFail
    <2>1. /\ helloPc = "param" /\ helloReach' = helloReach /\ helloPc' = "ok" /\ params' = <<>>
          /\ UNCHANGED <<helloLen, helloOff, helloEnd, exts, serverName>>
      BY <1>12, <1>t DEF ParamsFail, HelloTouch
    <2> QED  BY <2>1, <1>t, <1>b, HelloGoesOn
  <1>13. CASE ParamsRead
    <2>1. /\ helloPc = "param" /\ helloReach' = helloReach /\ helloPc' = "ok"
          /\ UNCHANGED <<helloLen, helloOff, helloEnd, exts, serverName, params>>
      BY <1>13, <1>t DEF ParamsRead, HelloTouch, Returned
    <2> QED  BY <2>1, <1>t, <1>b, HelloGoesOn
  <1>14. CASE UNCHANGED helloVars
    <2>1. HelloTypeOK' /\ HelloInBounds'
      BY <1>14 DEF helloVars, HelloInv, HelloTypeOK, HelloInBounds
    <2>2. HelloOffsets'  BY <1>14 DEF helloVars, HelloInv, HelloOffsets
    <2> QED  BY <2>1, <2>2 DEF HelloInv
  <1> QED
    BY <1>1, <1>2, <1>3, <1>4, <1>5, <1>6, <1>7, <1>8, <1>9, <1>10, <1>11, <1>12, <1>13, <1>14
    DEF HelloNext

----------------------------------------------------------------------------
(* The walk over a KEXINIT. *)

\* Before Hassh nothing is touched.
LEMMA SshInitOK == SshInit => SshInv
  BY DEF SshInit, SshInv, SshTypeOK, SshInBounds, SshOffsets

\* Hassh may be called for a payload of any size.
LEMMA SshStartsOK == ASSUME SshInv, NEW n \in Nat, SshStarts(n) PROVE SshInv'
  BY DEF SshStarts, SshInv, SshTypeOK, SshInBounds, SshOffsets

\* Each step of Hassh keeps the invariant.
LEMMA SshNextOK == SshInv /\ [SshNext]_sshVars => SshInv'
  <1> SUFFICES ASSUME SshInv, [SshNext]_sshVars PROVE SshInv'  OBVIOUS
  <1>c. /\ NameLists \in Nat
        /\ \A n \in Banners : n \in Nat
        /\ \A n \in PacketLens : n \in Nat
        /\ \A n \in PadLens : n \in Nat
        /\ \A n \in ListLens : n \in Nat
    BY HasshWalkAssumption
  <1>t. /\ sshLen \in Nat /\ sshOff \in Nat /\ sshEnd \in Nat /\ sshReach \in Nat /\ lists \in Nat
        /\ sshReach <= sshLen
    BY DEF SshInv, SshTypeOK, SshInBounds
  <1>n. ASSUME NoHassh, sshReach' \in Nat, sshReach' <= sshLen PROVE SshInv'
    BY <1>n DEF NoHassh, SshInv, SshTypeOK, SshInBounds, SshOffsets
  <1>1. ASSUME NEW k \in Banners, SkipsBanner(k) PROVE SshInv'
    <2>1. k \in Nat  BY <1>c
    <2> QED
      BY <1>1, <2>1, <1>t DEF SkipsBanner, SshTouch, SshInv, SshTypeOK, SshInBounds, SshOffsets
  <1>2. CASE NoNewline
    <2>1. NoHassh /\ sshReach' \in Nat /\ sshReach' <= sshLen
      BY <1>2, <1>t DEF NoNewline, SshTouch
    <2> QED  BY <2>1, <1>n
  <1>3. ASSUME NEW n \in PacketLens, NEW pad \in PadLens, NEW kex \in BOOLEAN,
               ReadsPacket(n, pad, kex)
        PROVE  SshInv'
    <2>n. n \in Nat /\ pad \in Nat  BY <1>c
    <2>p. sshPc = "packet" /\ sshOff <= sshLen
      BY <1>3 DEF ReadsPacket, SshInv, SshOffsets
    <2>1. CASE sshOff + 5 <= sshLen /\ PacketFits(n)
      <3>f. n >= 1 /\ sshOff + 4 + n <= sshLen  BY <2>1, <2>n DEF PacketFits
      <3>1. CASE kex /\ KexInitFits(n, pad)
        <4>0. /\ SshTouch(sshOff + 6) /\ sshPc' = "lists" /\ sshOff' = sshOff + 22
              /\ sshEnd' = MessageEnd(n, pad) /\ UNCHANGED <<sshLen, lists>>
          BY <1>3, <2>1, <3>1 DEF ReadsPacket
        <4>1. /\ pad <= n - 1 /\ sshOff + 22 <= sshOff + 4 + n - pad
              /\ sshEnd' = sshOff + 4 + n - pad
          BY <4>0, <3>1, <2>n, <1>t DEF KexInitFits, HasType, MessageEnd
        <4>2. sshEnd' \in Nat /\ sshEnd' <= sshLen /\ sshOff' <= sshEnd'
          BY <4>0, <4>1, <3>f, <2>n, <1>t
        <4>3. sshReach' \in Nat /\ sshReach' <= sshLen
          BY <4>0, <4>1, <3>f, <2>n, <1>t DEF SshTouch
        <4> QED  BY <4>0, <4>2, <4>3, <1>t DEF SshInv, SshTypeOK, SshInBounds, SshOffsets
      <3>2. CASE ~(kex /\ KexInitFits(n, pad))
        <4>1. SshTouch(sshOff + (IF HasType(n, pad) THEN 6 ELSE 5)) /\ NoHassh
          BY <1>3, <2>1, <3>2 DEF ReadsPacket
        <4>2. HasType(n, pad) => sshOff + 6 <= sshLen
          BY <3>f, <2>n, <1>t DEF HasType, MessageEnd
        <4>3. sshReach' \in Nat /\ sshReach' <= sshLen
          BY <4>1, <4>2, <2>1, <1>t DEF SshTouch
        <4> QED  BY <4>1, <4>3, <1>n
      <3> QED  BY <3>1, <3>2
    <2>2. CASE ~(sshOff + 5 <= sshLen /\ PacketFits(n))
      <3>1. NoHassh /\ SshTouch(sshOff)  BY <1>3, <2>2 DEF ReadsPacket
      <3>2. sshReach' \in Nat /\ sshReach' <= sshLen  BY <3>1, <2>p, <1>t DEF SshTouch
      <3> QED  BY <3>1, <3>2, <1>n
    <2> QED  BY <2>1, <2>2
  <1>4. ASSUME NEW n \in ListLens, ReadsList(n) PROVE SshInv'
    <2>n. n \in Nat  BY <1>c
    <2>p. /\ sshPc = "lists" /\ sshOff + 4 <= sshEnd /\ sshEnd <= sshLen
      BY <1>4 DEF ReadsList, SshInv, SshInBounds
    <2>1. CASE n = 0 \/ ListFits(n)
      <3>0. /\ SshTouch(sshOff + 4 + n) /\ sshOff' = sshOff + 4 + n /\ lists' = lists + 1
            /\ UNCHANGED <<sshPc, sshLen, sshEnd>>
        BY <1>4, <2>1 DEF ReadsList
      <3>1. sshOff + 4 + n <= sshEnd  BY <2>1, <2>n, <2>p, <1>t DEF ListFits
      <3> QED
        BY <3>0, <3>1, <2>n, <2>p, <1>t DEF SshTouch, SshInv, SshTypeOK, SshInBounds, SshOffsets
    <2>2. CASE ~(n = 0 \/ ListFits(n))
      <3>1. NoHassh /\ SshTouch(sshOff + 4)  BY <1>4, <2>2 DEF ReadsList
      <3>2. sshReach' \in Nat /\ sshReach' <= sshLen  BY <3>1, <2>p, <1>t DEF SshTouch
      <3> QED  BY <3>1, <3>2, <1>n
    <2> QED  BY <2>1, <2>2
  <1>5. CASE ListsEnd
    BY <1>5, <1>t DEF ListsEnd, SshTouch, SshInv, SshTypeOK, SshInBounds, SshOffsets
  <1>6. CASE UNCHANGED sshVars
    BY <1>6 DEF sshVars, SshInv, SshTypeOK, SshInBounds, SshOffsets
  <1> QED  BY <1>1, <1>2, <1>3, <1>4, <1>5, <1>6 DEF SshNext

----------------------------------------------------------------------------
(* The document of a record. *)

\* What LogConnection copies.
LEMMA DocumentFields ==
    ASSUME NEW d
    PROVE  /\ DocumentOf(d).text = d.text /\ DocumentOf(d).dns = d.dns
           /\ DocumentOf(d).quic = d.quic /\ DocumentOf(d).tls = d.tls
           /\ DocumentOf(d).alpn = (d.tls /\ d.alpn)
           /\ DocumentOf(d).summary = KeepsSummary(d.text, d.tls /\ d.alpn)
           /\ DocumentOf(d).http = IsHTTP(d.text, d.tls /\ d.alpn)
           /\ d.protocol # "" => DocumentOf(d).protocol = d.protocol
           /\ d.protocol = "" => DocumentOf(d).protocol \in {"tls", ""}
           /\ DocumentOf(d).http => DocumentOf(d).body = BodyOf(d.text)
           /\ DocumentOf(d).headers \subseteq HeadLines(d.text)
  <1>1. /\ DocumentOf(d).text = d.text /\ DocumentOf(d).dns = d.dns
        /\ DocumentOf(d).quic = d.quic /\ DocumentOf(d).tls = d.tls
        /\ DocumentOf(d).alpn = (d.tls /\ d.alpn)
        /\ DocumentOf(d).summary = KeepsSummary(d.text, d.tls /\ d.alpn)
        /\ DocumentOf(d).http = IsHTTP(d.text, d.tls /\ d.alpn)
    BY Zenon DEF DocumentOf
  <1>2. /\ d.protocol # "" => DocumentOf(d).protocol = d.protocol
        /\ d.protocol = "" => DocumentOf(d).protocol \in {"tls", ""}
    BY DEF DocumentOf
  <1>3. DocumentOf(d).http => DocumentOf(d).body = BodyOf(d.text)
    BY Zenon DEF DocumentOf
  <1>4. DocumentOf(d).headers \subseteq HeadLines(d.text)
    BY DEF DocumentOf
  <1> QED  BY <1>1, <1>2, <1>3, <1>4

\* A line of a request lies before its first empty line or after it.
LEMMA HeadOrBody ==
    ASSUME NEW text \in Seq(Lines), HasTerminator(text)
    PROVE  /\ HeadLines(text) \cap BodyOf(text) = {}
           /\ \A i \in 2..Len(text) : text[i] # "empty" => i \in HeadLines(text) \cup BodyOf(text)
  <1> DEFINE rest == {i \in 2..Len(text) :
                        HasTerminator(text) /\ \E j \in 2..(i - 1) : text[j] = "empty"}
  <1>n. Len(text) \in Nat  OBVIOUS
  <1>1. BodyOf(text) = IF rest = {Len(text)} /\ text[Len(text)] = "empty" THEN {} ELSE rest
    BY DEF BodyOf
  <1>2. BodyOf(text) \subseteq rest  BY <1>1
  <1>3. \A i \in rest : i \notin HeadLines(text)
    BY <1>n DEF HeadLines
  <1>4. ASSUME NEW i \in 2..Len(text), text[i] # "empty", i \notin HeadLines(text)
        PROVE  i \in BodyOf(text)
    <2>1. PICK j \in 2..i : text[j] = "empty"  BY <1>4 DEF HeadLines
    <2>2. j \in 2..(i - 1)  BY <2>1, <1>4, <1>n
    <2>3. i \in rest  BY <2>1, <2>2
    <2>4. ~(rest = {Len(text)} /\ text[Len(text)] = "empty")  BY <2>3, <1>4
    <2> QED  BY <2>3, <2>4, <1>1
  <1> HIDE DEF rest
  <1> QED  BY <1>2, <1>3, <1>4

\* Whatever the text, its document keeps what readers of the log rely on.
LEMMA DocumentOK ==
    ASSUME NEW d, d.text \in Seq(Lines)
    PROVE  SummaryAsBefore(DocumentOf(d)) /\ HeadAndBodyApart(DocumentOf(d))
  <1> DEFINE e == DocumentOf(d)
             a == d.tls /\ d.alpn
  <1>f. /\ e.text = d.text /\ e.alpn = a /\ e.summary = KeepsSummary(d.text, a)
        /\ e.http = IsHTTP(d.text, a)
        /\ e.http => e.body = BodyOf(d.text)
        /\ e.headers \subseteq HeadLines(d.text)
    BY Zenon, DocumentFields
  <1> HIDE DEF e, a
  <1>l. "legacy" # "token"  OBVIOUS
  <1>1. KeepsSummary(d.text, a) <=>
           /\ d.text # <<>>
           /\ ~( /\ d.text # <<>> /\ d.text[1] = "legacy"
                 /\ \/ HasTerminator(d.text) \/ a
                    \/ \E i \in HeadLines(d.text) : d.text[i] = "host")
    BY Zenon, <1>l DEF KeepsSummary, IsHTTP, RequestLines
  <1>2. SummaryAsBefore(e)
    BY Zenon, <1>1, <1>f DEF SummaryAsBefore, KeepsSummary
  <1>3. HeadAndBodyApart(e)
    <2> SUFFICES ASSUME e.http, HasTerminator(d.text)
                 PROVE  /\ HeadLines(e.text) \cap e.body = {} /\ e.headers \subseteq HeadLines(e.text)
                        /\ \A i \in 2..Len(e.text) :
                              e.text[i] # "empty" => i \in HeadLines(e.text) \cup e.body
      BY Zenon, <1>f DEF HeadAndBodyApart
    <2>1. e.text = d.text /\ e.body = BodyOf(d.text)  BY Zenon, <1>f
    <2> QED  BY <2>1, <1>f, HeadOrBody
  <1> QED  BY <1>2, <1>3 DEF e

----------------------------------------------------------------------------
(* The way of a payload. *)

\* ParseDatagram has returned.
LEMMA QuicReturnedOK == QuicReturned => WalkInv'
  <1> SUFFICES ASSUME QuicReturned PROVE WalkInv'  OBVIOUS
  <1>o. out' \in Seq([kind : {"initial", "other", "unknown"}, framed : BOOLEAN])
    BY DEF QuicReturned
  <1>b. over' \in BOOLEAN  BY Zenon DEF QuicReturned
  <1>1. WalkTypeOK' /\ InBounds' /\ Offsets'
    BY <1>o, <1>b DEF QuicReturned, WalkTypeOK, InBounds, Offsets
  <1>2. ReadSoFar' /\ InitialsRead'  BY DEF QuicReturned, ReadSoFar, InitialsRead
  <1> QED  BY <1>1, <1>2 DEF WalkInv

\* The first record of a payload, and what it may claim.
LEMMA WritesOK ==
    ASSUME NotYet, phase # "done", NEW d, d.text \in Seq(Lines), Writes(d), held' = held,
           d.protocol \in {"dns", "netbios"} => dnsPc' = "ok" /\ InfoIsThere',
           d.dns => d.protocol = "dns" /\ ~info'.netbios,
           d.quic /\ d.tls => complete'
    PROVE  NotYet' /\ Written' /\ RecordedOnce'
  <1> DEFINE e == DocumentOf(d)
  <1>f. /\ e.dns = d.dns /\ e.quic = d.quic /\ e.tls = d.tls
        /\ d.protocol # "" => e.protocol = d.protocol
        /\ d.protocol = "" => e.protocol \in {"tls", ""}
    BY Zenon, DocumentFields
  <1>0. docs = <<>> /\ ~held /\ docs' = Append(docs, e) /\ phase' = "done"
    BY DEF NotYet, Writes
  <1> HIDE DEF e
  <1>1. docs' = <<e>>  BY <1>0
  <1>2. NotYet' /\ Written'  BY <1>0, <1>1 DEF NotYet, Written, e
  <1>n. Len(docs') = 1 /\ DOMAIN docs' = {1} /\ docs'[1] = e  BY <1>1
  <1>p. e.protocol \in {"dns", "netbios"} => d.protocol \in {"dns", "netbios"}  BY <1>f
  <1>q. d.protocol = "dns" => e.protocol = "dns"  BY <1>f
  <1>3. RecordedOnce'
    <2>1. Len(docs') = IF held' THEN 0 ELSE 1  BY <1>n, <1>0
    <2>2. /\ e.protocol \in {"dns", "netbios"} => dnsPc' = "ok" /\ InfoIsThere'
          /\ e.dns => e.protocol = "dns" /\ ~info'.netbios
          /\ e.quic /\ e.tls => complete'
      BY Zenon, <1>f, <1>p, <1>q
    <2>3. \A i \in DOMAIN docs' : docs'[i] = e  BY <1>n
    <2> QED  BY Zenon, <2>1, <2>2, <2>3 DEF RecordedOnce
  <1> QED  BY <1>2, <1>3

\* Initially there is one payload and no record of it.
LEMMA RecInitOK == Init => RecInv
  <1> SUFFICES ASSUME Init PROVE RecInv  OBVIOUS
  <1>1. WalkInv /\ DnsInv /\ HelloInv /\ SshInv
    BY WalkInitOK, DnsInitOK, HelloInitOK, SshInitOK DEF Init
  <1>2. left \in Nat  BY <1>1 DEF WalkInv, WalkTypeOK
  <1>3. size \in Nat /\ phase \in {"quic", "expired", "tcp"}
    BY <1>2, RecordAssumption DEF Init
  <1>4. complete \in BOOLEAN /\ held \in BOOLEAN /\ ~held  BY Zenon DEF Init
  <1>5. RecTypeOK  BY <1>3, <1>4 DEF RecTypeOK
  <1>6. NotYet /\ Written /\ RecordedOnce
    BY <1>3, <1>4 DEF Init, NotYet, Written, RecordedOnce
  <1> QED  BY <1>1, <1>5, <1>6 DEF RecInv

\* Each decoder takes its own steps, starts when it is called, and lets the others be.
LEMMA DecodersOK == RecInv /\ [Next]_recVars => WalkInv' /\ DnsInv' /\ HelloInv' /\ SshInv'
  <1> SUFFICES ASSUME RecInv, [Next]_recVars PROVE WalkInv' /\ DnsInv' /\ HelloInv' /\ SshInv'
    OBVIOUS
  <1> USE DEF Runs
  <1>i. WalkInv /\ DnsInv /\ HelloInv /\ SshInv  BY DEF RecInv
  <1>s. size \in Nat /\ \A n \in HelloSizes : n \in Nat
    BY RecordAssumption DEF RecInv, RecTypeOK
  <1>1. [QuicNext]_walkVars \/ QuicReturned
    BY Zenon DEF Next, recVars, WalksQuic, NotQuic, NotAProbe, OtherClassifiers, RecordsProbe,
       RecordsHeader, Holds, Completed, Expired, WalksHello, LogsAttempt, WalksDns, RecordsDns,
       RecordsRaw, RecordsTcp, StartsSsh, WalksSsh, RecordsSsh
  <1>2. [DnsNext]_dnsVars \/ DnsStarts(size)
    BY Zenon DEF Next, recVars, WalksQuic, NotQuic, NotAProbe, OtherClassifiers, RecordsProbe,
       RecordsHeader, Holds, Completed, Expired, WalksHello, LogsAttempt, WalksDns, RecordsDns,
       RecordsRaw, RecordsTcp, StartsSsh, WalksSsh, RecordsSsh
  <1>3. [HelloNext]_helloVars \/ \E n \in HelloSizes : HelloStarts(n)
    BY Zenon DEF Next, recVars, WalksQuic, NotQuic, NotAProbe, OtherClassifiers, RecordsProbe,
       RecordsHeader, Holds, Completed, Expired, WalksHello, LogsAttempt, WalksDns, RecordsDns,
       RecordsRaw, RecordsTcp, StartsSsh, WalksSsh, RecordsSsh
  <1>4. [SshNext]_sshVars \/ SshStarts(size)
    BY Zenon DEF Next, recVars, WalksQuic, NotQuic, NotAProbe, OtherClassifiers, RecordsProbe,
       RecordsHeader, Holds, Completed, Expired, WalksHello, LogsAttempt, WalksDns, RecordsDns,
       RecordsRaw, RecordsTcp, StartsSsh, WalksSsh, RecordsSsh
  <1>5. WalkInv'  BY <1>1, <1>i, WalkNextOK, QuicReturnedOK
  <1>6. DnsInv'  BY <1>2, <1>i, <1>s, DnsNextOK, DnsStartsOK
  <1>7. HelloInv'  BY <1>3, <1>i, <1>s, HelloNextOK, HelloStartsOK
  <1>8. SshInv'  BY <1>4, <1>i, <1>s, SshNextOK, SshStartsOK
  <1> QED  BY <1>5, <1>6, <1>7, <1>8

\* Each step keeps the invariant: a decoder runs, the next one starts, or the one
\* record is written.
LEMMA RecNextOK == RecInv /\ [Next]_recVars => RecInv'
  <1> SUFFICES ASSUME RecInv, [Next]_recVars PROVE RecInv'  OBVIOUS
  <1>d. WalkInv' /\ DnsInv' /\ HelloInv' /\ SshInv'  BY DecodersOK
  <1>t. /\ phase \in {"quic", "expired", "tcp", "dns", "hello", "ssh", "done"}
        /\ size \in Nat /\ complete \in BOOLEAN /\ held \in BOOLEAN
    BY DEF RecInv, RecTypeOK
  <1>y. NotYet /\ Written /\ RecordedOnce  BY DEF RecInv
  <1>o. <<"other">> \in Seq(Lines)  BY DEF Lines
  <1>x. \A t \in Texts : t \in Seq(Lines)  BY RecordAssumption
  \* A decoder runs, or the next one starts: there is still no record.
  <1>g. ASSUME phase # "done", phase' \in {"quic", "dns", "hello", "ssh"}, docs' = docs, held' = held,
               size' \in Nat, complete' \in BOOLEAN
        PROVE  RecInv'
    <2>1. RecTypeOK'  BY <1>g, <1>t DEF RecTypeOK
    <2>2. NotYet' /\ Written' /\ RecordedOnce'
      BY Zenon, <1>g, <1>y DEF NotYet, Written, RecordedOnce
    <2> QED  BY <1>d, <2>1, <2>2 DEF RecInv
  \* A record is written.
  <1>w. ASSUME phase # "done", NEW d, d.text \in Seq(Lines), Writes(d),
               UNCHANGED <<size, complete, held>>,
               d.protocol \in {"dns", "netbios"} => dnsPc' = "ok" /\ InfoIsThere',
               d.dns => d.protocol = "dns" /\ ~info'.netbios,
               d.quic /\ d.tls => complete'
        PROVE  RecInv'
    <2>1. NotYet' /\ Written' /\ RecordedOnce'  BY <1>w, <1>y, WritesOK
    <2>2. RecTypeOK'  BY <1>w, <1>t DEF RecTypeOK, Writes
    <2> QED  BY <1>d, <2>1, <2>2 DEF RecInv
  <1>q. /\ QuicData(<<"other">>).text = <<"other">> /\ QuicData(<<"other">>).protocol = "quic"
        /\ ~QuicData(<<"other">>).dns /\ ~QuicData(<<"other">>).tls
    BY DEF QuicData, NoData
  <1>1. CASE WalksQuic \/ WalksHello \/ WalksDns \/ WalksSsh
    <2>1. phase \in {"quic", "hello", "dns", "ssh"} /\ UNCHANGED <<phase, docs, held, size, complete>>
      BY <1>1 DEF WalksQuic, WalksHello, WalksDns, WalksSsh, Runs, ownVars
    <2> QED  BY <2>1, <1>g, <1>t
  <1>2. CASE NotQuic \/ NotAProbe
    <2>1. /\ phase = "quic" /\ phase' = "dns" /\ UNCHANGED <<size, complete, held, docs>>
      BY <1>2 DEF NotQuic, NotAProbe, UnknownFirst, Walked, OtherClassifiers
    <2> QED  BY <2>1, <1>g, <1>t
  <1>3. CASE RecordsProbe \/ RecordsHeader
    <2>1. /\ phase = "quic" /\ Writes(QuicData(<<"other">>)) /\ UNCHANGED <<size, complete, held>>
      BY <1>3 DEF RecordsProbe, RecordsHeader, UnknownFirst, KnownFirst, Walked
    <2> QED  BY <2>1, <1>q, <1>o, <1>w
  <1>4. CASE Holds
    <2>1. /\ phase = "quic" /\ phase' = "done" /\ held' /\ UNCHANGED <<size, complete, docs>>
      BY <1>4 DEF Holds, KnownFirst, Walked
    <2>h. held' \in BOOLEAN  BY Zenon, <1>4 DEF Holds
    <2>2. docs' = <<>>  BY <2>1, <1>y DEF NotYet
    <2>3. NotYet' /\ Written' /\ RecordedOnce'
      BY <2>1, <2>2 DEF NotYet, Written, RecordedOnce
    <2>4. RecTypeOK'  BY <2>1, <2>h, <1>t DEF RecTypeOK
    <2> QED  BY <1>d, <2>3, <2>4 DEF RecInv
  <1>5. ASSUME NEW n \in HelloSizes, Completed(n) PROVE RecInv'
    <2>1. phase = "quic" /\ phase' = "hello" /\ size' = n /\ UNCHANGED <<held, docs>>
      BY <1>5 DEF Completed, KnownFirst, Walked
    <2>2. complete' \in BOOLEAN  BY Zenon, <1>5 DEF Completed
    <2>3. n \in Nat  BY RecordAssumption
    <2> QED  BY <2>1, <2>2, <2>3, <1>g
  <1>6. ASSUME NEW n \in HelloSizes, Expired(n) PROVE RecInv'
    <2>1. phase = "expired" /\ phase' = "hello" /\ size' = n /\ UNCHANGED <<complete, held, docs>>
      BY <1>6 DEF Expired
    <2>2. n \in Nat  BY RecordAssumption
    <2> QED  BY <2>1, <2>2, <1>t, <1>g
  <1>7. CASE LogsAttempt
    <2>1. /\ phase = "hello" /\ Writes(AttemptData) /\ UNCHANGED <<size, complete, held>>
      BY <1>7 DEF LogsAttempt
    <2>2. /\ AttemptData.text = <<"other">> /\ AttemptData.protocol = "quic"
          /\ ~AttemptData.dns
      BY DEF AttemptData, QuicData, NoData
    <2>3. AttemptData.tls => complete  BY Zenon DEF AttemptData, QuicData, NoData
    <2> QED  BY <2>1, <2>2, <2>3, <1>o, <1>w
  <1>8. CASE RecordsDns
    <2>1. /\ phase = "dns" /\ dnsPc = "ok" /\ Writes(DnsData) /\ UNCHANGED <<size, complete, held>>
          /\ UNCHANGED dnsVars
      BY <1>8 DEF RecordsDns
    <2>2. dnsPc' = "ok" /\ InfoIsThere' /\ info' = info
      <3>1. dnsPc' = dnsPc /\ info' = info  BY <2>1 DEF dnsVars
      <3>2. InfoIsThere'  BY <1>d, InfoIsThereOK, PTL
      <3> QED  BY <3>1, <3>2, <2>1
    <2>3. /\ DnsData.text = <<"other">> /\ ~DnsData.quic
          /\ DnsData.protocol = IF info.netbios THEN "netbios" ELSE "dns"
      BY DEF DnsData, NoData
    <2>4. DnsData.dns <=> ~info.netbios  BY Zenon DEF DnsData, NoData
    <2> QED  BY <2>1, <2>2, <2>3, <2>4, <1>o, <1>w
  <1>9. ASSUME NEW t \in Texts, RecordsRaw(t) PROVE RecInv'
    <2> DEFINE d == [NoData EXCEPT !.transport = "udp", !.text = t]
    <2>1. /\ phase = "dns" /\ Writes(d) /\ UNCHANGED <<size, complete, held>>
      BY <1>9 DEF RecordsRaw
    <2>2. d.text = t /\ d.protocol = "" /\ ~d.quic /\ ~d.dns  BY DEF NoData
    <2> HIDE DEF d
    <2> QED  BY <2>1, <2>2, <1>x, <1>w
  <1>10. ASSUME NEW t \in Texts, NEW tls \in BOOLEAN, NEW alpn \in BOOLEAN, RecordsTcp(t, tls, alpn)
         PROVE  RecInv'
    <2> DEFINE d == [NoData EXCEPT !.text = t, !.tls = tls, !.alpn = tls /\ alpn]
    <2>1. /\ phase = "tcp" /\ Writes(d) /\ UNCHANGED <<size, complete, held>>
      BY <1>10 DEF RecordsTcp
    <2>2. d.text = t /\ d.protocol = "" /\ ~d.quic /\ ~d.dns  BY DEF NoData
    <2> HIDE DEF d
    <2> QED  BY <2>1, <2>2, <1>x, <1>w
  <1>11. CASE StartsSsh
    <2>1. phase = "tcp" /\ phase' = "ssh" /\ UNCHANGED <<size, complete, held, docs>>
      BY <1>11 DEF StartsSsh
    <2> QED  BY <2>1, <1>t, <1>g
  <1>12. CASE RecordsSsh
    <2> DEFINE d == [NoData EXCEPT !.text = <<"other">>, !.hassh = (sshPc = "ok")]
    <2>1. /\ phase = "ssh" /\ Writes(d) /\ UNCHANGED <<size, complete, held>>
      BY <1>12 DEF RecordsSsh
    <2>2. d.text = <<"other">> /\ d.protocol = "" /\ ~d.quic /\ ~d.dns  BY DEF NoData
    <2> HIDE DEF d
    <2> QED  BY <2>1, <2>2, <1>o, <1>w
  <1>13. CASE UNCHANGED recVars
    <2>1. UNCHANGED <<phase, size, complete, held, docs, dnsPc, info, dnsLen>>
      BY <1>13 DEF recVars, ownVars, dnsVars
    <2>2. RecTypeOK'  BY <2>1, <1>t DEF RecTypeOK
    <2>3. NotYet' /\ Written' /\ RecordedOnce'
      BY Zenon, <2>1, <1>y DEF NotYet, Written, RecordedOnce, InfoIsThere
    <2> QED  BY <1>d, <2>2, <2>3 DEF RecInv
  <1> QED
    BY <1>1, <1>2, <1>3, <1>4, <1>5, <1>6, <1>7, <1>8, <1>9, <1>10, <1>11, <1>12, <1>13 DEF Next

\* The inductive invariant holds in every state of every payload's way.
LEMMA RecInvariant == Spec => []RecInv
  <1> QED  BY RecInitOK, RecNextOK, PTL DEF Spec

\* No decoder touches a byte outside what it is given, for payloads of every size
\* and whatever counts, lengths, labels and pointers they claim.
THEOREM DecodersStayInside == Spec => [](InBounds /\ StaysInside)
  <1>1. RecInv => InBounds /\ StaysInside
    BY DEF RecInv, WalkInv, DnsInv, HelloInv, SshInv, StaysInside
  <1> QED  BY RecInvariant, <1>1, PTL

\* Whatever packets a datagram holds, what handleQUIC reads off the walk's error is
\* so: the Initials all gave frames, or the last packet alone did not.
THEOREM InitialsReadAlways == Spec => []InitialsRead
  <1>1. RecInv => InitialsRead  BY DEF RecInv, WalkInv
  <1> QED  BY RecInvariant, <1>1, PTL

\* A payload that is done has one record, or none while the assembler holds its
\* attempt, and the record claims no more than was decoded.
THEOREM PayloadsRecordedOnce == Spec => []RecordedOnce
  <1>1. RecInv => RecordedOnce  BY DEF RecInv
  <1> QED  BY RecInvariant, <1>1, PTL

\* For texts of any number of lines: the summary is there when it was before, and a
\* request's head and body are told apart.
THEOREM DocumentsKeep == Spec => []DocumentKeeps
  <1>1. RecInv => DocumentKeeps
    <2> SUFFICES ASSUME Written, NEW i \in DOMAIN docs
                 PROVE  SummaryAsBefore(docs[i]) /\ HeadAndBodyApart(docs[i])
      BY DEF RecInv, DocumentKeeps
    <2>1. PICK d : docs = <<DocumentOf(d)>> /\ d.text \in Seq(Lines)  BY DEF Written
    <2>2. docs[i] = DocumentOf(d)  BY <2>1
    <2> QED  BY <2>1, <2>2, DocumentOK
  <1> QED  BY RecInvariant, <1>1, PTL

----------------------------------------------------------------------------
(* The text that the hash of the transport parameters is taken of. *)

\* F is the recursion by which Unreserved folds a list.
IsUnreserved(F, s) ==
    F = [S \in SUBSET DOMAIN s |->
           IF S = {} THEN <<>>
           ELSE IF s[Max(S)] \in GreaseVersions THEN F[S \ {Max(S)}]
           ELSE Append(F[S \ {Max(S)}], s[Max(S)])]

\* Unreserved is that recursion at the whole list.
LEMMA UnreservedUnfolds ==
    ASSUME NEW s
    PROVE  Unreserved(s) = (CHOOSE F : IsUnreserved(F, s))[DOMAIN s]
  BY Zenon DEF Unreserved, FoldLeft, MapThenFoldSet, IsUnreserved

\* Which reserved versions stand in a list does not change the others.
LEMMA SameUnreserved ==
    ASSUME NEW V, NEW s \in Seq(V), NEW t \in Seq(V), DOMAIN t = DOMAIN s,
           \A i \in DOMAIN s : t[i] = s[i] \/ (s[i] \in GreaseVersions /\ t[i] \in GreaseVersions)
    PROVE  Unreserved(t) = Unreserved(s)
  <1> DEFINE D == DOMAIN s
  <1>1. \A S \in SUBSET D : S # {} => Max(S) \in D
    <2> SUFFICES ASSUME NEW S \in SUBSET D, S # {} PROVE Max(S) \in D
      OBVIOUS
    <2>1. Len(s) \in Nat /\ D = 1..Len(s)
      OBVIOUS
    <2>2. IsFiniteSet(1..Len(s))
      BY <2>1, FS_Interval
    <2>3. IsFiniteSet(S) /\ S \in SUBSET Nat
      BY <2>1, <2>2, FS_Subset
    <2>4. Max(S) \in S
      BY <2>3, MaxOf
    <2> QED BY <2>4
  <1> DEFINE a(F) == [S \in SUBSET D |->
           IF S = {} THEN <<>>
           ELSE IF s[Max(S)] \in GreaseVersions THEN F[S \ {Max(S)}]
           ELSE Append(F[S \ {Max(S)}], s[Max(S)])]
             b(F) == [S \in SUBSET D |->
           IF S = {} THEN <<>>
           ELSE IF t[Max(S)] \in GreaseVersions THEN F[S \ {Max(S)}]
           ELSE Append(F[S \ {Max(S)}], t[Max(S)])]
  <1>2. ASSUME NEW F PROVE a(F) = b(F)
    <2>1. ASSUME NEW S \in SUBSET D PROVE a(F)[S] = b(F)[S]
      <3>1. CASE S = {}
        BY <3>1
      <3>2. CASE S # {}
        <4>1. \/ t[Max(S)] = s[Max(S)]
              \/ s[Max(S)] \in GreaseVersions /\ t[Max(S)] \in GreaseVersions
          BY <1>1, <3>2
        <4> QED BY <4>1
      <3> QED BY <3>1, <3>2
    <2>2. [S \in SUBSET D |-> a(F)[S]] = [S \in SUBSET D |-> b(F)[S]]
      <3> HIDE DEF a, b
      <3> QED BY <2>1, Zenon
    <2> QED BY <2>2
  <1>3. \A F : IsUnreserved(F, s) <=> F = a(F)
    BY DEF IsUnreserved
  <1>4. \A F : IsUnreserved(F, t) <=> F = b(F)
    BY DEF IsUnreserved
  <1> HIDE DEF a, b
  <1>5. \A F : IsUnreserved(F, s) <=> IsUnreserved(F, t)
    BY <1>2, <1>3, <1>4
  <1>6. (CHOOSE F : IsUnreserved(F, s)) = (CHOOSE F : IsUnreserved(F, t))
    BY <1>5
  <1> QED BY <1>6, UnreservedUnfolds

\* Those that come before i.
Below(S, key, i) == {j \in S : key[j] < key[i]}

\* Distinct keys; a rank counts what comes before; the ranks are the places, each taken once.
DistinctKeys(S, key) == \A i, j \in S : key[i] \in Nat /\ (key[i] = key[j] => i = j)
Ranks(S, key, R) == \A i \in S : R[i] = 1 + Cardinality(Below(S, key, i))
Places(S, R) ==
    /\ \A i \in S : R[i] \in 1..Cardinality(S)
    /\ \A i, j \in S : R[i] = R[j] => i = j
    /\ \A r \in 1..Cardinality(S) : \E i \in S : R[i] = r

\* How many come before: with distinct keys, every place is taken once.
LEMMA RankOnto ==
    ASSUME NEW S, IsFiniteSet(S), NEW key, DistinctKeys(S, key), NEW R, Ranks(S, key, R)
    PROVE  Places(S, R)
  <1>k. \A i, j \in S : key[i] \in Nat /\ (key[i] = key[j] => i = j)
    BY DEF DistinctKeys
  <1>r. \A i \in S : R[i] = 1 + Cardinality(Below(S, key, i))
    BY DEF Ranks
  <1> DEFINE n == Cardinality(S)
             B(i) == Below(S, key, i)
  <1>n. n \in Nat
    BY FS_CardinalityType
  <1>1. ASSUME NEW i \in S
        PROVE  IsFiniteSet(B(i)) /\ Cardinality(B(i)) \in Nat /\ Cardinality(B(i)) < n
    <2>1. B(i) \in SUBSET (S \ {i})
      BY <1>k DEF Below
    <2>2. IsFiniteSet(S \ {i}) /\ Cardinality(S \ {i}) = n - 1
      BY FS_RemoveElement
    <2>3. IsFiniteSet(B(i)) /\ Cardinality(B(i)) <= n - 1
      <3> HIDE DEF B
      <3> QED BY <2>1, <2>2, FS_Subset
    <2> HIDE DEF B
    <2>4. Cardinality(B(i)) \in Nat
      BY <2>3, FS_CardinalityType
    <2> QED BY <2>3, <2>4, <1>n
  <1>2. ASSUME NEW i \in S, NEW j \in S, key[i] < key[j]
        PROVE  Cardinality(B(i)) < Cardinality(B(j))
    <2>1. B(i) \in SUBSET (B(j) \ {i}) /\ i \in B(j)
      BY <1>2, <1>k DEF Below
    <2>2. IsFiniteSet(B(j) \ {i}) /\ Cardinality(B(j) \ {i}) = Cardinality(B(j)) - 1
      <3> HIDE DEF B
      <3> QED BY <2>1, <1>1, FS_RemoveElement
    <2>3. Cardinality(B(i)) <= Cardinality(B(j)) - 1
      <3> HIDE DEF B
      <3> QED BY <2>1, <2>2, FS_Subset
    <2> HIDE DEF B
    <2> QED BY <2>3, <1>1
  <1>3. \A i \in S : R[i] = 1 + Cardinality(B(i))
    BY <1>r
  <1> HIDE DEF B
  <1>4. \A i \in S : R[i] \in 1..n
    BY <1>1, <1>3, <1>n
  <1>5. \A i, j \in S : R[i] = R[j] => i = j
    <2> SUFFICES ASSUME NEW i \in S, NEW j \in S, R[i] = R[j] PROVE i = j
      OBVIOUS
    <2>1. key[i] \in Nat /\ key[j] \in Nat /\ R[i] = 1 + Cardinality(B(i)) /\ R[j] = 1 + Cardinality(B(j))
      BY <1>3, <1>k
    <2>2. Cardinality(B(i)) \in Nat /\ Cardinality(B(j)) \in Nat
      BY <1>1
    <2>3. 1 + Cardinality(B(i)) = 1 + Cardinality(B(j))
      BY <2>1, Zenon
    <2>4. key[i] = key[j]
      BY <2>1, <2>2, <2>3, <1>2
    <2> QED BY <2>4, <1>k
  <1>6. \A r \in 1..n : \E i \in S : R[i] = r
    <2> DEFINE h == [i \in S |-> R[i]]
    <2>1. h \in Injection(S, 1..n)
      BY <1>4, <1>5 DEF Injection, IsInjective
    <2>2. IsFiniteSet(1..n) /\ Cardinality(1..n) = n
      BY <1>n, FS_Interval
    <2>3. h \in Surjection(S, 1..n)
      <3> HIDE DEF h
      <3> QED BY <2>1, <2>2, FS_Injection
    <2> QED BY <2>3 DEF Surjection
  <1> QED BY <1>4, <1>5, <1>6 DEF Places

\* f takes X to Y and nothing else.
TakesTo(n, f, X, Y) ==
    X \in SUBSET (1..n) /\ Y \in SUBSET (1..n) /\ \A i \in 1..n : i \in X <=> f[i] \in Y

\* A permutation reaches every place.
LEMMA Permuted ==
    ASSUME NEW n \in Nat, NEW f \in Orders(n)
    PROVE  \A k \in 1..n : \E i \in 1..n : f[i] = k
  <1>1. IsFiniteSet(1..n)
    BY FS_Interval
  <1>2. f \in Injection(1..n, 1..n)
    BY DEF Injection, IsInjective, Orders
  <1>3. f \in Surjection(1..n, 1..n)
    BY <1>1, <1>2, FS_Injection
  <1> QED BY <1>3 DEF Surjection

\* A permutation keeps the number of what it relates.
LEMMA PermutedCount ==
    ASSUME NEW n \in Nat, NEW f \in Orders(n), NEW X, NEW Y, TakesTo(n, f, X, Y)
    PROVE  IsFiniteSet(X) /\ IsFiniteSet(Y) /\ Cardinality(X) = Cardinality(Y)
  <1>0. X \in SUBSET (1..n) /\ Y \in SUBSET (1..n) /\ \A i \in 1..n : i \in X <=> f[i] \in Y
    BY DEF TakesTo
  <1>1. IsFiniteSet(1..n)
    BY FS_Interval
  <1>2. IsFiniteSet(X) /\ IsFiniteSet(Y)
    BY <1>0, <1>1, FS_Subset
  <1>3. f \in [1..n -> 1..n] /\ \A i, j \in 1..n : i # j => f[i] # f[j]
    BY DEF Orders
  <1>4. \A k \in 1..n : \E i \in 1..n : f[i] = k
    BY Permuted
  <1> DEFINE h == [i \in X |-> f[i]]
  <1>5. h \in [X -> Y]
    BY <1>0, <1>3
  <1>6. h \in Injection(X, Y)
    BY <1>0, <1>3, <1>5 DEF Injection, IsInjective
  <1>7. h \in Surjection(X, Y)
    BY <1>0, <1>4, <1>5 DEF Surjection
  <1>8. Cardinality(X) = Cardinality(Y)
    <2> HIDE DEF h
    <2> QED BY <1>2, <1>6, <1>7, FS_Injection
  <1> QED BY <1>2, <1>8

\* The described parameters with smaller ids.
Smaller(p, plain, i) == {j \in plain : p[j].id < p[i].id}

\* With distinct ids a rank counts the smaller ids, and the ranks are the places.
LEMMA RankIs ==
    ASSUME NEW p, NEW n \in Nat, DOMAIN p = 1..n, \A i \in 1..n : p[i].id \in Nat, DistinctIds(p),
           NEW plain \in SUBSET (1..n)
    PROVE  /\ IsFiniteSet(plain)
           /\ \A i \in plain : Rank(p, plain, i) = 1 + Cardinality(Smaller(p, plain, i))
           /\ \A i \in plain : Rank(p, plain, i) \in 1..Cardinality(plain)
           /\ \A i, j \in plain : Rank(p, plain, i) = Rank(p, plain, j) => i = j
           /\ \A r \in 1..Cardinality(plain) : \E i \in plain : Rank(p, plain, i) = r
  <1>0. IsFiniteSet(1..n)
    BY FS_Interval
  <1>1. IsFiniteSet(plain)
    BY <1>0, FS_Subset
  <1>2. ASSUME NEW i \in plain
        PROVE Rank(p, plain, i) = 1 + Cardinality(Smaller(p, plain, i))
    <2>1. {j \in plain : p[j].id < p[i].id \/ (p[j].id = p[i].id /\ j < i)} = {j \in plain : p[j].id < p[i].id}
      <3>1. \A j \in plain : p[j].id = p[i].id => ~(j < i)
        <4> SUFFICES ASSUME NEW j \in plain, p[j].id = p[i].id PROVE ~(j < i)
          OBVIOUS
        <4>0. i \in 1..n /\ j \in 1..n
          BY Zenon
        <4>1. j \in DOMAIN p /\ i \in DOMAIN p /\ i \in Nat
          BY <4>0, SMTT(30)
        <4>2. j = i
          BY <4>1 DEF DistinctIds
        <4> QED BY <4>1, <4>2
      <3>2. \A j \in plain : (p[j].id < p[i].id \/ (p[j].id = p[i].id /\ j < i)) <=> p[j].id < p[i].id
        BY <3>1
      <3> QED BY <3>2
    <2> QED BY <2>1, Zenon DEF Rank, Smaller
  <1>k. PICK key : \A i \in plain : key[i] = p[i].id
    <2>1. \A i \in plain : [j \in plain |-> p[j].id][i] = p[i].id
      OBVIOUS
    <2> QED BY <2>1, Zenon
  <1>r. PICK R : \A i \in plain : R[i] = 1 + Cardinality(Below(plain, key, i))
    <2>1. \A i \in plain : [j \in plain |-> 1 + Cardinality(Below(plain, key, j))][i] = 1 + Cardinality(Below(plain, key, i))
      BY Zenon
    <2> QED BY <2>1, Zenon
  <1>3. \A i \in plain : key[i] \in Nat
    BY <1>k
  <1>4. \A i, j \in plain : key[i] = key[j] => i = j
    BY <1>k DEF DistinctIds
  <1>5. \A i \in plain : R[i] = Rank(p, plain, i)
    <2> SUFFICES ASSUME NEW i \in plain PROVE R[i] = Rank(p, plain, i)
      OBVIOUS
    <2>1. Below(plain, key, i) = Smaller(p, plain, i)
      BY <1>k DEF Below, Smaller
    <2> QED BY <2>1, <1>r, <1>2, Zenon
  <1>6. /\ \A i \in plain : R[i] \in 1..Cardinality(plain)
        /\ \A i, j \in plain : R[i] = R[j] => i = j
        /\ \A r \in 1..Cardinality(plain) : \E i \in plain : R[i] = r
    <2>1. DistinctKeys(plain, key) /\ Ranks(plain, key, R)
      BY <1>3, <1>4, <1>r DEF DistinctKeys, Ranks
    <2>2. Places(plain, R)
      BY <1>1, <2>1, RankOnto, Zenon
    <2> QED BY <2>2 DEF Places
  <1>7. /\ \A i \in plain : Rank(p, plain, i) \in 1..Cardinality(plain)
        /\ \A i, j \in plain : Rank(p, plain, i) = Rank(p, plain, j) => i = j
        /\ \A r \in 1..Cardinality(plain) : \E i \in plain : Rank(p, plain, i) = r
    BY <1>5, <1>6
  <1> QED BY <1>1, <1>2, <1>7, Zenon

\* A parameter as parseTransportParams keeps it.
KeptParam(p) ==
    /\ p = [id |-> p.id, val |-> p.val, len |-> p.len]
    /\ p.id \in Nat
    /\ p.id \in TpVersionInfos => p.val \in Seq(STRING)

\* The numbers with a meaning are not reserved.
LEMMA NotReserved ==
    /\ ~IsGreaseParam(TpInitialSourceCID) /\ \A id \in TpVersionInfos : ~IsGreaseParam(id)
    /\ IsGreaseParam(27) /\ IsGreaseParam(58)
    /\ TpInitialSourceCID \notin TpVersionInfos /\ TpInitialSourceCID \notin TpIntegers
    /\ TpVersionInfos \cap TpIntegers = {}
  BY DEF IsGreaseParam, TpInitialSourceCID, TpVersionInfos, TpIntegers

\* A list of versions with other reserved ones.
Regreased(s, g) == [i \in DOMAIN s |-> IF i > 1 /\ s[i] \in GreaseVersions THEN g ELSE s[i]]

\* The text of a list of versions does not tell which reserved ones were offered.
LEMMA SameVersions ==
    ASSUME NEW p, NEW q, NEW g \in GreaseVersions, p.val \in Seq(STRING), VersionsOf(p) # <<>>,
           q.val = Regreased(p.val, g), q.len = p.len
    PROVE  DescribeVersions(q) = DescribeVersions(p)
  <1> DEFINE s == p.val
             t == q.val
  <1>s. s \in Seq(STRING) /\ s # <<>>
    BY DEF VersionsOf
  <1>t. t = [i \in DOMAIN s |-> IF i > 1 /\ s[i] \in GreaseVersions THEN g ELSE s[i]]
    BY DEF Regreased
  <1> HIDE DEF s, t
  <1> DEFINE V == STRING \cup GreaseVersions
  <1>0. s \in Seq(V)
    BY <1>s
  <1>1. t \in Seq(V) /\ Len(t) = Len(s) /\ DOMAIN t = DOMAIN s /\ t # <<>>
    <2> HIDE DEF V
    <2>1. \A i \in DOMAIN s : t[i] \in V
      BY <1>0, <1>t DEF V
    <2> QED BY <1>0, <1>s, <1>t, <2>1
  <1> HIDE DEF V
  <1>2. Head(t) = Head(s)
    BY <1>1, <1>s, <1>t
  <1>3. /\ Tail(s) \in Seq(V) /\ Tail(t) \in Seq(V) /\ DOMAIN Tail(t) = DOMAIN Tail(s)
        /\ \A i \in DOMAIN Tail(s) : Tail(s)[i] = s[i + 1] /\ Tail(t)[i] = t[i + 1] /\ i + 1 \in DOMAIN s
    BY <1>0, <1>1, <1>s
  <1>4. \A i \in DOMAIN s : t[i] = s[i] \/ (s[i] \in GreaseVersions /\ t[i] \in GreaseVersions)
    BY <1>t
  <1>5. Unreserved(Tail(t)) = Unreserved(Tail(s))
    <2>1. \A i \in DOMAIN Tail(s) :
             Tail(t)[i] = Tail(s)[i] \/ (Tail(s)[i] \in GreaseVersions /\ Tail(t)[i] \in GreaseVersions)
      BY <1>3, <1>4
    <2> QED BY <1>3, <2>1, SameUnreserved
  <1>6. (\E i \in DOMAIN t : t[i] \in GreaseVersions) <=> (\E i \in DOMAIN s : s[i] \in GreaseVersions)
    BY <1>1, <1>4
  <1>7. VersionsOf(q) # <<>>
    BY <1>1 DEF VersionsOf, s, t
  <1> DEFINE M(v) == IF \E i \in DOMAIN v : v[i] \in GreaseVersions THEN <<"grease">> ELSE <<>>
  <1>8. DescribeVersions(p) = <<Head(s)>> \o Unreserved(Tail(s)) \o M(s)
    BY Zenon DEF DescribeVersions, s
  <1>9. DescribeVersions(q) = <<Head(t)>> \o Unreserved(Tail(t)) \o M(t)
    BY <1>7, Zenon DEF DescribeVersions, t
  <1>10. M(t) = M(s)
    BY <1>6
  <1> HIDE DEF M
  <1> QED BY <1>2, <1>5, <1>8, <1>9, <1>10

\* What is drawn anew does not show: a reserved parameter stays reserved, of another
\* the text says the same.
LEMMA AnewSame ==
    ASSUME NEW p, KeptParam(p), NEW q \in Anew(p)
    PROVE  /\ q.id \in Nat /\ (IsGreaseParam(q.id) <=> IsGreaseParam(p.id))
           /\ ~IsGreaseParam(p.id) => q.id = p.id /\ Said(q) = Said(p)
  <1>0. PICK z \in Redrawn(p) : q \in Renumbered(z)
    BY DEF Anew
  <1>p. p = [id |-> p.id, val |-> p.val, len |-> p.len] /\ p.id \in Nat
    BY DEF KeptParam
  <1>1. CASE p.id = TpInitialSourceCID
    <2>1. PICK x \in {"cid1", "cid2"} : z = [p EXCEPT !.val = x]
      BY <1>0, <1>1 DEF Redrawn
    <2>2. z.id = p.id /\ z.len = p.len
      BY <2>1, <1>p
    <2>3. q = z /\ ~IsGreaseParam(p.id)
      BY <1>0, <1>1, <2>2, NotReserved DEF Renumbered
    <2>4. \A v : v.id = TpInitialSourceCID => Said(v) = <<"/", v.len>>
      BY NotReserved DEF Said
    <2>5. Said(q) = Said(p)
      BY <1>1, <2>2, <2>3, <2>4, Zenon
    <2> QED BY <1>p, <2>2, <2>3, <2>5
  <1>2. CASE p.id \in TpVersionInfos /\ VersionsOf(p) # <<>>
    <2>0. p.val \in Seq(STRING) /\ p.val # <<>>
      BY <1>2 DEF KeptParam, VersionsOf
    <2>1. PICK g \in GreaseVersions : z = [p EXCEPT !.val = Regreased(p.val, g)]
      BY <1>0, <1>2, NotReserved, Zenon DEF Redrawn, Regreased
    <2>2. z.id = p.id /\ z.len = p.len /\ z.val = Regreased(p.val, g)
      BY <2>1, <1>p
    <2>3. q = z /\ ~IsGreaseParam(p.id)
      BY <1>0, <1>2, <2>2, NotReserved DEF Renumbered
    <2>4. \A v : v.id \in TpVersionInfos => Said(v) = <<"=", DescribeVersions(v)>>
      BY NotReserved DEF Said
    <2>5. DescribeVersions(z) = DescribeVersions(p)
      BY <2>0, <2>2, <1>2, SameVersions
    <2>6. Said(q) = Said(p)
      BY <1>2, <2>2, <2>3, <2>4, <2>5, Zenon
    <2> QED BY <1>p, <2>2, <2>3, <2>6
  <1>3. CASE p.id # TpInitialSourceCID /\ ~(p.id \in TpVersionInfos /\ VersionsOf(p) # <<>>)
    <2>1. z = p
      BY <1>0, <1>3 DEF Redrawn
    <2>2. CASE IsGreaseParam(p.id)
      <3>1. q = [p EXCEPT !.id = 27] \/ q = [p EXCEPT !.id = 58]
        BY <1>0, <2>1, <2>2 DEF Renumbered
      <3>2. q.id = 27 \/ q.id = 58
        BY <3>1, <1>p
      <3> QED BY <2>2, <3>2, NotReserved
    <2>3. CASE ~IsGreaseParam(p.id)
      <3>1. q = p
        BY <1>0, <2>1, <2>3 DEF Renumbered
      <3> QED BY <3>1, <1>p
    <2> QED BY <2>2, <2>3
  <1> QED BY <1>1, <1>2, <1>3

\* The parameters that are described.
Plain(p) == {i \in DOMAIN p : ~IsGreaseParam(p[i].id)}

\* q is p in another order, with the random parts drawn again.
Reordered(p, q, n, f) ==
    /\ DOMAIN p = 1..n /\ DOMAIN q = 1..n
    /\ f \in Orders(n)
    /\ \A i \in 1..n : KeptParam(p[i]) /\ q[i] \in Anew(p[f[i]])

\* The parameters described are the same ones, at the same places of the text.
LEMMA SamePlaces ==
    ASSUME NEW p, NEW q, NEW n \in Nat, NEW f, Reordered(p, q, n, f), DistinctIds(p), DistinctIds(q)
    PROVE  /\ Cardinality(Plain(q)) = Cardinality(Plain(p))
           /\ (Plain(q) # 1..n) <=> (Plain(p) # 1..n)
           /\ \A i \in Plain(q) : f[i] \in Plain(p) /\ Rank(q, Plain(q), i) = Rank(p, Plain(p), f[i])
  <1> DEFINE X == Plain(q)
             Y == Plain(p)
  <1>0. /\ DOMAIN p = 1..n /\ DOMAIN q = 1..n /\ f \in Orders(n)
        /\ f \in [1..n -> 1..n] /\ \A i, j \in 1..n : i # j => f[i] # f[j]
        /\ \A i \in 1..n : KeptParam(p[i]) /\ q[i] \in Anew(p[f[i]])
    BY DEF Reordered, Orders
  <1>f. f \in Orders(n)
    BY <1>0 DEF Orders
  <1>d. DOMAIN p = 1..n /\ DOMAIN q = 1..n
    BY <1>0
  <1>1. \A i \in 1..n : p[i].id \in Nat
    BY <1>0 DEF KeptParam
  <1>2. ASSUME NEW i \in 1..n
        PROVE  /\ q[i].id \in Nat /\ (IsGreaseParam(q[i].id) <=> IsGreaseParam(p[f[i]].id))
               /\ ~IsGreaseParam(p[f[i]].id) => q[i].id = p[f[i]].id
    <2>1. f[i] \in 1..n /\ KeptParam(p[f[i]]) /\ q[i] \in Anew(p[f[i]])
      BY <1>0
    <2> QED BY <2>1, AnewSame, Zenon
  <1>3. X \in SUBSET (1..n) /\ Y \in SUBSET (1..n)
    BY <1>0 DEF Plain
  <1>4. \A i \in 1..n : i \in X <=> f[i] \in Y
    BY <1>0, <1>2 DEF Plain
  <1>5. \A i \in X : q[i].id = p[f[i]].id
    BY <1>0, <1>2, <1>3, <1>4 DEF Plain
  <1> HIDE DEF X, Y
  <1>6. IsFiniteSet(X) /\ IsFiniteSet(Y) /\ Cardinality(X) = Cardinality(Y)
    <2>1. TakesTo(n, f, X, Y)
      BY <1>3, <1>4, Zenon DEF TakesTo
    <2> QED BY <1>f, <2>1, PermutedCount
  <1>7. X # 1..n <=> Y # 1..n
    <2>1. \A k \in 1..n : \E i \in 1..n : f[i] = k
      BY <1>f, Permuted
    <2>2. \A i \in 1..n : f[i] \in 1..n
      BY <1>0
    <2>3. (\A i \in 1..n : i \in X) <=> (\A k \in 1..n : k \in Y)
      BY <1>4, <2>1, <2>2, Zenon
    <2> QED BY <1>3, <2>3
  <1>8. ASSUME NEW i \in X PROVE f[i] \in Y /\ Rank(q, X, i) = Rank(p, Y, f[i])
    <2>1. i \in 1..n /\ f[i] \in 1..n /\ f[i] \in Y
      BY <1>0, <1>3, <1>4
    <2> DEFINE U == Smaller(q, X, i)
               W == Smaller(p, Y, f[i])
    <2>2. U \in SUBSET (1..n) /\ W \in SUBSET (1..n)
      BY <1>3 DEF Smaller
    <2>3. \A j \in 1..n : j \in U <=> f[j] \in W
      BY <1>4, <1>5 DEF Smaller
    <2>4. Cardinality(U) = Cardinality(W)
      <3> HIDE DEF U, W
      <3>1. TakesTo(n, f, U, W)
        BY <2>2, <2>3, Zenon DEF TakesTo
      <3> QED BY <1>f, <3>1, PermutedCount
    <2>5. Rank(q, X, i) = 1 + Cardinality(U)
      <3>1. \A j \in 1..n : q[j].id \in Nat
        BY <1>2
      <3> QED BY <1>d, <1>3, <3>1, RankIs
    <2>6. Rank(p, Y, f[i]) = 1 + Cardinality(W)
      BY <1>d, <1>1, <1>3, <2>1, RankIs
    <2> HIDE DEF U, W
    <2> QED BY <2>1, <2>4, <2>5, <2>6
  <1> QED BY <1>6, <1>7, <1>8 DEF X, Y

\* The text of q is the text of p.
LEMMA SameText ==
    ASSUME NEW p, NEW q, NEW n \in Nat, NEW f, Reordered(p, q, n, f), DistinctIds(p), DistinctIds(q)
    PROVE  DescribeParams(q) = DescribeParams(p)
  <1> DEFINE X == Plain(q)
             Y == Plain(p)
             m == Cardinality(Y)
             Qi(r) == CHOOSE i \in X : Rank(q, X, i) = r
             Pi(r) == CHOOSE i \in Y : Rank(p, Y, i) = r
  <1>0. /\ DOMAIN p = 1..n /\ DOMAIN q = 1..n /\ f \in Orders(n)
        /\ f \in [1..n -> 1..n]
        /\ \A i \in 1..n : KeptParam(p[i]) /\ q[i] \in Anew(p[f[i]])
    BY DEF Reordered, Orders
  <1>1. /\ Cardinality(X) = m /\ (X # 1..n <=> Y # 1..n)
        /\ \A i \in X : f[i] \in Y /\ Rank(q, X, i) = Rank(p, Y, f[i])
    BY SamePlaces
  <1>2. X \in SUBSET (1..n) /\ Y \in SUBSET (1..n) /\ \A i \in Y : ~IsGreaseParam(p[i].id)
    BY <1>0 DEF Plain
  <1>3. /\ \A i, j \in Y : Rank(p, Y, i) = Rank(p, Y, j) => i = j
        /\ \A r \in 1..m : \E i \in Y : Rank(p, Y, i) = r
    <2>1. \A i \in 1..n : p[i].id \in Nat
      BY <1>0 DEF KeptParam
    <2>2. DOMAIN p = 1..n /\ Y \in SUBSET (1..n)
      BY <1>0, <1>2
    <2> HIDE DEF Y
    <2>3. /\ \A i, j \in Y : Rank(p, Y, i) = Rank(p, Y, j) => i = j
          /\ \A r \in 1..Cardinality(Y) : \E i \in Y : Rank(p, Y, i) = r
      BY <2>1, <2>2, RankIs, ZenonT(40)
    <2> QED BY <2>3, Zenon DEF m
  <1>4. \A r \in 1..m : \E i \in X : Rank(q, X, i) = r
    <2>1. \A i \in 1..n : q[i].id \in Nat
      <3> SUFFICES ASSUME NEW i \in 1..n PROVE q[i].id \in Nat
        OBVIOUS
      <3>1. KeptParam(p[f[i]]) /\ q[i] \in Anew(p[f[i]])
        BY <1>0
      <3> QED BY <3>1, AnewSame
    <2>2. \A r \in 1..Cardinality(X) : \E i \in X : Rank(q, X, i) = r
      <3> HIDE DEF X
      <3> QED BY <1>0, <1>2, <2>1, RankIs
    <2> QED BY <1>1, <2>2
  <1> HIDE DEF X, Y, m
  <1>5. ASSUME NEW r \in 1..m
        PROVE  q[Qi(r)].id = p[Pi(r)].id /\ Said(q[Qi(r)]) = Said(p[Pi(r)])
    <2>1. Qi(r) \in X /\ Rank(q, X, Qi(r)) = r
      BY <1>4
    <2>2. Pi(r) \in Y /\ Rank(p, Y, Pi(r)) = r
      BY <1>3
    <2> HIDE DEF Qi, Pi
    <2>3. f[Qi(r)] = Pi(r)
      BY <1>1, <1>3, <2>1, <2>2
    <2>4. Qi(r) \in 1..n /\ Pi(r) \in 1..n /\ ~IsGreaseParam(p[Pi(r)].id)
      BY <1>2, <2>1, <2>2
    <2>5. KeptParam(p[Pi(r)]) /\ q[Qi(r)] \in Anew(p[Pi(r)])
      BY <1>0, <2>3, <2>4
    <2> QED BY <2>4, <2>5, AnewSame, Zenon
  <1> DEFINE It(s, S) == [r \in DOMAIN SortedById(s, S) |->
                            [id |-> SortedById(s, S)[r].id, txt |-> Said(SortedById(s, S)[r])]]
             M(S) == IF S # 1..n THEN <<"grease">> ELSE <<>>
  <1>6. DescribeParams(q) = It(q, X) \o M(X) /\ DescribeParams(p) = It(p, Y) \o M(Y)
    BY <1>0, Zenon DEF DescribeParams, X, Y, Plain
  <1>7. /\ SortedById(q, X) = [r \in 1..m |-> q[Qi(r)]]
        /\ SortedById(p, Y) = [r \in 1..m |-> p[Pi(r)]]
    BY <1>1, Zenon DEF SortedById, m
  <1> HIDE DEF Qi, Pi
  <1>8. /\ It(q, X) = [r \in 1..m |-> [id |-> q[Qi(r)].id, txt |-> Said(q[Qi(r)])]]
        /\ It(p, Y) = [r \in 1..m |-> [id |-> p[Pi(r)].id, txt |-> Said(p[Pi(r)])]]
    BY <1>7
  <1>9. It(q, X) = It(p, Y)
    <2> HIDE DEF It
    <2> QED BY <1>5, <1>8, Zenon
  <1>10. M(X) = M(Y)
    BY <1>1
  <1> HIDE DEF It, M
  <1> QED BY <1>6, <1>9, <1>10

\* The next connection's parameters are such ones.
LEMMA NextReorders ==
    ASSUME NEW p, Len(p) \in Nat, DOMAIN p = 1..Len(p), \A i \in 1..Len(p) : KeptParam(p[i]),
           NEW q \in NextConnection(p)
    PROVE  \E f : Reordered(p, q, Len(p), f)
  <1> DEFINE n == Len(p)
  <1>1. PICK f \in Orders(n), g \in Draws(p) : q = [i \in DOMAIN p |-> g[f[i]]]
    BY DEF NextConnection
  <1>2. /\ f \in [1..n -> 1..n] /\ \A i, j \in 1..n : i # j => f[i] # f[j]
        /\ \A i \in 1..n : g[i] \in Anew(p[i])
    BY <1>1 DEF Orders, Draws
  <1>3. DOMAIN q = 1..n /\ \A i \in 1..n : q[i] \in Anew(p[f[i]])
    BY <1>1, <1>2
  <1> QED BY <1>2, <1>3 DEF Reordered

\* Whatever was kept of a hello, the text the hash is taken of does not tell the
\* order of the parameters or what a client draws anew for every connection
\* (hello.go:203-278).
THEOREM FingerprintIsStable == Spec => []FingerprintStable
  <1>1. RecInv => FingerprintStable
    <2> SUFFICES ASSUME RecInv, DistinctIds(params), NEW q \in NextConnection(params), DistinctIds(q)
                 PROVE  DescribeParams(q) = DescribeParams(params)
      BY DEF FingerprintStable
    <2> DEFINE n == Len(params)
    <2>1. params \in Seq(KeptParams)
      BY DEF RecInv, HelloInv, HelloOffsets
    <2>2. n \in Nat /\ DOMAIN params = 1..n /\ \A i \in 1..n : params[i] \in KeptParams
      BY <2>1
    <2>3. ASSUME NEW x \in KeptParams PROVE KeptParam(x)
      <3>1. PICK p \in ParamForms : x = [id |-> p.id, val |-> p.val, len |-> p.len]
        BY DEF KeptParams
      <3> QED BY <3>1, RecordAssumption, HelloConstants DEF KeptParam
    <2>4. \A i \in 1..n : KeptParam(params[i])
      BY <2>2, <2>3, Zenon
    <2>5. PICK f : Reordered(params, q, n, f)
      BY <2>2, <2>4, NextReorders
    <2> HIDE DEF n
    <2> QED BY <2>2, <2>5, SameText
  <1> QED BY RecInvariant, <1>1, PTL
=============================================================================
