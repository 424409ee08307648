----------------------------- MODULE AgentProofs -----------------------------
(***************************************************************************)
(* Proofs about the TCP handler (module Handler) and the process (module   *)
(* Agent), for any connections, personas, units, scenes and files.         *)
(***************************************************************************)
EXTENDS Agent, FiniteSetTheorems, SequenceTheorems, TLAPS

----------------------------------------------------------------------------
(* How a step of a connection changes the state, by the part it changes. *)

\* A step that writes, or notes what a write tells.
DataKept == UNCHANGED <<inbox, sent, prefix, payload, logged, discarded>>

\* The data of a connection changes in six ways only.
LEMMA DataSteps ==
    ASSUME NEW c \in Conns, Connection(c)
    PROVE  \/ DataKept
           \/ SniffsPlain(c) \/ SniffsTLS(c)
           \/ Takes(c) /\ pc[c] \in {"read", "coalesce", "kexinit"}
           \/ Discards(c) /\ pc[c] \in {"read", "kexinit"}
           \/ Record(c) /\ pc[c] = "log"
           \/ SendsHello(c) \/ Sends(c)
  BY Zenon DEF Connection, Proceeds, Counts, Handles, Client, DataKept, conn,
     Drops, DropLoads, DropStores, DropAdds, RateLimited, Stores, NoOrigDst, Begins,
     SniffFails, HandshakeFails, NoGreeting, Greets, GreetFails, Reads, ReadDiscards, ReadEnds, CoalesceEnds,
     SshBanner, SshBannerFails, SshReads, SshDiscards, SshReadEnds, Responds, RespondFails, LogsAndReads,
     LogsAndCloses, LogPanics, Accept, Coalesces, Handshakes, Closes, At

\* A goroutine goes to another point only.
LEMMA PointSteps ==
    ASSUME HandlerTypeOK, NEW c \in Conns, Connection(c)
    PROVE  /\ pc' \in [Conns -> Points]
           /\ \A d \in Conns : d # c => pc'[d] = pc[d]
           /\ pc'[c] \in {"absent", "new", "stored", "sniff"} =>
                 pc[c] \in {"absent", "new", "stored", "sniff"}
  BY DEF HandlerTypeOK, Points, Connection, Proceeds, Counts, Handles, Client,
     Drops, DropLoads, DropStores, DropAdds, RateLimited, Stores, NoOrigDst, Begins,
     SniffFails, HandshakeFails, NoGreeting, Greets, GreetFails, Reads, ReadDiscards, ReadEnds, CoalesceEnds,
     SniffsPlain, SniffsTLS, Coalesces, Arrives, Sends, SendsHello,
     SshBanner, SshBannerFails, SshReads, SshDiscards, SshReadEnds, Responds, RespondFails, LogsAndReads,
     LogsAndCloses, LogPanics, Accept, Handshakes, Closes, At, Leave, Goto

\* A stream becomes a TLS stream by its handshake, and ends when its client closes it;
\* neither is taken back.
LEMMA FlagSteps ==
    ASSUME HandlerTypeOK, NEW c \in Conns, Connection(c)
    PROVE  /\ tls' \in [Conns -> BOOLEAN] /\ fin' \in [Conns -> BOOLEAN]
           /\ \A d \in Conns : (tls[d] => tls'[d]) /\ (fin[d] => fin'[d])
           /\ tls' = tls \/ Handshakes(c)
  <1>1. tls' = tls \/ Handshakes(c)
    BY Zenon DEF Connection, Proceeds, Counts, Handles, Client, conn,
     Drops, DropLoads, DropStores, DropAdds, RateLimited, Stores, NoOrigDst, Begins,
     SniffFails, HandshakeFails, NoGreeting, Greets, GreetFails, Reads, ReadDiscards, ReadEnds, CoalesceEnds,
     SniffsPlain, SniffsTLS, Coalesces, Arrives, Sends, SendsHello, Takes, Record, Discards,
     SshBanner, SshBannerFails, SshReads, SshDiscards, SshReadEnds, Responds, RespondFails, LogsAndReads,
     LogsAndCloses, LogPanics, Accept, Closes
  <1>2. fin' = fin \/ Closes(c)
    BY Zenon DEF Connection, Proceeds, Counts, Handles, Client, conn,
     Drops, DropLoads, DropStores, DropAdds, RateLimited, Stores, NoOrigDst, Begins,
     SniffFails, HandshakeFails, NoGreeting, Greets, GreetFails, Reads, ReadDiscards, ReadEnds, CoalesceEnds,
     SniffsPlain, SniffsTLS, Coalesces, Arrives, Sends, SendsHello, Takes, Record, Discards,
     SshBanner, SshBannerFails, SshReads, SshDiscards, SshReadEnds, Responds, RespondFails, LogsAndReads,
     LogsAndCloses, LogPanics, Accept, Handshakes
  <1>3. tls' = tls \/ tls' = [tls EXCEPT ![c] = TRUE]
    BY <1>1, Zenon DEF Handshakes
  <1>4. fin' = fin \/ fin' = [fin EXCEPT ![c] = TRUE]
    BY <1>2, Zenon DEF Closes
  <1>5. tls \in [Conns -> BOOLEAN] /\ fin \in [Conns -> BOOLEAN]
    BY Zenon DEF HandlerTypeOK
  <1>6. ASSUME NEW f \in [Conns -> BOOLEAN], NEW g, g = f \/ g = [f EXCEPT ![c] = TRUE]
        PROVE  g \in [Conns -> BOOLEAN] /\ \A d \in Conns : f[d] => g[d]
    BY <1>6, Zenon
  <1> QED BY <1>1, <1>3, <1>4, <1>5, <1>6, Zenon

\* A read takes a part of what is unread, or the replayed byte (handler.go:324, tls.go:131-156).
LEMMA TakesSplits ==
    ASSUME HandlerTypeOK, NEW c \in Conns, Takes(c)
    PROVE  \E x, y \in Seq(Units) :
              /\ x # <<>> /\ payload' = [payload EXCEPT ![c] = payload[c] \o x]
              /\ inbox' = [inbox EXCEPT ![c] = y]
              /\ prefix[c] # <<>> => x = prefix[c] /\ y = inbox[c]
              /\ prefix[c] = <<>> => x \o y = inbox[c]
  <1>t. inbox[c] \in Seq(Units) /\ prefix[c] \in Seq(Units)
    BY DEF HandlerTypeOK
  <1>1. CASE prefix[c] # <<>>
    <2>1. Available(c) = prefix[c] /\ Chunk(c) = prefix[c]
      BY <1>1, Zenon DEF Available, Chunk
    <2>2. payload' = [payload EXCEPT ![c] = payload[c] \o prefix[c]] /\ inbox' = [inbox EXCEPT ![c] = inbox[c]]
      BY <1>1, <2>1, Zenon DEF Takes
    <2> QED BY <1>t, <1>1, <2>2, Zenon
  <1>2. CASE prefix[c] = <<>>
    <2> DEFINE b == inbox[c]
    <2>1. Available(c) = b /\ b # <<>> /\ b \in Seq(Units)
      BY <1>t, <1>2, Zenon DEF Takes, Available
    <2>2. Chunk(c) = SubSeq(b, 1, 1) \/ Chunk(c) = b
      BY <1>2, <2>1, Zenon DEF Chunk
    <2>r. /\ payload' = [payload EXCEPT ![c] = payload[c] \o Chunk(c)]
          /\ inbox' = [inbox EXCEPT ![c] = SubSeq(b, Len(Chunk(c)) + 1, Len(b))]
      BY <1>2, Zenon DEF Takes
    <2> HIDE DEF b
    <2>3. Len(b) \in Nat /\ Len(b) >= 1
      BY <2>1
    <2>4. PICK n \in 1..Len(b) : Chunk(c) = SubSeq(b, 1, n)
      <3>1. SubSeq(b, 1, Len(b)) = b
        BY <2>1, SubSeqFull
      <3> QED BY <2>2, <2>3, <3>1
    <2>5. \A m, k \in Int : 1 <= m /\ k <= Len(b) =>
             /\ SubSeq(b, m, k) \in Seq(Units)
             /\ Len(SubSeq(b, m, k)) = IF m <= k THEN k - m + 1 ELSE 0
      <3> SUFFICES ASSUME NEW m \in Int, NEW k \in Int, 1 <= m, k <= Len(b)
                   PROVE  /\ SubSeq(b, m, k) \in Seq(Units)
                          /\ Len(SubSeq(b, m, k)) = IF m <= k THEN k - m + 1 ELSE 0
        OBVIOUS
      <3>1. \A i \in m..k : b[i] \in Units
        BY <2>1, <2>3
      <3> QED BY <3>1, SubSeqProperties
    <2>6. Chunk(c) \in Seq(Units) /\ Len(Chunk(c)) = n
      BY <2>3, <2>4, <2>5
    <2>7. SubSeq(b, n + 1, Len(b)) \in Seq(Units)
      BY <2>3, <2>5
    <2>8. SubSeq(b, 1, n) \o SubSeq(b, n + 1, Len(b)) = SubSeq(b, 1, Len(b))
      <3>1. 1 \in 1..(Len(b) + 1) /\ n \in (1 - 1)..Len(b) /\ Len(b) \in n..Len(b)
        BY <2>3
      <3> QED BY <2>1, <3>1, ConcatAdjacentSubSeq
    <2>9. SubSeq(b, 1, Len(b)) = b
      BY <2>1, SubSeqFull
    <2>10. Chunk(c) # <<>>
      BY <2>6
    <2>11. inbox' = [inbox EXCEPT ![c] = SubSeq(b, n + 1, Len(b))] /\ Chunk(c) \o SubSeq(b, n + 1, Len(b)) = inbox[c]
      BY <2>r, <2>4, <2>6, <2>8, <2>9 DEF b
    <2> HIDE DEF Chunk
    <2> QED BY <1>2, <2>r, <2>6, <2>7, <2>10, <2>11, Zenon
  <1> QED BY <1>1, <1>2

----------------------------------------------------------------------------
(* Types. *)

\* Types of what a connection has received, read and recorded (handler.go:321-431).
LEMMA DataTypes ==
    ASSUME HandlerTypeOK, NEW c \in Conns, Connection(c)
    PROVE  /\ inbox' \in [Conns -> Seq(Units)] /\ prefix' \in [Conns -> Seq(Units)]
           /\ payload' \in [Conns -> Seq(Units)] /\ logged' \in [Conns -> Seq(Units)]
           /\ discarded' \in [Conns -> Seq(Units)] /\ sent' \in [Conns -> Nat]
  <1>1. CASE DataKept
    BY <1>1 DEF DataKept, HandlerTypeOK
  <1>2. CASE SniffsPlain(c)
    <2>1. inbox[c] \in Seq(Units) /\ inbox[c] # <<>>
      BY <1>2 DEF SniffsPlain, HandlerTypeOK
    <2>2. Head(inbox[c]) \in Units /\ Tail(inbox[c]) \in Seq(Units)
      BY <2>1, HeadTailProperties
    <2>3. <<Head(inbox[c])>> \in Seq(Units)
      BY <2>2
    <2> QED BY <1>2, <2>2, <2>3 DEF SniffsPlain, HandlerTypeOK
  <1>3. CASE SniffsTLS(c)
    <2>1. inbox[c] \in Seq(Units) /\ inbox[c] # <<>>
      BY <1>3 DEF SniffsTLS, HandlerTypeOK
    <2>2. Tail(inbox[c]) \in Seq(Units)
      BY <2>1, HeadTailProperties
    <2> QED BY <1>3, <2>2 DEF SniffsTLS, HandlerTypeOK
  <1>4. CASE Takes(c)
    <2>1. PICK x, y \in Seq(Units) :
             payload' = [payload EXCEPT ![c] = payload[c] \o x] /\ inbox' = [inbox EXCEPT ![c] = y]
      BY <1>4, TakesSplits, Zenon
    <2>2. payload[c] \o x \in Seq(Units)
      BY DEF HandlerTypeOK
    <2>3. <<>> \in Seq(Units)
      OBVIOUS
    <2>4. payload' \in [Conns -> Seq(Units)] /\ inbox' \in [Conns -> Seq(Units)]
      BY <2>1, <2>2 DEF HandlerTypeOK
    <2>5. prefix' \in [Conns -> Seq(Units)]
      BY <1>4, <2>3 DEF Takes, HandlerTypeOK
    <2>6. UNCHANGED <<sent, logged, discarded>>
      BY <1>4, Zenon DEF Takes
    <2> QED BY <2>4, <2>5, <2>6 DEF HandlerTypeOK
  <1>8. CASE Discards(c)
    <2>1. /\ discarded' = [discarded EXCEPT ![c] = inbox[c]] /\ inbox' = [inbox EXCEPT ![c] = <<>>]
          /\ UNCHANGED <<sent, prefix, payload, logged>>
      BY <1>8, Zenon DEF Discards
    <2>2. <<>> \in Seq(Units) /\ inbox[c] \in Seq(Units)
      BY DEF HandlerTypeOK
    <2> QED BY <2>1, <2>2 DEF HandlerTypeOK
  <1>5. CASE Record(c)
    <2>1. logged[c] \o payload[c] \in Seq(Units)
      BY DEF HandlerTypeOK
    <2> QED BY <1>5, <2>1 DEF Record, HandlerTypeOK
  <1>6. CASE SendsHello(c)
    <2>1. Unit(0, "hello") \in Units
      BY DEF Unit, Units
    <2>2. Append(inbox[c], Unit(0, "hello")) \in Seq(Units)
      BY <2>1 DEF HandlerTypeOK
    <2> QED BY <1>6, <2>2 DEF SendsHello, Arrives, HandlerTypeOK
  <1>7. CASE Sends(c)
    <2>1. PICK kind \in Kinds : Arrives(c, Unit(sent[c] + 1, kind))
      BY <1>7 DEF Sends
    <2>2. kind \in SentKinds
      <3>1. scene.kinds \subseteq SentKinds
        BY HandlerAssumption, Zenon DEF HandlerTypeOK
      <3> QED BY <2>1, <3>1 DEF Kinds
    <2>3. Unit(sent[c] + 1, kind) \in Units
      BY <2>2 DEF Unit, Units, HandlerTypeOK
    <2>4. Append(inbox[c], Unit(sent[c] + 1, kind)) \in Seq(Units)
      BY <2>3 DEF HandlerTypeOK
    <2> QED BY <1>7, <2>1, <2>4 DEF Sends, Arrives, HandlerTypeOK
  <1> QED BY DataSteps, <1>1, <1>2, <1>3, <1>4, <1>5, <1>6, <1>7, <1>8

\* Types of the stage of a script, which only a reply moves (persona.go).
LEMMA ScriptTypes ==
    ASSUME HandlerTypeOK, NEW c \in Conns, Connection(c)
    PROVE  /\ stage' \in [Conns -> Nat] /\ lines' \in [Conns -> Nat] /\ done' \in [Conns -> BOOLEAN]
           /\ UNCHANGED <<stage, lines, done>> \/ Responds(c)
  <1>1. UNCHANGED <<stage, lines, done>> \/ Responds(c)
    BY Zenon DEF Connection, Proceeds, Counts, Handles, Client, conn,
     Drops, DropLoads, DropStores, DropAdds, RateLimited, Stores, NoOrigDst, Begins,
     SniffFails, HandshakeFails, NoGreeting, Greets, GreetFails, Reads, ReadDiscards, ReadEnds, CoalesceEnds,
     SniffsPlain, SniffsTLS, Coalesces, Arrives, Sends, SendsHello, Takes, Record,
     SshBanner, SshBannerFails, SshReads, SshDiscards, SshReadEnds, Discards, RespondFails, LogsAndReads,
     LogsAndCloses, LogPanics, Accept, Handshakes, Closes
  <1>2. CASE Responds(c)
    <2>1. NextStage(c) \in Nat /\ stage' = [stage EXCEPT ![c] = NextStage(c)]
      BY <1>2 DEF NextStage, Responds, HandlerTypeOK
    <2>2. Done(c, NextStage(c)) \in BOOLEAN
      BY Zenon DEF Done, HasPrintable
    <2>3. done' = [done EXCEPT ![c] = Done(c, NextStage(c))]
      BY <1>2 DEF Responds
    <2>4. done' \in [Conns -> BOOLEAN]
      BY <2>2, <2>3 DEF HandlerTypeOK
    <2>5. lines' \in [Conns -> Nat]
      BY <1>2 DEF Responds, HandlerTypeOK
    <2> QED BY <1>2, <2>1, <2>4, <2>5 DEF HandlerTypeOK
  <1> QED BY <1>1, <1>2 DEF HandlerTypeOK

\* Types of the drop counters, which only countDrop moves (handler.go:83-90).
LEMMA CounterTypes ==
    ASSUME HandlerTypeOK, NEW c \in Conns, Connection(c)
    PROVE  /\ dropped' \in Nat /\ count' \in [Conns -> Nat]
           /\ entry' \subseteq Conns /\ ptr' \in [Conns -> SUBSET Conns]
           /\ UNCHANGED drop \/ Counts(c)
  <1>1. UNCHANGED drop \/ Counts(c)
    BY Zenon DEF Connection, Proceeds
  <1>2. CASE Counts(c)
    <2>1. CASE Drops(c)
      BY <1>2, <2>1 DEF Drops, HandlerTypeOK
    <2>2. CASE DropLoads(c)
      BY <1>2, <2>2 DEF DropLoads, HandlerTypeOK
    <2>3. CASE DropStores(c)
      BY <1>2, <2>3 DEF DropStores, HandlerTypeOK
    <2>4. CASE DropAdds(c)
      BY <1>2, <2>4, SMTT(30) DEF DropAdds, HandlerTypeOK
    <2> QED BY <1>2, <2>1, <2>2, <2>3, <2>4 DEF Counts
  <1> QED BY <1>1, <1>2 DEF HandlerTypeOK, drop

\* Every step of a connection keeps the types.
LEMMA ConnectionTypes ==
    ASSUME HandlerTypeOK, NEW c \in Conns, Connection(c), UNCHANGED scene
    PROVE  HandlerTypeOK'
  <1>1. table' \subseteq Conns
    BY DEF HandlerTypeOK, Connection, Proceeds, Counts, Handles, Client, proc,
     Drops, DropLoads, DropStores, DropAdds, RateLimited, Stores, NoOrigDst, Begins,
     SniffFails, HandshakeFails, NoGreeting, Greets, GreetFails, Reads, ReadDiscards, ReadEnds, CoalesceEnds,
     SniffsPlain, SniffsTLS, Coalesces, Arrives, Sends, SendsHello,
     SshBanner, SshBannerFails, SshReads, SshDiscards, SshReadEnds, Responds, RespondFails, LogsAndReads,
     LogsAndCloses, LogPanics, Accept, Handshakes, Closes, Leave
  <1>2. scene' \in Scenes
    BY DEF HandlerTypeOK
  <1> QED BY <1>1, <1>2, PointSteps, DataTypes, FlagSteps, ScriptTypes, CounterTypes, Zenon DEF HandlerTypeOK

\* So does the start.
LEMMA InitTypes == HandlerInit => HandlerTypeOK
  <1>1. [c \in Conns |-> <<>>] \in [Conns -> Seq(Units)]
    OBVIOUS
  <1>2. [c \in Conns |-> 0] \in [Conns -> Nat]
    OBVIOUS
  <1>3. [c \in Conns |-> FALSE] \in [Conns -> BOOLEAN]
    OBVIOUS
  <1>4. [c \in Conns |-> {}] \in [Conns -> SUBSET Conns]
    OBVIOUS
  <1>5. [c \in Conns |-> "absent"] \in [Conns -> Points]
    BY DEF Points
  <1>6. {} \subseteq Conns /\ 0 \in Nat
    OBVIOUS
  <1> QED BY <1>1, <1>2, <1>3, <1>4, <1>5, <1>6, Zenon DEF HandlerInit, HandlerTypeOK

----------------------------------------------------------------------------
(* No byte is lost, doubled or moved. *)

\* The units of s are numbered, up to n, behind at most one ClientHello.
Numbered(s, n) ==
    \E k \in 0..1 : /\ Len(s) = n + k
                   /\ \A i \in 1..Len(s) : s[i].n = i - k

\* Where a part of the stream stands does not matter.
LEMMA ReplayedIsRead ==
    ASSUME NEW a \in Seq(Units), NEW p \in Seq(Units), NEW x \in Seq(Units)
    PROVE  (a \o (p \o x)) \o <<>> = (a \o p) \o x
  <1>1. a \o (p \o x) = (a \o p) \o x
    OBVIOUS
  <1>2. (a \o (p \o x)) \o <<>> = a \o (p \o x)
    OBVIOUS
  <1> QED BY <1>1, <1>2

\* A record moves what is in hand to what is recorded.
LEMMA ReadIsRecorded ==
    ASSUME NEW a \in Seq(Units), NEW p \in Seq(Units)
    PROVE  (a \o p) \o <<>> = a \o p
  OBVIOUS

\* At first everything is unread.
LEMMA NothingBefore ==
    ASSUME NEW b \in Seq(Units)
    PROVE  ((<<>> \o <<>>) \o <<>>) \o b = b
  OBVIOUS

\* The byte that detection reads is replayed before the rest (tls.go).
LEMMA HeadIsReplayed ==
    ASSUME NEW b \in Seq(Units), b # <<>>
    PROVE  ((<<>> \o <<>>) \o <<Head(b)>>) \o Tail(b) = b
  <1>1. Head(b) \in Units /\ Tail(b) \in Seq(Units) /\ <<Head(b)>> \in Seq(Units)
    BY HeadTailProperties
  <1>2. (<<>> \o <<>>) \o <<Head(b)>> = <<Head(b)>>
    BY <1>1
  <1>3. <<Head(b)>> \o Tail(b) = b
    BY <1>1
  <1> QED BY <1>2, <1>3

\* What the client sends comes after what it sent.
LEMMA ArrivesLast ==
    ASSUME NEW y \in Seq(Units), NEW b \in Seq(Units), NEW e \in Units
    PROVE  y \o Append(b, e) = Append(y \o b, e)
  OBVIOUS

\* Every step of a connection keeps the invariant.
LEMMA StreamSteps ==
    ASSUME HandlerTypeOK, StreamInv, NEW c \in Conns, Connection(c)
    PROVE  StreamInv'
  <1>t. /\ inbox[c] \in Seq(Units) /\ prefix[c] \in Seq(Units)
        /\ payload[c] \in Seq(Units) /\ logged[c] \in Seq(Units) /\ sent[c] \in Nat
        /\ inbox'[c] \in Seq(Units) /\ discarded[c] \in Seq(Units)
    BY DataTypes DEF HandlerTypeOK
  <1>n. \A d \in Conns : Numbered(Stream(d), sent[d])
    BY Zenon DEF StreamInv, StreamIntact, Numbered
  <1>d. \A d \in Conns :
           discarded[d] # <<>> => tls[d] /\ fin[d] /\ inbox[d] = <<>> /\ Len(discarded[d]) = 1
    BY Zenon DEF StreamInv, StreamIntact
  <1>f. \A d \in Conns : (tls[d] => tls'[d]) /\ (fin[d] => fin'[d])
    BY FlagSteps
  \* The other connections are as they were.
  <1>o. ASSUME NEW d \in Conns, d # c
        PROVE  /\ inbox'[d] = inbox[d] /\ sent'[d] = sent[d] /\ prefix'[d] = prefix[d]
               /\ payload'[d] = payload[d] /\ logged'[d] = logged[d]
               /\ discarded'[d] = discarded[d]
    <2>1. CASE DataKept
      BY <2>1 DEF DataKept
    <2>2. CASE SniffsPlain(c) \/ SniffsTLS(c) \/ Discards(c) \/ Record(c)
      BY <1>o, <2>2 DEF SniffsPlain, SniffsTLS, Discards, Record, HandlerTypeOK
    <2>4. CASE Takes(c)
      <3>1. \E a, b : payload' = [payload EXCEPT ![c] = a] /\ inbox' = [inbox EXCEPT ![c] = b]
        BY <2>4, Zenon DEF Takes
      <3>2. prefix' = [prefix EXCEPT ![c] = <<>>] /\ UNCHANGED <<sent, logged, discarded>>
        BY <2>4, Zenon DEF Takes
      <3> QED BY <1>o, <3>1, <3>2 DEF HandlerTypeOK
    <2>3. CASE SendsHello(c) \/ Sends(c)
      BY <1>o, <2>3 DEF SendsHello, Sends, Arrives, HandlerTypeOK
    <2> QED BY <2>1, <2>2, <2>3, <2>4, DataSteps, Zenon
  <1>p. ASSUME NEW d \in Conns, d # c
        PROVE  pc'[d] = pc[d]
    BY <1>p, PointSteps
  \* So it is enough to look at this one.
  <1>g. ASSUME pc'[c] \in {"absent", "new", "stored", "sniff"} =>
                  /\ logged'[c] = <<>> /\ payload'[c] = <<>> /\ prefix'[c] = <<>>
                  /\ discarded'[c] = <<>>,
               "hello" \in KindsOf(inbox'[c]) => Len(inbox'[c]) = 1 /\ sent'[c] = 0,
               Numbered(Stream(c)', sent'[c]),
               discarded'[c] # <<>> =>
                  tls'[c] /\ fin'[c] /\ inbox'[c] = <<>> /\ Len(discarded'[c]) = 1
        PROVE  StreamInv'
    <2>1. Unread'
      <3>1. ASSUME NEW d \in Conns, pc'[d] \in {"absent", "new", "stored", "sniff"}
            PROVE  logged'[d] = <<>> /\ payload'[d] = <<>> /\ prefix'[d] = <<>> /\ discarded'[d] = <<>>
        <4>1. CASE d = c
          BY <1>g, <3>1, <4>1, Zenon
        <4>2. CASE d # c
          BY <1>o, <1>p, <3>1, <4>2, Zenon DEF StreamInv, Unread
        <4> QED BY <4>1, <4>2
      <3> QED BY <3>1, Zenon DEF Unread
    <2>2. HelloAlone'
      BY <1>g, <1>o, Zenon DEF StreamInv, HelloAlone
    <2>3. ASSUME NEW d \in Conns
          PROVE  Numbered(Stream(d)', sent'[d])
      <3>1. d # c => Stream(d)' = Stream(d) /\ sent'[d] = sent[d]
        BY <1>o, Zenon DEF Stream, Kept
      <3> QED BY <1>g, <1>n, <3>1, Zenon
    <2>5. ASSUME NEW d \in Conns
          PROVE  discarded'[d] # <<>> =>
                    tls'[d] /\ fin'[d] /\ inbox'[d] = <<>> /\ Len(discarded'[d]) = 1
      BY <1>d, <1>f, <1>g, <1>o, Zenon
    <2>4. StreamIntact'
      BY <2>3, <2>5, Zenon DEF StreamIntact, Numbered
    <2> QED BY <2>1, <2>2, <2>4 DEF StreamInv
  \* What was thrown away stays behind the rest.
  <1>s. ASSUME Kept(c)' = Kept(c), discarded'[c] = discarded[c]
        PROVE  Stream(c)' = Stream(c)
    BY <1>s, Zenon DEF Stream
  <1>e. ASSUME discarded[c] = <<>>
        PROVE  Stream(c) = Kept(c)
    <2>1. Kept(c) \in Seq(Units)
      BY <1>t DEF Kept
    <2>2. Kept(c) \o <<>> = Kept(c)
      BY <2>1
    <2> QED BY <1>e, <2>2, Zenon DEF Stream
  <1>r. (logged[c] \o (payload[c] \o prefix[c])) \o <<>> = (logged[c] \o payload[c]) \o prefix[c]
    BY <1>t, ReplayedIsRead
  \* A read moves a part of what is unread to what is in hand.
  <1>u. ASSUME NEW x \in Seq(Units), NEW y \in Seq(Units)
        PROVE  ((logged[c] \o (payload[c] \o x)) \o <<>>) \o y
                 = ((logged[c] \o payload[c]) \o <<>>) \o (x \o y)
    <2> DEFINE a == logged[c]
               b == payload[c]
    <2>1. a \in Seq(Units) /\ b \in Seq(Units)
      BY <1>t
    <2> HIDE DEF a, b
    <2>2. a \o (b \o x) = (a \o b) \o x
      BY <2>1
    <2>3. (a \o (b \o x)) \o <<>> = a \o (b \o x) /\ (a \o b) \o <<>> = a \o b
      BY <2>1
    <2>4. a \o b \in Seq(Units)
      BY <2>1
    <2>5. ASSUME NEW q \in Seq(Units) PROVE (q \o x) \o y = q \o (x \o y)
      OBVIOUS
    <2>6. ((a \o b) \o x) \o y = (a \o b) \o (x \o y)
      BY <2>4, <2>5
    <2>7. ((a \o (b \o x)) \o <<>>) \o y = ((a \o b) \o <<>>) \o (x \o y)
      BY <2>2, <2>3, <2>6, Zenon
    <2> QED BY <2>7 DEF a, b
  <1>1. CASE DataKept
    <2>0. Kept(c)' = Kept(c) /\ sent'[c] = sent[c] /\ discarded'[c] = discarded[c] /\ inbox'[c] = inbox[c]
      BY <1>1, Zenon DEF DataKept, Kept
    <2>1. Stream(c)' = Stream(c)
      BY <1>s, <2>0, Zenon
    <2>2. pc'[c] \in {"absent", "new", "stored", "sniff"} =>
                  /\ logged'[c] = <<>> /\ payload'[c] = <<>> /\ prefix'[c] = <<>>
                  /\ discarded'[c] = <<>>
      BY <1>1, PointSteps DEF DataKept, StreamInv, Unread
    <2>3. "hello" \in KindsOf(inbox'[c]) => Len(inbox'[c]) = 1 /\ sent'[c] = 0
      BY <1>1, Zenon DEF DataKept, StreamInv, HelloAlone
    <2> QED BY <1>d, <1>f, <1>g, <1>n, <2>0, <2>1, <2>2, <2>3, Zenon
  <1>2. CASE SniffsPlain(c)
    <2>1. /\ pc[c] = "sniff" /\ pc'[c] = "greet" /\ inbox[c] # <<>>
          /\ prefix'[c] = <<Head(inbox[c])>> /\ inbox'[c] = Tail(inbox[c])
          /\ sent'[c] = sent[c] /\ payload'[c] = payload[c] /\ logged'[c] = logged[c]
          /\ discarded'[c] = discarded[c]
      BY <1>2 DEF SniffsPlain, At, Goto, HandlerTypeOK
    <2>2. logged[c] = <<>> /\ payload[c] = <<>> /\ prefix[c] = <<>> /\ discarded[c] = <<>>
      BY <2>1 DEF StreamInv, Unread
    <2>3. Kept(c)' = ((<<>> \o <<>>) \o <<Head(inbox[c])>>) \o Tail(inbox[c])
      BY <2>1, <2>2, Zenon DEF Kept
    <2>4. Kept(c) = ((<<>> \o <<>>) \o <<>>) \o inbox[c]
      BY <2>2, Zenon DEF Kept
    <2>7. Kept(c)' = Kept(c)
      BY <1>t, <2>1, <2>3, <2>4, HeadIsReplayed, NothingBefore
    <2>5. Stream(c)' = Stream(c)
      BY <1>s, <2>1, <2>7
    <2>6. ASSUME "hello" \in KindsOf(inbox'[c])
          PROVE  FALSE
      <3>1. PICK i \in 1..Len(inbox'[c]) : inbox'[c][i].kind = "hello"
        BY <1>t, <2>6 DEF KindsOf
      <3>2. /\ Len(Tail(inbox[c])) = Len(inbox[c]) - 1
            /\ i + 1 \in 1..Len(inbox[c]) /\ inbox[c][i + 1].kind = "hello"
        BY <1>t, <2>1, <3>1, HeadTailProperties
      <3>3. "hello" \in KindsOf(inbox[c])
        BY <1>t, <3>2 DEF KindsOf
      <3>4. Len(inbox[c]) = 1
        BY <3>3, Zenon DEF StreamInv, HelloAlone
      <3> QED BY <1>t, <3>2, <3>4
    <2> QED BY <1>g, <1>n, <2>1, <2>2, <2>5, <2>6, Zenon
  <1>3. CASE SniffsTLS(c)
    <2>1. /\ pc[c] = "sniff" /\ pc'[c] = "handshake" /\ inbox[c] # <<>>
          /\ Head(inbox[c]).kind = "hello" /\ inbox'[c] = Tail(inbox[c])
          /\ sent'[c] = sent[c] /\ payload'[c] = payload[c] /\ logged'[c] = logged[c]
          /\ prefix'[c] = prefix[c] /\ discarded'[c] = discarded[c]
      BY <1>3 DEF SniffsTLS, At, Goto, HandlerTypeOK
    <2>2. logged[c] = <<>> /\ payload[c] = <<>> /\ prefix[c] = <<>> /\ discarded[c] = <<>>
      BY <2>1 DEF StreamInv, Unread
    <2>3. "hello" \in KindsOf(inbox[c])
      <3>1. 1 \in DOMAIN inbox[c] /\ inbox[c][1].kind = "hello"
        BY <1>t, <2>1
      <3> QED BY <3>1, Zenon DEF KindsOf
    <2>4. Len(inbox[c]) = 1 /\ sent[c] = 0
      BY <2>3, Zenon DEF StreamInv, HelloAlone
    <2>5. inbox'[c] = <<>>
      <3>1. Len(Tail(inbox[c])) = 0 /\ Tail(inbox[c]) \in Seq(Units)
        BY <1>t, <2>1, <2>4, HeadTailProperties
      <3> QED BY <2>1, <3>1, EmptySeq
    <2>6. Stream(c)' = <<>>
      <3>1. Stream(c)' = (((<<>> \o <<>>) \o <<>>) \o <<>>) \o <<>>
        BY <2>1, <2>2, <2>5, Zenon DEF Stream, Kept
      <3> QED BY <3>1
    <2>7. Numbered(Stream(c)', sent'[c])
      BY <2>1, <2>4, <2>6 DEF Numbered
    <2>8. "hello" \notin KindsOf(inbox'[c])
      BY <2>5 DEF KindsOf
    <2> QED BY <1>g, <2>1, <2>2, <2>7, <2>8, Zenon
  <1>4. CASE Takes(c) /\ pc[c] \in {"read", "coalesce", "kexinit"}
    <2>0. PICK x, y \in Seq(Units) :
             /\ x # <<>> /\ payload' = [payload EXCEPT ![c] = payload[c] \o x]
             /\ inbox' = [inbox EXCEPT ![c] = y]
             /\ prefix[c] # <<>> => x = prefix[c] /\ y = inbox[c]
             /\ prefix[c] = <<>> => x \o y = inbox[c]
      BY <1>4, TakesSplits, Zenon
    <2>1. /\ payload'[c] = payload[c] \o x /\ prefix'[c] = <<>> /\ inbox'[c] = y
          /\ sent'[c] = sent[c] /\ logged'[c] = logged[c] /\ discarded'[c] = discarded[c]
      BY <1>4, <2>0 DEF Takes, HandlerTypeOK
    <2>2. Kept(c)' = Kept(c)
      <3>1. CASE prefix[c] # <<>>
        <4>1. Kept(c)' = ((logged[c] \o (payload[c] \o prefix[c])) \o <<>>) \o inbox[c]
          BY <2>0, <2>1, <3>1, Zenon DEF Kept
        <4>2. (logged[c] \o (payload[c] \o prefix[c])) \o <<>>
                = (logged[c] \o payload[c]) \o prefix[c]
          BY <1>r, Zenon
        <4> QED BY <4>1, <4>2, Zenon DEF Kept
      <3>2. CASE prefix[c] = <<>>
        <4>2. Kept(c)' = ((logged[c] \o (payload[c] \o x)) \o <<>>) \o y
          BY <2>1, <3>2, Zenon DEF Kept
        <4>3. Kept(c) = ((logged[c] \o payload[c]) \o <<>>) \o (x \o y)
          BY <2>0, <3>2, Zenon DEF Kept
        <4>4. ((logged[c] \o (payload[c] \o x)) \o <<>>) \o y
                = ((logged[c] \o payload[c]) \o <<>>) \o (x \o y)
          BY <1>u, <2>0, Zenon
        <4> QED BY <4>2, <4>3, <4>4, Zenon
      <3> QED BY <3>1, <3>2
    <2>5. Stream(c)' = Stream(c)
      BY <1>s, <2>1, <2>2, Zenon
    \* What is left unread was unread.
    <2>6. /\ "hello" \in KindsOf(y) => y = inbox[c]
          /\ inbox[c] = <<>> => y = <<>>
      <3>1. CASE prefix[c] # <<>>
        BY <2>0, <3>1, Zenon
      <3>2. CASE prefix[c] = <<>>
        <4>1. x \o y = inbox[c] /\ Len(x) \in Nat /\ Len(x) > 0
          BY <2>0, <3>2
        <4>2. Len(inbox[c]) = Len(x) + Len(y)
          BY <2>0, <4>1, ConcatProperties
        <4>3. inbox[c] # <<>>
          BY <1>t, <4>1, <4>2
        <4>4. ASSUME "hello" \in KindsOf(y) PROVE FALSE
          <5>1. PICK i \in 1..Len(y) : y[i].kind = "hello"
            BY <4>4 DEF KindsOf
          <5>2. Len(x) + i \in 1..Len(inbox[c]) /\ inbox[c][Len(x) + i] = y[i]
            BY <4>1, <4>2, <5>1
          <5>3. "hello" \in KindsOf(inbox[c])
            BY <1>t, <5>1, <5>2 DEF KindsOf
          <5>4. Len(inbox[c]) = 1
            BY <5>3, Zenon DEF StreamInv, HelloAlone
          <5> QED BY <4>1, <4>2, <5>1, <5>4
        <4> QED BY <4>3, <4>4
      <3> QED BY <3>1, <3>2
    <2>3. "hello" \in KindsOf(inbox'[c]) => Len(inbox'[c]) = 1 /\ sent'[c] = 0
      BY <2>1, <2>6, Zenon DEF StreamInv, HelloAlone
    <2>4. pc'[c] \notin {"absent", "new", "stored", "sniff"}
      BY <1>4, PointSteps
    <2>7. discarded'[c] # <<>> =>
             tls'[c] /\ fin'[c] /\ inbox'[c] = <<>> /\ Len(discarded'[c]) = 1
      BY <1>d, <1>f, <2>1, <2>6, Zenon
    <2> QED BY <1>g, <1>n, <2>1, <2>5, <2>3, <2>4, <2>7, Zenon
  <1>5. CASE Record(c) /\ pc[c] = "log"
    <2>1. /\ logged'[c] = logged[c] \o payload[c] /\ payload'[c] = <<>>
          /\ inbox'[c] = inbox[c] /\ prefix'[c] = prefix[c] /\ sent'[c] = sent[c]
          /\ discarded'[c] = discarded[c]
      BY <1>5 DEF Record, HandlerTypeOK
    <2>2. Kept(c)' = (((logged[c] \o payload[c]) \o <<>>) \o prefix[c]) \o inbox[c]
      BY <2>1, Zenon DEF Kept
    <2>6. Kept(c)' = Kept(c)
      BY <1>t, <2>2, ReadIsRecorded DEF Kept
    <2>3. Stream(c)' = Stream(c)
      BY <1>s, <2>1, <2>6, Zenon
    <2>4. pc'[c] \notin {"absent", "new", "stored", "sniff"}
      BY <1>5, PointSteps
    <2>5. "hello" \in KindsOf(inbox'[c]) => Len(inbox'[c]) = 1 /\ sent'[c] = 0
      BY <2>1, Zenon DEF StreamInv, HelloAlone
    <2> QED BY <1>d, <1>f, <1>g, <1>n, <2>1, <2>3, <2>4, <2>5, Zenon
  <1>6. CASE SendsHello(c)
    <2>1. /\ pc[c] \in {"new", "stored", "sniff"} /\ inbox[c] = <<>>
          /\ inbox'[c] = Append(inbox[c], Unit(0, "hello")) /\ sent'[c] = sent[c]
          /\ prefix'[c] = prefix[c] /\ payload'[c] = payload[c] /\ logged'[c] = logged[c]
          /\ discarded'[c] = discarded[c]
      BY <1>6 DEF SendsHello, Arrives, HandlerTypeOK
    <2>2. logged[c] = <<>> /\ payload[c] = <<>> /\ prefix[c] = <<>> /\ discarded[c] = <<>>
      BY <2>1 DEF StreamInv, Unread
    <2>3. inbox'[c] = <<Unit(0, "hello")>>
      BY <2>1
    <2>4. Stream(c) = <<>> /\ Stream(c)' = <<Unit(0, "hello")>>
      <3>1. Stream(c) = (((<<>> \o <<>>) \o <<>>) \o <<>>) \o <<>>
        BY <2>1, <2>2, Zenon DEF Stream, Kept
      <3>4. Stream(c)' = (((<<>> \o <<>>) \o <<>>) \o inbox'[c]) \o <<>>
        BY <2>1, <2>2, Zenon DEF Stream, Kept
      <3>2. Stream(c)' = ((<<>> \o <<>>) \o <<>>) \o inbox'[c]
        BY <1>t, <3>4
      <3>3. ((<<>> \o <<>>) \o <<>>) \o inbox'[c] = inbox'[c]
        BY <1>t, NothingBefore
      <3> QED BY <2>3, <3>1, <3>2, <3>3
    <2>5. sent[c] = 0
      <3>1. Numbered(<<>>, sent[c])
        BY <1>n, <2>4, Zenon
      <3> QED BY <1>t, <3>1 DEF Numbered
    <2>6. Numbered(Stream(c)', sent'[c])
      <3>1. Len(Stream(c)') = sent'[c] + 1 /\ Stream(c)'[1].n = 0
        BY <2>1, <2>4, <2>5 DEF Unit
      <3> QED BY <2>1, <2>5, <3>1 DEF Numbered
    <2>7. Len(inbox'[c]) = 1 /\ sent'[c] = 0
      BY <2>1, <2>3, <2>5
    <2> QED BY <1>g, <2>1, <2>2, <2>6, <2>7, Zenon
  <1>7. CASE Sends(c)
    <2>1. PICK kind \in Kinds : Arrives(c, Unit(sent[c] + 1, kind))
      BY <1>7 DEF Sends
    <2>k. kind \in SentKinds
      <3>1. scene.kinds \subseteq SentKinds
        BY HandlerAssumption, Zenon DEF HandlerTypeOK
      <3> QED BY <2>1, <3>1 DEF Kinds
    <2> DEFINE u == Unit(sent[c] + 1, kind)
    <2>2. /\ inbox'[c] = Append(inbox[c], u) /\ sent'[c] = sent[c] + 1
          /\ prefix'[c] = prefix[c] /\ payload'[c] = payload[c] /\ logged'[c] = logged[c]
          /\ pc'[c] = pc[c] /\ "hello" \notin KindsOf(inbox[c]) /\ ~fin[c]
          /\ discarded'[c] = discarded[c]
      BY <1>7, <2>1 DEF Sends, Arrives, Up, HandlerTypeOK
    <2>e. discarded[c] = <<>>
      BY <1>d, <2>2, Zenon
    <2>3. u \in Units /\ u.n = sent[c] + 1 /\ u.kind # "hello"
      BY <1>t, <2>k DEF Unit, Units, SentKinds
    <2> HIDE DEF u
    <2>4. "hello" \notin KindsOf(inbox'[c])
      BY <1>t, <2>2, <2>3 DEF KindsOf
    <2>5. Stream(c)' = Append(Stream(c), u)
      <3>1. Kept(c)' = ((logged[c] \o payload[c]) \o prefix[c]) \o Append(inbox[c], u)
        BY <2>2, Zenon DEF Kept
      <3>2. (logged[c] \o payload[c]) \o prefix[c] \in Seq(Units)
        BY <1>t
      <3>3. ((logged[c] \o payload[c]) \o prefix[c]) \o Append(inbox[c], u)
              = Append(((logged[c] \o payload[c]) \o prefix[c]) \o inbox[c], u)
        BY <1>t, <2>3, <3>2, ArrivesLast
      <3>4. Kept(c)' = Append(Kept(c), u)
        BY <3>1, <3>3, Zenon DEF Kept
      <3>5. Kept(c) \in Seq(Units)
        BY <1>t DEF Kept
      <3>6. Append(Kept(c), u) \o <<>> = Append(Kept(c), u)
        BY <2>3, <3>5
      <3>7. Stream(c)' = Kept(c)' \o <<>>
        BY <2>2, <2>e, Zenon DEF Stream
      <3> QED BY <1>e, <2>e, <3>4, <3>6, <3>7, Zenon
    <2>6. Stream(c) \in Seq(Units)
      <3>1. Kept(c) \in Seq(Units)
        BY <1>t DEF Kept
      <3> QED BY <1>e, <2>e, <3>1, Zenon
    <2>7. Numbered(Append(Stream(c), u), sent[c] + 1)
      <3>1. PICK k \in 0..1 : /\ Len(Stream(c)) = sent[c] + k
                              /\ \A i \in 1..Len(Stream(c)) : Stream(c)[i].n = i - k
        BY <1>n, Zenon DEF Numbered
      <3>2. Len(Append(Stream(c), u)) = sent[c] + 1 + k
        BY <1>t, <2>6, <3>1
      <3>3. ASSUME NEW i \in 1..Len(Append(Stream(c), u))
            PROVE  Append(Stream(c), u)[i].n = i - k
        <4>1. CASE i \in 1..Len(Stream(c))
          BY <2>6, <3>1, <4>1
        <4>2. CASE i = Len(Stream(c)) + 1
          <5>1. Append(Stream(c), u)[i] = u
            BY <2>6, <4>2
          <5> QED BY <1>t, <2>3, <3>1, <4>2, <5>1
        <4> QED BY <2>6, <3>2, <4>1, <4>2
      <3> QED BY <3>1, <3>2, <3>3 DEF Numbered
    <2>8. pc'[c] \in {"absent", "new", "stored", "sniff"} =>
                  /\ logged'[c] = <<>> /\ payload'[c] = <<>> /\ prefix'[c] = <<>>
                  /\ discarded'[c] = <<>>
      BY <2>2, Zenon DEF StreamInv, Unread
    <2> QED BY <1>g, <2>2, <2>e, <2>4, <2>5, <2>7, <2>8, Zenon
  <1>8. CASE Discards(c) /\ pc[c] \in {"read", "kexinit"}
    <2>1. /\ tls[c] /\ fin[c] /\ Len(inbox[c]) = 1
          /\ discarded'[c] = inbox[c] /\ inbox'[c] = <<>>
          /\ tls'[c] /\ fin'[c] /\ sent'[c] = sent[c]
          /\ prefix'[c] = prefix[c] /\ payload'[c] = payload[c] /\ logged'[c] = logged[c]
      BY <1>8 DEF Discards, HandlerTypeOK
    <2>2. inbox[c] # <<>>
      <3>1. Len(<<>>) # 1
        OBVIOUS
      <3> QED BY <2>1, <3>1, Zenon
    <2>3. discarded[c] = <<>>
      BY <1>d, <2>2, Zenon
    <2>4. Stream(c)' = (((logged[c] \o payload[c]) \o prefix[c]) \o <<>>) \o inbox[c]
      BY <2>1, Zenon DEF Stream, Kept
    <2>5. Stream(c)' = Stream(c)
      <3>1. (logged[c] \o payload[c]) \o prefix[c] \in Seq(Units)
        BY <1>t
      <3>2. ((logged[c] \o payload[c]) \o prefix[c]) \o <<>> = (logged[c] \o payload[c]) \o prefix[c]
        BY <3>1
      <3> QED BY <1>e, <2>3, <2>4, <3>2, Zenon DEF Kept
    <2>6. "hello" \notin KindsOf(inbox'[c])
      BY <2>1 DEF KindsOf
    <2>7. pc'[c] \notin {"absent", "new", "stored", "sniff"}
      BY <1>8, PointSteps
    <2> QED BY <1>g, <1>n, <2>1, <2>5, <2>6, <2>7, Zenon
  <1> QED BY DataSteps, <1>1, <1>2, <1>3, <1>4, <1>5, <1>6, <1>7, <1>8, Zenon

\* The stream is whole when nothing was sent.
LEMMA StreamInit == HandlerInit => StreamInv
  <1> SUFFICES ASSUME HandlerInit PROVE StreamInv
    OBVIOUS
  <1>1. ASSUME NEW c \in Conns
        PROVE  /\ inbox[c] = <<>> /\ prefix[c] = <<>> /\ payload[c] = <<>> /\ logged[c] = <<>>
               /\ sent[c] = 0 /\ discarded[c] = <<>>
    BY <1>1 DEF HandlerInit
  <1>2. Unread
    BY <1>1, Zenon DEF Unread
  <1>3. HelloAlone
    <2>1. KindsOf(<<>>) = {}
      BY DEF KindsOf
    <2> QED BY <1>1, <2>1 DEF HelloAlone
  <1>4. ASSUME NEW c \in Conns
        PROVE  Stream(c) = <<>>
    <2>1. Stream(c) = (((<<>> \o <<>>) \o <<>>) \o <<>>) \o <<>>
      BY <1>1, <1>4, Zenon DEF Stream, Kept
    <2> QED BY <2>1
  <1>5. StreamIntact
    <2>1. Numbered(<<>>, 0)
      BY DEF Numbered
    <2>2. \A c \in Conns : Numbered(Stream(c), sent[c])
      BY <1>1, <1>4, <2>1, Zenon
    <2> QED BY <1>1, <2>2, Zenon DEF StreamIntact, Numbered
  <1> QED BY <1>2, <1>3, <1>5 DEF StreamInv

----------------------------------------------------------------------------
(* The process around the connections. *)

\* What a step of the process outside a connection's goroutine leaves alone.
ConnsKept == UNCHANGED <<pc, conn, table, drop, scene>>

\* The process moves one connection or none.
LEMMA ProcessSteps ==
    ASSUME [AgentNext]_agentVars
    PROVE  (\E c \in Conns : Tcp(Connection(c))) \/ ConnsKept
  BY Zenon DEF AgentNext, ConnsKept, agentVars, vars, proc, drop, Others, Rest, MainGoes, Fails, UdpOnly,
     AcceptLoopEnds, AcceptFails, Main, Boot, LoadFails, Loads, ValidateFails, Validates, LogFails,
     StartsShipper, TLSFails, BuildsHandler, ListenFails, ListensTCP, Accepts, WithoutUdp,
     UdpListenFails, StartsUdp, Signalled, Signal, Stop, ClosesListener, StopsTcp, ShutdownNil,
     ShutdownForces, ClosesChannel, Exits, EndsWithoutLoom, StopsUdp, FlushesUdp, Udp, ServeStarts,
     ServeReads, ServeFails, ServeEnds, ServeHandles, SweepExpires, SweepLogs, SweepEnds,
     ReadsCounts, Reports

\* A step of the rest of the process keeps a connection's types.
LEMMA KeptTypes ==
    ASSUME HandlerTypeOK, ConnsKept
    PROVE  HandlerTypeOK'
  BY Zenon DEF ConnsKept, conn, drop, HandlerTypeOK

\* Every step of the process does.
LEMMA AgentTypes ==
    ASSUME HandlerTypeOK, [AgentNext]_agentVars
    PROVE  HandlerTypeOK'
  <1>1. ASSUME NEW c \in Conns, Tcp(Connection(c))
        PROVE  HandlerTypeOK'
    BY <1>1, ConnectionTypes, Zenon DEF Tcp, Others
  <1> QED BY <1>1, ProcessSteps, KeptTypes, Zenon

\* A step of the rest of the process keeps the streams.
LEMMA KeptStream ==
    ASSUME StreamInv, ConnsKept
    PROVE  StreamInv'
  <1>1. UNCHANGED <<pc, inbox, sent, fin, tls, prefix, payload, logged, discarded>>
    BY Zenon DEF ConnsKept, conn
  <1>2. Unread' /\ HelloAlone'
    BY <1>1, Zenon DEF StreamInv, Unread, HelloAlone
  <1>3. StreamIntact'
    BY <1>1, Zenon DEF StreamInv, StreamIntact, Stream, Kept
  <1> QED BY <1>2, <1>3 DEF StreamInv

\* Between the socket and the records no byte is doubled or moved, and none is lost but
\* the one record that a TLS read returns together with the client's close, whatever the
\* clients send and whenever, with TLS or without, and however the process stops
\* (tls.go:131-156, handler.go:321-363).
THEOREM StreamsIntact == AgentSpec => []StreamIntact
  <1>1. AgentInit => HandlerTypeOK /\ StreamInv
    BY InitTypes, StreamInit DEF AgentInit
  <1>2. HandlerTypeOK /\ StreamInv /\ [AgentNext]_agentVars => (HandlerTypeOK /\ StreamInv)'
    <2> SUFFICES ASSUME HandlerTypeOK, StreamInv, [AgentNext]_agentVars
                 PROVE  (HandlerTypeOK /\ StreamInv)'
      OBVIOUS
    <2>1. HandlerTypeOK'
      BY AgentTypes
    <2>2. ASSUME NEW c \in Conns, Tcp(Connection(c))
          PROVE  StreamInv'
      BY <2>2, StreamSteps, Zenon DEF Tcp
    <2> QED BY <2>1, <2>2, ProcessSteps, KeptStream, Zenon
  <1>3. StreamInv => StreamIntact
    BY DEF StreamInv
  <1> QED BY <1>1, <1>2, <1>3, PTL DEF AgentSpec

----------------------------------------------------------------------------
(* The drop counters. *)

\* Of one counter, the one chosen is it.
LEMMA OneCounter == ASSUME NEW E, NEW e, E = {e} PROVE (CHOOSE c \in E : TRUE) = e
  <1>1. \E c \in E : TRUE
    OBVIOUS
  <1>2. (CHOOSE c \in E : TRUE) \in E
    BY <1>1, Zenon
  <1> QED BY <1>2

\* The source's count is that of its one counter, before a step and after.
LEMMA SourceOf ==
    ASSUME NEW e
    PROVE  /\ entry = {e} => BySource = count[e]
           /\ entry' = {e} => BySource' = count'[e]
  <1>1. ASSUME entry = {e}
        PROVE  BySource = count[e]
    <2>1. (CHOOSE c \in entry : TRUE) = e
      BY <1>1, OneCounter, Zenon
    <2>2. entry # {}
      BY <1>1
    <2> QED BY <2>1, <2>2, Zenon DEF BySource
  <1>2. ASSUME entry' = {e}
        PROVE  BySource' = count'[e]
    <2>1. (CHOOSE c \in entry' : TRUE) = e
      BY <1>2, OneCounter, Zenon
    <2>2. entry' # {}
      BY <1>2
    <2> QED BY <2>1, <2>2, Zenon DEF BySource
  <1> QED BY <1>1, <1>2

\* It is the same when neither the entry nor the counts change.
LEMMA SourceKept ==
    ASSUME DropInv, entry' = entry, count' = count
    PROVE  BySource' = BySource
  <1>1. CASE entry = {}
    BY <1>1 DEF BySource
  <1>2. ASSUME NEW e \in Conns, entry = {e}
        PROVE  BySource' = BySource
    BY <1>2, SourceOf
  <1> QED BY <1>1, <1>2 DEF DropInv

\* It is a number.
LEMMA BySourceIsNat ==
    ASSUME HandlerTypeOK, DropInv
    PROVE  BySource \in Nat
  <1>1. CASE entry = {}
    BY <1>1 DEF BySource
  <1>2. ASSUME NEW e \in Conns, entry = {e}
        PROVE  BySource \in Nat
    BY <1>2, SourceOf DEF HandlerTypeOK
  <1> QED BY <1>1, <1>2 DEF DropInv

\* A step that is not countDrop's leaves the counting as it is.
LEMMA CountingKept ==
    ASSUME HandlerTypeOK, NEW c \in Conns, Connection(c), ~Counts(c)
    PROVE  Counting' = Counting /\ \A d \in Conns : pc'[d] = "dropAdd" => pc[d] = "dropAdd"
  <1>1. ASSUME NEW d \in Conns
        PROVE  /\ pc'[d] \in {"dropLoad", "dropStore", "dropAdd"} <=>
                     pc[d] \in {"dropLoad", "dropStore", "dropAdd"}
               /\ pc'[d] = "dropAdd" => pc[d] = "dropAdd"
    BY DEF HandlerTypeOK, Points, Connection, Proceeds, Counts, Handles, Client,
     RateLimited, Stores, NoOrigDst, Begins,
     SniffFails, HandshakeFails, NoGreeting, Greets, GreetFails, Reads, ReadDiscards, ReadEnds, CoalesceEnds,
     SniffsPlain, SniffsTLS, Coalesces, Arrives, Sends, SendsHello,
     SshBanner, SshBannerFails, SshReads, SshDiscards, SshReadEnds, Responds, RespondFails, LogsAndReads,
     LogsAndCloses, LogPanics, Accept, Handshakes, Closes, At, Leave, Goto
  <1> QED BY <1>1 DEF Counting

\* The counters agree after every step of a connection (handler.go:83-90), and the total never falls.
LEMMA DropSteps ==
    ASSUME HandlerTypeOK, DropInv, NEW c \in Conns, Connection(c)
    PROVE  DropInv' /\ dropped' >= dropped
  <1>t. /\ dropped \in Nat /\ count \in [Conns -> Nat] /\ entry \subseteq Conns
        /\ pc \in [Conns -> Points] /\ ptr \in [Conns -> SUBSET Conns]
    BY DEF HandlerTypeOK
  <1>f. IsFiniteSet(Counting) /\ Cardinality(Counting) \in Nat /\ Counting \subseteq Ignored
    BY FS_CardinalityType DEF DropInv
  <1>s. BySource \in Nat /\ dropped = BySource + Cardinality(Counting)
    BY BySourceIsNat DEF DropInv
  <1>o. entry = {} \/ \E e \in Conns : entry = {e}
    BY Zenon DEF DropInv
  <1>a. \A d \in Conns : pc[d] = "dropAdd" => entry # {} /\ ptr[d] = entry
    BY Zenon DEF DropInv
  <1>z. \A d \in Conns : d \notin entry => count[d] = 0
    BY Zenon DEF DropInv
  <1>1. CASE ~Counts(c)
    <2>1. UNCHANGED <<dropped, entry, count, ptr>>
      BY <1>1, CounterTypes, Zenon DEF drop
    <2>2. Counting' = Counting /\ \A d \in Conns : pc'[d] = "dropAdd" => pc[d] = "dropAdd"
      BY <1>1, CountingKept
    <2>3. BySource' = BySource
      BY <2>1, SourceKept
    <2>4. dropped' >= dropped
      BY <1>t, <2>1
    <2>5. DropInv'
      BY <1>f, <1>s, <1>o, <1>a, <1>z, <2>1, <2>2, <2>3, Zenon DEF DropInv
    <2> QED BY <2>4, <2>5
  <1>2. CASE Drops(c)
    <2>1. /\ pc[c] = "new" /\ c \in Ignored /\ dropped' = dropped + 1
          /\ pc' = [pc EXCEPT ![c] = "dropLoad"] /\ UNCHANGED <<entry, count, ptr>>
      BY <1>2 DEF Drops, At, Goto
    <2>2. c \notin Counting /\ Counting' = Counting \cup {c}
      BY <1>t, <2>1 DEF Counting
    <2>3. IsFiniteSet(Counting') /\ Cardinality(Counting') = Cardinality(Counting) + 1
      BY <1>f, <2>2, FS_AddElement
    <2>4. BySource' = BySource
      BY <2>1, SourceKept
    <2>5. dropped' = BySource' + Cardinality(Counting')
      BY <1>f, <1>s, <1>t, <2>1, <2>3, <2>4
    <2>6. \A d \in Conns : pc'[d] = "dropAdd" => pc[d] = "dropAdd"
      BY <1>t, <2>1
    <2>7. Counting' \subseteq Ignored
      BY <1>f, <2>1, <2>2
    <2>8. DropInv'
      BY <1>o, <1>a, <1>z, <2>1, <2>3, <2>5, <2>6, <2>7, Zenon DEF DropInv
    <2> QED BY <1>t, <2>1, <2>8
  <1>3. CASE DropLoads(c)
    <2>1. /\ pc[c] = "dropLoad" /\ ptr' = [ptr EXCEPT ![c] = entry]
          /\ pc' = [pc EXCEPT ![c] = IF entry = {} THEN "dropStore" ELSE "dropAdd"]
          /\ UNCHANGED <<dropped, entry, count>>
      BY <1>3 DEF DropLoads, At, Goto
    <2>2. Counting' = Counting
      BY <1>t, <2>1 DEF Counting
    <2>3. BySource' = BySource
      BY <2>1, SourceKept
    <2>4. \A d \in Conns : pc'[d] = "dropAdd" => entry' # {} /\ ptr'[d] = entry'
      BY <1>a, <1>t, <2>1
    <2>5. DropInv'
      BY <1>f, <1>s, <1>o, <1>a, <1>z, <2>1, <2>2, <2>3, <2>4, Zenon DEF DropInv
    <2> QED BY <1>t, <2>1, <2>5
  <1>4. CASE DropStores(c)
    <2>1. /\ pc[c] = "dropStore" /\ entry' = (IF entry = {} THEN {c} ELSE entry)
          /\ ptr' = [ptr EXCEPT ![c] = entry'] /\ pc' = [pc EXCEPT ![c] = "dropAdd"]
          /\ UNCHANGED <<dropped, count>>
      BY <1>4 DEF DropStores, At, Goto
    <2>2. Counting' = Counting
      BY <1>t, <2>1 DEF Counting
    <2>3. BySource' = BySource
      <3>1. CASE entry = {}
        <4>1. BySource = 0
          BY <3>1 DEF BySource
        <4>2. entry' = {c} /\ count'[c] = 0
          BY <1>z, <2>1, <3>1
        <4>3. BySource' = count'[c]
          BY <4>2, SourceOf
        <4> QED BY <4>1, <4>2, <4>3
      <3>2. CASE entry # {}
        BY <2>1, <3>2, SourceKept
      <3> QED BY <3>1, <3>2
    <2>4. \A d \in Conns : pc'[d] = "dropAdd" => entry' # {} /\ ptr'[d] = entry'
      BY <1>a, <1>t, <2>1
    <2>5. entry' = {} \/ \E e \in Conns : entry' = {e}
      BY <1>o, <1>a, <2>1, Zenon
    <2>6. \A d \in Conns : d \notin entry' => count'[d] = 0
      BY <1>z, <2>1
    <2>7. DropInv'
      BY <1>f, <1>s, <2>1, <2>2, <2>3, <2>4, <2>5, <2>6, Zenon DEF DropInv
    <2> QED BY <1>t, <2>1, <2>7
  <1>5. CASE DropAdds(c)
    <2>1. /\ pc[c] = "dropAdd" /\ pc' = [pc EXCEPT ![c] = "gone"]
          /\ count' = [d \in Conns |-> IF d \in ptr[c] THEN count[d] + 1 ELSE count[d]]
          /\ UNCHANGED <<dropped, entry, ptr>>
      BY <1>5 DEF DropAdds, At, Goto
    <2>2. PICK e \in Conns : entry = {e} /\ ptr[c] = {e}
      BY <1>o, <1>a, <2>1, Zenon
    <2>3. BySource = count[e] /\ BySource' = count'[e]
      BY <2>1, <2>2, SourceOf
    <2>4. count'[e] = count[e] + 1
      BY <1>t, <2>1, <2>2
    <2>5. c \in Counting /\ Counting' = Counting \ {c}
      BY <1>t, <2>1 DEF Counting
    <2>6. IsFiniteSet(Counting') /\ Cardinality(Counting') = Cardinality(Counting) - 1
      BY <1>f, <2>5, FS_RemoveElement
    <2>7. dropped' = BySource' + Cardinality(Counting')
      BY <1>f, <1>s, <1>t, <2>1, <2>3, <2>4, <2>6
    <2>8. /\ \A d \in Conns : pc'[d] = "dropAdd" => entry' # {} /\ ptr'[d] = entry'
          /\ \A d \in Conns : d \notin entry' => count'[d] = 0
      BY <1>a, <1>z, <1>t, <2>1, <2>2
    <2>9. Counting' \subseteq Ignored
      BY <1>f, <2>5
    <2>10. DropInv'
      <3>1. entry' = {} \/ \E d \in Conns : entry' = {d}
        BY <2>1, <2>2, Zenon
      <3> QED BY <2>6, <2>7, <2>8, <2>9, <3>1, Zenon DEF DropInv
    <2> QED BY <1>t, <2>1, <2>10
  <1> QED BY <1>1, <1>2, <1>3, <1>4, <1>5 DEF Counts

\* They agree at first.
LEMMA DropInit == HandlerInit => DropInv
  <1> SUFFICES ASSUME HandlerInit PROVE DropInv
    OBVIOUS
  <1>1. Counting = {} /\ entry = {} /\ dropped = 0 /\ count = [c \in Conns |-> 0]
    BY DEF HandlerInit, Counting
  <1>2. BySource = 0
    BY <1>1 DEF BySource
  <1>3. IsFiniteSet(Counting) /\ Cardinality(Counting) = 0
    BY <1>1, FS_EmptySet
  <1>4. \A c \in Conns : pc[c] = "absent" /\ count[c] = 0
    BY <1>1 DEF HandlerInit
  <1> QED BY <1>1, <1>2, <1>3, <1>4 DEF DropInv

SeenInv == seen \in Int /\ seen <= dropped

\* The drop counters agree, in every interleaving of any number of dropped connections
\* and at every moment a report may be made (handler.go:49-90).
THEOREM DropsAreCounted == AgentSpec => []DropsCounted
  <1> DEFINE Inv == HandlerTypeOK /\ DropInv /\ SeenInv
  <1>1. AgentInit => Inv
    <2>1. AgentInit => seen = -1 /\ dropped = 0
      BY DEF AgentInit, HandlerInit, Nothing
    <2> QED BY <2>1, InitTypes, DropInit DEF AgentInit, SeenInv
  <1>2. Inv /\ [AgentNext]_agentVars => Inv'
    <2> SUFFICES ASSUME HandlerTypeOK, DropInv, SeenInv, [AgentNext]_agentVars
                 PROVE  Inv'
      OBVIOUS
    <2>1. HandlerTypeOK'
      BY AgentTypes
    <2>2. DropInv' /\ dropped' >= dropped
      <3>1. ASSUME NEW c \in Conns, Tcp(Connection(c))
            PROVE  DropInv' /\ dropped' >= dropped
        BY <3>1, DropSteps, Zenon DEF Tcp
      <3>2. ASSUME ConnsKept
            PROVE  DropInv' /\ dropped' >= dropped
        <4>1. UNCHANGED <<pc, dropped, entry, count, ptr>>
          BY <3>2, Zenon DEF ConnsKept, drop
        <4>2. DropInv'
          BY <4>1, SourceKept, Zenon DEF DropInv, Counting
        <4> QED BY <4>1, <4>2 DEF HandlerTypeOK
      <3> QED BY <3>1, <3>2, ProcessSteps, Zenon
    <2>3. seen' = seen \/ seen' = -1 \/ seen' = BySource
      BY Zenon DEF AgentNext, agentVars, repVars, Others, Rest, MainGoes, Fails, UdpOnly, Tcp, Nothing,
         AcceptLoopEnds, Main, Boot, LoadFails, Loads, ValidateFails, Validates, LogFails,
         StartsShipper, TLSFails, BuildsHandler, ListenFails, ListensTCP, Accepts, WithoutUdp,
         UdpListenFails, StartsUdp, Signalled, Stop, StopsUdp, FlushesUdp, Udp, ServeStarts,
         ServeReads, ServeFails, ServeEnds, ServeHandles, SweepExpires, SweepLogs, SweepEnds,
         ReadsCounts, Reports
    <2>4. BySource \in Nat /\ BySource <= dropped
      BY BySourceIsNat, FS_CardinalityType DEF DropInv
    <2>5. SeenInv'
      BY <2>1, <2>2, <2>3, <2>4, SMTT(30) DEF SeenInv, HandlerTypeOK
    <2> QED BY <2>1, <2>2, <2>5
  <1>3. Inv => DropsCounted
    <2> SUFFICES ASSUME Inv PROVE DropsCounted
      OBVIOUS
    <2>1. BySource \in Nat /\ BySource <= dropped
      BY BySourceIsNat, FS_CardinalityType DEF DropInv
    <2>2. ASSUME \A c \in Ignored : pc[c] \in {"absent", "new", "gone"}
          PROVE  BySource = dropped
      <3>1. Counting = {}
        BY <2>2 DEF DropInv, Counting
      <3>2. Cardinality(Counting) = 0
        BY <3>1, FS_EmptySet
      <3> QED BY <2>1, <3>2 DEF DropInv
    <2> QED BY <2>1, <2>2 DEF DropsCounted, SeenInv
  <1> QED BY <1>1, <1>2, <1>3, PTL DEF AgentSpec

----------------------------------------------------------------------------
(* The sensor stands. *)

\* A connection's goroutine can end the process, and only once the channel is closed.
LEMMA ConnectionLeaves ==
    ASSUME NEW c \in Conns, Connection(c)
    PROVE  /\ UNCHANGED <<listening, channel>>
           /\ main' = main \/ (main' = "panicked" /\ ~channel)
  BY Zenon DEF Connection, Proceeds, Counts, Handles, Client, proc,
     Drops, DropLoads, DropStores, DropAdds, RateLimited, Stores, NoOrigDst, Begins,
     SniffFails, HandshakeFails, NoGreeting, Greets, GreetFails, Reads, ReadDiscards, ReadEnds, CoalesceEnds,
     SniffsPlain, SniffsTLS, Coalesces, Arrives, Sends, SendsHello,
     SshBanner, SshBannerFails, SshReads, SshDiscards, SshReadEnds, Responds, RespondFails, LogsAndReads,
     LogsAndCloses, LogPanics, Accept, Handshakes, Closes, Leave

\* Start-up, UDP's goroutines and the stop keep StandsInv (main.go:26-243).
LEMMA StandsSteps ==
    ASSUME StandsInv, AgentNext
    PROVE  StandsInv'
  <1>1. ASSUME NEW c \in Conns, Tcp(Connection(c))
        PROVE  StandsInv'
    <2>1. UNCHANGED <<said, udp, sweeper, udpStop, attempts, scene>>
      BY <1>1 DEF Tcp, Others, udpVars
    <2>2. /\ UNCHANGED <<listening, channel>>
          /\ main' = main \/ (main' = "panicked" /\ ~channel)
      BY <1>1, ConnectionLeaves DEF Tcp
    <2>3. died' # "udp"
      BY <1>1 DEF Tcp, StandsInv
    <2> QED BY <2>1, <2>2, <2>3 DEF StandsInv, Faults, SweeperQuiet, Starting, Late
  <1>2. CASE AcceptLoopEnds
    BY <1>2 DEF AcceptLoopEnds, AcceptFails, Runs, Others, udpVars, Listens, StandsInv, Faults, SweeperQuiet,
       Starting, Late
  <1>3. CASE Boot
    BY <1>3 DEF Boot, LoadFails, Loads, ValidateFails, Validates, LogFails, Rest,
       StartsShipper, TLSFails, BuildsHandler, ListenFails, ListensTCP, Accepts, WithoutUdp,
       UdpListenFails, StartsUdp, MainGoes, Fails, udpVars, StandsInv, Faults, SweeperQuiet, Starting, Late
  <1>4. CASE Signalled \/ StopsUdp \/ FlushesUdp
    BY <1>4 DEF Signalled, Signal, StopsUdp, FlushesUdp, UdpOnly, vars, proc, udpVars,
       StandsInv, Faults, SweeperQuiet, Starting, Late
  <1>5. CASE Stop
    BY <1>5 DEF Stop, ClosesListener, StopsTcp, ShutdownNil, ShutdownForces, ClosesChannel, Exits,
       EndsWithoutLoom, Others, udpVars, StandsInv, Faults, SweeperQuiet, Starting, Late
  <1>6. CASE ServeStarts \/ ServeReads \/ ServeFails \/ ServeEnds \/ SweepEnds
    BY <1>6 DEF ServeStarts, ServeReads, ServeFails, ServeEnds, SweepEnds, UdpOnly, vars, proc,
       StandsInv, Faults, SweeperQuiet, Starting, Late
  <1>7. ASSUME NEW held \in 0..1, ServeHandles(held)
        PROVE  StandsInv'
    BY <1>7 DEF ServeHandles, UdpOnly, vars, proc, StandsInv, Faults, SweeperQuiet, Starting, Late
  <1>8. ASSUME NEW rest \in 0..MaxAttempts, SweepExpires(rest)
        PROVE  StandsInv'
    <2>1. rest \in Nat
      BY AgentAssumption
    <2>2. attempts # 0
      BY <1>8, <2>1 DEF SweepExpires
    <2> QED BY <1>8, <2>2 DEF SweepExpires, UdpOnly, vars, proc, StandsInv, Faults, SweeperQuiet, Starting, Late
  <1>9. CASE SweepLogs
    <2>1. channel
      BY <1>9 DEF SweepLogs, Runs, StandsInv, Faults, SweeperQuiet, Late
    <2> QED BY <1>9, <2>1 DEF SweepLogs, Runs, StandsInv, Faults, SweeperQuiet, Starting, Late
  <1>10. CASE ReadsCounts \/ Reports
    BY <1>10 DEF ReadsCounts, Reports, vars, proc, udpVars, StandsInv, Faults, SweeperQuiet, Starting, Late
  <1> QED BY <1>1, <1>2, <1>3, <1>4, <1>5, <1>6, <1>7, <1>8, <1>9, <1>10
          DEF AgentNext, Main, Udp

\* No failure of UDP capture takes the TCP sensor down, whatever fails at start-up and
\* whenever the process is told to stop: in particular the shipper's channel is closed
\* only when the sweeper cannot record any more.  Neither Serve nor, but for a timeout,
\* the accept loop ends unlogged while nothing stops (main.go:126, 159, 191-201, 213-235).
THEOREM SensorAlwaysStands == AgentSpec => []SensorStands
  <1>1. AgentInit => StandsInv
    BY DEF AgentInit, StandsInv, Faults, SweeperQuiet, Starting, Late
  <1>2. StandsInv /\ [AgentNext]_agentVars => StandsInv'
    <2>1. StandsInv /\ UNCHANGED agentVars => StandsInv'
      BY DEF agentVars, vars, proc, udpVars, StandsInv, Faults, SweeperQuiet
    <2> QED BY <2>1, StandsSteps
  <1>3. StandsInv => SensorStands
    BY DEF StandsInv, SensorStands, Starting
  <1> QED BY <1>1, <1>2, <1>3, PTL DEF AgentSpec

----------------------------------------------------------------------------
(* The configuration. *)

\* What wraps is an integer, and what fits is not changed.
LEMMA WrapFits ==
    ASSUME NEW x \in Int
    PROVE  /\ Wrap(x) \in Int
           /\ 0 <= x /\ x < 2 ^ (Width - 1) => Wrap(x) = x
  <1>1. PICK P \in Nat \ {0} : P = 2 ^ (Width - 1)
    BY WidthAssumption, Zenon
  <1>2. PICK Q : Q = 2 ^ Width
    BY Zenon
  <1>3. Q = 2 * P
    BY <1>1, <1>2, WidthAssumption, Zenon
  <1>4. Wrap(x) = ((x + P) % Q) - P
    BY <1>1, <1>2, Zenon DEF Wrap
  <1>5. (x + P) % Q \in Int
    BY <1>1, <1>3
  <1>6. ASSUME 0 <= x, x < P
        PROVE  (x + P) % Q = x + P
    BY <1>1, <1>3, <1>6
  <1>7. ((x + P) % Q) - P \in Int
    BY <1>1, <1>5
  <1>8. ASSUME 0 <= x, x < P
        PROVE  ((x + P) % Q) - P = x
    BY <1>1, <1>6, <1>8
  <1> QED BY <1>1, <1>4, <1>7, <1>8, Zenon

\* A limit that is not positive becomes its default.
LEMMA DefaultPositive ==
    ASSUME NEW v \in Int, NEW d \in Int, d > 0
    PROVE  DefaultTo(v, d) \in Int /\ DefaultTo(v, d) > 0
  BY DEF DefaultTo

\* Validate is enough for every limit.
LEMMA ValidLimits ==
    ASSUME NEW c \in Configs, Valid(c)
    PROVE  LimitsPositive(c)
  <1>w. Second \in Nat /\ Second > 0 /\ Day \in Nat /\ Day > 0 /\ MB \in Nat /\ MB > 0
    <2>1. Second \in Nat \ {0} /\ Day \in Nat \ {0} /\ MB \in Nat \ {0}
      BY WidthAssumption, Zenon
    <2> QED BY <2>1
  <1>t. /\ c.readTimeout \in Int /\ c.writeTimeout \in Int /\ c.rate \in Int /\ c.burst \in Int
        /\ c.udpRate \in Int /\ c.udpBurst \in Int /\ c.sourceRate \in Int /\ c.sourceBurst \in Int
    <2>1. \A f \in UdpLimits \cup {"readTimeout", "writeTimeout", "rate", "burst"} : c[f] \in Int
      BY ConfigAssumption, Zenon
    <2> QED BY <2>1, Zenon DEF UdpLimits
  <1>1. UDPListenPort(c) > 0
    <2>1. c.port \in Nat /\ c.udpPort \in Nat
      BY ConfigAssumption, Zenon
    <2>2. c.port # 0
      BY Zenon DEF Valid
    <2> QED BY <2>1, <2>2 DEF UDPListenPort
  <1>2. Positive(HandlerLimits(c))
    <2>1. /\ c.readTimeout * Second \in Int /\ c.writeTimeout * Second \in Int
          /\ 30 * Second \in Int /\ 30 * Second > 0 /\ 10 * Second \in Int /\ 10 * Second > 0
      BY <1>w, <1>t
    <2>2. Wrap(c.readTimeout * Second) \in Int /\ Wrap(c.writeTimeout * Second) \in Int
      BY <2>1, WrapFits, Zenon
    <2>3. DefaultTo(Wrap(c.readTimeout * Second), 30 * Second) > 0
      BY <2>1, <2>2, DefaultPositive, Zenon
    <2>4. DefaultTo(Wrap(c.writeTimeout * Second), 10 * Second) > 0
      BY <2>1, <2>2, DefaultPositive, Zenon
    <2>5. DefaultTo(c.rate, 20) > 0 /\ DefaultTo(c.burst, 50000) > 0
      BY <1>t DEF DefaultTo
    <2> QED BY <2>3, <2>4, <2>5 DEF Positive, HandlerLimits
  <1>3. Positive(ServerLimits(c))
    <2>1. /\ DefaultTo(c.udpRate, 50) > 0 /\ DefaultTo(c.udpBurst, 500) > 0
          /\ DefaultTo(c.sourceRate, 5) > 0 /\ DefaultTo(c.sourceBurst, 20) > 0
      BY <1>t DEF DefaultTo
    <2> QED BY <2>1 DEF Positive, ServerLimits
  <1>4. ASSUME c.loom
        PROVE  Positive(LoomLimits(c.loomConfig))
    <2> DEFINE l == c.loomConfig
    <2>t. /\ l.batch \in Int /\ l.flush \in Int /\ l.age.n \in Int
          /\ l.spoolMB \in Int /\ l.spoolMB * MB < 2 ^ (Width - 1)
      BY ConfigAssumption, Zenon
    <2>v. l.flush = 0 \/ l.flush > 0
      BY <1>4, Zenon DEF Valid, LoomValid
    <2> HIDE DEF l
    <2>1. RunBatchSize(l.batch) > 0
      BY <2>t DEF RunBatchSize, DefaultTo
    <2>2. (IF l.flush = 0 THEN 10 * Second ELSE l.flush) > 0
      BY <1>w, <2>t, <2>v
    <2>3. SpoolMaxBytes(l) > 0
      <3>1. CASE l.spoolMB <= 0
        <4>1. 512 * MB > 0
          BY <1>w
        <4> QED BY <3>1, <4>1, Zenon DEF SpoolMaxBytes
      <3>2. CASE ~(l.spoolMB <= 0)
        <4>1. l.spoolMB * MB \in Int /\ 0 <= l.spoolMB * MB /\ l.spoolMB * MB > 0
          <5>1. \A m, k \in Int : ~(m <= 0) /\ k > 0 => m * k \in Int /\ 0 <= m * k /\ m * k > 0
            OBVIOUS
          <5> QED BY <1>w, <2>t, <3>2, <5>1
        <4>2. Wrap(l.spoolMB * MB) = l.spoolMB * MB
          BY <2>t, <4>1, WrapFits, Zenon
        <4> QED BY <3>2, <4>1, <4>2, Zenon DEF SpoolMaxBytes
      <3> QED BY <3>1, <3>2
    <2>4. SpoolMaxAgeDuration(l) > 0
      <3>1. l.age.n * Day \in Int /\ 7 * Day \in Int /\ 7 * Day > 0
        BY <1>w, <2>t
      <3>2. ParseAge(l.age) \in Int
        BY <2>t, <3>1, WrapFits, Zenon DEF ParseAge
      <3>3. (IF l.age.n = 0 THEN 0 ELSE ParseAge(l.age)) \in Int
        BY <3>2
      <3> QED BY <3>1, <3>3, DefaultPositive, Zenon DEF SpoolMaxAgeDuration
    <2>5. Positive(LoomLimits(l))
      BY <2>1, <2>2, <2>3, <2>4 DEF Positive, LoomLimits
    <2> QED BY <2>5 DEF l
  <1> QED BY <1>1, <1>2, <1>3, <1>4, Zenon DEF LimitsPositive

\* A list that parses is the list that is dropped.
LEMMA ParsedDrops ==
    ASSUME NEW c \in Configs, IgnoreParses(c.ignore)
    PROVE  DropsAsListed(c)
  <1>1. ASSUME NEW i \in DOMAIN c.ignore, c.ignore[i].kind # "blank"
        PROVE  PrefixOf(c.ignore[i]).valid <=>
                  \/ c.ignore[i].kind = "host"
                  \/ c.ignore[i].kind = "net" /\ ~(c.ignore[i].mapped /\ c.ignore[i].bits > 32)
    <2>1. c.ignore[i].kind \in EntryKinds /\ c.ignore[i].kind # "bad"
      BY ConfigAssumption, Zenon DEF IgnoreParses
    <2>2. PrefixOf(c.ignore[i]).valid <=>
             (c.ignore[i].kind = "net" /\ c.ignore[i].mapped => c.ignore[i].bits <= 32)
      BY Zenon DEF PrefixOf
    <2>b. c.ignore[i].bits > 32 <=> ~(c.ignore[i].bits <= 32)
      <3>1. c.ignore[i].bits \in 0..128
        BY ConfigAssumption, Zenon
      <3> QED BY <3>1
    <2>3. c.ignore[i].kind = "host" \/ c.ignore[i].kind = "net"
      BY <1>1, <2>1 DEF EntryKinds
    <2>4. "host" # "net"
      OBVIOUS
    <2> QED BY <2>b, <2>2, <2>3, <2>4, Zenon
  <1>2. ASSUME NEW h, NEW m \in BOOLEAN
        PROVE  ShouldIgnore(IgnoreNets(c.ignore), [host |-> h, mapped |-> m])
                 <=> \E i \in DOMAIN c.ignore :
                        /\ \/ c.ignore[i].kind = "host"
                           \/ c.ignore[i].kind = "net" /\ ~(c.ignore[i].mapped /\ c.ignore[i].bits > 32)
                        /\ h \in c.ignore[i].hosts
    <2>0. [host |-> h, mapped |-> m].host = h
      OBVIOUS
    <2>1. ShouldIgnore(IgnoreNets(c.ignore), [host |-> h, mapped |-> m]) <=>
            \E p \in IgnoreNets(c.ignore) : p.valid /\ h \in p.hosts
      BY <2>0, Zenon DEF ShouldIgnore
    <2>2. ASSUME NEW i \in DOMAIN c.ignore
          PROVE  PrefixOf(c.ignore[i]).hosts = c.ignore[i].hosts
      BY DEF PrefixOf
    <2>3. "host" # "blank" /\ "net" # "blank"
      OBVIOUS
    <2>4. (\E p \in IgnoreNets(c.ignore) : p.valid /\ h \in p.hosts) <=>
            \E i \in DOMAIN c.ignore :
              /\ c.ignore[i].kind # "blank"
              /\ PrefixOf(c.ignore[i]).valid /\ h \in PrefixOf(c.ignore[i]).hosts
      BY Zenon DEF IgnoreNets
    <2> QED BY <1>1, <2>1, <2>2, <2>3, <2>4, Zenon
  <1> QED BY <1>2, Zenon DEF DropsAsListed

\* main goes on only with a file that was accepted (main.go:34-44).
LEMMA ConfigSteps ==
    ASSUME HandlerTypeOK, ConfigInv, AgentNext
    PROVE  ConfigInv'
  <1>1. ASSUME NEW c \in Conns, Tcp(Connection(c))
        PROVE  ConfigInv'
    <2>1. cfg' = cfg
      BY <1>1 DEF Tcp, Others, bootVars
    <2>2. main' = main \/ main' = "panicked"
      BY <1>1, ConnectionLeaves DEF Tcp
    <2>3. "panicked" \notin Starting /\ "panicked" \notin {"log", "tls", "listen", "udp"}
      BY DEF Starting
    <2> QED BY <2>1, <2>2, <2>3, Zenon DEF ConfigInv
  <1>2. ASSUME NEW c \in Files, Loads(c)
        PROVE  ConfigInv'
    <2>1. c \in Configs
      BY <1>2, AgentAssumption, Zenon DEF Files, HandlerTypeOK
    <2>2. main' = "validate" /\ cfg' = c /\ IgnoreParses(c.ignore)
      BY <1>2 DEF Loads, MainGoes
    <2>3. "validate" \notin {"log", "tls", "listen", "udp"}
      OBVIOUS
    <2> QED BY <2>1, <2>2, <2>3, Zenon DEF ConfigInv
  <1>3. CASE Validates
    <2>1. main = "validate" /\ Valid(cfg) /\ cfg' = cfg
      BY <1>3 DEF Validates, bootVars
    <2>2. main \in Starting \ {"load"}
      BY <2>1 DEF Starting
    <2> QED BY <2>1, <2>2, Zenon DEF ConfigInv
  <1>4. CASE StartsShipper \/ BuildsHandler \/ ListensTCP
    <2>1. main \in {"log", "tls", "listen"} /\ cfg' = cfg
      BY <1>4 DEF StartsShipper, BuildsHandler, ListensTCP, bootVars
    <2>2. main \in Starting \ {"load"} /\ main \in {"log", "tls", "listen", "udp"}
      BY <2>1 DEF Starting
    <2> QED BY <2>1, <2>2, Zenon DEF ConfigInv
  \* Every other step leaves start-up or takes no part in it.
  <1>5. CASE /\ ~(\E c \in Conns : Tcp(Connection(c))) /\ ~(\E c \in Files : Loads(c))
             /\ ~Validates /\ ~(StartsShipper \/ BuildsHandler \/ ListensTCP)
    <2>1. \/ main' = main /\ cfg' = cfg
          \/ main' \in {"failed", "accepting", "signalled", "closing", "stopping", "exited", "panicked"}
      BY <1>5 DEF AgentNext, UdpOnly, AcceptLoopEnds, AcceptFails, Main, Boot, LoadFails,
         ValidateFails, LogFails, TLSFails, ListenFails, Accepts, WithoutUdp, UdpListenFails,
         StartsUdp, MainGoes, Fails, Signalled, Signal, Stop, ClosesListener, StopsTcp, ShutdownNil,
         ShutdownForces, ClosesChannel, Exits, EndsWithoutLoom, StopsUdp, FlushesUdp, Udp,
         ServeStarts, ServeReads, ServeFails, ServeEnds, ServeHandles, SweepExpires, SweepLogs,
         SweepEnds, ReadsCounts, Reports, vars, proc, bootVars, Others
    <2>2. CASE main' = main /\ cfg' = cfg
      BY <2>2, Zenon DEF ConfigInv
    <2>3. CASE main' \in {"failed", "accepting", "signalled", "closing", "stopping", "exited", "panicked"}
      <3>1. main' \notin Starting /\ main' \notin {"log", "tls", "listen", "udp"}
        BY <2>3 DEF Starting
      <3> QED BY <3>1, Zenon DEF ConfigInv
    <2> QED BY <2>1, <2>2, <2>3
  <1> QED BY <1>1, <1>2, <1>3, <1>4, <1>5

\* Whatever a file that is accepted says, every limit, time and port the parts are
\* started with is positive, overflow included, and the drop list drops what it lists
\* (but mapped networks of more than 32 bits, which match nothing), for integers of any width and files whose spool cap in bytes fits one
\* (config.go:100-127, 175-280).
THEOREM ConfigAlwaysSane == AgentSpec => []ConfigSane
  <1>1. AgentInit => HandlerTypeOK /\ ConfigInv
    <2>1. AgentInit => ConfigInv
      BY DEF AgentInit, ConfigInv, Starting
    <2> QED BY <2>1, InitTypes DEF AgentInit
  <1>2. HandlerTypeOK /\ ConfigInv /\ [AgentNext]_agentVars => (HandlerTypeOK /\ ConfigInv)'
    <2>1. ConfigInv /\ UNCHANGED agentVars => ConfigInv'
      BY Zenon DEF agentVars, vars, proc, bootVars, ConfigInv
    <2> QED BY <2>1, AgentTypes, ConfigSteps
  <1>3. ConfigInv => ConfigSane
    <2> SUFFICES ASSUME ConfigInv, main \in {"log", "tls", "listen", "udp"}
                 PROVE  LimitsPositive(cfg) /\ DropsAsListed(cfg)
      BY DEF ConfigSane
    <2>1. main \in Starting \ {"load"}
      BY DEF Starting
    <2>2. cfg \in Configs /\ IgnoreParses(cfg.ignore) /\ Valid(cfg)
      BY <2>1, Zenon DEF ConfigInv
    <2> QED BY <2>2, ValidLimits, ParsedDrops, Zenon
  <1> QED BY <1>1, <1>2, <1>3, PTL DEF AgentSpec

----------------------------------------------------------------------------
(* Scripted logins. *)

\* Steps of the sensor while the process is up.
LEMMA HandlerSteps ==
    ASSUME [Next]_vars
    PROVE  (\E c \in Conns : Connection(c) /\ UNCHANGED scene) \/ ConnsKept
  BY Zenon DEF Next, Process, ConnsKept, vars, proc, drop, AcceptFails, Signal, ClosesListener,
     ShutdownNil, ShutdownForces, ClosesChannel, Exits

\* The steps of Handler alone keep the types.
LEMMA HandlerTypes ==
    ASSUME HandlerTypeOK, [Next]_vars
    PROVE  HandlerTypeOK'
  BY HandlerSteps, ConnectionTypes, KeptTypes, Zenon

\* Every script has an end (persona.go).
LEMMA ScriptLengths ==
    ASSUME NEW p \in ServerFirst
    PROVE  /\ ScriptLength(p) \in Nat /\ ScriptLength(p) > 0
           /\ p = "telnet" => ScriptLength(p) = 2
           /\ p # "telnet" => ScriptLength(p) = Replies(p)
  <1>1. CASE p = "telnet"
    BY <1>1 DEF ScriptLength
  <1>2. CASE p = "ftp"
    BY <1>2 DEF ScriptLength, Replies
  <1>3. CASE p = "smtp"
    BY <1>3 DEF ScriptLength, Replies
  <1>4. CASE p = "pop3"
    BY <1>4 DEF ScriptLength, Replies
  <1>5. CASE p = "imap"
    BY <1>5 DEF ScriptLength, Replies
  <1> QED BY <1>1, <1>2, <1>3, <1>4, <1>5 DEF ServerFirst

\* ScriptInv of one connection.
ScriptAt(c) ==
    Persona[c] \in ServerFirst =>
        /\ lines[c] <= stage[c] /\ stage[c] <= ScriptLength(Persona[c])
        /\ Persona[c] = "telnet" /\ ~Subnegotiated(c) => lines[c] = stage[c]
        /\ done[c] => stage[c] = ScriptLength(Persona[c])
        /\ stage[c] = ScriptLength(Persona[c]) => done[c] /\ pc[c] \in {"log", "gone"}

\* A connection whose script has ended is recorded, then closed.
LEMMA EndIsNoticed ==
    ASSUME HandlerTypeOK, NEW c \in Conns, Connection(c), done[c], pc[c] \in {"log", "gone"}
    PROVE  pc'[c] \in {"log", "gone"}
  BY DEF HandlerTypeOK, Points, Connection, Proceeds, Counts, Handles, Client,
     Drops, DropLoads, DropStores, DropAdds, RateLimited, Stores, NoOrigDst, Begins,
     SniffFails, HandshakeFails, NoGreeting, Greets, GreetFails, Reads, ReadDiscards, ReadEnds, CoalesceEnds,
     SniffsPlain, SniffsTLS, Coalesces, Arrives, Sends, SendsHello,
     SshBanner, SshBannerFails, SshReads, SshDiscards, SshReadEnds, Responds, RespondFails, LogsAndReads,
     LogsAndCloses, LogPanics, Accept, Handshakes, Closes, At, Leave, Goto

\* What was read stays in hand or in the records.
LEMMA SubnegotiationStays ==
    ASSUME HandlerTypeOK, NEW c \in Conns, Connection(c), NEW d \in Conns, Subnegotiated(d)
    PROVE  Subnegotiated(d)'
  <1>t. payload[c] \in Seq(Units) /\ logged[c] \in Seq(Units)
    BY DEF HandlerTypeOK
  <1>k. ASSUME NEW a \in Seq(Units), NEW b \in Seq(Units)
        PROVE  KindsOf(a) \cup KindsOf(b) \subseteq KindsOf(a \o b)
    <2>1. ASSUME NEW i \in DOMAIN a PROVE a[i].kind \in KindsOf(a \o b)
      <3>1. i \in DOMAIN (a \o b) /\ (a \o b)[i] = a[i]
        BY <2>1
      <3> QED BY <3>1, Zenon DEF KindsOf
    <2>2. ASSUME NEW i \in DOMAIN b PROVE b[i].kind \in KindsOf(a \o b)
      <3>1. Len(a) + i \in DOMAIN (a \o b) /\ (a \o b)[Len(a) + i] = b[i]
        BY <2>2
      <3> QED BY <3>1, Zenon DEF KindsOf
    <2>3. KindsOf(a) \subseteq KindsOf(a \o b)
      BY <2>1, Zenon DEF KindsOf
    <2>4. KindsOf(b) \subseteq KindsOf(a \o b)
      BY <2>2, Zenon DEF KindsOf
    <2> QED BY <2>3, <2>4, Zenon
  <1>1. CASE UNCHANGED <<payload, logged>>
    BY <1>1, Zenon DEF Subnegotiated
  <1>2. CASE Takes(c)
    <2>1. PICK x, y \in Seq(Units) : payload' = [payload EXCEPT ![c] = payload[c] \o x]
      BY <1>2, TakesSplits, Zenon
    <2>2. logged' = logged
      BY <1>2, Zenon DEF Takes
    <2>3. KindsOf(payload[d]) \subseteq KindsOf(payload'[d])
      <3>1. CASE d = c
        <4>1. payload'[c] = payload[c] \o x
          BY <2>1 DEF HandlerTypeOK
        <4> QED BY <1>t, <1>k, <2>1, <3>1, <4>1, Zenon
      <3>2. CASE d # c
        <4>1. payload'[d] = payload[d]
          BY <2>1, <3>2 DEF HandlerTypeOK
        <4> QED BY <4>1, Zenon
      <3> QED BY <3>1, <3>2
    <2> QED BY <2>2, <2>3, Zenon DEF Subnegotiated
  <1>3. CASE Record(c)
    <2>1. d # c => logged'[d] = logged[d] /\ payload'[d] = payload[d]
      BY <1>3 DEF Record, HandlerTypeOK
    <2>2. logged'[c] = logged[c] \o payload[c]
      BY <1>3 DEF Record, HandlerTypeOK
    <2>3. KindsOf(logged[c]) \cup KindsOf(payload[c]) \subseteq KindsOf(logged'[c])
      BY <1>t, <1>k, <2>2, Zenon
    <2> QED BY <2>1, <2>3, Zenon DEF Subnegotiated
  <1>4. UNCHANGED <<payload, logged>> \/ Takes(c) \/ Record(c)
    BY DataSteps, Zenon DEF DataKept, SniffsPlain, SniffsTLS, SendsHello, Sends, Arrives, Discards
  <1> QED BY <1>1, <1>2, <1>3, <1>4

\* Every step of a connection keeps ScriptInv (persona.go, handler.go:321-431).
LEMMA ScriptSteps ==
    ASSUME HandlerTypeOK, ScriptInv, NEW c \in Conns, Connection(c)
    PROVE  ScriptInv'
  <1>0. ASSUME NEW d \in Conns
        PROVE  ScriptAt(d)
    BY <1>0, Zenon DEF ScriptInv, ScriptAt
  <1>t. /\ stage[c] \in Nat /\ lines[c] \in Nat /\ done[c] \in BOOLEAN
    BY DEF HandlerTypeOK
  <1>1. CASE UNCHANGED <<stage, lines, done>>
    <2>1. ASSUME NEW d \in Conns
          PROVE  ScriptAt(d)'
      <3>1. done[d] /\ pc[d] \in {"log", "gone"} => pc'[d] \in {"log", "gone"}
        BY EndIsNoticed, PointSteps
      <3>2. ~Subnegotiated(d)' => ~Subnegotiated(d)
        BY SubnegotiationStays, Zenon
      <3> QED BY <1>0, <1>1, <3>1, <3>2, Zenon DEF ScriptAt
    <2> QED BY <2>1, Zenon DEF ScriptInv, ScriptAt
  <1>2. CASE Responds(c)
    <2>1. /\ pc[c] = "reply" /\ pc' = [pc EXCEPT ![c] = "log"]
          /\ stage' = [stage EXCEPT ![c] = NextStage(c)]
          /\ done' = [done EXCEPT ![c] = Done(c, NextStage(c))]
          /\ lines' = [lines EXCEPT ![c] = IF HasText(c) THEN lines[c] + 1 ELSE lines[c]]
      BY <1>2 DEF Responds, At, Goto
    <2>s. \A d \in Conns : Subnegotiated(d)' <=> Subnegotiated(d)
      BY <1>2, Zenon DEF Responds, Subnegotiated
    <2>h. /\ HasText(c) => HasPrintable(c)
          /\ HasPrintable(c) /\ ~Subnegotiated(c) => HasText(c)
      BY DEF HasText, HasPrintable, Subnegotiated
    <2>2. ASSUME NEW d \in Conns, d # c
          PROVE  ScriptAt(d)'
      <3>1. pc'[d] = pc[d] /\ stage'[d] = stage[d] /\ done'[d] = done[d] /\ lines'[d] = lines[d]
        BY <2>1, <2>2 DEF HandlerTypeOK
      <3> QED BY <1>0, <2>s, <3>1, Zenon DEF ScriptAt
    <2>3. ASSUME Persona[c] \in ServerFirst
          PROVE  ScriptAt(c)'
      <3> DEFINE L == ScriptLength(Persona[c])
      <3>1. /\ L \in Nat /\ L > 0
            /\ Persona[c] = "telnet" => L = 2
            /\ Persona[c] # "telnet" => L = Replies(Persona[c])
        BY <2>3, ScriptLengths, Zenon
      <3> HIDE DEF L
      <3>2. /\ stage[c] < L /\ lines[c] <= stage[c]
            /\ Persona[c] = "telnet" /\ ~Subnegotiated(c) => lines[c] = stage[c]
        <4>1. "reply" \notin {"log", "gone"}
          OBVIOUS
        <4>2. stage[c] # L /\ stage[c] <= L /\ lines[c] <= stage[c]
              /\ (Persona[c] = "telnet" /\ ~Subnegotiated(c) => lines[c] = stage[c])
          BY <1>0, <2>1, <2>3, <4>1, Zenon DEF ScriptAt, L
        <4> QED BY <1>t, <3>1, <4>2
      <3>3. /\ pc'[c] = "log" /\ stage'[c] = NextStage(c) /\ done'[c] = Done(c, NextStage(c))
            /\ lines'[c] = (IF HasText(c) THEN lines[c] + 1 ELSE lines[c])
        BY <2>1 DEF HandlerTypeOK
      <3>4. CASE Persona[c] = "telnet" /\ HasPrintable(c)
        <4>1. NextStage(c) = stage[c] + 1
          BY <1>t, <3>1, <3>2, <3>4 DEF NextStage
        <4>2. /\ stage'[c] = stage[c] + 1
              /\ lines'[c] = lines[c] \/ lines'[c] = lines[c] + 1
              /\ ~Subnegotiated(c) => lines'[c] = lines[c] + 1
          BY <2>h, <3>3, <3>4, <4>1, Zenon
        <4>3. /\ stage'[c] <= L /\ lines'[c] <= stage'[c]
              /\ ~Subnegotiated(c) => lines'[c] = stage'[c]
          BY <1>t, <3>1, <3>2, <3>4, <4>2
        <4>4. done'[c] <=> stage'[c] = L
          BY <3>1, <3>3, <3>4, Zenon DEF Done
        <4> QED BY <2>s, <3>3, <4>3, <4>4, Zenon DEF ScriptAt, L
      <3>5. CASE Persona[c] = "telnet" /\ ~HasPrintable(c)
        <4>1. NextStage(c) = stage[c]
          BY <3>5 DEF NextStage
        <4>2. lines'[c] = lines[c] /\ stage'[c] = stage[c]
          BY <2>h, <3>3, <3>5, <4>1, Zenon
        <4>3. /\ stage'[c] <= L /\ lines'[c] <= stage'[c] /\ stage'[c] # L
              /\ ~Subnegotiated(c) => lines'[c] = stage'[c]
          BY <1>t, <3>1, <3>2, <3>5, <4>2
        <4>4. ~done'[c]
          BY <3>3, <3>5, Zenon DEF Done
        <4> QED BY <2>s, <4>3, <4>4, Zenon DEF ScriptAt, L
      <3>6. CASE Persona[c] # "telnet"
        <4>1. NextStage(c) = stage[c] + 1
          BY <2>3, <3>6 DEF NextStage
        <4>2. lines'[c] <= stage'[c] /\ stage'[c] <= L
          BY <1>t, <3>1, <3>2, <3>3, <4>1
        <4>3. done'[c] <=> stage'[c] >= L
          BY <2>3, <3>1, <3>3, <3>6, Zenon DEF Done
        <4>4. stage'[c] >= L <=> stage'[c] = L
          BY <1>t, <3>1, <3>3, <4>1, <4>2
        <4> QED BY <3>3, <3>6, <4>2, <4>3, <4>4, Zenon DEF ScriptAt, L
      <3> QED BY <3>4, <3>5, <3>6
    <2>4. Persona[c] \notin ServerFirst => ScriptAt(c)'
      BY Zenon DEF ScriptAt
    <2>5. \A d \in Conns : ScriptAt(d)'
      BY <2>2, <2>3, <2>4, Zenon
    <2> QED BY <2>5, Zenon DEF ScriptInv, ScriptAt
  <1> QED BY ScriptTypes, <1>1, <1>2

\* No script has begun at first.
LEMMA ScriptInit == HandlerInit => ScriptInv
  <1> SUFFICES ASSUME HandlerInit PROVE ScriptInv
    OBVIOUS
  <1>1. ASSUME NEW c \in Conns
        PROVE  stage[c] = 0 /\ lines[c] = 0 /\ ~done[c]
    BY <1>1 DEF HandlerInit
  <1>2. ASSUME NEW c \in Conns, Persona[c] \in ServerFirst
        PROVE  /\ lines[c] <= stage[c] /\ stage[c] <= ScriptLength(Persona[c])
               /\ lines[c] = stage[c] /\ stage[c] # ScriptLength(Persona[c])
    BY <1>1, <1>2, ScriptLengths
  <1> QED BY <1>1, <1>2, Zenon DEF ScriptInv

\* A scripted login ends with its script, neither later nor earlier, for every persona,
\* any input and any writes that fail; a telnet session has then sent two payloads with
\* text, unless a subnegotiation was taken for one
\* (persona.go:86-113, 181-194; handler.go:303-305).
THEOREM ScriptsEnd == Spec => []ScriptEnds
  <1>1. Init => HandlerTypeOK /\ ScriptInv
    BY InitTypes, ScriptInit DEF Init
  <1>2. HandlerTypeOK /\ ScriptInv /\ [Next]_vars => (HandlerTypeOK /\ ScriptInv)'
    <2> SUFFICES ASSUME HandlerTypeOK, ScriptInv, [Next]_vars
                 PROVE  ScriptInv'
      BY HandlerTypes
    <2>1. ConnsKept => ScriptInv'
      BY Zenon DEF ConnsKept, conn, ScriptInv, Subnegotiated
    <2> QED BY <2>1, HandlerSteps, ScriptSteps, Zenon
  <1>3. HandlerTypeOK /\ ScriptInv => ScriptEnds
    <2> SUFFICES ASSUME HandlerTypeOK, ScriptInv, NEW c \in Conns, Persona[c] \in ServerFirst
                 PROVE  /\ lines[c] <= ScriptLength(Persona[c])
                        /\ lines[c] = ScriptLength(Persona[c]) => pc[c] \in {"log", "gone"}
                        /\ done[c] /\ Persona[c] = "telnet" /\ ~Subnegotiated(c) => lines[c] = 2
      BY Zenon DEF ScriptEnds
    <2>1. ScriptAt(c)
      BY Zenon DEF ScriptInv, ScriptAt
    <2>2. lines[c] \in Nat /\ stage[c] \in Nat
      BY DEF HandlerTypeOK
    <2>3. /\ ScriptLength(Persona[c]) \in Nat
          /\ Persona[c] = "telnet" => ScriptLength(Persona[c]) = 2
      BY ScriptLengths
    <2>4. lines[c] <= stage[c] /\ stage[c] <= ScriptLength(Persona[c])
      BY <2>1, Zenon DEF ScriptAt
    <2>5. lines[c] <= ScriptLength(Persona[c])
      BY <2>2, <2>3, <2>4
    <2>6. lines[c] = ScriptLength(Persona[c]) => stage[c] = ScriptLength(Persona[c])
      BY <2>2, <2>3, <2>4
    <2> QED BY <2>1, <2>3, <2>5, <2>6, Zenon DEF ScriptAt
  <1> QED BY <1>1, <1>2, <1>3, PTL DEF Spec

----------------------------------------------------------------------------
(* Every exchange is recorded, while the process runs and writes succeed. *)

InHandPoints == {"coalesce", "ssh", "kexinit", "reply", "log"}

\* Every step of a connection keeps InHandInv when its writes work (handler.go:321-431).
LEMMA InHandSteps ==
    ASSUME HandlerTypeOK, InHandInv, "write" \notin Faults, ~TLSHandler, NEW c \in Conns, Connection(c)
    PROVE  InHandInv'
  <1>t. payload \in [Conns -> Seq(Units)] /\ pc \in [Conns -> Points]
    BY DEF HandlerTypeOK
  <1>1. main' = "accepting" /\ channel'
    BY ConnectionLeaves, Zenon DEF InHandInv
  <1>2. cut' = cut
    BY Zenon DEF Connection, Proceeds, Counts, Handles, Client, proc,
     Drops, DropLoads, DropStores, DropAdds, RateLimited, Stores, NoOrigDst, Begins,
     SniffFails, HandshakeFails, NoGreeting, Greets, GreetFails, Reads, ReadDiscards, ReadEnds, CoalesceEnds,
     SniffsPlain, SniffsTLS, Coalesces, Arrives, Sends, SendsHello,
     SshBanner, SshBannerFails, SshReads, SshDiscards, SshReadEnds, Responds, RespondFails, LogsAndReads,
     LogsAndCloses, LogPanics, Accept, Handshakes, Closes, Leave
  <1>3. ASSUME NEW d \in Conns, d # c
        PROVE  pc'[d] = pc[d] /\ payload'[d] = payload[d]
    <2>1. pc'[d] = pc[d]
      BY <1>3, PointSteps
    <2>2. payload'[d] = payload[d]
      <3>1. CASE Takes(c) \/ Record(c)
        <4>1. \E z : payload' = [payload EXCEPT ![c] = z]
          BY <3>1, Zenon DEF Takes, Record
        <4> QED BY <1>t, <1>3, <4>1
      <3>2. CASE ~(Takes(c) \/ Record(c))
        BY <3>2, DataSteps, Zenon DEF DataKept, SniffsPlain, SniffsTLS, SendsHello, Sends, Arrives, Discards
      <3> QED BY <3>1, <3>2
    <2> QED BY <2>1, <2>2
  <1>4. ~(RespondFails(c) \/ LogPanics(c))
    BY Zenon DEF RespondFails, LogPanics, CanFail, InHandInv
  \* No stream becomes a TLS stream.
  <1>7. ~(Discards(c) \/ Handshakes(c) \/ SniffsPlain(c) \/ SniffsTLS(c))
    BY Zenon DEF Discards, Handshakes, SniffsPlain, SniffsTLS, At, InHandInv
  <1>8. tls' = tls /\ discarded' = discarded
    <2>1. tls' = tls
      BY <1>7, FlagSteps, Zenon
    <2>2. discarded' = discarded
      BY <1>7, DataSteps, Zenon DEF DataKept, Takes, Record, SendsHello, Sends, Arrives
    <2> QED BY <2>1, <2>2
  <1>9. pc'[c] \notin {"sniff", "handshake"}
    <2>1. pc[c] \notin {"sniff", "handshake"}
      BY Zenon DEF InHandInv
    <2> QED BY <1>t, <1>7, <2>1 DEF Points, Connection, Proceeds, Counts, Handles, Client,
         Drops, DropLoads, DropStores, DropAdds, RateLimited, Stores, NoOrigDst, Begins,
         SniffFails, HandshakeFails, NoGreeting, Greets, GreetFails, Reads, ReadDiscards, ReadEnds,
         CoalesceEnds, Coalesces, Arrives, Sends, SendsHello,
         SshBanner, SshBannerFails, SshReads, SshDiscards, SshReadEnds, Responds, RespondFails,
         LogsAndReads, LogsAndCloses, LogPanics, Accept, Closes, At, Leave, Goto
  <1>5. pc'[c] \notin InHandPoints => payload'[c] = <<>>
    <2>1. pc[c] \notin InHandPoints => payload[c] = <<>>
      BY Zenon DEF InHandInv, InHandPoints
    <2>2. CASE Reads(c) \/ Coalesces(c) \/ SshReads(c)
      BY <1>t, <2>2 DEF Reads, Coalesces, SshReads, At, Goto, InHandPoints
    <2>6. ~(ReadDiscards(c) \/ SshDiscards(c))
      BY <1>7, Zenon DEF ReadDiscards, SshDiscards
    <2>3. CASE LogsAndReads(c) \/ LogsAndCloses(c)
      BY <1>t, <2>3 DEF LogsAndReads, LogsAndCloses, Record
    <2>4. CASE CoalesceEnds(c) \/ SshBanner(c) \/ SshBannerFails(c) \/ SshReadEnds(c) \/ Responds(c)
      BY <1>t, <2>4 DEF CoalesceEnds, SshBanner, SshBannerFails, SshReadEnds, Responds, Goto, InHandPoints
    <2>5. CASE ~(Reads(c) \/ Coalesces(c) \/ SshReads(c) \/ LogsAndReads(c) \/ LogsAndCloses(c)
                 \/ CoalesceEnds(c) \/ SshBanner(c) \/ SshBannerFails(c) \/ SshReadEnds(c) \/ Responds(c))
      <3>1. payload' = payload /\ (pc' = pc \/ pc[c] \notin InHandPoints)
        <4>1. payload' = payload
          BY <1>4, <2>5, <2>6, Zenon DEF Connection, Proceeds, Counts, Handles, Client, conn,
             Drops, DropLoads, DropStores, DropAdds, RateLimited, Stores, NoOrigDst, Begins,
             SniffFails, HandshakeFails, NoGreeting, Greets, GreetFails, ReadEnds,
             SniffsPlain, SniffsTLS, Arrives, Sends, SendsHello, Accept, Handshakes, Closes
        <4>2. pc' = pc \/ pc[c] \notin InHandPoints
          BY <1>4, <2>5, <2>6 DEF Connection, Proceeds, Counts, Handles, Client,
             Drops, DropLoads, DropStores, DropAdds, RateLimited, Stores, NoOrigDst, Begins,
             SniffFails, HandshakeFails, NoGreeting, Greets, GreetFails, ReadEnds,
             SniffsPlain, SniffsTLS, Arrives, Sends, SendsHello, Accept, Handshakes, Closes,
             At, InHandPoints
        <4> QED BY <4>1, <4>2
      <3> QED BY <2>1, <3>1
    <2> QED BY <2>2, <2>3, <2>4, <2>5
  <1>6. ASSUME NEW d \in Conns
        PROVE  pc'[d] \notin InHandPoints => payload'[d] = <<>>
    BY <1>3, <1>5, Zenon DEF InHandInv, InHandPoints
  <1>10. ASSUME NEW d \in Conns
        PROVE  pc'[d] \notin {"sniff", "handshake"} /\ ~tls'[d] /\ discarded'[d] = <<>>
    BY <1>3, <1>8, <1>9, Zenon DEF InHandInv
  <1> QED BY <1>1, <1>2, <1>6, <1>10, Zenon DEF InHandInv, InHandPoints

\* "writes each exchange as one JSON record" (README.md:3): over plain TCP, as long as
\* no write fails and the process is not told to stop, a connection that ended left
\* nothing it had read unrecorded, SSH clients whose KEXINIT comes late included
\* (handler.go:321-431).  With a certificate it is not so: see Discards.
THEOREM ExchangesAreRecorded ==
    ASSUME \A s \in Scenes : "write" \notin s.faults /\ ~s.stops /\ ~s.certificate
    PROVE  Spec => []ExchangesRecorded
  <1>1. Init => HandlerTypeOK /\ InHandInv
    <2> SUFFICES ASSUME Init PROVE InHandInv
      BY InitTypes DEF Init
    <2>1. \A c \in Conns : /\ ~cut[c] /\ payload[c] = <<>> /\ ~tls[c] /\ discarded[c] = <<>>
                          /\ pc[c] = "absent"
      BY DEF Init, HandlerInit
    <2> QED BY <2>1 DEF Init, InHandInv
  <1>2. HandlerTypeOK /\ InHandInv /\ [Next]_vars => (HandlerTypeOK /\ InHandInv)'
    <2> SUFFICES ASSUME HandlerTypeOK, InHandInv, [Next]_vars
                 PROVE  InHandInv'
      BY HandlerTypes
    <2>1. "write" \notin Faults /\ ~Stops /\ ~TLSHandler
      BY Zenon DEF HandlerTypeOK, Faults, Stops, TLSHandler
    <2>2. ASSUME NEW c \in Conns, Connection(c)
          PROVE  InHandInv'
      BY <2>1, <2>2, InHandSteps
    <2>3. CASE (Process /\ UNCHANGED drop) \/ UNCHANGED vars
      <3>1. UNCHANGED <<pc, payload, tls, discarded, cut, main, channel>>
        <4>1. main = "accepting"
          BY DEF InHandInv
        <4> QED BY <2>1, <2>3, <4>1 DEF Process, AcceptFails, Signal, ClosesListener, ShutdownNil,
                   ShutdownForces, ClosesChannel, Exits, vars, proc, conn
      <3> QED BY <3>1, Zenon DEF InHandInv
    <2> QED BY <2>2, <2>3, Zenon DEF Next
  <1>3. InHandInv => ExchangesRecorded
    BY DEF InHandInv, ExchangesRecorded
  <1> QED BY <1>1, <1>2, <1>3, PTL DEF Spec
=============================================================================
