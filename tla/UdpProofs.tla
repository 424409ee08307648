----------------------------- MODULE UdpProofs -----------------------------
(***************************************************************************)
(* UDP capture for any datagrams, sources, limits, times and table sizes:  *)
(* the limiter, the breaker and the assembler inside the server, what the  *)
(* end of the process can take with it, the trace that every datagram      *)
(* leaves, and the stream joined from the segments.                        *)
(***************************************************************************)
EXTENDS Udp, SourceLimiterProofs, FoldProofs

----------------------------------------------------------------------------
(* The limiter inside the server is the limiter of module SourceLimiter. *)

\* A step of the server is one of the limiter or leaves its table alone.
LEMMA ServerLimits ==
    ASSUME [Next]_udpVars
    PROVE  [LimNext]_limVars
  <1>1. ASSUME NEW d \in Datagrams, ReadsEmpty(d) \/ Ignored(d) \/ SourceLimited(d) \/ Limited(d) \/ Admitted(d)
        PROVE  [LimNext]_limVars
    <2>1. d.src \in Addrs
      BY UdpAssumption, Zenon
    <2> QED BY <1>1, <2>1, Zenon DEF ReadsEmpty, Ignored, SourceLimited, Limited, Admitted, LimNext
  <1>2. CASE Tick
    BY <1>2 DEF Tick, LimNext
  <1>3. CASE UNCHANGED udpVars \/ Sweep \/ Closes
    BY <1>3 DEF udpVars, Sweep, Closes, CloseConn, SweeperStops, ShutdownFlushes, ProcessExits
  <1>4. CASE LookupPaused \/ LookupAnswered \/ LookupFails
    BY <1>4 DEF LookupPaused, LookupAnswered, LookupFails, Resolving
  <1>5. CASE RecordsDatagram \/ (\E pc \in Handled : Panics(pc)) \/ StartsQUIC \/ Skips \/ AddsPacket \/ CompletesAttempt
             \/ RecordsAttempt \/ EndsQUIC \/ ServeReturns
    BY <1>5, Zenon DEF RecordsDatagram, Panics, StartsQUIC, Skips, AddsPacket, CompletesAttempt,
       RecordsAttempt, EndsQUIC, ServeReturns, Busy, Handling
  <1> QED BY <1>1, <1>2, <1>3, <1>4, <1>5, Zenon DEF Next, Handles

\* Among all the steps of the server, its senders and its end, the table of sources
\* takes the limiter's steps and no other (server.go:254-281, limit.go:41-91).
THEOREM ServerRefinesLimiter == Spec => LimSpec
  <1>1. Init => LimInit
    BY DEF Init
  <1> QED BY <1>1, ServerLimits, PTL DEF Spec, LimSpec

\* Inside the server too a bucket holds what its source may still send, and a source
\* that was forgotten has its whole burst, with any number of sources and any table
\* size, if an idle period refills a bucket (limit.go:41-91).
THEOREM ServerBucketsMatch == ASSUME IdleRefills PROVE Spec => []LimInv
  <1>1. LimSpec => []LimInv
    BY LimiterInvariant
  <1> QED BY <1>1, ServerRefinesLimiter, PTL

----------------------------------------------------------------------------
(* The breaker. *)

\* The breaker moves by a lookup that was let through, or by time (server.go:195-227).
LEMMA BreakerSteps ==
    ASSUME [Next]_udpVars
    PROVE  UNCHANGED brVars \/ (LookupAllowed /\ (RecordAnswer \/ RecordFailure)) \/ BrTick
  BY Zenon DEF Next, Handles, Arrival, Receives, ReadsEmpty, Ignored, SourceLimited, Limited, Admitted,
     Tick, udpVars, Sweep, Closes, CloseConn, SweeperStops, ShutdownFlushes, ProcessExits,
     LookupPaused, LookupAnswered, LookupFails, RecordsDatagram, Panics, StartsQUIC, Skips,
     AddsPacket, CompletesAttempt, RecordsAttempt, EndsQUIC, ServeReturns, Busy, Handling

\* A lookup's outcome keeps BrInv.
LEMMA BreakerKeeps ==
    ASSUME BrInv, LookupAllowed, RecordAnswer \/ RecordFailure
    PROVE  BrInv'
  <1>c. FailuresBeforePause \in Nat \ {0} /\ CtPause \in Nat \ {0}
    BY BreakerAssumption
  <1>1. CASE RecordAnswer
    <2>1. <<>> \in Seq(0..(CtPause - 1)) /\ Len(<<>>) = 0
      OBVIOUS
    <2> QED BY <1>c, <1>1, <2>1 DEF BrInv, LookupAllowed, RecordAnswer
  <1>2. CASE RecordFailure
    <2>1. /\ streak \in 0..(FailuresBeforePause - 1) /\ paused = 0 /\ Len(fails) <= streak
          /\ fails \in Seq(0..(CtPause - 1))
      BY DEF BrInv, LookupAllowed
    <2>2. 0 \in 0..(CtPause - 1)
      BY <1>c
    <2>3. fails' \in Seq(0..(CtPause - 1)) /\ Len(fails') = Len(fails) + 1
      BY <1>2, <2>1, <2>2 DEF RecordFailure
    <2>4. Len(fails) \in Nat
      BY <2>1
    <2>5. \A i \in 1..Len(fails') : fails'[i] >= 0
      BY <1>c, <2>3
    <2>6. CASE streak + 1 >= FailuresBeforePause
      <3>1. streak' = 0 /\ paused' = CtPause
        BY <1>2, <2>6 DEF RecordFailure
      <3>2. Len(fails') <= FailuresBeforePause
        BY <1>c, <2>1, <2>3, <2>4
      <3>3. CtPause - paused' = 0
        BY <1>c, <3>1
      <3> QED BY <1>c, <2>3, <2>5, <3>1, <3>2, <3>3 DEF BrInv
    <2>7. CASE ~(streak + 1 >= FailuresBeforePause)
      <3>1. streak' = streak + 1 /\ paused' = 0
        BY <1>2, <2>1, <2>7 DEF RecordFailure
      <3>2. Len(fails') <= streak'
        BY <2>1, <2>3, <2>4, <3>1
      <3> QED BY <1>c, <2>1, <2>3, <2>7, <3>1, <3>2 DEF BrInv
    <2> QED BY <2>6, <2>7
  <1> QED BY <1>1, <1>2

\* So does time.
LEMMA BreakerTicks ==
    ASSUME BrInv, BrTick
    PROVE  BrInv'
  <1>c. FailuresBeforePause \in Nat \ {0} /\ CtPause \in Nat \ {0}
    BY BreakerAssumption
  <1>t. /\ streak \in 0..(FailuresBeforePause - 1) /\ streak' = streak /\ paused \in 0..CtPause
        /\ fails \in Seq(0..(CtPause - 1)) /\ Len(fails) \in Nat
    BY DEF BrInv, BrTick
  <1>1. PICK gone \in 0..Len(fails) :
          /\ \A i \in 1..Len(fails) : i <= gone <=> fails[i] + 1 >= CtPause
          /\ fails' = [i \in 1..(Len(fails) - gone) |-> fails[i + gone] + 1]
    BY DEF BrTick
  <1>2. ASSUME NEW i \in 1..(Len(fails) - gone)
        PROVE  /\ i + gone \in 1..Len(fails) /\ fails[i + gone] \in 0..(CtPause - 1)
               /\ fails'[i] = fails[i + gone] + 1 /\ fails'[i] \in 0..(CtPause - 1)
    <2>1. i + gone \in 1..Len(fails) /\ ~(i + gone <= gone)
      BY <1>t
    <2>a. fails[i + gone] \in 0..(CtPause - 1)
      <3>1. ASSUME NEW S, NEW f \in Seq(S), NEW j \in 1..Len(f)
            PROVE  f[j] \in S
        OBVIOUS
      <3> QED BY <1>t, <2>1, <3>1, Zenon
    <2>b. ~(fails[i + gone] + 1 >= CtPause)
      BY <1>1, <2>1, Zenon
    <2>2. fails[i + gone] \in 0..(CtPause - 1) /\ ~(fails[i + gone] + 1 >= CtPause)
      BY <2>a, <2>b
    <2>3. fails'[i] = fails[i + gone] + 1
      BY <1>1
    <2> QED BY <1>c, <2>1, <2>2, <2>3
  <1>3. fails' \in Seq(0..(CtPause - 1)) /\ Len(fails') = Len(fails) - gone
    <2>1. Len(fails) - gone \in Nat
      BY <1>t
    <2>2. fails' \in [1..(Len(fails) - gone) -> 0..(CtPause - 1)]
      BY <1>1, <1>2
    <2>3. ASSUME NEW S, NEW n \in Nat, NEW f \in [1..n -> S]
          PROVE  f \in Seq(S) /\ Len(f) = n
      OBVIOUS
    <2> QED BY <2>1, <2>2, <2>3
  <1>4. CASE paused = 0
    <2>1. paused' = 0
      BY <1>4 DEF BrTick
    <2>2. Len(fails) <= streak
      BY <1>4 DEF BrInv
    <2>3. Len(fails') <= streak'
      BY <1>t, <1>3, <2>2
    <2> QED BY <1>c, <1>t, <1>3, <2>1, <2>3 DEF BrInv
  <1>5. CASE paused > 0
    <2>1. paused' = paused - 1
      BY <1>5 DEF BrTick
    <2>2. /\ streak = 0 /\ Len(fails) <= FailuresBeforePause
          /\ \A i \in 1..Len(fails) : fails[i] >= CtPause - paused
      BY <1>5 DEF BrInv
    <2>3. ASSUME NEW i \in 1..Len(fails')
          PROVE  fails'[i] >= CtPause - paused'
      <3>1. i \in 1..(Len(fails) - gone)
        BY <1>3
      <3>2. /\ i + gone \in 1..Len(fails) /\ fails[i + gone] \in 0..(CtPause - 1)
            /\ fails'[i] = fails[i + gone] + 1
        BY <1>2, <3>1
      <3>3. fails[i + gone] >= CtPause - paused
        BY <2>2, <3>2
      <3> QED BY <1>c, <1>t, <2>1, <3>2, <3>3
    <2>4. paused' = 0 => Len(fails') = 0
      <3> SUFFICES ASSUME paused' = 0, 1 \in 1..Len(fails') PROVE FALSE
        BY <1>t, <1>3
      <3>1. fails'[1] >= CtPause /\ fails'[1] \in 0..(CtPause - 1)
        BY <1>c, <1>2, <1>3, <2>3
      <3> QED BY <1>c, <3>1
    <2>5. Len(fails') <= FailuresBeforePause
      BY <1>c, <1>t, <1>3, <2>2
    <2>6. paused' \in 0..CtPause
      BY <1>c, <1>t, <1>5, <2>1
    <2> QED BY <1>t, <1>3, <2>2, <2>3, <2>4, <2>5, <2>6 DEF BrInv
  <1> QED BY <1>t, <1>4, <1>5

\* "a stuck netlink socket costs a few timeouts rather than one per datagram"
\* (server.go:195-197): for any pause and any number of failures before it, and
\* however many datagrams ask.
THEOREM FewTimeoutsEver == Spec => []FewTimeouts
  <1>1. Init => BrInv
    <2>1. <<>> \in Seq(0..(CtPause - 1)) /\ Len(<<>>) = 0
      OBVIOUS
    <2> QED BY <2>1, BreakerAssumption DEF Init, BrInit, BrInv
  <1>2. BrInv /\ [Next]_udpVars => BrInv'
    <2> SUFFICES ASSUME BrInv, [Next]_udpVars PROVE BrInv'
      OBVIOUS
    <2>1. UNCHANGED brVars => BrInv'
      BY DEF brVars, BrInv
    <2> QED BY <2>1, BreakerSteps, BreakerKeeps, BreakerTicks
  <1>3. BrInv => FewTimeouts
    BY BreakerAssumption DEF BrInv, FewTimeouts
  <1> QED BY <1>1, <1>2, <1>3, PTL DEF Spec

----------------------------------------------------------------------------
(* The assembler's tables. *)

\* What a step of the server is to the assembler.
LEMMA AssemblerSteps ==
    ASSUME [Next]_udpVars
    PROVE  \/ UNCHANGED asmVars
           \/ \E k, first : Folded(k, first) \/ Refused(k)
           \/ \E k, crypto, first : Gathers(k, crypto, first) \/ Completes(k, crypto, first)
           \/ Expire \/ (ShutdownFlushes /\ Flush) \/ AsmTick
  BY Zenon DEF Next, Handles, Arrival, Receives, ReadsEmpty, Ignored, SourceLimited, Limited, Admitted, Resolving,
     Tick, udpVars, Sweep, Closes, CloseConn, SweeperStops, ShutdownFlushes, ProcessExits,
     LookupPaused, LookupAnswered, LookupFails, RecordsDatagram, Panics, StartsQUIC, Skips,
     AddsPacket, CompletesAttempt, RecordsAttempt, EndsQUIC, ServeReturns, Busy, Handling

\* Sizes of two sets apart add up.
LEMMA DisjointSum ==
    ASSUME NEW S, NEW T, IsFiniteSet(S), IsFiniteSet(T), S \cap T = {}
    PROVE  /\ Cardinality(S) \in Nat /\ Cardinality(T) \in Nat
           /\ IsFiniteSet(S \cup T) /\ Cardinality(S \cup T) = Cardinality(S) + Cardinality(T)
  <1>1. Cardinality(S) \in Nat /\ Cardinality(T) \in Nat
    BY FS_CardinalityType
  <1>2. IsFiniteSet(S \cup T) /\ Cardinality(S \cup T) = Cardinality(S) + Cardinality(T) - Cardinality(S \cap T)
    BY FS_Union
  <1>3. Cardinality(S \cap T) = 0
    BY FS_EmptySet
  <1> QED BY <1>1, <1>2, <1>3

\* Attempts move between the tables, or leave; none comes.
LEMMA TablesShrink ==
    ASSUME TablesInv, DOMAIN pending' \subseteq DOMAIN pending,
           DOMAIN completed' \subseteq DOMAIN pending \cup DOMAIN completed,
           DOMAIN pending' \cap DOMAIN completed' = {}
    PROVE  IsFiniteSet(DOMAIN pending') /\ IsFiniteSet(DOMAIN completed') /\ TablesSound'
  <1> DEFINE P == DOMAIN pending  C == DOMAIN completed  PP == DOMAIN pending'  CC == DOMAIN completed'
  <1>1. /\ IsFiniteSet(P) /\ IsFiniteSet(C) /\ P \cap C = {} /\ Cardinality(P) <= MaxPending
        /\ Cardinality(P) + Cardinality(C) <= TableFactor * MaxPending
    BY DEF TablesInv, TablesSound
  <1>2. PP \subseteq P /\ CC \subseteq P \cup C /\ PP \cap CC = {} /\ PP \cup CC \subseteq P \cup C
    OBVIOUS
  <1>b. MaxPending \in Nat /\ TableFactor * MaxPending \in Nat
    BY AssemblerAssumption
  <1> HIDE DEF P, C, PP, CC
  <1>3. /\ Cardinality(P) \in Nat /\ Cardinality(C) \in Nat
        /\ IsFiniteSet(P \cup C) /\ Cardinality(P \cup C) = Cardinality(P) + Cardinality(C)
    BY <1>1, DisjointSum
  <1>4. IsFiniteSet(PP) /\ Cardinality(PP) <= Cardinality(P)
    BY <1>1, <1>2, FS_Subset
  <1>5. IsFiniteSet(CC)
    BY <1>2, <1>3, FS_Subset
  <1>6. /\ Cardinality(PP) \in Nat /\ Cardinality(CC) \in Nat
        /\ IsFiniteSet(PP \cup CC) /\ Cardinality(PP \cup CC) = Cardinality(PP) + Cardinality(CC)
    BY <1>2, <1>4, <1>5, DisjointSum
  <1>7. Cardinality(PP \cup CC) <= Cardinality(P \cup C)
    BY <1>2, <1>3, FS_Subset
  <1>8. /\ Cardinality(PP) <= MaxPending
        /\ Cardinality(PP) + Cardinality(CC) <= TableFactor * MaxPending
    BY <1>b, <1>1, <1>3, <1>4, <1>6, <1>7
  <1> QED BY <1>2, <1>4, <1>5, <1>8 DEF TablesSound, PP, CC

\* An attempt comes into one of the tables that are not full.
LEMMA TablesGrow ==
    ASSUME TablesInv, NEW k, k \notin DOMAIN pending, k \notin DOMAIN completed, ~TableFull,
           \/ DOMAIN pending' = DOMAIN pending \cup {k} /\ DOMAIN completed' = DOMAIN completed
           \/ DOMAIN pending' = DOMAIN pending /\ DOMAIN completed' = DOMAIN completed \cup {k}
    PROVE  IsFiniteSet(DOMAIN pending') /\ IsFiniteSet(DOMAIN completed') /\ TablesSound'
  <1> DEFINE P == DOMAIN pending  C == DOMAIN completed
  <1>1. IsFiniteSet(P) /\ IsFiniteSet(C) /\ P \cap C = {}
    BY DEF TablesInv, TablesSound
  <1>b. MaxPending \in Nat /\ TableFactor * MaxPending \in Nat
    BY AssemblerAssumption
  <1>2. /\ ~(Cardinality(P) + Cardinality(C) >= TableFactor * MaxPending)
        /\ ~(Cardinality(P) >= MaxPending)
    BY DEF TableFull
  <1>3. k \notin P /\ k \notin C
    OBVIOUS
  <1>n. Cardinality(P) \in Nat /\ Cardinality(C) \in Nat
    BY <1>1, FS_CardinalityType
  <1>4. IsFiniteSet(P \cup {k}) /\ Cardinality(P \cup {k}) = Cardinality(P) + 1
    BY <1>1, <1>3, FS_AddElement
  <1>5. IsFiniteSet(C \cup {k}) /\ Cardinality(C \cup {k}) = Cardinality(C) + 1
    BY <1>1, <1>3, FS_AddElement
  <1>6. CASE DOMAIN pending' = P \cup {k} /\ DOMAIN completed' = C
    <2>1. (P \cup {k}) \cap C = {}
      BY <1>1, <1>3
    <2>2. /\ Cardinality(P \cup {k}) <= MaxPending
          /\ Cardinality(P \cup {k}) + Cardinality(C) <= TableFactor * MaxPending
      BY <1>b, <1>2, <1>n, <1>4
    <2> HIDE DEF P, C
    <2> QED BY <1>1, <1>4, <1>6, <2>1, <2>2, Zenon DEF TablesSound
  <1>7. CASE DOMAIN pending' = P /\ DOMAIN completed' = C \cup {k}
    <2>1. P \cap (C \cup {k}) = {}
      BY <1>1, <1>3
    <2>2. /\ Cardinality(P) <= MaxPending
          /\ Cardinality(P) + Cardinality(C \cup {k}) <= TableFactor * MaxPending
      BY <1>b, <1>2, <1>n, <1>5
    <2> HIDE DEF P, C
    <2> QED BY <1>1, <1>5, <1>7, <2>1, <2>2, Zenon DEF TablesSound
  <1> QED BY <1>6, <1>7

\* The attempt that Add works on is a record, and counts the datagram at most once.
LEMMA WithFields ==
    ASSUME TablesInv, NEW k, NEW crypto, NEW first
    PROVE  /\ DOMAIN With(k, crypto, first) = AttemptFields
           /\ With(k, crypto, first).datagrams =
                 (IF k \in DOMAIN pending THEN pending[k].datagrams ELSE 0) + (IF first THEN 1 ELSE 0)
           /\ With(k, crypto, first).datagrams \in Nat
  <1> DEFINE a == IF k \in DOMAIN pending THEN pending[k] ELSE Fresh
  <1>1. DOMAIN a = AttemptFields /\ a.datagrams \in Nat
        /\ a.datagrams = IF k \in DOMAIN pending THEN pending[k].datagrams ELSE 0
    BY DEF TablesInv, Fresh, AttemptFields
  <1>2. PICK segs : segs = FoldLeft(Keep, a.segs, crypto)
    OBVIOUS
  <1>3. With(k, crypto, first) =
          [a EXCEPT !.segs = segs, !.datagrams = IF first THEN a.datagrams + 1 ELSE a.datagrams]
    BY <1>2, Zenon DEF With
  <1> HIDE DEF a
  <1> QED BY <1>1, <1>3 DEF AttemptFields

\* The sets that Expire and Flush return and forget are of their tables.
LEMMA ExpireDomains ==
    ASSUME NEW late \in SUBSET DOMAIN pending, NEW old \in SUBSET DOMAIN completed, ExpireOf(late, old)
    PROVE  /\ DOMAIN pending' = DOMAIN pending \ late
           /\ \A k \in DOMAIN pending \ late : pending'[k] = pending[k]
           /\ DOMAIN completed' = (DOMAIN completed \ old) \cup late
           /\ \A k \in (DOMAIN completed \ old) \ late : completed'[k] = completed[k]
           /\ \A k \in late : completed'[k] = 0
  BY DEF ExpireOf, Restrict

\* Expire and Flush take some attempts out and forget some keys (assemble.go).
LEMMA ExpireSplits ==
    ASSUME Expire \/ Flush
    PROVE  \E late \in SUBSET DOMAIN pending, old \in SUBSET DOMAIN completed :
              /\ ExpireOf(late, old)
              /\ Expire => old = Old
  <1>1. CASE Expire
    <2>1. Late \in SUBSET DOMAIN pending /\ Old \in SUBSET DOMAIN completed
      BY DEF Late, Old
    <2> QED BY <1>1, <2>1, Zenon DEF Expire
  <1>2. CASE Flush /\ ~Expire
    <2>1. DOMAIN pending \in SUBSET DOMAIN pending /\ DOMAIN completed \in SUBSET DOMAIN completed
      OBVIOUS
    <2> QED BY <1>2, <2>1, Zenon DEF Flush
  <1> QED BY <1>1, <1>2

\* Add of a packet that makes nothing whole.
LEMMA GathersDomains ==
    ASSUME TablesInv, NEW k, NEW crypto, NEW first, Gathers(k, crypto, first)
    PROVE  /\ DOMAIN pending' = DOMAIN pending \cup {k} /\ completed' = completed
           /\ pending'[k] = With(k, crypto, first)
           /\ \A x \in DOMAIN pending : x # k => pending'[x] = pending[x]
           /\ k \notin DOMAIN completed /\ (k \in DOMAIN pending \/ ~TableFull)
  <1>1. PICK a : a = With(k, crypto, first)
    OBVIOUS
  <1>2. pending' = Put(pending, k, a)
    BY <1>1 DEF Gathers
  <1>3. completed' = completed /\ k \notin DOMAIN completed /\ (k \in DOMAIN pending \/ ~TableFull)
    BY Zenon DEF Gathers, Admits
  <1> QED BY <1>1, <1>2, <1>3 DEF Put

\* Add of the packet that makes the hello whole.
LEMMA CompletesDomains ==
    ASSUME NEW k, NEW crypto, NEW first, Completes(k, crypto, first)
    PROVE  /\ DOMAIN pending' = DOMAIN pending \ {k}
           /\ \A x \in DOMAIN pending \ {k} : pending'[x] = pending[x]
           /\ DOMAIN completed' = DOMAIN completed \cup {k} /\ completed'[k] = 0
           /\ \A x \in DOMAIN completed : completed'[x] = completed[x]
           /\ k \notin DOMAIN completed /\ (k \in DOMAIN pending \/ ~TableFull)
  <1>1. /\ pending' = Restrict(pending, DOMAIN pending \ {k}) /\ completed' = Put(completed, k, 0)
        /\ k \notin DOMAIN completed /\ (k \in DOMAIN pending \/ ~TableFull)
    BY Zenon DEF Completes, Admits
  <1> QED BY <1>1 DEF Put, Restrict

\* Time takes nothing out of the tables.
LEMMA TickDomains ==
    ASSUME TablesInv, AsmTick
    PROVE  /\ DOMAIN pending' = DOMAIN pending /\ DOMAIN completed' = DOMAIN completed
           /\ \A k \in DOMAIN pending :
                 DOMAIN pending'[k] = AttemptFields /\ pending'[k].datagrams = pending[k].datagrams
           /\ \A k \in DOMAIN completed : completed'[k] = Older(completed[k], CompletedTTL)
  <1>1. ASSUME NEW k \in DOMAIN pending
        PROVE  DOMAIN pending'[k] = AttemptFields /\ pending'[k].datagrams = pending[k].datagrams
    <2>1. PICK v : v = Older(pending[k].age, PendingTTL)
      OBVIOUS
    <2>2. pending'[k] = [pending[k] EXCEPT !.age = v]
      BY <2>1 DEF AsmTick
    <2>3. DOMAIN pending[k] = AttemptFields
      BY DEF TablesInv
    <2> QED BY <2>2, <2>3 DEF AttemptFields
  <1> QED BY <1>1 DEF AsmTick

\* Every step of the server keeps the tables within their limits.
LEMMA TablesSteps ==
    ASSUME TablesInv, [Next]_udpVars
    PROVE  TablesInv'
  <1>0. IsFiniteSet(DOMAIN pending) /\ IsFiniteSet(DOMAIN completed) /\ TablesSound
    BY DEF TablesInv
  <1>d. DOMAIN pending \cap DOMAIN completed = {}
    BY <1>0 DEF TablesSound
  <1>a. \A x \in DOMAIN pending : DOMAIN pending[x] = AttemptFields /\ pending[x].datagrams \in Nat
    BY DEF TablesInv
  <1>1. ASSUME pending' = pending, completed' = completed
        PROVE  TablesInv'
    BY <1>1, Zenon DEF TablesInv, TablesSound
  <1>2. ASSUME NEW k, NEW crypto, NEW first, Gathers(k, crypto, first)
        PROVE  TablesInv'
    <2>1. /\ DOMAIN pending' = DOMAIN pending \cup {k} /\ completed' = completed
          /\ pending'[k] = With(k, crypto, first)
          /\ \A x \in DOMAIN pending : x # k => pending'[x] = pending[x]
          /\ k \notin DOMAIN completed /\ (k \in DOMAIN pending \/ ~TableFull)
      BY <1>2, GathersDomains, Zenon
    <2>2. DOMAIN pending'[k] = AttemptFields /\ pending'[k].datagrams \in Nat
      <3>1. DOMAIN With(k, crypto, first) = AttemptFields /\ With(k, crypto, first).datagrams \in Nat
        BY WithFields
      <3> QED BY <2>1, <3>1
    <2>3. \A x \in DOMAIN pending' : DOMAIN pending'[x] = AttemptFields /\ pending'[x].datagrams \in Nat
      BY <1>a, <2>1, <2>2
    <2>4. IsFiniteSet(DOMAIN pending') /\ IsFiniteSet(DOMAIN completed') /\ TablesSound'
      <3>1. CASE k \in DOMAIN pending
        <4>1. DOMAIN pending' = DOMAIN pending /\ DOMAIN completed' = DOMAIN completed
          BY <2>1, <3>1
        <4> QED BY <1>0, <4>1, Zenon DEF TablesSound
      <3>2. CASE k \notin DOMAIN pending
        BY <2>1, <3>2, TablesGrow, Zenon
      <3> QED BY <3>1, <3>2
    <2> QED BY <2>3, <2>4, Zenon DEF TablesInv
  <1>3. ASSUME NEW k, NEW crypto, NEW first, Completes(k, crypto, first)
        PROVE  TablesInv'
    <2>1. /\ DOMAIN pending' = DOMAIN pending \ {k}
          /\ \A x \in DOMAIN pending \ {k} : pending'[x] = pending[x]
          /\ DOMAIN completed' = DOMAIN completed \cup {k}
          /\ k \notin DOMAIN completed /\ (k \in DOMAIN pending \/ ~TableFull)
      BY <1>3, CompletesDomains, Zenon
    <2>2. \A x \in DOMAIN pending' : DOMAIN pending'[x] = AttemptFields /\ pending'[x].datagrams \in Nat
      BY <1>a, <2>1
    <2>3. IsFiniteSet(DOMAIN pending') /\ IsFiniteSet(DOMAIN completed') /\ TablesSound'
      <3>1. CASE k \in DOMAIN pending
        <4>1. /\ DOMAIN pending' \subseteq DOMAIN pending
              /\ DOMAIN completed' \subseteq DOMAIN pending \cup DOMAIN completed
              /\ DOMAIN pending' \cap DOMAIN completed' = {}
          BY <1>d, <2>1, <3>1
        <4> QED BY <4>1, TablesShrink, Zenon
      <3>2. CASE k \notin DOMAIN pending
        <4>1. DOMAIN pending' = DOMAIN pending
          BY <2>1, <3>2
        <4> QED BY <2>1, <3>2, <4>1, TablesGrow, Zenon
      <3> QED BY <3>1, <3>2
    <2> QED BY <2>2, <2>3, Zenon DEF TablesInv
  <1>4. CASE Expire \/ Flush
    <2>1. PICK late \in SUBSET DOMAIN pending, old \in SUBSET DOMAIN completed : ExpireOf(late, old)
      BY <1>4, ExpireSplits
    <2>2. /\ DOMAIN pending' = DOMAIN pending \ late
          /\ \A k \in DOMAIN pending \ late : pending'[k] = pending[k]
          /\ DOMAIN completed' = (DOMAIN completed \ old) \cup late
      BY <2>1, ExpireDomains
    <2>3. \A x \in DOMAIN pending' : DOMAIN pending'[x] = AttemptFields /\ pending'[x].datagrams \in Nat
      BY <1>a, <2>2
    <2>4. /\ DOMAIN pending' \subseteq DOMAIN pending
          /\ DOMAIN completed' \subseteq DOMAIN pending \cup DOMAIN completed
          /\ DOMAIN pending' \cap DOMAIN completed' = {}
      BY <1>d, <2>1, <2>2
    <2> QED BY <2>3, <2>4, TablesShrink, Zenon DEF TablesInv
  <1>5. CASE AsmTick
    <2>1. /\ DOMAIN pending' = DOMAIN pending /\ DOMAIN completed' = DOMAIN completed
          /\ \A k \in DOMAIN pending :
                DOMAIN pending'[k] = AttemptFields /\ pending'[k].datagrams = pending[k].datagrams
      BY <1>5, TickDomains
    <2>2. IsFiniteSet(DOMAIN pending') /\ IsFiniteSet(DOMAIN completed') /\ TablesSound'
      BY <1>0, <2>1, Zenon DEF TablesSound
    <2>3. \A x \in DOMAIN pending' : DOMAIN pending'[x] = AttemptFields /\ pending'[x].datagrams \in Nat
      BY <1>a, <2>1
    <2> QED BY <2>2, <2>3, Zenon DEF TablesInv
  <1>6. (\E k, first : Folded(k, first) \/ Refused(k)) \/ UNCHANGED asmVars
          => pending' = pending /\ completed' = completed
    BY Zenon DEF Folded, Refused, asmVars
  <1> QED BY <1>1, <1>2, <1>3, <1>4, <1>5, <1>6, AssemblerSteps, Zenon

\* They are empty at first.
LEMMA TablesInit == Init => TablesInv
  <1> SUFFICES ASSUME Init PROVE TablesInv
    OBVIOUS
  <1>1. DOMAIN pending = {} /\ DOMAIN completed = {}
    BY DEF Init, AsmInit, NoKey
  <1>2. IsFiniteSet({}) /\ Cardinality({}) = 0
    BY FS_EmptySet
  <1>3. MaxPending \in Nat /\ TableFactor * MaxPending \in Nat
    BY AssemblerAssumption
  <1> QED BY <1>1, <1>2, <1>3 DEF TablesInv, TablesSound

\* What senders can make the sensor hold is bounded, for any traffic: the attempts
\* waiting, those waiting and remembered together, and none in both tables
\* (assemble.go:9-19, 76-82).
THEOREM TablesBounded == Spec => []TablesSound
  <1>1. TablesInv /\ [Next]_udpVars => TablesInv'
    BY TablesSteps
  <1>2. TablesInv => TablesSound
    BY DEF TablesInv
  <1> QED BY TablesInit, <1>1, <1>2, PTL DEF Spec

----------------------------------------------------------------------------
(* An attempt is recorded once. *)

\* Only an attempt that is not remembered is recorded.
LEMMA ReportedIsNew ==
    ASSUME TablesInv, sinceReport \in [Keys -> 0..CompletedTTL], [Next]_udpVars,
           NEW k \in Keys, sinceReport'[k] = 0, sinceReport[k] > 0
    PROVE  k \notin DOMAIN completed
  <1>c. CompletedTTL \in Nat \ {0}
    BY AssemblerAssumption
  <1>d. DOMAIN pending \cap DOMAIN completed = {}
    BY DEF TablesInv, TablesSound
  <1>1. CASE AsmTick
    <2>1. sinceReport'[k] = Older(sinceReport[k], CompletedTTL)
      BY <1>1 DEF AsmTick
    <2> QED BY <1>c, <2>1 DEF Older
  <1>2. CASE Expire \/ Flush
    <2>1. PICK late \in SUBSET DOMAIN pending, old \in SUBSET DOMAIN completed : ExpireOf(late, old)
      BY <1>2, ExpireSplits
    <2>2. k \in late
      BY <2>1 DEF ExpireOf
    <2> QED BY <1>d, <2>1, <2>2
  <1>3. ASSUME NEW x, NEW crypto, NEW first, Completes(x, crypto, first)
        PROVE  k \notin DOMAIN completed
    <2>1. sinceReport' = [sinceReport EXCEPT ![x] = 0] /\ x \notin DOMAIN completed
      BY <1>3, Zenon DEF Completes, Admits
    <2>2. x = k
      BY <2>1
    <2> QED BY <2>1, <2>2
  <1>4. \/ sinceReport' = sinceReport \/ AsmTick \/ Expire \/ Flush
        \/ \E x, crypto, first : Completes(x, crypto, first)
    BY AssemblerSteps, Zenon DEF Folded, Refused, Gathers, asmVars
  <1>5. sinceReport' # sinceReport
    OBVIOUS
  <1> QED BY <1>1, <1>2, <1>3, <1>4, <1>5

\* What was recorded stays remembered until the flush.
LEMMA RememberSteps ==
    ASSUME TablesInv, ReportsRemembered, [Next]_udpVars, ~ShutdownFlushes
    PROVE  ReportsRemembered'
  <1>c. CompletedTTL \in Nat \ {0}
    BY AssemblerAssumption
  <1>s. sinceReport \in [Keys -> 0..CompletedTTL]
    BY DEF ReportsRemembered
  <1>p. \A k \in DOMAIN completed : completed[k] \in 0..CompletedTTL
    BY DEF ReportsRemembered
  <1>r. \A k \in Keys : sinceReport[k] < CompletedTTL => k \in DOMAIN completed /\ completed[k] <= sinceReport[k]
    BY DEF ReportsRemembered
  <1>d. DOMAIN pending \cap DOMAIN completed = {}
    BY DEF TablesInv, TablesSound
  <1>1. ASSUME UNCHANGED <<completed, sinceReport>>
        PROVE  ReportsRemembered'
    BY <1>1, Zenon DEF ReportsRemembered
  <1>2. ASSUME NEW x, NEW crypto, NEW first, Completes(x, crypto, first)
        PROVE  ReportsRemembered'
    <2>1. sinceReport' = [sinceReport EXCEPT ![x] = 0]
      BY <1>2 DEF Completes
    <2>2. /\ DOMAIN completed' = DOMAIN completed \cup {x} /\ completed'[x] = 0
          /\ \A y \in DOMAIN completed : completed'[y] = completed[y]
      BY <1>2, CompletesDomains
    <2>3. sinceReport' \in [Keys -> 0..CompletedTTL]
      <3>1. 0 \in 0..CompletedTTL
        BY <1>c
      <3> QED BY <1>s, <2>1, <3>1
    <2>4. ASSUME NEW k \in DOMAIN completed'
          PROVE  completed'[k] \in 0..CompletedTTL
      BY <1>c, <1>p, <2>2
    <2>5. ASSUME NEW k \in Keys, sinceReport'[k] < CompletedTTL
          PROVE  k \in DOMAIN completed' /\ completed'[k] <= sinceReport'[k]
      <3>1. CASE k = x
        BY <1>c, <2>2, <2>3, <3>1
      <3>2. CASE k # x
        <4>1. sinceReport'[k] = sinceReport[k]
          BY <1>s, <2>1, <3>2
        <4> QED BY <1>r, <2>2, <2>5, <4>1
      <3> QED BY <3>1, <3>2
    <2> QED BY <2>3, <2>4, <2>5, Zenon DEF ReportsRemembered
  <1>3. CASE Expire
    <2>1. PICK late \in SUBSET DOMAIN pending, old \in SUBSET DOMAIN completed :
             ExpireOf(late, old) /\ old = Old
      BY <1>3, ExpireSplits
    <2>2. /\ DOMAIN completed' = (DOMAIN completed \ old) \cup late
          /\ \A k \in (DOMAIN completed \ old) \ late : completed'[k] = completed[k]
          /\ \A k \in late : completed'[k] = 0
      BY <2>1, ExpireDomains
    <2>3. sinceReport' = [k \in Keys |-> IF k \in late THEN 0 ELSE sinceReport[k]]
      BY <2>1 DEF ExpireOf
    <2>4. sinceReport' \in [Keys -> 0..CompletedTTL]
      BY <1>c, <1>s, <2>3
    <2>5. ASSUME NEW k \in DOMAIN completed'
          PROVE  completed'[k] \in 0..CompletedTTL
      BY <1>c, <1>p, <2>2
    <2>6. ASSUME NEW k \in Keys, sinceReport'[k] < CompletedTTL
          PROVE  k \in DOMAIN completed' /\ completed'[k] <= sinceReport'[k]
      <3>1. CASE k \in late
        BY <2>2, <2>3, <3>1
      <3>2. CASE k \notin late
        <4>1. sinceReport'[k] = sinceReport[k]
          BY <2>3, <3>2
        <4>2. k \in DOMAIN completed /\ completed[k] <= sinceReport[k]
          BY <1>r, <2>6, <4>1
        <4>3. sinceReport[k] \in 0..CompletedTTL /\ completed[k] \in 0..CompletedTTL
          BY <1>s, <1>p, <4>2
        <4>4. ~(completed[k] >= CompletedTTL)
          BY <1>c, <2>6, <4>1, <4>2, <4>3
        <4>5. k \notin old
          BY <2>1, <4>4 DEF Old
        <4> QED BY <2>2, <3>2, <4>1, <4>2, <4>5
      <3> QED BY <3>1, <3>2
    <2> QED BY <2>4, <2>5, <2>6, Zenon DEF ReportsRemembered
  <1>4. CASE AsmTick
    <2>1. /\ DOMAIN completed' = DOMAIN completed
          /\ \A k \in DOMAIN completed : completed'[k] = Older(completed[k], CompletedTTL)
      BY <1>4, TickDomains
    <2>2. sinceReport' = [k \in Keys |-> Older(sinceReport[k], CompletedTTL)]
      BY <1>4 DEF AsmTick
    <2>3. \A v \in 0..CompletedTTL : Older(v, CompletedTTL) \in 0..CompletedTTL
      BY <1>c DEF Older
    <2>4. sinceReport' \in [Keys -> 0..CompletedTTL]
      BY <1>s, <2>2, <2>3
    <2>5. ASSUME NEW k \in DOMAIN completed'
          PROVE  completed'[k] \in 0..CompletedTTL
      BY <1>p, <2>1, <2>3
    <2>6. ASSUME NEW k \in Keys, sinceReport'[k] < CompletedTTL
          PROVE  k \in DOMAIN completed' /\ completed'[k] <= sinceReport'[k]
      <3>1. sinceReport[k] \in 0..CompletedTTL /\ sinceReport'[k] = Older(sinceReport[k], CompletedTTL)
        BY <1>s, <2>2
      <3>2. sinceReport[k] < CompletedTTL /\ sinceReport'[k] = sinceReport[k] + 1
        BY <1>c, <2>6, <3>1 DEF Older
      <3>3. k \in DOMAIN completed /\ completed[k] <= sinceReport[k] /\ completed[k] \in 0..CompletedTTL
        BY <1>p, <1>r, <3>2
      <3>4. completed'[k] = completed[k] + 1
        BY <1>c, <2>1, <3>1, <3>2, <3>3 DEF Older
      <3> QED BY <2>1, <3>1, <3>2, <3>3, <3>4
    <2> QED BY <2>4, <2>5, <2>6, Zenon DEF ReportsRemembered
  <1>5. \/ UNCHANGED <<completed, sinceReport>> \/ Expire \/ AsmTick
        \/ \E x, crypto, first : Completes(x, crypto, first)
    BY AssemblerSteps, Zenon DEF Folded, Refused, Gathers, asmVars
  <1> QED BY <1>1, <1>2, <1>3, <1>4, <1>5

\* main after a step, by the step.
LEMMA MainSteps ==
    ASSUME [Next]_udpVars
    PROVE  /\ main = "exited" => UNCHANGED asmVars /\ main' = "exited"
           /\ main' = main \/ CloseConn \/ ShutdownFlushes \/ ProcessExits
           /\ UNCHANGED asmVars \/ ~(main = "exited")
  <1>1. main' = main \/ CloseConn \/ ShutdownFlushes \/ ProcessExits
    BY Zenon DEF Next, Handles, Arrival, Receives, ReadsEmpty, Ignored, SourceLimited, Limited, Admitted, Resolving,
     Tick, udpVars, Sweep, Closes, SweeperStops,
     LookupPaused, LookupAnswered, LookupFails, RecordsDatagram, Panics, StartsQUIC, Skips,
     AddsPacket, CompletesAttempt, RecordsAttempt, EndsQUIC, ServeReturns, Busy, Handling
  <1>2. ASSUME main = "exited"
        PROVE  UNCHANGED asmVars /\ main' = "exited"
    <2>1. ~Alive /\ ~(CloseConn \/ SweeperStops \/ ShutdownFlushes \/ ProcessExits)
      BY <1>2 DEF Alive, CloseConn, SweeperStops, ShutdownFlushes, ProcessExits
    <2>2. UNCHANGED udpVars
      BY <2>1, Zenon DEF Next, Handles, Arrival, Receives, ReadsEmpty, Ignored, SourceLimited, Limited, Admitted, Resolving,
         Tick, Sweep, Closes,
         LookupPaused, LookupAnswered, LookupFails, RecordsDatagram, Panics, StartsQUIC, Skips,
         AddsPacket, CompletesAttempt, RecordsAttempt, EndsQUIC, ServeReturns, Busy, Handling
    <2> QED BY <1>2, <2>2, Zenon DEF udpVars
  <1> QED BY <1>1, <1>2

\* Retransmissions fold into the attempt: a key that was recorded is not recorded again
\* before CompletedTTL, whatever arrives, expires or is refused in between
\* (assemble.go:21-22, 152-174).
THEOREM RecordedOncePerAttempt == Spec => OneRecordPerAttempt
  <1> DEFINE Mains == main \in {"running", "closed", "returned", "exited"}
  <1> DEFINE Inv == TablesInv /\ RememberInv /\ Mains /\ sinceReport \in [Keys -> 0..CompletedTTL]
  <1> DEFINE Once == \A k \in Keys : main # "returned" /\ sinceReport'[k] = 0 /\ sinceReport[k] > 0 =>
                        sinceReport[k] >= CompletedTTL
  <1>c. CompletedTTL \in Nat \ {0}
    BY AssemblerAssumption
  <1>1. Init => Inv
    <2> SUFFICES ASSUME Init PROVE Inv
      OBVIOUS
    <2>1. sinceReport = [k \in Keys |-> CompletedTTL] /\ DOMAIN completed = {} /\ main = "running"
      BY DEF Init, AsmInit, NoKey
    <2>2. ReportsRemembered
      BY <1>c, <2>1 DEF ReportsRemembered
    <2> QED BY <2>1, <2>2, TablesInit DEF RememberInv, ReportsRemembered
  <1>2. Inv /\ [Next]_udpVars => Inv'
    <2> SUFFICES ASSUME Inv, [Next]_udpVars PROVE Inv'
      OBVIOUS
    <2>1. TablesInv'
      BY TablesSteps
    <2>2. Mains'
      BY MainSteps DEF CloseConn, ShutdownFlushes, ProcessExits
    <2>3. sinceReport' \in [Keys -> 0..CompletedTTL]
      <3>1. CASE AsmTick
        <4>1. \A v \in 0..CompletedTTL : Older(v, CompletedTTL) \in 0..CompletedTTL
          BY <1>c DEF Older
        <4> QED BY <3>1, <4>1 DEF AsmTick
      <3>2. ASSUME NEW late, NEW old, ExpireOf(late, old)
            PROVE  sinceReport' \in [Keys -> 0..CompletedTTL]
        BY <1>c, <3>2 DEF ExpireOf
      <3>3. ASSUME NEW x, NEW crypto, NEW first, Completes(x, crypto, first)
            PROVE  sinceReport' \in [Keys -> 0..CompletedTTL]
        <4>1. 0 \in 0..CompletedTTL
          BY <1>c
        <4> QED BY <3>3, <4>1 DEF Completes
      <3>4. \/ sinceReport' = sinceReport \/ AsmTick \/ \E late, old : ExpireOf(late, old)
            \/ \E x, crypto, first : Completes(x, crypto, first)
        BY AssemblerSteps, Zenon DEF Folded, Refused, Gathers, asmVars, Expire, Flush
      <3> QED BY <3>1, <3>2, <3>3, <3>4
    <2>4. RememberInv'
      <3> SUFFICES ASSUME main' \in {"running", "closed"} PROVE ReportsRemembered'
        BY DEF RememberInv
      <3>1. ~ShutdownFlushes /\ main \in {"running", "closed"}
        BY MainSteps DEF CloseConn, ShutdownFlushes, ProcessExits
      <3>2. ReportsRemembered
        BY <3>1 DEF RememberInv
      <3> QED BY <3>1, <3>2, RememberSteps
    <2> QED BY <2>1, <2>2, <2>3, <2>4
  <1>3. Inv /\ [Next]_udpVars => [Once]_udpVars
    <2> SUFFICES ASSUME Inv, [Next]_udpVars, NEW k \in Keys, main # "returned",
                        sinceReport'[k] = 0, sinceReport[k] > 0
                 PROVE  sinceReport[k] >= CompletedTTL
      BY Zenon
    <2>1. k \notin DOMAIN completed
      BY ReportedIsNew
    <2>2. main # "exited"
      BY MainSteps DEF asmVars
    <2>3. ReportsRemembered
      BY <2>2 DEF RememberInv
    <2> QED BY <1>c, <2>1, <2>3 DEF ReportsRemembered
  <1> QED BY <1>1, <1>2, <1>3, PTL DEF Spec, OneRecordPerAttempt

----------------------------------------------------------------------------
(* What the end of the process can take with it. *)

\* FlushInv of the attempts, once Shutdown has flushed.
AfterFlush ==
    /\ ~sweeper
    /\ serve \in {"resolve", "classify", "record"} => DOMAIN pending = {}
    /\ serve = "packet" => DOMAIN pending \subseteq {dgram.key} /\ (at = 1 => DOMAIN pending = {})
    /\ DOMAIN pending = {} \/ \E k \in DOMAIN pending : DOMAIN pending = {k}
    /\ \A k \in DOMAIN pending : pending[k].datagrams <= 1

Ended == main \in {"returned", "exited"}

InHand ==
    /\ hand \in Nat /\ at \in Nat
    /\ hand > 0 => serve = "record"
    /\ serve \in Handled => at >= 1

\* FlushInv in two parts.
LEMMA FlushParts == FlushInv <=> InHand /\ (Ended => AfterFlush)
  BY Zenon DEF FlushInv, InHand, Ended, AfterFlush

\* An attempt is in hand only on its way to the record.
LEMMA InHandSteps ==
    ASSUME TablesInv, InHand, [Next]_udpVars
    PROVE  InHand'
  <1>1. CASE \E d \in Datagrams : ReadsEmpty(d) \/ Ignored(d) \/ SourceLimited(d) \/ Limited(d) \/ Admitted(d)
    BY <1>1 DEF ReadsEmpty, Ignored, SourceLimited, Limited, Admitted, Reads, srvVars, InHand, Handled
  <1>2. CASE Tick \/ Sweep \/ Closes \/ UNCHANGED udpVars
    BY <1>2, Zenon DEF Tick, Sweep, Closes, CloseConn, SweeperStops, ShutdownFlushes, ProcessExits,
       udpVars, srvVars, InHand
  <1>3. CASE LookupPaused \/ LookupAnswered \/ LookupFails
    BY <1>3 DEF LookupPaused, LookupAnswered, LookupFails, Resolving, Goes, InHand, Handled
  <1>4. CASE RecordsDatagram \/ (\E pc \in Handled : Panics(pc)) \/ EndsQUIC
    BY <1>4 DEF RecordsDatagram, Panics, EndsQUIC, Reads, InHand, Handled
  <1>5. CASE StartsQUIC \/ ServeReturns
    BY <1>5 DEF StartsQUIC, ServeReturns, Busy, Handling, Goes, InHand, Handled
  <1>6. CASE Skips \/ AddsPacket
    <2>1. at' = at + 1 /\ serve' = serve /\ hand' = hand
      BY <1>6 DEF Skips, AddsPacket
    <2> QED BY <2>1 DEF InHand, Handled
  <1>7. CASE CompletesAttempt
    <2>1. /\ at' = at + 1 /\ serve' = "record"
          /\ hand' = With(dgram.key, Packet.crypto, FirstInDatagram).datagrams
      BY <1>7 DEF CompletesAttempt
    <2>2. With(dgram.key, Packet.crypto, FirstInDatagram).datagrams \in Nat
      BY WithFields
    <2>3. at \in Nat
      BY DEF InHand
    <2> HIDE DEF With
    <2> QED BY <2>1, <2>2, <2>3 DEF InHand, Handled
  <1>8. CASE RecordsAttempt
    BY <1>8 DEF RecordsAttempt, Busy, Handling, InHand, Handled
  <1> QED BY <1>1, <1>2, <1>3, <1>4, <1>5, <1>6, <1>7, <1>8, Zenon DEF Next, Handles

\* After the flush only the datagram in hand begins an attempt.
LEMMA AfterFlushSteps ==
    ASSUME TablesInv, InHand, Ended, AfterFlush, [Next]_udpVars
    PROVE  AfterFlush'
  <1>m. main \in {"returned", "exited"} /\ ~sweeper
    BY DEF Ended, AfterFlush
  <1>d. \A x \in DOMAIN pending : pending[x].datagrams <= 1 /\ pending[x].datagrams \in Nat
    BY DEF AfterFlush, TablesInv
  <1>t. at \in Nat
    BY DEF InHand
  \* None of these happens any more.
  <1>1. /\ ~\E d \in Datagrams : ReadsEmpty(d) \/ Ignored(d) \/ SourceLimited(d) \/ Limited(d) \/ Admitted(d)
        /\ ~Sweep /\ ~CloseConn /\ ~SweeperStops /\ ~ShutdownFlushes
    BY <1>m DEF ReadsEmpty, Ignored, SourceLimited, Limited, Admitted, Receives, Arrival, Sweep, CloseConn, SweeperStops,
       ShutdownFlushes
  <1>2. CASE ProcessExits \/ UNCHANGED udpVars
    <2>1. UNCHANGED <<sweeper, serve, dgram, at, pending>>
      BY <1>2, Zenon DEF ProcessExits, udpVars, srvVars, asmVars
    <2> QED BY <2>1 DEF AfterFlush
  <1>3. CASE Tick
    <2>1. /\ DOMAIN pending' = DOMAIN pending
          /\ \A k \in DOMAIN pending : pending'[k].datagrams = pending[k].datagrams
      BY <1>3, TickDomains DEF Tick
    <2>2. UNCHANGED <<sweeper, serve, dgram, at>>
      BY <1>3 DEF Tick, srvVars
    <2> QED BY <2>1, <2>2 DEF AfterFlush
  <1>4. CASE LookupPaused \/ LookupAnswered \/ LookupFails \/ StartsQUIC
    <2>1. /\ UNCHANGED <<sweeper, pending, dgram, at>> /\ serve \in {"resolve", "classify"}
          /\ serve' \in {"classify", "packet"}
      BY <1>4 DEF LookupPaused, LookupAnswered, LookupFails, StartsQUIC, Resolving, Busy, Handling, Goes,
         asmVars
    <2> QED BY <2>1 DEF AfterFlush
  <1>5. CASE RecordsDatagram \/ (\E pc \in Handled : Panics(pc)) \/ EndsQUIC \/ ServeReturns
    <2>1. UNCHANGED <<sweeper, pending>> /\ serve' \in {"read", "returned"}
      BY <1>5 DEF RecordsDatagram, Panics, EndsQUIC, ServeReturns, Reads, Goes, Busy, Handling, asmVars
    <2> QED BY <2>1 DEF AfterFlush
  <1>6. CASE Skips
    <2>1. /\ UNCHANGED <<sweeper, pending, serve, dgram>> /\ serve = "packet" /\ at' = at + 1
      BY <1>6 DEF Skips, Busy, Handling, asmVars
    <2>2. at >= 1
      BY <2>1 DEF InHand, Handled
    <2>3. at' # 1
      BY <1>t, <2>1, <2>2
    <2> QED BY <2>1, <2>3 DEF AfterFlush
  <1>7. CASE AddsPacket
    <2> DEFINE k == dgram.key
    <2>1. UNCHANGED <<sweeper, serve, dgram>> /\ serve = "packet" /\ at' = at + 1
      BY <1>7 DEF AddsPacket, Busy, Handling
    <2>2. at >= 1
      BY <2>1 DEF InHand, Handled
    <2>3. at' # 1
      BY <1>t, <2>1, <2>2
    <2>4. DOMAIN pending \subseteq {k} /\ (at = 1 => DOMAIN pending = {})
      BY <2>1 DEF AfterFlush
    <2>5. CASE pending' = pending
      BY <2>1, <2>3, <2>5 DEF AfterFlush
    <2>6. CASE Gathers(k, Packet.crypto, FirstInDatagram)
      <3>0. /\ DOMAIN pending' = DOMAIN pending \cup {k}
            /\ pending'[k] = With(k, Packet.crypto, FirstInDatagram)
        <4> HIDE DEF k
        <4>1. PICK c, f : c = Packet.crypto /\ f = FirstInDatagram
          OBVIOUS
        <4>2. Gathers(k, c, f)
          BY <2>6, <4>1, Zenon
        <4>3. DOMAIN pending' = DOMAIN pending \cup {k} /\ pending'[k] = With(k, c, f)
          BY <4>2, GathersDomains, Zenon
        <4> QED BY <4>1, <4>3, Zenon
      <3>1. PICK a : a = With(k, Packet.crypto, FirstInDatagram)
        OBVIOUS
      <3>2. DOMAIN pending' = DOMAIN pending \cup {k} /\ pending'[k] = a
        BY <3>0, <3>1, Zenon
      <3>3. DOMAIN pending' = {k}
        BY <2>4, <3>2
      <3>4. a.datagrams = (IF k \in DOMAIN pending THEN pending[k].datagrams ELSE 0)
                            + (IF FirstInDatagram THEN 1 ELSE 0)
        BY <3>1, WithFields
      <3>5. a.datagrams <= 1
        <4>1. CASE at = 1
          <5>1. k \notin DOMAIN pending
            BY <2>4, <4>1
          <5> QED BY <3>4, <4>1, <5>1 DEF FirstInDatagram
        <4>2. CASE at # 1
          BY <1>d, <3>4, <4>2 DEF FirstInDatagram
        <4> QED BY <4>1, <4>2
      <3>6. \A x \in DOMAIN pending' : pending'[x].datagrams <= 1
        BY <3>2, <3>3, <3>5
      <3>7. sweeper' = sweeper /\ serve' = "packet" /\ dgram'.key = k
        BY <2>1
      <3> HIDE DEF k
      <3> QED BY <1>m, <2>3, <3>3, <3>6, <3>7 DEF AfterFlush
    <2>7. pending' = pending \/ Gathers(k, Packet.crypto, FirstInDatagram)
      BY <1>7, Zenon DEF AddsPacket, Folded, Refused
    <2> QED BY <2>5, <2>6, <2>7
  <1>8. CASE CompletesAttempt
    <2> DEFINE k == dgram.key
    <2>1. serve = "packet" /\ serve' = "record" /\ sweeper' = sweeper
      BY <1>8 DEF CompletesAttempt, Busy, Handling
    <2>2. DOMAIN pending \subseteq {k}
      BY <2>1 DEF AfterFlush
    <2>3. DOMAIN pending' = DOMAIN pending \ {k}
      BY <1>8, CompletesDomains DEF CompletesAttempt
    <2>4. DOMAIN pending' = {}
      BY <2>2, <2>3
    <2> QED BY <1>m, <2>1, <2>4 DEF AfterFlush
  <1>9. CASE RecordsAttempt
    <2>1. UNCHANGED <<sweeper, pending, dgram, at>> /\ serve = "record" /\ serve' = "packet"
      BY <1>9 DEF RecordsAttempt, Busy, Handling, asmVars
    <2> QED BY <2>1 DEF AfterFlush
  <1> QED BY <1>1, <1>2, <1>3, <1>4, <1>5, <1>6, <1>7, <1>8, <1>9, Zenon DEF Next, Handles, Closes

\* However the end of the process falls into the handling of a datagram, it takes at
\* most one attempt with it, in hand or pending (server.go:229-247).
THEOREM AtMostOneAttemptLost == Spec => []AtMostOneLost
  <1>1. Init => TablesInv /\ FlushInv
    BY TablesInit DEF Init, FlushInv, Handled
  <1>2. TablesInv /\ FlushInv /\ [Next]_udpVars => (TablesInv /\ FlushInv)'
    <2> SUFFICES ASSUME TablesInv, FlushInv, [Next]_udpVars PROVE (TablesInv /\ FlushInv)'
      OBVIOUS
    <2>1. TablesInv'
      BY TablesSteps
    <2>2. InHand /\ (Ended => AfterFlush)
      BY FlushParts
    <2>3. InHand'
      BY <2>2, InHandSteps
    <2>4. ASSUME Ended' PROVE AfterFlush'
      <3>1. CASE Ended
        BY <2>2, <3>1, AfterFlushSteps
      <3>2. CASE ~Ended
        <4>1. ShutdownFlushes
          BY <2>4, <3>2, MainSteps DEF Ended, CloseConn, ProcessExits
        <4>2. ExpireOf(DOMAIN pending, DOMAIN completed) /\ ~sweeper'
          BY <4>1 DEF ShutdownFlushes, Flush
        <4>3. DOMAIN pending' = {}
          BY <4>2, ExpireDomains
        <4> QED BY <4>2, <4>3 DEF AfterFlush
      <3> QED BY <3>1, <3>2
    <2>5. FlushInv'
      BY <2>3, <2>4, Zenon DEF FlushInv, InHand, Ended, AfterFlush
    <2> QED BY <2>1, <2>5
  <1>3. TablesInv /\ FlushInv => AtMostOneLost
    <2> SUFFICES ASSUME TablesInv, FlushInv, Ended
                 PROVE  /\ Cardinality(DOMAIN pending) + (IF hand > 0 THEN 1 ELSE 0) <= 1
                        /\ \A k \in DOMAIN pending : pending[k].datagrams <= 1
      BY DEF AtMostOneLost, Ended
    <2>1. InHand /\ AfterFlush
      BY FlushParts
    <2>2. CASE DOMAIN pending = {}
      <3>1. Cardinality(DOMAIN pending) = 0
        BY <2>2, FS_EmptySet
      <3> QED BY <2>1, <3>1 DEF AfterFlush
    <2>3. ASSUME NEW k \in DOMAIN pending, DOMAIN pending = {k}
          PROVE  Cardinality(DOMAIN pending) + (IF hand > 0 THEN 1 ELSE 0) <= 1
      <3>1. Cardinality(DOMAIN pending) = 1
        BY <2>3, FS_Singleton
      <3>2. ~(hand > 0)
        BY <2>1, <2>3 DEF InHand, AfterFlush
      <3> QED BY <3>1, <3>2
    <2> QED BY <2>1, <2>2, <2>3 DEF AfterFlush
  <1> QED BY <1>1, <1>2, <1>3, PTL DEF Spec

----------------------------------------------------------------------------
(* Every datagram leaves its trace. *)

\* There are five counters.
LEMMA CountersFinite == IsFiniteSet(Counters)
  <1>1. IsFiniteSet({"dropped"})
    BY FS_Singleton, Zenon
  <1>2. IsFiniteSet({"dropped"} \cup {"sourceLimited"})
    BY <1>1, FS_AddElement, Zenon
  <1>3. IsFiniteSet(({"dropped"} \cup {"sourceLimited"}) \cup {"limited"})
    BY <1>2, FS_AddElement, Zenon
  <1>4. IsFiniteSet((({"dropped"} \cup {"sourceLimited"}) \cup {"limited"}) \cup {"panics"})
    BY <1>3, FS_AddElement, Zenon
  <1>5. IsFiniteSet(((({"dropped"} \cup {"sourceLimited"}) \cup {"limited"}) \cup {"panics"}) \cup {"recorded"})
    BY <1>4, FS_AddElement, Zenon
  <1>6. Counters = ((({"dropped"} \cup {"sourceLimited"}) \cup {"limited"}) \cup {"panics"}) \cup {"recorded"}
    BY DEF Counters
  <1> QED BY <1>5, <1>6

\* Counting adds to the sum of the counters.
LEMMA CountAdds ==
    ASSUME counts \in [Counters -> Nat], NEW c \in Counters, NEW n \in Nat, Count(c, n)
    PROVE  /\ counts' \in [Counters -> Nat] /\ SumFunction(counts) \in Nat
           /\ SumFunction(counts') = SumFunction(counts) + n
  <1>1. IsFiniteSet(Counters)
    BY CountersFinite
  <1> HIDE DEF Counters
  <1>2. /\ counts' \in [Counters -> Nat] /\ counts'[c] = counts[c] + n
        /\ \A x \in Counters \ {c} : counts'[x] = counts[x]
    BY DEF Count
  <1>3. /\ SumFunctionOnSet(counts, Counters \ {c}) \in Nat
        /\ SumFunctionOnSet(counts, Counters) = (IF c \in Counters THEN counts[c] ELSE 0) + SumFunctionOnSet(counts, Counters \ {c})
        /\ SumFunctionOnSet(counts', Counters \cup {c}) = counts'[c] + SumFunctionOnSet(counts, Counters \ {c})
    <2>1. (\A x \in Counters : counts[x] \in Nat) /\ counts'[c] \in Nat
      BY <1>2
    <2> QED BY <1>1, <1>2, <2>1, SumPut, SumSplit
  <1>4. Counters \cup {c} = Counters /\ DOMAIN counts = Counters /\ DOMAIN counts' = Counters
    BY <1>2
  <1>5. /\ SumFunction(counts) = SumFunctionOnSet(counts, Counters)
        /\ SumFunction(counts') = SumFunctionOnSet(counts', Counters \cup {c})
    BY <1>4 DEF SumFunction
  <1>6. counts[c] \in Nat
    OBVIOUS
  <1> QED BY <1>2, <1>3, <1>5, <1>6

\* What the pending attempts count.
Waiting == Counted(DOMAIN pending)

\* What pending attempts count is a number.
LEMMA WaitingNat ==
    ASSUME TablesInv, NEW S \in SUBSET DOMAIN pending
    PROVE  Counted(S) \in Nat
  <1> DEFINE f == [k \in DOMAIN pending |-> pending[k].datagrams]
  <1>1. IsFiniteSet(S) /\ \A k \in S : f[k] \in Nat
    BY FS_Subset DEF TablesInv
  <1> HIDE DEF f
  <1>2. SumFunctionOnSet(f, S) \in Nat
    BY <1>1, SumNat
  <1> QED BY <1>2 DEF Counted, f

\* The same after a step.
LEMMA WaitingLater ==
    ASSUME TablesInv'
    PROVE  Counted(DOMAIN pending)' \in Nat
  <1> DEFINE f == [k \in DOMAIN pending' |-> pending'[k].datagrams]
  <1>1. IsFiniteSet(DOMAIN pending') /\ \A k \in DOMAIN pending' : f[k] \in Nat
    BY DEF TablesInv
  <1> HIDE DEF f
  <1>2. SumFunctionOnSet(f, DOMAIN pending') \in Nat
    BY <1>1, SumNat
  <1> QED BY <1>2 DEF Counted, f

\* Add of a packet: the datagram is counted at its first.
LEMMA WaitingAdd ==
    ASSUME TablesInv, NEW k, NEW crypto, NEW first
    PROVE  /\ Gathers(k, crypto, first) => Waiting' = Waiting + (IF first THEN 1 ELSE 0)
           /\ Completes(k, crypto, first) =>
                Waiting' + With(k, crypto, first).datagrams = Waiting + (IF first THEN 1 ELSE 0)
  <1> DEFINE f == [x \in DOMAIN pending |-> pending[x].datagrams]
             g == [x \in DOMAIN pending' |-> pending'[x].datagrams]
             D == DOMAIN pending
             one == IF first THEN 1 ELSE 0
             w == With(k, crypto, first)
             n == w.datagrams
  <1>1. IsFiniteSet(D) /\ \A x \in D : f[x] \in Nat
    BY DEF TablesInv
  <1>2. n \in Nat /\ n = (IF k \in D THEN f[k] ELSE 0) + one /\ one \in Nat
    BY WithFields
  <1>3. Waiting = SumFunctionOnSet(f, D)
    BY DEF Waiting, Counted
  <1>4. Waiting' = SumFunctionOnSet(g, DOMAIN pending')
    BY DEF Waiting, Counted
  <1>5. ASSUME Gathers(k, crypto, first) PROVE Waiting' = Waiting + one
    <2>1. /\ DOMAIN pending' = D \cup {k} /\ pending'[k] = w
          /\ \A x \in D : x # k => pending'[x] = pending[x]
      BY <1>5, GathersDomains, Zenon
    <2>2. g[k] = n /\ \A x \in D \ {k} : g[x] = f[x]
      <3> HIDE DEF w
      <3> QED BY <2>1
    <2> HIDE DEF f, g, D, n, one, w
    <2>3. /\ SumFunctionOnSet(f, D \ {k}) \in Nat
          /\ SumFunctionOnSet(f, D) = (IF k \in D THEN f[k] ELSE 0) + SumFunctionOnSet(f, D \ {k})
      BY <1>1, SumSplit
    <2>4. SumFunctionOnSet(g, D \cup {k}) = g[k] + SumFunctionOnSet(f, D \ {k})
      <3>1. g[k] \in Nat /\ (\A x \in D : f[x] \in Nat) /\ \A x \in D \ {k} : g[x] = f[x]
        BY <1>1, <1>2, <2>2
      <3> QED BY <1>1, <3>1, SumPut, Zenon
    <2> QED BY <1>1, <1>2, <1>3, <1>4, <2>1, <2>2, <2>3, <2>4
  <1>6. ASSUME Completes(k, crypto, first) PROVE Waiting' + n = Waiting + one
    <2>1. /\ DOMAIN pending' = D \ {k}
          /\ \A x \in D \ {k} : pending'[x] = pending[x]
      BY <1>6, CompletesDomains, Zenon
    <2>2. \A x \in D \ {k} : f[x] \in Nat /\ f[x] = g[x]
      BY <1>1, <2>1
    <2>f. IsFiniteSet(D \ {k})
      BY <1>1, FS_Subset
    <2> HIDE DEF f, g, D, n, one, w
    <2>4. /\ SumFunctionOnSet(f, D \ {k}) \in Nat
          /\ SumFunctionOnSet(f, D) = (IF k \in D THEN f[k] ELSE 0) + SumFunctionOnSet(f, D \ {k})
      BY <1>1, SumSplit
    <2>5. SumFunctionOnSet(g, D \ {k}) = SumFunctionOnSet(f, D \ {k})
      BY <2>2, <2>f, SumSame
    <2> QED BY <1>1, <1>2, <1>3, <1>4, <2>1, <2>4, <2>5
  <1> QED BY <1>5, <1>6

\* Expire and Flush take out what they return.
LEMMA WaitingExpire ==
    ASSUME TablesInv, NEW late \in SUBSET DOMAIN pending, NEW old \in SUBSET DOMAIN completed,
           ExpireOf(late, old)
    PROVE  Waiting' + Counted(late) = Waiting
  <1> DEFINE f == [x \in DOMAIN pending |-> pending[x].datagrams]
             g == [x \in DOMAIN pending' |-> pending'[x].datagrams]
             D == DOMAIN pending
             R == D \ late
  <1>1. IsFiniteSet(D) /\ \A x \in D : f[x] \in Nat
    BY DEF TablesInv
  <1>2. DOMAIN pending' = R /\ \A x \in R : pending'[x] = pending[x]
    BY ExpireDomains
  <1>3. \A x \in R : f[x] \in Nat /\ f[x] = g[x]
    BY <1>1, <1>2
  <1>4. Waiting = SumFunctionOnSet(f, D) /\ Counted(late) = SumFunctionOnSet(f, late)
    BY DEF Waiting, Counted
  <1>5. Waiting' = SumFunctionOnSet(g, R)
    BY <1>2 DEF Waiting, Counted
  <1>6. IsFiniteSet(R) /\ IsFiniteSet(late)
    BY <1>1, FS_Subset
  <1>7. R \cup late = D /\ R \cap late = {} /\ \A x \in R \cup late : f[x] \in Int
    BY <1>1
  <1>8. \A x \in late : f[x] \in Nat
    BY <1>1
  <1> HIDE DEF f, g, R, D
  <1>9. SumFunctionOnSet(f, R) = SumFunctionOnSet(g, R)
    BY <1>3, <1>6, SumSame
  <1>10. SumFunctionOnSet(f, R \cup late) = SumFunctionOnSet(f, R) + SumFunctionOnSet(f, late)
    BY <1>6, <1>7, SumDisjoint
  <1> QED BY <1>4, <1>5, <1>7, <1>9, <1>10

\* Time and everything else leave it.
LEMMA WaitingStays ==
    ASSUME TablesInv, AsmTick \/ UNCHANGED pending
    PROVE  Waiting' = Waiting
  <1>1. CASE UNCHANGED pending
    BY <1>1 DEF Waiting, Counted
  <1>2. CASE AsmTick
    <2>1. /\ DOMAIN pending' = DOMAIN pending
          /\ \A k \in DOMAIN pending : pending'[k].datagrams = pending[k].datagrams
      BY <1>2, TickDomains
    <2>2. [x \in DOMAIN pending' |-> pending'[x].datagrams] = [x \in DOMAIN pending |-> pending[x].datagrams]
      BY <2>1
    <2> QED BY <2>1, <2>2 DEF Waiting, Counted
  <1> QED BY <1>1, <1>2

\* AccountShape in every state.
LEMMA ShapeSteps ==
    ASSUME AccountShape, InHand, TablesInv, [Next]_udpVars
    PROVE  AccountShape'
  <1>0. /\ counts \in [Counters -> Nat] /\ reads \in Nat /\ retransmits \in Nat /\ overflow \in Nat
        /\ hand \in Nat /\ at \in Nat /\ silent \in [empty : Nat, unmarked : Nat, unlogged : Nat]
    BY DEF AccountShape, InHand
  <1>c. ASSUME NEW c \in Counters, NEW n \in Nat, Count(c, n) PROVE counts' \in [Counters -> Nat]
    BY <1>0, <1>c, CountAdds
  <1>1. CASE \E d \in Datagrams : ReadsEmpty(d) \/ Ignored(d) \/ SourceLimited(d) \/ Limited(d) \/ Admitted(d)
    <2>1. PICK d \in Datagrams : ReadsEmpty(d) \/ Ignored(d) \/ SourceLimited(d) \/ Limited(d) \/ Admitted(d)
      BY <1>1
    <2>2. Arrival
      BY <2>1, Zenon DEF ReadsEmpty, Receives, Ignored, SourceLimited, Limited, Admitted
    <2>5. reads' \in Nat /\ retransmits' \in Nat /\ overflow' \in Nat
      BY <1>0, <2>2 DEF Arrival, asmVars
    <2>6. CASE ReadsEmpty(d)
      <3>1. UNCHANGED <<serve, dgram, at, decrypted, counts>> /\ silent' \in [empty : Nat, unmarked : Nat, unlogged : Nat]
        BY <1>0, <2>6 DEF ReadsEmpty, srvVars
      <3> QED BY <2>5, <3>1 DEF AccountShape
    <2>3. CASE Admitted(d)
      <3>1. /\ serve' \in {"resolve", "classify"} /\ dgram' = d /\ at' = 1 /\ decrypted' = FALSE
            /\ counts' = counts /\ silent' = silent
        BY <2>3 DEF Admitted, Receives
      <3>2. CASE serve' = "resolve"
        BY <1>0, <2>5, <3>1, <3>2 DEF AccountShape
      <3>3. CASE serve' = "classify"
        BY <1>0, <2>5, <3>1, <3>3 DEF AccountShape
      <3> QED BY <3>1, <3>2, <3>3
    <2>4. CASE ~Admitted(d) /\ ~ReadsEmpty(d)
      <3>1. \E c \in Counters : Count(c, 1)
        BY <2>1, <2>4 DEF Ignored, SourceLimited, Limited, Counters
      <3>2. Reads /\ silent' = silent
        BY <2>1, <2>4, Zenon DEF Ignored, SourceLimited, Limited, Receives
      <3>3. counts' \in [Counters -> Nat]
        BY <3>1, <1>c
      <3>4. serve' = "read" /\ decrypted' = FALSE /\ at' = 0
        BY <3>2 DEF Reads
      <3> QED BY <1>0, <2>5, <3>2, <3>3, <3>4 DEF AccountShape
    <2> QED BY <2>3, <2>4, <2>6
  <1>2. CASE LookupPaused \/ LookupAnswered \/ LookupFails
    BY <1>2 DEF LookupPaused, LookupAnswered, LookupFails, Resolving, Goes, AccountShape, asmVars
  <1>3. CASE RecordsDatagram \/ EndsQUIC \/ \E pc \in Handled : Panics(pc)
    <2>1. Reads /\ UNCHANGED asmVars /\ reads' = reads
      BY <1>3, Zenon DEF RecordsDatagram, Panics, EndsQUIC, Busy, Handling
    <2>2. \E c \in Counters : \E n \in Nat : Count(c, n)
      BY <1>3 DEF RecordsDatagram, Panics, EndsQUIC, Counters
    <2>3. counts' \in [Counters -> Nat]
      BY <2>2, <1>c
    <2>4. silent' = silent \/ silent' = [silent EXCEPT !.unlogged = @ + hand]
      BY <1>3, Zenon DEF RecordsDatagram, Panics, EndsQUIC, Handling
    <2>5. silent' \in [empty : Nat, unmarked : Nat, unlogged : Nat]
      BY <1>0, <2>4
    <2> QED BY <1>0, <2>1, <2>3, <2>5 DEF Reads, AccountShape, asmVars
  <1>4. CASE StartsQUIC \/ ServeReturns
    BY <1>4 DEF StartsQUIC, ServeReturns, Busy, Handling, Goes, AccountShape, asmVars
  <1>5. CASE Skips
    <2>1. /\ serve = "packet" /\ serve' = "packet" /\ at' = at + 1
          /\ UNCHANGED <<reads, counts, silent, retransmits, overflow, decrypted, dgram>>
      BY <1>5 DEF Skips, Busy, Handling, asmVars
    <2>2. at >= 1
      BY <2>1 DEF InHand, Handled
    <2> QED BY <1>0, <2>1, <2>2 DEF AccountShape
  <1>6. CASE AddsPacket \/ CompletesAttempt
    <2>1. /\ serve = "packet" /\ serve' \in {"packet", "record"} /\ at' = at + 1 /\ decrypted' = TRUE
          /\ UNCHANGED <<reads, counts, dgram>>
      BY <1>6 DEF AddsPacket, CompletesAttempt, Busy
    <2>2. retransmits' \in Nat /\ overflow' \in Nat
      BY <1>0, <1>6 DEF AddsPacket, CompletesAttempt, Folded, Refused, Gathers, Completes
    <2>3. at >= 1
      BY <2>1 DEF InHand, Handled
    <2>4. Marks
      BY <1>6, Zenon DEF AddsPacket, CompletesAttempt
    <2>5. silent' \in [empty : Nat, unmarked : Nat, unlogged : Nat]
      BY <1>0, <2>4 DEF Marks
    <2> QED BY <1>0, <2>1, <2>2, <2>3, <2>5 DEF AccountShape
  <1>7. CASE RecordsAttempt
    <2>1. /\ serve = "record" /\ serve' = "packet"
          /\ UNCHANGED <<reads, silent, retransmits, overflow, decrypted, dgram, at>>
      BY <1>7 DEF RecordsAttempt, Busy, Handling, asmVars
    <2>2. counts' \in [Counters -> Nat]
      BY <1>0, <1>7, <1>c DEF RecordsAttempt, Counters
    <2> QED BY <1>0, <2>1, <2>2 DEF AccountShape
  <1>8. CASE Sweep \/ ShutdownFlushes
    <2>1. UNCHANGED <<reads, silent, serve, decrypted, dgram, at, retransmits, overflow>>
      BY <1>8 DEF Sweep, ShutdownFlushes, srvVars, Expire, Flush, ExpireOf
    <2>2. \E n \in Nat : Count("recorded", n)
      <3>1. Late \in SUBSET DOMAIN pending /\ DOMAIN pending \in SUBSET DOMAIN pending
        BY DEF Late
      <3>2. Counted(Late) \in Nat /\ Counted(DOMAIN pending) \in Nat
        BY <3>1, WaitingNat
      <3> QED BY <1>8, <3>2, Zenon DEF Sweep, ShutdownFlushes
    <2>3. counts' \in [Counters -> Nat]
      BY <2>2, <1>c DEF Counters
    <2> QED BY <2>1, <2>3 DEF AccountShape
  <1>9. CASE CloseConn \/ SweeperStops \/ ProcessExits \/ Tick \/ UNCHANGED udpVars
    <2>1. UNCHANGED <<counts, reads, silent, serve, decrypted, dgram, at, retransmits, overflow>>
      BY <1>9, Zenon DEF CloseConn, SweeperStops, ProcessExits, Tick, udpVars, srvVars, asmVars, AsmTick
    <2> QED BY <2>1 DEF AccountShape
  <1> QED BY <1>1, <1>2, <1>3, <1>4, <1>5, <1>6, <1>7, <1>8, <1>9, Zenon DEF Next, Handles, Closes

\* The parts of Traces are numbers.
LEMMA TracesNat ==
    ASSUME AccountShape, InHand, TablesInv
    PROVE  /\ SumFunction(counts) \in Nat /\ Waiting \in Nat /\ Underway \in {0, 1}
           /\ Traces = SumFunction(counts) + retransmits + overflow + Waiting + hand
           /\ Traces \in Nat /\ Traced \in Int
           /\ counts["panics"] \in Nat /\ silent.empty \in Nat /\ silent.unmarked \in Nat /\ silent.unlogged \in Nat
  <1>1. /\ counts \in [Counters -> Nat] /\ retransmits \in Nat /\ overflow \in Nat /\ reads \in Nat /\ hand \in Nat
        /\ silent.empty \in Nat /\ silent.unmarked \in Nat /\ silent.unlogged \in Nat
    BY DEF AccountShape, InHand
  <1>2. SumFunction(counts) \in Nat
    <2>2. IsFiniteSet(Counters)
      BY CountersFinite
    <2>3. DOMAIN counts = Counters /\ \A c \in Counters : counts[c] \in Nat
      BY <1>1
    <2> QED BY <2>2, <2>3, SumNat DEF SumFunction
  <1>3. Waiting \in Nat
    BY WaitingNat DEF Waiting
  <1>4. Underway \in {0, 1}
    BY DEF Underway
  <1>5. Traces = SumFunction(counts) + retransmits + overflow + Waiting + hand
    BY DEF Traces, Waiting
  <1>6. counts["panics"] \in Nat
    BY <1>1 DEF Counters
  <1> QED BY <1>1, <1>2, <1>3, <1>4, <1>5, <1>6 DEF Traced

\* The two bounds of AccountInv.
TraceKept ==
    /\ Traces - overflow - counts["panics"] <= Traced
    /\ Traced <= Traces + silent.unmarked + silent.unlogged

\* Every datagram leaves its trace as it is done with, or is one of those named in
\* silent, and only refusals and panics count one twice.
LEMMA TraceSteps ==
    ASSUME AccountInv, InHand, TablesInv, [Next]_udpVars
    PROVE  TraceKept'
  <1> DEFINE S == SumFunction(counts)
             P == counts["panics"]
             M == silent.unmarked + silent.unlogged
             E == silent.empty
  <1>s. AccountShape /\ TraceKept
    BY DEF AccountInv, TraceKept
  <1>0. /\ counts \in [Counters -> Nat] /\ reads \in Nat /\ retransmits \in Nat /\ overflow \in Nat
        /\ hand \in Nat /\ at \in Nat /\ decrypted \in BOOLEAN
        /\ S \in Nat /\ Waiting \in Nat /\ P \in Nat /\ M \in Nat /\ E \in Nat
        /\ Traces = S + retransmits + overflow + Waiting + hand
    BY <1>s, TracesNat DEF AccountShape, InHand
  <1>p. Traces' = S' + retransmits' + overflow' + Waiting' + hand'
    BY DEF Traces, Waiting
  <1>h. serve # "record" => hand = 0
    BY <1>0 DEF InHand
  <1>c. ASSUME NEW c \in Counters, NEW n \in Nat, Count(c, n)
        PROVE  S' = S + n /\ P' = IF c = "panics" THEN P + n ELSE P
    <2>1. S' = S + n
      BY <1>0, <1>c, CountAdds
    <2>2. P' = IF c = "panics" THEN P + n ELSE P
      BY <1>0, <1>c DEF Count, Counters
    <2> QED BY <2>1, <2>2
  <1>e. counts' = counts => S' = S /\ P' = P
    OBVIOUS
  <1>m. silent' = silent => M' = M /\ E' = E
    OBVIOUS
  <1>t. Traced = reads - E - Underway + (IF serve \in {"packet", "record"} /\ decrypted THEN 1 ELSE 0)
    BY DEF Traced
  <1>T. Traced' = reads' - E' - Underway' + (IF serve' \in {"packet", "record"} /\ decrypted' THEN 1 ELSE 0)
    BY DEF Traced
  <1>u. Underway = IF serve \in {"resolve", "classify", "packet", "record"} THEN 1 ELSE 0
    BY DEF Underway, Handled
  <1>U. Underway' = IF serve' \in {"resolve", "classify", "packet", "record"} THEN 1 ELSE 0
    BY DEF Underway, Handled
  <1>k. /\ TraceKept <=> Traces - overflow - P <= Traced /\ Traced <= Traces + silent.unmarked + silent.unlogged
        /\ TraceKept' <=> Traces' - overflow' - P' <= Traced' /\ Traced' <= Traces' + silent'.unmarked + silent'.unlogged
    BY DEF TraceKept
  <1>n. silent.unmarked \in Nat /\ silent.unlogged \in Nat /\ M = silent.unmarked + silent.unlogged
    BY <1>s, TracesNat
  <1>N. silent'.unmarked \in Nat /\ silent'.unlogged \in Nat /\ M' = silent'.unmarked + silent'.unlogged
    BY <1>s, ShapeSteps DEF AccountShape
  <1>i. Traces \in Int /\ Traced \in Int
    BY <1>s, TracesNat
  <1> HIDE DEF S, P, M, E
  \* What a step adds to the traces, to those that may count a datagram again, to those
  \* traced and to those without trace.
  <1>step. ASSUME NEW a \in Int, Traces' = Traces + a, NEW o \in Int, overflow' + P' = overflow + P + o,
                  overflow' \in Int, P' \in Int,
                  NEW b \in Int, Traced' = Traced + b, NEW m \in Int, M' = M + m,
                  a - o <= b, b <= a + m
           PROVE  TraceKept'
    <2>1. Traces - (overflow + P) <= Traced /\ Traced <= Traces + M
      BY <1>s, <1>0, <1>k, <1>n, <1>i
    <2>2. Traces' - (overflow' + P') <= Traced' /\ Traced' <= Traces' + M'
      <3>1. ASSUME NEW x \in Int, NEW y \in Int, NEW r \in Int, NEW z \in Int, x - r <= y, y <= x + z
            PROVE  (x + a) - (r + o) <= y + b /\ y + b <= (x + a) + (z + m)
        BY <1>step, <3>1
      <3>2. overflow + P \in Int /\ M \in Int
        BY <1>0
      <3>3. (Traces + a) - (overflow + P + o) <= Traced + b /\ Traced + b <= (Traces + a) + (M + m)
        BY <1>i, <2>1, <3>1, <3>2
      <3> QED BY <1>step, <3>3
    <2>3. Traces' \in Int /\ Traced' \in Int
      BY <1>i, <1>step
    <2> QED BY <1>k, <1>N, <1>step, <2>2, <2>3
  \* A step that changes neither side.
  <1>still. ASSUME Traces' = Traces, Traced' = Traced, overflow' = overflow, P' = P, M' = M
            PROVE  TraceKept'
    <2>1. /\ Traces' = Traces + 0 /\ Traced' = Traced + 0 /\ overflow' + P' = overflow + P + 0 /\ M' = M + 0
          /\ overflow' \in Int /\ P' \in Int
      BY <1>0, <1>i, <1>still
    <2> QED BY <2>1, <1>step
  <1>1. CASE \E d \in Datagrams : ReadsEmpty(d) \/ Ignored(d) \/ SourceLimited(d) \/ Limited(d) \/ Admitted(d)
    <2>1. PICK d \in Datagrams : ReadsEmpty(d) \/ Ignored(d) \/ SourceLimited(d) \/ Limited(d) \/ Admitted(d)
      BY <1>1
    <2>2. Arrival
      BY <2>1, Zenon DEF ReadsEmpty, Receives, Ignored, SourceLimited, Limited, Admitted
    <2>3. reads' = reads + 1 /\ retransmits' = retransmits /\ overflow' = overflow /\ pending' = pending /\ serve = "read"
      BY <2>2 DEF Arrival, asmVars
    <2>4. Waiting' = Waiting
      BY <2>3, WaitingStays
    <2>5. Traced = reads - E /\ hand = 0
      BY <1>0, <1>t, <1>u, <1>h, <2>3
    <2>8. CASE ReadsEmpty(d)
      <3>1. UNCHANGED <<serve, decrypted, hand, counts>> /\ silent' = [silent EXCEPT !.empty = @ + 1]
        BY <2>8 DEF ReadsEmpty, srvVars
      <3>2. E' = E + 1 /\ M' = M
        BY <1>s, <3>1 DEF E, M, AccountShape
      <3>3. Traced' = Traced
        BY <1>0, <1>T, <1>U, <2>3, <2>5, <3>1, <3>2
      <3>4. Traces' = Traces
        BY <1>0, <1>p, <1>e, <2>3, <2>4, <3>1
      <3> QED BY <1>e, <1>still, <2>3, <3>1, <3>2, <3>3, <3>4
    <2>6. CASE Admitted(d)
      <3>1. /\ serve' \in {"resolve", "classify"} /\ decrypted' = FALSE /\ counts' = counts /\ hand' = 0
            /\ silent' = silent
        BY <2>6 DEF Admitted, Receives
      <3>2. Underway' = 1 /\ Traced' = Traced
        BY <1>0, <1>m, <1>T, <1>U, <2>3, <2>5, <3>1
      <3>3. Traces' = Traces
        BY <1>0, <1>p, <1>e, <2>3, <2>4, <2>5, <3>1
      <3> QED BY <1>e, <1>m, <1>still, <2>3, <3>1, <3>2, <3>3
    <2>7. CASE ~Admitted(d) /\ ~ReadsEmpty(d)
      <3>1. \E c \in Counters : Count(c, 1) /\ c # "panics"
        BY <2>1, <2>7 DEF Ignored, SourceLimited, Limited, Counters
      <3>2. Reads /\ silent' = silent
        BY <2>1, <2>7, Zenon DEF Ignored, SourceLimited, Limited, Receives
      <3>3. S' = S + 1 /\ P' = P
        BY <3>1, <1>c
      <3>4. serve' = "read" /\ decrypted' = FALSE /\ hand' = 0
        BY <3>2 DEF Reads
      <3>5. Underway' = 0 /\ Traced' = Traced + 1
        BY <1>0, <1>m, <1>T, <1>U, <2>3, <2>5, <3>2, <3>4
      <3>6. Traces' = Traces + 1
        BY <1>0, <1>p, <2>3, <2>4, <2>5, <3>3, <3>4
      <3>7. overflow' + P' = overflow + P + 0 /\ M' = M + 0 /\ overflow' \in Int /\ P' \in Int
        BY <1>0, <1>m, <2>3, <3>2, <3>3
      <3> QED BY <1>step, <3>5, <3>6, <3>7
    <2> QED BY <2>6, <2>7, <2>8
  <1>2. CASE LookupPaused \/ LookupAnswered \/ LookupFails \/ StartsQUIC \/ ServeReturns
    <2>1. /\ UNCHANGED <<reads, counts, silent, retransmits, overflow, pending, hand, decrypted>>
          /\ \/ serve = "resolve" /\ serve' = "classify"
             \/ serve = "classify" /\ serve' = "packet"
             \/ serve = "read" /\ serve' = "returned"
      BY <1>2 DEF LookupPaused, LookupAnswered, LookupFails, Resolving, StartsQUIC, ServeReturns, Busy, Handling, Goes, asmVars
    <2>2. Waiting' = Waiting
      BY <2>1, WaitingStays
    <2>3. serve = "classify" => ~decrypted
      BY <1>s DEF AccountShape
    <2>4. Traced' = Traced
      BY <1>0, <1>m, <1>t, <1>T, <1>u, <1>U, <2>1, <2>3
    <2>5. Traces' = Traces
      BY <1>0, <1>p, <1>e, <2>1, <2>2
    <2> QED BY <1>e, <1>m, <1>still, <2>1, <2>4, <2>5
  <1>3. CASE RecordsDatagram \/ EndsQUIC
    <2>1. Reads /\ UNCHANGED asmVars /\ reads' = reads /\ silent' = silent
      BY <1>3, Zenon DEF RecordsDatagram, EndsQUIC, Busy, Handling
    <2>2. serve' = "read" /\ decrypted' = FALSE /\ hand' = 0 /\ UNCHANGED <<retransmits, overflow, pending>>
      BY <2>1 DEF Reads, asmVars
    <2>3. Waiting' = Waiting
      BY <2>2, WaitingStays
    <2>4. Underway' = 0 /\ Traced' = reads - E
      BY <1>0, <1>m, <1>T, <1>U, <2>1, <2>2
    <2> DEFINE n == IF serve = "packet" /\ decrypted THEN 0 ELSE 1
    <2>5. serve \in {"classify", "packet"} /\ (serve = "classify" => ~decrypted)
      BY <1>3, <1>s DEF RecordsDatagram, EndsQUIC, Busy, Handling, AccountShape
    <2>6. Count("recorded", n)
      BY <1>3, <2>5 DEF RecordsDatagram, EndsQUIC, Busy, Handling
    <2>7. n \in Nat /\ S' = S + n /\ P' = P
      <3>1. "recorded" \in Counters /\ "recorded" # "panics" /\ n \in Nat
        BY DEF Counters
      <3> QED BY <2>6, <3>1, <1>c
    <2>8. Traced = reads - E - n /\ hand = 0
      BY <1>0, <1>t, <1>u, <1>h, <2>5
    <2> HIDE DEF n
    <2>9. Traces' = Traces + n
      BY <1>0, <1>p, <2>2, <2>3, <2>7, <2>8
    <2>10. /\ overflow' + P' = overflow + P + 0 /\ M' = M + 0 /\ overflow' \in Int /\ P' \in Int
           /\ Traced' = Traced + n
      BY <1>0, <1>m, <2>1, <2>2, <2>4, <2>7, <2>8
    <2>11. n \in Int /\ n - 0 <= n /\ n <= n + 0
      BY <2>7
    <2> QED BY <1>step, <2>9, <2>10, <2>11
  <1>9. ASSUME NEW pc \in Handled, Panics(pc)
        PROVE  TraceKept'
    <2>1. /\ Reads /\ UNCHANGED asmVars /\ reads' = reads /\ serve = pc
          /\ Count("panics", 1) /\ silent' = [silent EXCEPT !.unlogged = @ + hand]
      BY <1>9, Zenon DEF Panics, Busy
    <2>2. serve' = "read" /\ decrypted' = FALSE /\ hand' = 0 /\ UNCHANGED <<retransmits, overflow, pending>>
      BY <2>1 DEF Reads, asmVars
    <2>3. Waiting' = Waiting
      BY <2>2, WaitingStays
    <2>4. E' = E /\ M' = M + hand
      BY <1>s, <1>0, <2>1 DEF E, M, AccountShape
    <2>5. S' = S + 1 /\ P' = P + 1
      <3>1. "panics" \in Counters
        BY DEF Counters
      <3> QED BY <2>1, <3>1, <1>c
    <2> DEFINE b == IF serve \in {"packet", "record"} /\ decrypted THEN 0 ELSE 1
    <2>6. Traced = reads - E - b /\ Traced' = reads - E /\ b \in {0, 1}
      <3>1. serve \in {"resolve", "classify", "packet", "record"}
        BY <2>1 DEF Handled
      <3> QED BY <1>0, <1>t, <1>T, <1>u, <1>U, <2>1, <2>2, <2>4, <3>1
    <2> HIDE DEF b
    <2>7. Traces' = Traces + (1 - hand)
      BY <1>0, <1>p, <2>2, <2>3, <2>5
    <2>8. /\ overflow' + P' = overflow + P + 1 /\ overflow' \in Int /\ P' \in Int
          /\ Traced' = Traced + b /\ b \in Int /\ 1 - hand \in Int /\ hand \in Int
          /\ (1 - hand) - 1 <= b /\ b <= (1 - hand) + hand
      BY <1>0, <2>2, <2>5, <2>6
    <2> QED BY <1>step, <2>4, <2>7, <2>8
  <1>4. CASE Skips
    <2>1. UNCHANGED <<reads, counts, silent, retransmits, overflow, pending, hand, decrypted, serve>>
      BY <1>4 DEF Skips, Busy, Handling, asmVars
    <2>2. Waiting' = Waiting
      BY <2>1, WaitingStays
    <2>3. Traced' = Traced /\ Traces' = Traces
      BY <1>0, <1>m, <1>t, <1>T, <1>u, <1>U, <1>p, <1>e, <2>1, <2>2
    <2> QED BY <1>e, <1>m, <1>still, <2>1, <2>3
  <1>5. CASE AddsPacket \/ CompletesAttempt
    <2> DEFINE one == IF at = 1 THEN 1 ELSE 0
               new == IF decrypted THEN 0 ELSE 1
               un == IF decrypted \/ at = 1 THEN 0 ELSE 1
    <2>1. /\ serve = "packet" /\ serve' \in {"packet", "record"} /\ decrypted' = TRUE
          /\ reads' = reads /\ counts' = counts /\ Marks
      BY <1>5 DEF AddsPacket, CompletesAttempt, Busy
    <2>m. E' = E /\ M' = M + un
      BY <1>s, <1>0, <2>1 DEF Marks, FirstInDatagram, E, M, AccountShape
    <2>2. Traced' = Traced + new /\ hand = 0 /\ S' = S /\ P' = P /\ new \in {0, 1} /\ one \in {0, 1} /\ un \in {0, 1}
      BY <1>0, <1>t, <1>T, <1>u, <1>U, <1>h, <1>e, <2>1, <2>m
    <2>3. at = 1 => ~decrypted
      BY <1>s, <2>1 DEF AccountShape
    <2>4. one <= new /\ new <= one + un
      BY <2>3
    <2>6. \E o \in Nat, a \in Nat :
            /\ overflow' = overflow + o /\ Traces' = Traces + a + o
            /\ a <= one /\ one <= a + o
      <3> DEFINE k == dgram.key
                 first == FirstInDatagram
      <3>1. one = IF first THEN 1 ELSE 0
        BY DEF FirstInDatagram
      <3>2. CASE AddsPacket
        <4>1. hand' = 0 /\ (Folded(k, first) \/ Refused(k) \/ Gathers(k, Packet.crypto, first))
          BY <2>2, <3>2 DEF AddsPacket
        <4>2. CASE Folded(k, first)
          <5>1. retransmits' = retransmits + one /\ overflow' = overflow + 0 /\ pending' = pending
            BY <1>0, <3>1, <4>2 DEF Folded
          <5>2. Waiting' = Waiting
            BY <5>1, WaitingStays
          <5>3. Traces' = Traces + one + 0
            BY <1>0, <1>p, <2>2, <4>1, <5>1, <5>2
          <5> HIDE DEF one
          <5> QED BY <2>2, <5>1, <5>3
        <4>3. CASE Refused(k)
          <5>1. retransmits' = retransmits /\ overflow' = overflow + 1 /\ pending' = pending
            BY <1>0, <4>3 DEF Refused
          <5>2. Waiting' = Waiting
            BY <5>1, WaitingStays
          <5>3. Traces' = Traces + 0 + 1
            BY <1>0, <1>p, <2>2, <4>1, <5>1, <5>2
          <5> HIDE DEF one
          <5> QED BY <2>2, <5>1, <5>3
        <4>4. CASE Gathers(k, Packet.crypto, first)
          <5>1. retransmits' = retransmits /\ overflow' = overflow + 0
            BY <1>0, <4>4 DEF Gathers
          <5>2. Waiting' = Waiting + one
            BY <3>1, <4>4, WaitingAdd
          <5>3. Traces' = Traces + one + 0
            BY <1>0, <1>p, <2>2, <4>1, <5>1, <5>2
          <5> HIDE DEF one
          <5> QED BY <2>2, <5>1, <5>3
        <4> QED BY <4>1, <4>2, <4>3, <4>4
      <3>3. CASE CompletesAttempt
        <4> DEFINE w == With(k, Packet.crypto, first)
        <4>1. Completes(k, Packet.crypto, first) /\ hand' = w.datagrams
          BY <3>3, Zenon DEF CompletesAttempt
        <4>2. retransmits' = retransmits /\ overflow' = overflow + 0
          BY <1>0, <4>1 DEF Completes
        <4>3. Waiting' + w.datagrams = Waiting + one
          BY <3>1, <4>1, WaitingAdd
        <4>4. w.datagrams \in Nat
          BY WithFields
        <4>5. Waiting' \in Nat
          <5>1. TablesInv'
            BY TablesSteps
          <5>2. DOMAIN pending' \in SUBSET DOMAIN pending'
            OBVIOUS
          <5>3. Counted(DOMAIN pending)'  \in Nat
            BY <5>1, <5>2, WaitingLater
          <5> QED BY <5>3 DEF Waiting
        <4> HIDE DEF w
        <4>6. Traces' = Traces + one + 0
          BY <1>0, <1>p, <2>2, <4>1, <4>2, <4>3, <4>4, <4>5
        <4> HIDE DEF one
        <4> QED BY <2>2, <4>2, <4>6
      <3> QED BY <1>5, <3>2, <3>3
    <2>7. PICK o \in Nat, a \in Nat :
            /\ overflow' = overflow + o /\ Traces' = Traces + a + o
            /\ a <= one /\ one <= a + o
      BY <2>6
    <2> HIDE DEF one, new, un
    <2>8. /\ Traces' = Traces + (a + o) /\ a + o \in Int /\ o \in Int /\ new \in Int /\ un \in Int
          /\ overflow' + P' = overflow + P + o /\ overflow' \in Int /\ P' \in Int
          /\ (a + o) - o <= new /\ new <= (a + o) + un
      BY <1>0, <1>i, <2>2, <2>4, <2>7
    <2> QED BY <1>step, <2>m, <2>2, <2>8
  <1>6. CASE RecordsAttempt
    <2>1. /\ serve = "record" /\ serve' = "packet" /\ hand' = 0 /\ Count("recorded", hand)
          /\ UNCHANGED <<reads, silent, retransmits, overflow, decrypted, pending>>
      BY <1>6 DEF RecordsAttempt, Busy, Handling, asmVars
    <2>2. S' = S + hand /\ P' = P /\ Waiting' = Waiting
      <3>1. "recorded" \in Counters /\ "recorded" # "panics"
        BY DEF Counters
      <3> QED BY <1>0, <1>c, <2>1, <3>1, WaitingStays
    <2>3. Traced' = Traced /\ Traces' = Traces
      BY <1>0, <1>m, <1>t, <1>T, <1>u, <1>U, <1>p, <2>1, <2>2
    <2> QED BY <1>m, <1>still, <2>1, <2>2, <2>3
  <1>7. CASE Sweep \/ ShutdownFlushes
    <2>1. UNCHANGED <<reads, silent, serve, decrypted, hand, retransmits, overflow>>
      BY <1>7 DEF Sweep, ShutdownFlushes, srvVars, Expire, Flush, ExpireOf
    <2>2. \E late \in SUBSET DOMAIN pending, old \in SUBSET DOMAIN completed :
             ExpireOf(late, old) /\ Count("recorded", Counted(late))
      <3>1. /\ Late \in SUBSET DOMAIN pending /\ DOMAIN pending \in SUBSET DOMAIN pending
            /\ Old \in SUBSET DOMAIN completed /\ DOMAIN completed \in SUBSET DOMAIN completed
        BY DEF Late, Old
      <3> QED BY <1>7, <3>1, Zenon DEF Sweep, ShutdownFlushes, Expire, Flush
    <2>3. PICK late \in SUBSET DOMAIN pending, old \in SUBSET DOMAIN completed :
             ExpireOf(late, old) /\ Count("recorded", Counted(late))
      BY <2>2
    <2>4. Counted(late) \in Nat /\ Waiting' + Counted(late) = Waiting
      BY <2>3, WaitingNat, WaitingExpire
    <2>5. S' = S + Counted(late) /\ P' = P
      <3>1. "recorded" \in Counters /\ "recorded" # "panics"
        BY DEF Counters
      <3> QED BY <1>c, <2>3, <2>4, <3>1
    <2>6. Waiting' \in Nat
      <3>1. TablesInv'
        BY TablesSteps
      <3> QED BY <3>1, WaitingLater DEF Waiting
    <2>7. Traced' = Traced
      BY <1>0, <1>m, <1>t, <1>T, <1>u, <1>U, <2>1
    <2> HIDE DEF Waiting, Counted
    <2>8. Traces' = Traces
      BY <1>0, <1>p, <2>1, <2>4, <2>5, <2>6
    <2> QED BY <1>m, <1>still, <2>1, <2>5, <2>7, <2>8
  <1>8. CASE CloseConn \/ SweeperStops \/ ProcessExits \/ Tick \/ UNCHANGED udpVars
    <2>1. /\ UNCHANGED <<reads, counts, silent, serve, decrypted, hand, retransmits, overflow>>
          /\ AsmTick \/ UNCHANGED pending
      BY <1>8, Zenon DEF CloseConn, SweeperStops, ProcessExits, Tick, udpVars, srvVars, asmVars, AsmTick
    <2>2. Waiting' = Waiting
      BY <2>1, WaitingStays
    <2>3. Traced' = Traced /\ Traces' = Traces
      BY <1>0, <1>m, <1>t, <1>T, <1>u, <1>U, <1>p, <1>e, <2>1, <2>2
    <2> QED BY <1>e, <1>m, <1>still, <2>1, <2>3
  <1> QED
    BY <1>1, <1>2, <1>3, <1>4, <1>5, <1>6, <1>7, <1>8, <1>9, Zenon DEF Next, Handles, Closes

\* At first there is nothing to trace.
LEMMA AccountInit == Init => AccountInv
  <1> SUFFICES ASSUME Init PROVE AccountInv
    OBVIOUS
  <1>1. AccountShape
    BY DEF Init, AsmInit, AccountShape
  <1>2. InHand /\ TablesInv
    BY TablesInit DEF Init, InHand, Handled
  <1>3. pending = NoKey /\ hand = 0 /\ reads = 0 /\ retransmits = 0 /\ overflow = 0 /\ serve = "read"
        /\ counts = [c \in Counters |-> 0] /\ silent = [empty |-> 0, unmarked |-> 0, unlogged |-> 0]
    BY DEF Init, AsmInit
  <1>4. Waiting = 0
    <2>1. DOMAIN pending = {}
      BY <1>3 DEF NoKey
    <2> DEFINE f == [k \in DOMAIN pending |-> pending[k].datagrams]
    <2>2. IsFiniteSet({}) /\ \A k \in {} : f[k] \in Int
      BY FS_EmptySet
    <2> HIDE DEF f
    <2>3. SumFunctionOnSet(f, {}) = 0
      BY <2>2, SumPick
    <2> QED BY <2>1, <2>3 DEF Waiting, Counted, f
  <1>5. SumFunction(counts) = 0
    <2>1. DOMAIN counts = Counters /\ \A c \in Counters : counts[c] \in Nat /\ counts[c] = 0
      BY <1>3
    <2>2. SumFunctionOnSet(counts, Counters) = 0
      BY <2>1, CountersFinite, SumZero
    <2> QED BY <2>1, <2>2 DEF SumFunction
  <1>6. Traced = 0 /\ Traces = 0 /\ counts["panics"] = 0 /\ silent.unmarked = 0 /\ silent.unlogged = 0
    <2>1. counts["panics"] = 0 /\ silent.unmarked = 0 /\ silent.unlogged = 0 /\ silent.empty = 0
      BY <1>3 DEF Counters
    <2> QED BY <1>3, <1>4, <1>5, <2>1 DEF Traced, Underway, Handled, Traces, Waiting
  <1> QED BY <1>1, <1>3, <1>6 DEF AccountInv

\* Whatever happens, the traces are kept.
AccountKept == TablesInv /\ InHand /\ AccountInv

\* That they are is an invariant.
LEMMA AccountHolds == Spec => []AccountKept
  <1>1. Init => AccountKept
    BY AccountInit, TablesInit DEF Init, InHand, Handled, AccountKept
  <1>2. AccountKept /\ [Next]_udpVars => AccountKept'
    <2> SUFFICES ASSUME AccountKept, [Next]_udpVars PROVE AccountKept'
      OBVIOUS
    <2>0. TablesInv /\ InHand /\ AccountInv
      BY DEF AccountKept
    <2>1. AccountShape'
      BY <2>0, ShapeSteps DEF AccountInv
    <2>2. TraceKept'
      BY <2>0, TraceSteps
    <2> QED BY <2>0, TablesSteps, InHandSteps, <2>1, <2>2 DEF AccountInv, TraceKept, AccountKept
  <1> QED BY <1>1, <1>2, PTL DEF Spec

\* Whatever arrives, in whatever order of packets, sweeps, panics and Shutdown, every
\* datagram read leaves its trace, but for the empty ones, those whose Initial stands
\* behind another packet, and those of an attempt that a panic took while it was to be
\* logged; and only refusals and panics count one twice (server.go:149-151, 254-354).
THEOREM DatagramsAreAccounted == Spec => []DatagramsAccounted
  <1>1. AccountKept => DatagramsAccounted
    <2> SUFFICES ASSUME TablesInv, InHand, AccountInv PROVE DatagramsAccounted
      BY DEF AccountKept
    <2>1. /\ Traces \in Nat /\ Traced \in Int /\ Underway \in {0, 1} /\ reads \in Nat /\ overflow \in Nat
          /\ counts["panics"] \in Nat /\ silent.empty \in Nat /\ silent.unmarked \in Nat /\ silent.unlogged \in Nat
      BY TracesNat DEF AccountInv, AccountShape
    <2>2. /\ Traces - overflow - counts["panics"] <= Traced
          /\ Traced <= Traces + silent.unmarked + silent.unlogged
      BY DEF AccountInv
    <2>3. reads - silent.empty - Underway <= Traced /\ Traced <= reads - silent.empty
      BY <2>1 DEF Traced, Underway, Handled
    <2> QED BY <2>1, <2>2, <2>3 DEF DatagramsAccounted
  <1> QED BY <1>1, AccountHolds, PTL

----------------------------------------------------------------------------
(* What an attempt holds, and the stream joined from it. *)

\* The recursion of FoldLeft(Keep, segs, crypto), and of Contiguous(segs).
IsKept(g, segs, crypto) ==
    g = [s \in SUBSET DOMAIN crypto |->
            IF s = {} THEN segs ELSE Keep(g[s \ {Max(s)}], crypto[Max(s)])]
IsJoined(g, segs) ==
    g = [s \in SUBSET DOMAIN segs |->
            IF s = {} THEN 0 ELSE Extend(g[s \ {Max(s)}], Max(s), segs[Max(s)])]

\* The fold of Keep is that recursion at the whole list.
LEMMA KeptUnfolds ==
    ASSUME NEW segs, NEW crypto
    PROVE  FoldLeft(Keep, segs, crypto) = (CHOOSE g : IsKept(g, segs, crypto))[DOMAIN crypto]
  BY Zenon DEF FoldLeft, MapThenFoldSet, IsKept

\* Contiguous is that recursion at all the segments.
LEMMA JoinedUnfolds ==
    ASSUME NEW segs
    PROVE  Contiguous(segs) = (CHOOSE g : IsJoined(g, segs))[DOMAIN segs]
  BY Zenon DEF Contiguous, MapThenFoldSet, IsJoined

\* A segment more stays within the budgets.
LEMMA KeepHolds ==
    ASSUME NEW segs \in Holding, NEW s \in Segment
    PROVE  Keep(segs, s) \in Holding
  <1>b. MaxCryptoBytes \in Nat /\ MaxSegments \in Nat
    BY AssemblerAssumption
  <1> DEFINE D == DOMAIN segs
  <1>1. /\ D \in SUBSET (0..(MaxCryptoBytes - 1)) /\ segs \in [D -> 1..MaxCryptoBytes]
        /\ Stored(segs) <= MaxCryptoBytes /\ Cardinality(D) <= MaxSegments
    BY DEF Holding
  <1>2. IsFiniteSet(D) /\ Cardinality(D) \in Nat
    <2>1. IsFiniteSet(0..(MaxCryptoBytes - 1))
      BY <1>b, FS_Interval
    <2>2. IsFiniteSet(D)
      BY <1>1, <2>1, FS_Subset
    <2> QED BY <2>2, FS_CardinalityType
  <1>3. CASE Skipped(segs, s)
    BY <1>3 DEF Keep
  <1>4. CASE ~Skipped(segs, s)
    <2> DEFINE E == D \cup {s.off}
               t == [o \in E |-> IF o = s.off THEN s.len ELSE segs[o]]
    <2>1. Keep(segs, s) = t
      BY <1>4 DEF Keep
    <2>2. s.off \in Nat /\ s.len \in Nat
      BY DEF Segment
    <2>3. /\ s.len # 0 /\ s.off < MaxCryptoBytes /\ Cardinality(D) < MaxSegments
          /\ s.off \notin D /\ Stored(segs) + s.len <= MaxCryptoBytes
      <3>1. /\ ~(s.len = 0) /\ ~(s.off >= MaxCryptoBytes) /\ ~(Cardinality(D) >= MaxSegments)
            /\ ~(s.off \in D) /\ ~(Stored(segs) + s.len > MaxCryptoBytes)
        BY <1>4 DEF Skipped
      <3>2. Stored(segs) \in Nat
        <4>1. \A o \in D : segs[o] \in Nat
          BY <1>1
        <4> QED BY <1>2, <4>1, SumNat DEF Stored, SumFunction
      <3> QED BY <1>b, <1>2, <2>2, <3>1, <3>2
    <2>4. Stored(segs) \in Nat /\ \A o \in D : segs[o] \in Nat
      <3>1. \A o \in D : segs[o] \in Nat
        BY <1>1
      <3> QED BY <1>2, <3>1, SumNat DEF Stored, SumFunction
    <2>5. E \in SUBSET (0..(MaxCryptoBytes - 1))
      BY <1>b, <1>1, <2>2, <2>3
    <2>6. t \in [E -> 1..MaxCryptoBytes]
      BY <1>b, <1>1, <2>2, <2>3, <2>4
    <2>7. Cardinality(E) <= MaxSegments
      <3>1. Cardinality(E) = Cardinality(D) + 1
        BY <1>2, <2>3, FS_AddElement
      <3> QED BY <1>b, <1>2, <2>3, <3>1
    <2>8. Stored(t) = Stored(segs) + s.len
      <3>1. t[s.off] = s.len /\ t[s.off] \in Nat /\ DOMAIN t = E /\ (\A x \in D \ {s.off} : t[x] = segs[x])
            /\ D \ {s.off} = D
        BY <2>2, <2>3
      <3> DEFINE k == s.off
      <3>2. SumFunctionOnSet(t, D \cup {k}) = t[k] + SumFunctionOnSet(segs, D \ {k})
        <4>1. (\A x \in D : segs[x] \in Nat) /\ t[k] \in Nat /\ (\A x \in D \ {k} : t[x] = segs[x])
          BY <2>4, <3>1
        <4> HIDE DEF k, D, t, E
        <4> QED BY <1>2, <4>1, SumPut
      <3>3. Stored(t) = SumFunctionOnSet(t, E) /\ Stored(segs) = SumFunctionOnSet(segs, D)
        BY <3>1 DEF Stored, SumFunction
      <3> HIDE DEF t
      <3> QED BY <2>2, <2>4, <3>1, <3>2, <3>3
    <2> HIDE DEF t, E
    <2>9. DOMAIN t = E
      BY <2>6
    <2> QED BY <2>1, <2>3, <2>5, <2>6, <2>7, <2>8, <2>9 DEF Holding
  <1> QED BY <1>3, <1>4

\* All frames of a packet.
LEMMA FramesHold ==
    ASSUME NEW segs \in Holding, NEW crypto \in Seq(Segment)
    PROVE  FoldLeft(Keep, segs, crypto) \in Holding
  <1> DEFINE S == DOMAIN crypto
             c == [s \in SUBSET S |-> Max(s)]
             G == [p \in S \X Holding |-> Keep(p[2], crypto[p[1]])]
  <1>1. S \in SUBSET Nat /\ IsFiniteSet(S) /\ \A i \in S : crypto[i] \in Segment
    <2>1. Len(crypto) \in Nat /\ S = 1..Len(crypto)
      OBVIOUS
    <2>2. IsFiniteSet(1..Len(crypto))
      BY <2>1, FS_Interval
    <2> QED BY <2>1, <2>2
  <1>2. \A s \in SUBSET S : s # {} => Max(s) \in s
    <2> SUFFICES ASSUME NEW s \in SUBSET S, s # {} PROVE Max(s) \in s
      OBVIOUS
    <2>1. s \in SUBSET Nat /\ IsFiniteSet(s)
      BY <1>1, FS_Subset
    <2> QED BY <2>1, MaxOf
  <1>3. G \in [S \X Holding -> Holding]
    <2>1. \A p \in S \X Holding : Keep(p[2], crypto[p[1]]) \in Holding
      <3> SUFFICES ASSUME NEW p \in S \X Holding PROVE Keep(p[2], crypto[p[1]]) \in Holding
        OBVIOUS
      <3>1. p[1] \in S /\ p[2] \in Holding
        OBVIOUS
      <3>2. crypto[p[1]] \in Segment
        BY <1>1, <3>1
      <3> QED BY <3>1, <3>2, KeepHolds
    <2> QED BY <2>1, Zenon
  <1>4. \A s \in SUBSET S : s # {} => c[s] \in s
    BY <1>2
  <1>5. PICK q \in [SUBSET S -> Holding] : \A s \in SUBSET S : FoldStep(q, segs, c, G, s)
    <2> HIDE DEF S, c, G, Holding
    <2> QED BY <1>1, <1>3, <1>4, FoldExists, Zenon
  <1>6. IsKept(q, segs, crypto)
    <2>1. ASSUME NEW s \in SUBSET S
          PROVE  q[s] = IF s = {} THEN segs ELSE Keep(q[s \ {Max(s)}], crypto[Max(s)])
      <3>1. q[s] = IF s = {} THEN segs ELSE G[<<c[s], q[s \ {c[s]}]>>]
        BY <1>5 DEF FoldStep
      <3>2. s # {} => c[s] = Max(s) /\ Max(s) \in S /\ q[s \ {Max(s)}] \in Holding
        BY <1>2
      <3>3. ASSUME NEW i \in S, NEW v \in Holding PROVE G[<<i, v>>] = Keep(v, crypto[i])
        OBVIOUS
      <3> HIDE DEF c, G
      <3>4. s # {} => q[s] = Keep(q[s \ {Max(s)}], crypto[Max(s)])
        BY <3>1, <3>2, <3>3
      <3> QED BY <3>1, <3>4
    <2>2. q = [s \in SUBSET S |-> q[s]]
      BY <1>5
    <2>3. [s \in SUBSET S |-> q[s]] = [s \in SUBSET S |->
             IF s = {} THEN segs ELSE Keep(q[s \ {Max(s)}], crypto[Max(s)])]
      BY <2>1, Zenon
    <2> QED BY <2>2, <2>3, Zenon DEF IsKept
  <1>7. PICK g : g = CHOOSE h : IsKept(h, segs, crypto)
    OBVIOUS
  <1>8. IsKept(g, segs, crypto)
    BY <1>6, <1>7, Zenon
  <1>9. \A s \in SUBSET S : g[s] = IF s = {} THEN segs ELSE Keep(g[s \ {Max(s)}], crypto[Max(s)])
    BY <1>8, Zenon DEF IsKept
  <1> DEFINE J == {s \in SUBSET S : g[s] \in Holding}
  <1>10. {} \in J
    <2>1. {} \in SUBSET S
      OBVIOUS
    <2>2. g[{}] = segs
      BY <1>9, <2>1, Zenon
    <2> QED BY <2>1, <2>2
  <1>11. ASSUME NEW s \in SUBSET S, s # {}, s \ {c[s]} \in J PROVE s \in J
    <2>1. c[s] = Max(s) /\ Max(s) \in S /\ g[s \ {Max(s)}] \in Holding
      BY <1>2, <1>11
    <2>2. g[s] = Keep(g[s \ {Max(s)}], crypto[Max(s)])
      BY <1>9, <1>11, Zenon
    <2>3. crypto[Max(s)] \in Segment
      BY <1>1, <2>1
    <2>4. g[s] \in Holding
      BY <2>1, <2>2, <2>3, KeepHolds
    <2> QED BY <2>4
  <1>12. S \in J
    <2> HIDE DEF J, c, S
    <2>1. \A s \in SUBSET S : s \in J
      BY <1>1, <1>4, <1>10, <1>11, SubsetInduction
    <2> QED BY <2>1
  <1> QED BY <1>7, <1>12, KeptUnfolds

\* Units that the segments at the offsets s cover.
CoveredBy(segs, s) == UNION {o..(o + segs[o] - 1) : o \in s}

\* What one segment joined to the stream keeps: all before n is covered, n is not.
LEMMA ExtendKeeps ==
    ASSUME NEW D \in SUBSET Nat, NEW segs \in [D -> Nat \ {0}], NEW s \in SUBSET D, NEW m \in s,
           \A o \in s : o <= m, NEW h \in Nat,
           0..(h - 1) \subseteq CoveredBy(segs, s \ {m}), h \notin CoveredBy(segs, s \ {m}),
           NEW n, n = Extend(h, m, segs[m])
    PROVE  n \in Nat /\ 0..(n - 1) \subseteq CoveredBy(segs, s) /\ n \notin CoveredBy(segs, s)
  <1>1. m \in Nat /\ segs[m] \in Nat /\ segs[m] >= 1
    OBVIOUS
  <1>2. \A x : x \in CoveredBy(segs, s) <=> x \in CoveredBy(segs, s \ {m}) \/ x \in m..(m + segs[m] - 1)
    BY DEF CoveredBy
  <1>3. \A x \in CoveredBy(segs, s \ {m}) : \E o \in s \ {m} : x \in o..(o + segs[o] - 1)
    BY DEF CoveredBy
  <1>4. \A o \in s \ {m} : o \in Nat /\ segs[o] \in Nat /\ o <= m
    OBVIOUS
  <1>5. \A o \in s \ {m} : ~(h \in o..(o + segs[o] - 1))
    BY DEF CoveredBy
  <1>6. CASE m > h
    <2>1. n = h
      BY <1>6 DEF Extend
    <2>2. ~(h \in m..(m + segs[m] - 1))
      BY <1>1, <1>6
    <2> QED BY <1>2, <2>1, <2>2
  <1>7. CASE ~(m > h)
    <2>0. m <= h
      BY <1>1, <1>7
    <2>1. n = IF h > m + segs[m] THEN h ELSE m + segs[m]
      BY <1>7 DEF Extend, Larger
    <2>2. CASE h > m + segs[m]
      <3>1. n = h /\ ~(h \in m..(m + segs[m] - 1))
        BY <1>1, <2>1, <2>2
      <3> QED BY <1>2, <3>1
    <2>3. CASE ~(h > m + segs[m])
      <3>1. n = m + segs[m] /\ n \in Nat /\ n >= h
        BY <1>1, <2>1, <2>3
      <3>2. ASSUME NEW x \in 0..(n - 1) PROVE x \in CoveredBy(segs, s)
        <4>1. CASE x < h
          <5>1. x \in 0..(h - 1)
            BY <3>1, <4>1
          <5> QED BY <1>2, <5>1
        <4>2. CASE ~(x < h)
          <5>1. x \in m..(m + segs[m] - 1)
            BY <1>1, <2>0, <3>1, <4>2
          <5> QED BY <1>2, <5>1
        <4> QED BY <4>1, <4>2
      <3>3. ~(n \in m..(m + segs[m] - 1))
        BY <1>1, <3>1
      <3>4. ASSUME NEW o \in s \ {m} PROVE ~(n \in o..(o + segs[o] - 1))
        <4>1. o \in Nat /\ segs[o] \in Nat /\ o <= m /\ ~(h \in o..(o + segs[o] - 1))
          BY <1>4, <1>5
        <4> QED BY <1>1, <2>0, <3>1, <4>1
      <3>5. n \notin CoveredBy(segs, s)
        BY <1>2, <1>3, <3>3, <3>4
      <3> QED BY <3>1, <3>2, <3>5
    <2> QED BY <2>2, <2>3
  <1> QED BY <1>6, <1>7

\* contiguous joins the longest prefix that the segments cover (assemble.go:130-150).
LEMMA ContiguousIs ==
    ASSUME NEW segs, DOMAIN segs \subseteq Nat, IsFiniteSet(DOMAIN segs),
           segs \in [DOMAIN segs -> Nat \ {0}]
    PROVE  LET n == Contiguous(segs)
           IN  n \in Nat /\ 0..(n - 1) \subseteq Covered(segs) /\ n \notin Covered(segs)
  <1> DEFINE D == DOMAIN segs
             c == [s \in SUBSET D |-> Max(s)]
             G == [p \in D \X Nat |-> Extend(p[2], p[1], segs[p[1]])]
  <1>0. DOMAIN segs = D /\ D \in SUBSET Nat /\ IsFiniteSet(D) /\ segs \in [D -> Nat \ {0}]
    OBVIOUS
  <1>f. IsFiniteSet(D)
    BY <1>0
  <1> HIDE DEF D
  <1>2. \A s \in SUBSET D : s # {} => Max(s) \in s /\ \A y \in s : y <= Max(s)
    <2> SUFFICES ASSUME NEW s \in SUBSET D, s # {} PROVE Max(s) \in s /\ \A y \in s : y <= Max(s)
      OBVIOUS
    <2>1. s \in SUBSET Nat /\ IsFiniteSet(s)
      BY <1>0, FS_Subset
    <2> QED BY <2>1, MaxOf
  <1>3. G \in [D \X Nat -> Nat]
    <2>1. \A p \in D \X Nat : Extend(p[2], p[1], segs[p[1]]) \in Nat
      <3> SUFFICES ASSUME NEW i \in D, NEW v \in Nat PROVE Extend(v, i, segs[i]) \in Nat
        OBVIOUS
      <3>1. i \in Nat /\ segs[i] \in Nat
        BY <1>0
      <3> QED BY <3>1 DEF Extend, Larger
    <2> QED BY <2>1, Zenon
  <1>4. \A s \in SUBSET D : s # {} => c[s] \in s
    BY <1>2
  <1>5. PICK q \in [SUBSET D -> Nat] : \A s \in SUBSET D : FoldStep(q, 0, c, G, s)
    <2>1. 0 \in Nat
      OBVIOUS
    <2> HIDE DEF c, G
    <2> QED BY <1>f, <1>3, <1>4, <2>1, FoldExists, Zenon
  <1>6. IsJoined(q, segs)
    <2>1. ASSUME NEW s \in SUBSET D
          PROVE  q[s] = IF s = {} THEN 0 ELSE Extend(q[s \ {Max(s)}], Max(s), segs[Max(s)])
      <3>1. q[s] = IF s = {} THEN 0 ELSE G[<<c[s], q[s \ {c[s]}]>>]
        BY <1>5 DEF FoldStep
      <3>2. s # {} => c[s] = Max(s) /\ Max(s) \in D /\ q[s \ {Max(s)}] \in Nat
        BY <1>2
      <3>3. ASSUME NEW i \in D, NEW v \in Nat PROVE G[<<i, v>>] = Extend(v, i, segs[i])
        OBVIOUS
      <3> HIDE DEF c, G
      <3>4. s # {} => q[s] = Extend(q[s \ {Max(s)}], Max(s), segs[Max(s)])
        BY <3>1, <3>2, <3>3
      <3> QED BY <3>1, <3>4
    <2>2. q = [s \in SUBSET D |-> q[s]]
      BY <1>5
    <2>3. [s \in SUBSET D |-> q[s]] = [s \in SUBSET D |->
             IF s = {} THEN 0 ELSE Extend(q[s \ {Max(s)}], Max(s), segs[Max(s)])]
      BY <2>1, Zenon
    <2> QED BY <1>0, <2>2, <2>3, Zenon DEF IsJoined
  <1>7. PICK g : g = CHOOSE h : IsJoined(h, segs)
    OBVIOUS
  <1>8. IsJoined(g, segs)
    BY <1>6, <1>7, Zenon
  <1>9. \A s \in SUBSET D : g[s] = IF s = {} THEN 0 ELSE Extend(g[s \ {Max(s)}], Max(s), segs[Max(s)])
    BY <1>0, <1>8, Zenon DEF IsJoined
  <1> DEFINE Good(s) == g[s] \in Nat /\ 0..(g[s] - 1) \subseteq CoveredBy(segs, s) /\ g[s] \notin CoveredBy(segs, s)
             J == {s \in SUBSET D : Good(s)}
  <1>10. {} \in J
    <2>1. {} \in SUBSET D
      OBVIOUS
    <2>2. g[{}] = 0
      BY <1>9, <2>1, Zenon
    <2>3. CoveredBy(segs, {}) = {} /\ 0..(0 - 1) = {}
      BY DEF CoveredBy
    <2> QED BY <2>1, <2>2, <2>3
  <1>11. ASSUME NEW s \in SUBSET D, s # {}, s \ {c[s]} \in J PROVE s \in J
    <2> DEFINE m == Max(s)
    <2>1. c[s] = m /\ m \in s /\ (\A o \in s : o <= m) /\ Good(s \ {m})
      BY <1>2, <1>11
    <2>2. g[s] = Extend(g[s \ {m}], m, segs[m])
      BY <1>9, <1>11, Zenon
    <2> HIDE DEF m
    <2>3. Good(s)
      BY <1>0, <2>1, <2>2, ExtendKeeps
    <2> QED BY <2>3
  <1>12. D \in J
    <2>1. \A s \in SUBSET D : s # {} /\ s \ {c[s]} \in J => s \in J
      BY <1>11, Zenon
    <2> HIDE DEF J, c
    <2>3. \A s \in SUBSET D : s \in J
      BY <1>f, <1>4, <1>10, <2>1, SubsetInduction, Zenon
    <2> QED BY <2>3
  <1>13. Contiguous(segs) = g[D]
    BY <1>0, <1>7, JoinedUnfolds
  <1>14. Covered(segs) = CoveredBy(segs, D)
    BY <1>0 DEF Covered, CoveredBy
  <1>15. Good(D)
    BY <1>12
  <1> QED BY <1>13, <1>14, <1>15

\* What AddsPacket and CompletesAttempt add are segments.
LEMMA AssemblerAdds ==
    ASSUME AccountKept, [Next]_udpVars
    PROVE  \/ UNCHANGED pending
           \/ \E k, first : \E crypto \in Seq(Segment) :
                 Gathers(k, crypto, first) \/ Completes(k, crypto, first)
           \/ Expire \/ Flush \/ AsmTick
  <1>1. CASE AddsPacket \/ CompletesAttempt
    <2>1. serve = "packet" /\ at <= Len(dgram.packets)
      BY <1>1 DEF AddsPacket, CompletesAttempt, Busy, Handling
    <2>2. dgram \in Datagrams /\ dgram.class = "quic" /\ at >= 1 /\ at \in Nat
      BY <2>1 DEF AccountKept, AccountInv, AccountShape, InHand, Handled
    <2>3. dgram.packets \in Seq([frames : BOOLEAN, crypto : Seq(Segment)])
      BY <2>2, UdpAssumption
    <2>4. Packet.crypto \in Seq(Segment)
      <3>1. \A P : \A ps \in Seq(P) : at <= Len(ps) => ps[at] \in P
        BY <2>2
      <3>2. dgram.packets[at] \in [frames : BOOLEAN, crypto : Seq(Segment)]
        BY <2>1, <2>3, <3>1, Zenon
      <3> QED BY <3>2 DEF Packet
    <2>5. \/ Folded(dgram.key, FirstInDatagram) \/ Refused(dgram.key)
          \/ Gathers(dgram.key, Packet.crypto, FirstInDatagram)
          \/ Completes(dgram.key, Packet.crypto, FirstInDatagram)
      BY <1>1, Zenon DEF AddsPacket, CompletesAttempt
    <2>6. Folded(dgram.key, FirstInDatagram) \/ Refused(dgram.key) => UNCHANGED pending
      BY Zenon DEF Folded, Refused
    <2> QED BY <2>4, <2>5, <2>6, Zenon
  <1>2. CASE ~(AddsPacket \/ CompletesAttempt)
    BY <1>2, Zenon DEF Next, Handles, Arrival, Receives, ReadsEmpty, Ignored, SourceLimited, Limited, Admitted, Resolving,
     Tick, udpVars, Sweep, Closes, CloseConn, SweeperStops, ShutdownFlushes, ProcessExits, asmVars,
     LookupPaused, LookupAnswered, LookupFails, RecordsDatagram, Panics, StartsQUIC, Skips,
     RecordsAttempt, EndsQUIC, ServeReturns, Busy, Handling
  <1> QED BY <1>1, <1>2

\* The segments of the attempt that Add works on.
LEMMA WithHolds ==
    ASSUME TablesInv, SegmentsInv, NEW k, NEW crypto \in Seq(Segment), NEW first
    PROVE  With(k, crypto, first).segs \in Holding
  <1> DEFINE a == IF k \in DOMAIN pending THEN pending[k] ELSE Fresh
  <1>1. DOMAIN a = AttemptFields
    BY DEF TablesInv, Fresh, AttemptFields
  <1>2. a.segs \in Holding
    <2>1. NoSegments \in Holding
      <3>1. MaxCryptoBytes \in Nat /\ MaxSegments \in Nat
        BY AssemblerAssumption
      <3>2. DOMAIN NoSegments = {} /\ NoSegments \in [{} -> 1..MaxCryptoBytes]
        BY DEF NoSegments
      <3>3. Cardinality({}) = 0 /\ IsFiniteSet({})
        BY FS_EmptySet
      <3>4. Stored(NoSegments) = 0
        <4>1. \A x \in {} : NoSegments[x] \in Int
          OBVIOUS
        <4>2. SumFunctionOnSet(NoSegments, {}) = 0
          BY <3>3, <4>1, SumPick
        <4> QED BY <3>2, <4>2 DEF Stored, SumFunction
      <3>5. Cardinality(DOMAIN NoSegments) <= MaxSegments /\ Stored(NoSegments) <= MaxCryptoBytes
        BY <3>1, <3>2, <3>3, <3>4
      <3>6. NoSegments \in UNION {[D -> 1..MaxCryptoBytes] : D \in SUBSET (0..(MaxCryptoBytes - 1))}
        <4>1. {} \in SUBSET (0..(MaxCryptoBytes - 1))
          OBVIOUS
        <4> QED BY <3>2, <4>1, Zenon
      <3> QED BY <3>5, <3>6, Zenon DEF Holding
    <2>2. CASE k \in DOMAIN pending
      BY <2>2 DEF SegmentsInv
    <2>3. CASE k \notin DOMAIN pending
      BY <2>1, <2>3 DEF Fresh
    <2> QED BY <2>2, <2>3
  <1> DEFINE b == a.segs
  <1>3. PICK segs : segs = FoldLeft(Keep, b, crypto)
    OBVIOUS
  <1>4. segs \in Holding
    <2> HIDE DEF b
    <2>1. b \in Holding
      BY <1>2 DEF b
    <2> QED BY <1>3, <2>1, FramesHold
  <1>5. With(k, crypto, first) =
          [a EXCEPT !.segs = segs, !.datagrams = IF first THEN a.datagrams + 1 ELSE a.datagrams]
    BY <1>3, Zenon DEF With
  <1> HIDE DEF a
  <1> QED BY <1>1, <1>4, <1>5 DEF AttemptFields

\* Every step keeps the attempts within their budgets.
LEMMA SegmentsSteps ==
    ASSUME AccountKept, SegmentsInv, [Next]_udpVars
    PROVE  SegmentsInv'
  <1>t. TablesInv /\ \A k \in DOMAIN pending : pending[k].segs \in Holding
    BY DEF AccountKept, SegmentsInv
  <1>1. CASE UNCHANGED pending
    BY <1>1, <1>t DEF SegmentsInv
  <1>2. CASE \E k, first : \E crypto \in Seq(Segment) : Gathers(k, crypto, first) \/ Completes(k, crypto, first)
    <2>1. PICK k, first : \E crypto \in Seq(Segment) : Gathers(k, crypto, first) \/ Completes(k, crypto, first)
      BY <1>2
    <2>2. PICK crypto \in Seq(Segment) : Gathers(k, crypto, first) \/ Completes(k, crypto, first)
      BY <2>1
    <2>3. CASE Gathers(k, crypto, first)
      <3>1. /\ DOMAIN pending' = DOMAIN pending \cup {k} /\ pending'[k] = With(k, crypto, first)
            /\ \A x \in DOMAIN pending : x # k => pending'[x] = pending[x]
        BY <1>t, <2>3, GathersDomains, Zenon
      <3>2. pending'[k].segs \in Holding
        <4>1. With(k, crypto, first).segs \in Holding
          BY <1>t, WithHolds
        <4> QED BY <3>1, <4>1
      <3> QED BY <1>t, <3>1, <3>2 DEF SegmentsInv
    <2>4. CASE Completes(k, crypto, first)
      <3>1. DOMAIN pending' = DOMAIN pending \ {k} /\ \A x \in DOMAIN pending \ {k} : pending'[x] = pending[x]
        BY <2>4, CompletesDomains, Zenon
      <3> QED BY <1>t, <3>1 DEF SegmentsInv
    <2> QED BY <2>2, <2>3, <2>4
  <1>3. CASE Expire \/ Flush
    <2>1. PICK late \in SUBSET DOMAIN pending, old \in SUBSET DOMAIN completed : ExpireOf(late, old)
      BY <1>3, ExpireSplits
    <2>2. DOMAIN pending' = DOMAIN pending \ late /\ \A k \in DOMAIN pending \ late : pending'[k] = pending[k]
      BY <2>1, ExpireDomains
    <2> QED BY <1>t, <2>2 DEF SegmentsInv
  <1>4. CASE AsmTick
    <2>1. DOMAIN pending' = DOMAIN pending
      BY <1>t, <1>4, TickDomains
    <2>2. ASSUME NEW k \in DOMAIN pending PROVE pending'[k].segs \in Holding
      <3>1. PICK v : v = Older(pending[k].age, PendingTTL)
        OBVIOUS
      <3>2. pending'[k] = [pending[k] EXCEPT !.age = v]
        BY <1>4, <3>1 DEF AsmTick
      <3>3. DOMAIN pending[k] = AttemptFields
        BY <1>t DEF TablesInv
      <3>4. pending'[k].segs = pending[k].segs
        BY <3>2, <3>3 DEF AttemptFields
      <3> QED BY <1>t, <3>4
    <2> QED BY <2>1, <2>2 DEF SegmentsInv
  <1> QED BY <1>1, <1>2, <1>3, <1>4, AssemblerAdds

\* For any traffic, tables, attempts and segments stay within their limits, and the
\* stream that the code joins is the longest prefix that the stored segments cover
\* (assemble.go:9-19, 130-150).
THEOREM AssemblerIsSound == Spec => []AssemblerSound
  <1>1. Init => SegmentsInv
    BY DEF Init, AsmInit, NoKey, SegmentsInv
  <1>2. AccountKept /\ SegmentsInv /\ [Next]_udpVars => SegmentsInv'
    BY SegmentsSteps
  <1>3. AccountKept /\ SegmentsInv => AssemblerSound
    <2> SUFFICES ASSUME TablesInv, SegmentsInv PROVE AssemblerSound
      BY DEF AccountKept
    <2>1. TablesSound
      BY DEF TablesInv
    <2>2. ASSUME NEW k \in DOMAIN pending
          PROVE  LET segs == pending[k].segs
                     n == Contiguous(segs)
                 IN  /\ Stored(segs) <= MaxCryptoBytes /\ Cardinality(DOMAIN segs) <= MaxSegments
                     /\ 0..(n - 1) \subseteq Covered(segs) /\ n \notin Covered(segs)
      <3> DEFINE segs == pending[k].segs
                 D == DOMAIN segs
      <3>0. MaxCryptoBytes \in Nat
        BY AssemblerAssumption
      <3>1. segs \in Holding
        BY DEF SegmentsInv
      <3> HIDE DEF segs
      <3>2. /\ D \in SUBSET (0..(MaxCryptoBytes - 1)) /\ segs \in [D -> 1..MaxCryptoBytes]
            /\ Stored(segs) <= MaxCryptoBytes /\ Cardinality(D) <= MaxSegments
        BY <3>1 DEF Holding
      <3>3. D \in SUBSET Nat /\ IsFiniteSet(D)
        <4>1. IsFiniteSet(0..(MaxCryptoBytes - 1))
          BY <3>0, FS_Interval
        <4>2. IsFiniteSet(D)
          BY <3>2, <4>1, FS_Subset
        <4>3. 0..(MaxCryptoBytes - 1) \subseteq Nat
          BY <3>0
        <4> QED BY <3>2, <4>2, <4>3
      <3>4. segs \in [D -> Nat \ {0}]
        BY <3>0, <3>2
      <3>5. LET n == Contiguous(segs)
            IN  n \in Nat /\ 0..(n - 1) \subseteq Covered(segs) /\ n \notin Covered(segs)
        BY <3>3, <3>4, ContiguousIs
      <3> QED BY <3>2, <3>5 DEF segs
    <2> QED BY <2>1, <2>2 DEF AssemblerSound
  <1> QED BY <1>1, <1>2, <1>3, AccountHolds, PTL DEF Spec
=============================================================================
