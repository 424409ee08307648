--------------------------- MODULE ShipperProofs ---------------------------
(***************************************************************************)
(* Proofs about Shipper: with two goroutines calling the spool, posts that *)
(* end in any way, failed writes, crashes and restarts, no record is lost  *)
(* silently, no batch waits without a waker, and the spool still           *)
(* implements the durable queue.  For every size of channel, batch and     *)
(* memory queue and every combination of faults.  Then, each under the     *)
(* conditions its theorem names: nothing is sent twice, only what is too   *)
(* large is given up, and Loom receives the records in the order they were *)
(* logged.                                                                 *)
(***************************************************************************)
EXTENDS Shipper, SpoolProofs

----------------------------------------------------------------------------
(* The spool under the shipper's calls. *)

\* store calls Put with records that were never in the spool (shipper.go:266-277).
LEMMA PutCallInv ==
    ASSUME SpoolInv, NEW b \in Seq(Records), PutCall(b),
           UNCHANGED <<up, clock, files, total, seq, hand, directory, history>>,
           Range(b) \subseteq 1..made, Range(b) \cap Known = {}
    PROVE  SpoolInv' /\ Known' = Known /\ DQStep
  <1>1. Quiet /\ UNCHANGED <<up, clock, files, seq, hand, made, bad, temps>>
    BY DEF Quiet, directory, history
  <1>2. Held' = Held /\ Known' = Known /\ DQStep
    BY <1>1, QuietStep
  <1>3. up /\ op' = Begin("put", "expire", NoName, b)
    BY DEF PutCall
  <1>4. op' \in Call /\ op'.pc = "expire" /\ op'.call = "put" /\ op'.docs = b
    BY <1>3 DEF Begin, Call
  <1>5. TypeOK'
    BY <1>1, <1>4 DEF SpoolInv, TypeOK, Quiet
  <1>6. CallShape' /\ SplitProgress' /\ ~PutNamed'
    BY <1>4 DEF CallShape, SplitProgress, PutNamed
  <1>7. RecordsKnown'
    BY <1>1, <1>2, <1>4 DEF SpoolInv, RecordsKnown, DocsOf, Quiet
  <1>8. NamesFresh' /\ PartsMatch' /\ HandBacked' /\ IndexWritten'
    BY <1>1, <1>6 DEF SpoolInv, NamesFresh, PartsMatch, HandBacked, IndexWritten, Quiet
  <1> QED BY <1>1, <1>2, <1>3, <1>5, <1>6, <1>7, <1>8 DEF SpoolInv

\* The sender takes a batch of the memory queue in hand, or puts it down.
LEMMA HandInv ==
    ASSUME SpoolInv, UNCHANGED <<up, clock, files, total, seq, op, directory, history>>,
           op.call # "split",
           hand' \in [name : Name \cup {NoName}, docs : Seq(Records)], hand'.name = NoName,
           ~up => hand' = NoBatch
    PROVE  SpoolInv' /\ Known' = Known /\ DQStep
  <1>1. Quiet /\ UNCHANGED <<up, clock, files, seq, op, made, bad, temps>>
    BY DEF Quiet, directory, history
  <1>2. Held' = Held /\ Known' = Known /\ DQStep
    BY <1>1, QuietStep
  <1>3. TypeOK'
    BY <1>1 DEF SpoolInv, TypeOK, Quiet
  <1>4. CallShape' /\ SplitProgress' /\ HandBacked'
    BY <1>1 DEF SpoolInv, CallShape, SplitProgress, HandBacked
  <1>5. RecordsKnown'
    BY <1>1, <1>2 DEF SpoolInv, RecordsKnown, PutPending, DocsOf, Quiet
  <1>6. NamesFresh' /\ PartsMatch' /\ IndexWritten'
    BY <1>1 DEF SpoolInv, NamesFresh, PutNamed, PartsMatch, IndexWritten, Quiet
  <1> QED BY <1>1, <1>2, <1>3, <1>4, <1>5, <1>6 DEF SpoolInv

\* A record is logged.
LEMMA LogInv ==
    ASSUME SpoolInv, made' = made + 1,
           UNCHANGED <<up, clock, memory, directory, taken, dropped>>
    PROVE  SpoolInv' /\ Known' = Known /\ DQStep
  <1>1. Quiet /\ UNCHANGED <<up, clock, files, seq, op, hand, bad, temps>>
    BY DEF Quiet, memory, directory
  <1>2. Held' = Held /\ Known' = Known /\ DQStep
    BY <1>1, QuietStep
  <1>3. made \in Nat
    BY DEF SpoolInv, TypeOK
  <1>4. made' \in Nat /\ 1..made \subseteq 1..made'
    BY <1>3
  <1>5. TypeOK'
    BY <1>1, <1>4 DEF SpoolInv, TypeOK, Quiet
  <1>6. CallShape' /\ SplitProgress' /\ HandBacked'
    BY <1>1 DEF SpoolInv, CallShape, SplitProgress, HandBacked, Quiet
  <1>7. RecordsKnown'
    BY <1>1, <1>2, <1>4 DEF SpoolInv, RecordsKnown, PutPending, DocsOf, Quiet
  <1>8. NamesFresh' /\ PartsMatch' /\ IndexWritten'
    BY <1>1 DEF SpoolInv, NamesFresh, PutNamed, PartsMatch, IndexWritten, Quiet
  <1> QED BY <1>1, <1>2, <1>5, <1>6, <1>7, <1>8 DEF SpoolInv

\* A process starts without a spool: the files of earlier ones stay where they are.
LEMMA StartNoSpoolInv ==
    ASSUME SpoolInv, StartNoSpool
    PROVE  SpoolInv' /\ Known' = Known /\ DQStep
  <1>1. Quiet /\ UNCHANGED <<files, seq, op, hand, made, bad, temps>>
    BY DEF StartNoSpool, Quiet, memory, directory, history
  <1>2. up' = TRUE /\ ~up /\ op = Idle /\ hand = NoBatch
    BY DEF StartNoSpool, SpoolInv
  <1>3. PICK c \in Times : Reading(c) /\ clock' = c
    BY DEF StartNoSpool
  <1>4. Held' = Held /\ Known' = Known /\ DQStep
    BY <1>1, QuietStep
  <1>5. TypeOK'
    BY <1>1, <1>2, <1>3 DEF SpoolInv, TypeOK, Quiet
  <1>6. CallShape' /\ SplitProgress' /\ HandBacked' /\ ~PutPending' /\ ~PutNamed'
    <2>1. op'.pc = "idle" /\ op'.call = "none" /\ hand'.name = NoName
      BY <1>1, <1>2, IdleCall DEF NoBatch
    <2> QED BY <2>1 DEF CallShape, SplitProgress, HandBacked, PutPending, PutNamed
  <1>7. RecordsKnown' /\ PartsMatch' /\ IndexWritten'
    BY <1>1, <1>4, <1>6 DEF SpoolInv, RecordsKnown, PartsMatch, IndexWritten, DocsOf, Quiet
  <1>8. NamesFresh'
    BY <1>1, <1>3, <1>6 DEF NamesFresh, Quiet, Reading, Unwritten
  <1> QED BY <1>2, <1>4, <1>5, <1>6, <1>7, <1>8 DEF SpoolInv

----------------------------------------------------------------------------
(* The memory queue. *)

MemType == mem \in Seq(Seq(Records))

\* What a Put keeps and what it drops are all the batches there were
\* (shipper.go:463-475).
LEMMA MemPutKeeps ==
    ASSUME MemType, NEW b \in Seq(Records), MemPut(b)
    PROVE  /\ MemType'
           /\ InMem \cup Range(b) \subseteq InMem' \cup memDropped'
           /\ memDropped \subseteq memDropped'
  <1> DEFINE s == Append(mem, b)
  <1>1. PICK k \in 1..Len(s) :
           /\ mem' = SubSeq(s, k, Len(s))
           /\ memDropped' = memDropped \cup UNION {Range(s[i]) : i \in 1..(k - 1)}
    BY Zenon DEF MemPut
  <1>2. s \in Seq(Seq(Records)) /\ Len(s) = Len(mem) + 1 /\ Len(mem) \in Nat
    BY DEF MemType
  <1>3. s[Len(s)] = b /\ \A i \in 1..Len(mem) : s[i] = mem[i]
    BY DEF MemType
  <1>4. DOMAIN mem = 1..Len(mem)
    BY DEF MemType
  <1> HIDE DEF s
  <1>5. MemType' /\ DOMAIN mem' = 1..(Len(s) - k + 1)
    BY <1>1, <1>2 DEF MemType
  <1>6. \A i \in k..Len(s) : i - k + 1 \in DOMAIN mem' /\ mem'[i - k + 1] = s[i]
    <2>1. Len(s) \in Nat /\ k \in Nat /\ k >= 1
      BY <1>2
    <2>2. \A j \in 1..(Len(s) - k + 1) : mem'[j] = s[k + j - 1]
      BY <1>1, <1>2, <2>1
    <2> SUFFICES ASSUME NEW i \in k..Len(s)
                 PROVE  i - k + 1 \in DOMAIN mem' /\ mem'[i - k + 1] = s[i]
      OBVIOUS
    <2>3. i - k + 1 \in 1..(Len(s) - k + 1) /\ k + (i - k + 1) - 1 = i
      BY <2>1
    <2> QED BY <1>5, <2>2, <2>3
  <1>7. ASSUME NEW i \in 1..Len(s)
        PROVE  Range(s[i]) \subseteq InMem' \cup memDropped'
    <2>1. CASE i >= k
      <3>1. i - k + 1 \in DOMAIN mem' /\ mem'[i - k + 1] = s[i]
        BY <1>2, <1>6, <2>1
      <3> QED BY <3>1 DEF InMem
    <2>2. CASE i < k
      <3>1. i \in 1..(k - 1)
        BY <1>2, <2>2
      <3> QED BY <1>1, <3>1
    <2> QED BY <1>2, <2>1, <2>2
  <1>8. InMem \subseteq InMem' \cup memDropped'
    <2> SUFFICES ASSUME NEW i \in DOMAIN mem PROVE Range(mem[i]) \subseteq InMem' \cup memDropped'
      BY DEF InMem
    <2>1. i \in 1..Len(s) /\ s[i] = mem[i]
      BY <1>2, <1>3, <1>4
    <2> QED BY <1>7, <2>1
  <1>9. Range(b) \subseteq InMem' \cup memDropped'
    <2>1. Len(s) \in 1..Len(s)
      BY <1>2
    <2> QED BY <1>3, <1>7, <2>1
  <1> QED BY <1>1, <1>5, <1>8, <1>9

\* Where the elements of two sequences are in their concatenation.
LEMMA ConcatElements ==
    ASSUME NEW S, NEW x \in Seq(S), NEW y \in Seq(S)
    PROVE  /\ x \o y \in Seq(S) /\ Len(x \o y) = Len(x) + Len(y)
           /\ \A j \in 1..Len(x) : (x \o y)[j] = x[j]
           /\ \A j \in 1..Len(y) : (x \o y)[Len(x) + j] = y[j]
  <1>1. x \o y \in Seq(S)
    OBVIOUS
  <1>2. Len(x \o y) = Len(x) + Len(y)
    OBVIOUS
  <1>3. \A j \in 1..Len(x) : (x \o y)[j] = x[j]
    OBVIOUS
  <1>4. \A j \in 1..Len(y) : (x \o y)[Len(x) + j] = y[j]
    OBVIOUS
  <1> QED BY <1>1, <1>2, <1>3, <1>4

\* Where the elements of a sequence are after one of them was replaced by m.
Spliced(s, m, i) == SubSeq(s, 1, i - 1) \o m \o SubSeq(s, i + 1, Len(s))

\* What is in a sequence stays in it when its i-th element makes way for others.
LEMMA SpliceElements ==
    ASSUME NEW S, NEW s \in Seq(S), NEW m \in Seq(S), NEW i \in 1..Len(s)
    PROVE  /\ Spliced(s, m, i) \in Seq(S)
           /\ \A j \in 1..Len(s) : j # i => s[j] \in Range(Spliced(s, m, i))
           /\ \A j \in 1..Len(m) : m[j] \in Range(Spliced(s, m, i))
  <1>1. Len(s) \in Nat /\ Len(m) \in Nat /\ i - 1 \in 0..Len(s)
    OBVIOUS
  <1>2. PICK a \in Seq(S) : /\ a = SubSeq(s, 1, i - 1) /\ Len(a) = i - 1
                            /\ \A j \in 1..(i - 1) : a[j] = s[j]
    <2>1. SubSeq(s, 1, i - 1) \in Seq(S)
      OBVIOUS
    <2>2. Len(SubSeq(s, 1, i - 1)) = i - 1
      BY <1>1
    <2>3. \A j \in 1..(i - 1) : SubSeq(s, 1, i - 1)[j] = s[j]
      BY <1>1
    <2> QED BY <2>1, <2>2, <2>3
  <1>3. PICK c \in Seq(S) : /\ c = SubSeq(s, i + 1, Len(s)) /\ Len(c) = Len(s) - i
                            /\ \A j \in 1..(Len(s) - i) : c[j] = s[i + j]
    <2>1. SubSeq(s, i + 1, Len(s)) \in Seq(S)
      OBVIOUS
    <2>2. Len(SubSeq(s, i + 1, Len(s))) = Len(s) - i
      BY <1>1
    <2>3. \A j \in 1..(Len(s) - i) : SubSeq(s, i + 1, Len(s))[j] = s[i + j]
      BY <1>1
    <2> QED BY <2>1, <2>2, <2>3
  <1>4. PICK u \in Seq(S) : /\ u = a \o m /\ Len(u) = i - 1 + Len(m)
                            /\ \A j \in 1..(i - 1) : u[j] = a[j]
                            /\ \A j \in 1..Len(m) : u[i - 1 + j] = m[j]
    <2>1. PICK u : u = a \o m
      OBVIOUS
    <2>2. /\ u \in Seq(S) /\ Len(u) = Len(a) + Len(m)
          /\ \A j \in 1..Len(a) : u[j] = a[j]
          /\ \A j \in 1..Len(m) : u[Len(a) + j] = m[j]
      BY <2>1, ConcatElements
    <2>3. \A j \in 1..(i - 1) : u[j] = a[j]
      BY <1>2, <2>2
    <2>4. \A j \in 1..Len(m) : u[i - 1 + j] = m[j]
      BY <1>2, <2>2
    <2>5. Len(u) = i - 1 + Len(m)
      BY <1>2, <2>2
    <2> QED BY <2>1, <2>2, <2>3, <2>4, <2>5
  <1>5. PICK t \in Seq(S) : /\ t = u \o c /\ Len(t) = Len(u) + Len(c)
                            /\ \A j \in 1..Len(u) : t[j] = u[j]
                            /\ \A j \in 1..Len(c) : t[Len(u) + j] = c[j]
    <2>1. PICK t : t = u \o c
      OBVIOUS
    <2>2. /\ t \in Seq(S) /\ Len(t) = Len(u) + Len(c)
          /\ \A j \in 1..Len(u) : t[j] = u[j]
          /\ \A j \in 1..Len(c) : t[Len(u) + j] = c[j]
      BY <2>1, ConcatElements
    <2> QED BY <2>1, <2>2
  <1>6. DOMAIN t = 1..(Len(u) + Len(c)) /\ Len(u) \in Nat /\ Len(c) \in Nat
    BY <1>5
  <1>7. ASSUME NEW j \in 1..(i - 1) PROVE j \in DOMAIN t /\ t[j] = s[j]
    <2>1. j \in 1..Len(u)
      BY <1>1, <1>4
    <2> QED BY <1>2, <1>4, <1>5, <1>6, <2>1
  <1>8. ASSUME NEW j \in 1..Len(m) PROVE i - 1 + j \in DOMAIN t /\ t[i - 1 + j] = m[j]
    <2>1. i - 1 + j \in 1..Len(u)
      BY <1>1, <1>4
    <2>2. u[i - 1 + j] = m[j]
      BY <1>4
    <2>3. t[i - 1 + j] = u[i - 1 + j]
      BY <1>5, <2>1
    <2>4. i - 1 + j \in DOMAIN t
      BY <1>6, <2>1
    <2> QED BY <2>2, <2>3, <2>4
  <1>9. ASSUME NEW j \in (i + 1)..Len(s)
        PROVE  Len(u) + (j - i) \in DOMAIN t /\ t[Len(u) + (j - i)] = s[j]
    <2>1. j - i \in 1..(Len(s) - i) /\ i + (j - i) = j
      BY <1>1
    <2>2. c[j - i] = s[j]
      BY <1>3, <2>1
    <2>3. j - i \in 1..Len(c)
      BY <1>3, <2>1
    <2> QED BY <1>5, <1>6, <2>2, <2>3
  <1>10. ASSUME NEW j \in 1..Len(s), j # i PROVE \E x \in DOMAIN t : t[x] = s[j]
    <2>1. j \in 1..(i - 1) \/ j \in (i + 1)..Len(s)
      BY <1>1, <1>10
    <2> QED BY <1>7, <1>9, <2>1
  <1>11. t = Spliced(s, m, i)
    BY <1>2, <1>3, <1>4, <1>5, Zenon DEF Spliced
  <1>12. /\ \A j \in 1..Len(s) : j # i => s[j] \in Range(t)
         /\ \A j \in 1..Len(m) : m[j] \in Range(t)
    BY <1>8, <1>10 DEF Range
  <1> QED BY <1>11, <1>12, Zenon

\* Replacing one batch of the queue by others leaves the rest.
LEMMA MemSplice ==
    ASSUME MemType, NEW i \in DOMAIN mem, NEW m \in Seq(Seq(Records)),
           mem' = SubSeq(mem, 1, i - 1) \o m \o SubSeq(mem, i + 1, Len(mem))
    PROVE  /\ MemType'
           /\ InMem \subseteq InMem' \cup Range(mem[i])
           /\ \A j \in 1..Len(m) : Range(m[j]) \subseteq InMem'
  <1>1. DOMAIN mem = 1..Len(mem) /\ mem \in Seq(Seq(Records)) /\ i \in 1..Len(mem)
    BY SMTT(30) DEF MemType
  <1>a. mem' = Spliced(mem, m, i)
    BY Zenon DEF Spliced
  <1>b. /\ Spliced(mem, m, i) \in Seq(Seq(Records))
        /\ \A j \in 1..Len(mem) : j # i => mem[j] \in Range(Spliced(mem, m, i))
        /\ \A j \in 1..Len(m) : m[j] \in Range(Spliced(mem, m, i))
    BY <1>1, SpliceElements, Zenon
  <1>2. /\ mem' \in Seq(Seq(Records))
        /\ \A j \in 1..Len(mem) : j # i => mem[j] \in Range(mem')
        /\ \A j \in 1..Len(m) : m[j] \in Range(mem')
    BY <1>a, <1>b, Zenon
  <1>c. ASSUME NEW b \in Range(mem') PROVE Range(b) \subseteq InMem'
    <2>1. PICK x \in DOMAIN mem' : b = mem'[x]
      BY DEF Range
    <2> QED BY <2>1 DEF InMem
  <1>3. InMem \subseteq InMem' \cup Range(mem[i])
    <2> SUFFICES ASSUME NEW j \in DOMAIN mem
                 PROVE  Range(mem[j]) \subseteq InMem' \cup Range(mem[i])
      BY Zenon DEF InMem
    <2>1. j = i \/ mem[j] \in Range(mem')
      BY <1>1, <1>2, Zenon
    <2> QED BY <1>c, <2>1, Zenon
  <1>4. \A j \in 1..Len(m) : Range(m[j]) \subseteq InMem'
    BY <1>2, <1>c, Zenon
  <1> QED BY <1>2, <1>3, <1>4 DEF MemType

\* Remove takes the batch it is given and no other (shipper.go:487-498).
LEMMA MemRemoveKeeps ==
    ASSUME MemType, NEW b, MemRemove(b)
    PROVE  MemType' /\ InMem \subseteq InMem' \cup Range(b)
  <1>1. CASE mem' = mem
    BY <1>1 DEF MemType, InMem
  <1>2. ASSUME NEW i \in DOMAIN mem, mem[i] = b, mem' = Without(mem, i)
        PROVE  MemType' /\ InMem \subseteq InMem' \cup Range(b)
    <2>1. <<>> \in Seq(Seq(Records))
      OBVIOUS
    <2>2. mem' = SubSeq(mem, 1, i - 1) \o <<>> \o SubSeq(mem, i + 1, Len(mem))
      BY <1>2 DEF MemType, Without
    <2> QED BY <1>2, <2>1, <2>2, MemSplice
  <1> QED BY <1>1, <1>2, Zenon DEF MemRemove

\* Split puts the two halves of the batch where it was (shipper.go:500-523).
LEMMA MemSplitKeeps ==
    ASSUME MemType, NEW b \in Seq(Records), MemSplit(b)
    PROVE  MemType' /\ InMem \subseteq InMem'
  <1>1. CASE mem' = mem
    BY <1>1 DEF MemType, InMem
  <1>2. ASSUME NEW i \in DOMAIN mem, mem[i] = b,
               mem' = SubSeq(mem, 1, i - 1) \o <<Half(b, 0), Half(b, 1)>>
                        \o SubSeq(mem, i + 1, Len(mem))
        PROVE  MemType' /\ InMem \subseteq InMem'
    <2>1. PICK p, q : p = Half(b, 0) /\ q = Half(b, 1)
      OBVIOUS
    <2>2. p \in Seq(Records) /\ q \in Seq(Records) /\ Range(b) \subseteq Range(p) \cup Range(q)
      BY <2>1, HalfDocs, HalvesCover
    <2>3. /\ <<p, q>> \in Seq(Seq(Records)) /\ Len(<<p, q>>) = 2
          /\ <<p, q>>[1] = p /\ <<p, q>>[2] = q
      BY <2>2
    <2>4. mem' = SubSeq(mem, 1, i - 1) \o <<p, q>> \o SubSeq(mem, i + 1, Len(mem))
      BY <1>2, <2>1
    <2>5. /\ MemType' /\ InMem \subseteq InMem' \cup Range(mem[i])
          /\ \A j \in 1..Len(<<p, q>>) : Range(<<p, q>>[j]) \subseteq InMem'
      BY <2>3, <2>4, MemSplice
    <2>6. Range(p) \subseteq InMem' /\ Range(q) \subseteq InMem'
      BY <2>3, <2>5
    <2> QED BY <1>2, <2>2, <2>5, <2>6
  <1> QED BY <1>1, <1>2, Zenon DEF MemSplit

----------------------------------------------------------------------------
(* The spool's invariant in the composition. *)

\* Steps that leave the spool alone.
Apart ==
    \/ IdleTick \/ Receive \/ Flush \/ BatcherEnds \/ StoreNoSpool
    \/ TakeKick \/ RetryFires \/ SeesStop \/ SkipSpool \/ Drained \/ SplitRefused
    \/ Loom \/ Shutdown \/ CloseStop \/ LastDrain \/ UNCHANGED vars

\* The steps of the shipper that make no call leave the spool alone.
LEMMA ApartSteps == Apart => UNCHANGED spoolVars
  BY Zenon DEF Apart, IdleTick, Receive, Flush, BatcherEnds, StoreNoSpool, TakeKick, RetryFires,
     SeesStop, SkipSpool, Drained, SplitRefused, Loom, PostAccepted, PostReplyLost, PostFails,
     PostRejected, PostTooLarge, Shutdown, CloseStop, LastDrain, vars

\* The disjuncts of Next by the lemma about the spool that applies to them.
LEMMA StepKinds ==
    ASSUME [Next]_vars
    PROVE  \/ Apart \/ Log \/ StorePut \/ StoreOk \/ StoreFallback
           \/ SpoolHas \/ SpoolEmpty \/ MemHas \/ SplitMem \/ SplitOk \/ SplitError
           \/ AskSpool \/ Apply \/ SplitSpool
           \/ InsideSpool \/ Surroundings \/ Exit \/ Dies \/ Start \/ StartNoSpool
  BY Zenon DEF Next, Apart, Batcher, Sender, Locks, Loom, Main

\* A rename by Put under the composition.
Lands == RenamePut /\ UNCHANGED shipperVars

\* Whatever the two goroutines, Loom and main do, the spool keeps its invariant and
\* its promise, and gains records by a Put only.
LEMMA SpoolSteps ==
    ASSUME ShipperInv, [Next]_vars
    PROVE  /\ SpoolInv' /\ DQStep
           /\ Known' = Known \/ (Lands /\ Known' = Known \cup Range(op.docs))
  <1>0. SpoolInv /\ PipeShape /\ UpstreamNew
    BY DEF ShipperInv
  <1>1. CASE Apart
    BY <1>0, <1>1, ApartSteps, StutterInv, Zenon
  <1>2. CASE Log
    <2>1. made' = made + 1 /\ UNCHANGED <<up, clock, memory, directory, taken, dropped>>
      BY <1>2, Zenon DEF Log
    <2> QED BY <1>0, <2>1, LogInv, Zenon
  <1>3. CASE StorePut
    <2>1. /\ PutCall(docs) /\ UNCHANGED <<up, clock, files, total, seq, hand, directory, history>>
          /\ batcher = "flush"
      BY <1>3, Zenon DEF StorePut
    <2>2. docs \in Seq(Records) /\ op.call # "put"
      BY <1>0, <2>1 DEF PipeShape
    <2>3. Range(docs) \subseteq 1..made /\ Range(docs) \cap Known = {}
      BY <1>0, <2>2 DEF UpstreamNew, Upstream, Landed
    <2> QED BY <1>0, <2>1, <2>2, <2>3, PutCallInv, Zenon
  <1>4. CASE StoreOk \/ StoreFallback \/ SpoolEmpty
    <2>1. PutLowDisk \/ PutFailed \/ PutDone \/ OldestEmpty
      BY <1>4, Zenon DEF StoreOk, StoreFallback, SpoolEmpty
    <2> QED BY <1>0, <2>1, ReturnsInv, Zenon
  <1>5. CASE SpoolHas \/ AskSpool \/ SplitSpool \/ SplitOk \/ SplitError
    <2>1. OldestFound \/ Oldest \/ Split \/ SplitVanished \/ SplitDone \/ SplitFailed
      BY <1>5, Zenon DEF SpoolHas, AskSpool, SplitSpool, SplitOk, SplitError
    <2> QED BY <1>0, <2>1, OldestFoundInv, OldestInv, SplitInv, SplitVanishedInv, SplitDoneInv,
               SplitFailedInv, Zenon
  <1>6. CASE MemHas \/ SplitMem \/ Apply
    <2>1. CASE Remove
      BY <1>0, <2>1, RemoveInv, Zenon
    <2>2. CASE ~Remove
      <3>1. /\ UNCHANGED <<up, clock, files, total, seq, op, directory, history>> /\ up
            /\ sender \in {"mem", "split", "apply"}
            /\ \/ mem # <<>> /\ hand' = [name |-> NoName, docs |-> Head(mem)]
               \/ hand' = NoBatch
        BY <1>6, <2>2, Zenon DEF MemHas, SplitMem, Apply
      <3>2. op.call # "split"
        BY <1>0, <3>1 DEF PipeShape
      <3>3. <<>> \in Seq(Records) /\ (mem # <<>> => Head(mem) \in Seq(Records))
        BY <1>0 DEF PipeShape
      <3>4. /\ hand' \in [name : Name \cup {NoName}, docs : Seq(Records)]
            /\ hand'.name = NoName
        <4>1. PICK d \in Seq(Records) : hand' = [name |-> NoName, docs |-> d]
          BY <3>1, <3>3, Zenon DEF NoBatch
        <4> QED BY <4>1
      <3> QED BY <1>0, <3>1, <3>2, <3>4, HandInv, Zenon
    <2> QED BY <2>1, <2>2
  <1>7. CASE InsideSpool
    <2>1. CASE RenamePut
      <3>1. Lands
        BY <1>7, <2>1, Zenon DEF InsideSpool, Lands
      <3> QED BY <1>0, <2>1, <3>1, RenamePutInv, Zenon
    <2>2. CASE ~RenamePut
      <3>1. \/ Expire \/ SampleRoom \/ MakeRoom \/ NameBatch \/ WriteTemp
            \/ Enforce \/ SkipCorrupt \/ RenameHalf
        BY <1>7, <2>2, Zenon DEF InsideSpool
      <3> QED BY <1>0, <3>1, DropsInv, SampleRoomInv, NameBatchInv, WriteTempInv, RenameHalfInv, Zenon
    <2> QED BY <2>1, <2>2
  <1>8. CASE Surroundings \/ Exit \/ Dies \/ Start
    <2>1. Tick \/ Damage \/ ProcessEnds \/ OpenSpool
      BY <1>8, Zenon DEF Surroundings, Exit, Dies, Crash, Start
    <2> QED BY <1>0, <2>1, TickInv, DamageInv, CrashInv, OpenSpoolInv, Zenon
  <1>9. CASE StartNoSpool
    BY <1>0, <1>9, StartNoSpoolInv, Zenon
  <1> QED BY <1>1, <1>2, <1>3, <1>4, <1>5, <1>6, <1>7, <1>8, <1>9, StepKinds, Zenon

----------------------------------------------------------------------------
(* Who holds the spool's mutex. *)

\* A step inside a call goes on with the same call.
LEMMA InsideCalls ==
    ASSUME SpoolInv, InsideSpool
    PROVE  /\ op'.call = op.call /\ op'.docs = op.docs /\ op.call # "none"
           /\ UNCHANGED <<up, hand, made, taken>> /\ up
           /\ ~RenamePut => (op'.pc = "enforce" <=> op.pc = "enforce")
           /\ UNCHANGED shipperVars
  <1>1. op \in Call /\ CallShape
    BY DEF SpoolInv, TypeOK
  <1>2. CASE Expire \/ Enforce \/ SkipCorrupt
    BY <1>1, <1>2 DEF InsideSpool, Expire, Enforce, SkipCorrupt, CallShape, NoneExpired
  <1>3. CASE MakeRoom
    <2>1. PICK r : op' = [op EXCEPT !.room = r]
      BY <1>3, Zenon DEF MakeRoom
    <2>2. op'.call = op.call /\ op'.docs = op.docs /\ op'.pc = op.pc
      BY <1>1, <2>1 DEF Call
    <2>3. op.pc = "room" /\ UNCHANGED <<up, hand, made, taken>> /\ up
      BY <1>3 DEF MakeRoom, ShortOfRoom
    <2> QED BY <1>1, <2>2, <2>3 DEF InsideSpool, CallShape
  <1>4. CASE SampleRoom
    <2>1. PICK r \in Rooms : op' = [op EXCEPT !.pc = "room", !.room = r]
      BY <1>4 DEF SampleRoom
    <2>2. op'.call = op.call /\ op'.docs = op.docs /\ op'.pc = "room"
      BY <1>1, <2>1 DEF Call
    <2>3. op.pc = "expire" /\ op.call = "put" /\ UNCHANGED <<up, hand, made, taken>> /\ up
      BY <1>4 DEF SampleRoom, NoneExpired, history
    <2> QED BY <2>2, <2>3 DEF InsideSpool
  <1>5. CASE NameBatch
    <2>1. PICK n : op' = [op EXCEPT !.pc = "write", !.name = n]
      BY <1>5, Zenon DEF NameBatch
    <2>2. op'.call = op.call /\ op'.docs = op.docs /\ op'.pc = "write"
      BY <1>1, <2>1 DEF Call
    <2>3. op.pc = "room" /\ UNCHANGED <<up, hand, made, taken>> /\ up
      BY <1>5 DEF NameBatch, history
    <2> QED BY <1>1, <2>2, <2>3 DEF InsideSpool, CallShape
  <1>6. CASE WriteTemp
    <2>1. op' = [op EXCEPT !.pc = "rename"]
      BY <1>6 DEF WriteTemp, Goto
    <2>2. op'.call = op.call /\ op'.docs = op.docs /\ op'.pc = "rename"
      BY <1>1, <2>1 DEF Call
    <2>3. op.pc = "write" /\ UNCHANGED <<up, hand, made, taken>> /\ up
      BY <1>6 DEF WriteTemp, history
    <2> QED BY <1>1, <2>2, <2>3 DEF InsideSpool, CallShape
  <1>7. CASE RenamePut
    <2>1. op' = [op EXCEPT !.pc = "enforce"]
      BY <1>7 DEF RenamePut, Goto
    <2>2. op'.call = op.call /\ op'.docs = op.docs
      BY <1>1, <2>1 DEF Call
    <2>3. op.call = "put" /\ UNCHANGED <<up, hand, made, taken>> /\ up
      BY <1>7 DEF RenamePut, Land, history
    <2> QED BY <1>7, <2>2, <2>3 DEF InsideSpool
  <1>8. CASE RenameHalf
    <2>1. \/ op' = [op EXCEPT !.pc = "write", !.half = 1]
          \/ op' = [op EXCEPT !.pc = "swap"]
      BY <1>8, Zenon DEF RenameHalf
    <2>2. op'.call = op.call /\ op'.docs = op.docs /\ op'.pc \in {"write", "swap"}
      BY <1>1, <2>1 DEF Call
    <2>3. op.call = "split" /\ op.pc = "rename" /\ UNCHANGED <<up, hand, made, taken>> /\ up
      BY <1>8 DEF RenameHalf, Land, history
    <2> QED BY <2>2, <2>3 DEF InsideSpool
  <1> QED BY <1>2, <1>3, <1>4, <1>5, <1>6, <1>7, <1>8 DEF InsideSpool

\* The call under way after a step that is not inside one.
LEMMA CallSteps ==
    ASSUME SpoolInv, [Next]_vars
    PROVE  \/ op' = op
           \/ InsideSpool
           \/ StorePut /\ op.call = "none" /\ op'.call = "put" /\ op'.docs = docs /\ op'.pc = "expire"
           \/ AskSpool /\ op.call = "none" /\ op'.call = "oldest"
           \/ SplitSpool /\ op.call = "none" /\ op'.call = "split"
           \/ /\ StoreOk \/ StoreFallback \/ SpoolHas \/ SpoolEmpty \/ SplitOk \/ SplitError
                   \/ Exit \/ Dies
              /\ op' = Idle
  <1>1. op.pc = "idle" => op.call = "none"
    BY DEF SpoolInv, CallShape
  <1>2. CASE Apart
    BY <1>2, ApartSteps DEF spoolVars, memory
  <1>3. CASE Log \/ MemHas \/ SplitMem \/ Surroundings \/ Start \/ StartNoSpool
    BY <1>3, Zenon DEF Log, MemHas, SplitMem, Surroundings, Tick, Damage, Start, OpenSpool,
       StartNoSpool, memory
  <1>4. CASE Apply
    BY <1>4, Zenon DEF Apply, Remove
  <1>5. CASE StorePut
    <2>1. op' = Begin("put", "expire", NoName, docs) /\ op.pc = "idle"
      BY <1>5 DEF StorePut, PutCall
    <2> QED BY <1>1, <1>5, <2>1 DEF Begin
  <1>6. CASE AskSpool
    <2>1. op' = Begin("oldest", "expire", NoName, <<>>) /\ op.pc = "idle"
      BY <1>6 DEF AskSpool, Oldest
    <2> QED BY <1>1, <1>6, <2>1 DEF Begin
  <1>7. CASE SplitSpool
    <2>1. op.pc = "idle" /\ (op' = op \/ op' = Begin("split", "write", hand.name, hand.docs))
      BY <1>7, Zenon DEF SplitSpool, Split, SplitVanished
    <2> QED BY <1>1, <1>7, <2>1 DEF Begin
  <1>8. CASE StoreOk \/ StoreFallback \/ SpoolHas \/ SpoolEmpty \/ SplitOk \/ SplitError \/ Exit \/ Dies
    <2>1. op' = Idle
      BY <1>8, Zenon DEF StoreOk, StoreFallback, SpoolHas, SpoolEmpty, SplitOk, SplitError, Exit,
         Dies, Crash, PutDone, PutLowDisk, PutFailed, OldestFound, OldestEmpty, SplitDone, SplitFailed,
         ProcessEnds, Return
    <2> QED BY <1>8, <2>1
  <1> QED BY <1>2, <1>3, <1>4, <1>5, <1>6, <1>7, <1>8, StepKinds, Zenon

----------------------------------------------------------------------------
(* The channel and the batch being filled. *)

\* store has returned, with or without the batch in the spool.
Returns == StoreOk \/ StoreFallback \/ StoreNoSpool

\* What changes the batcher's variables.
LEMMA ChannelSteps ==
    ASSUME [Next]_vars
    PROVE  \/ UNCHANGED <<inCh, ev, docs, batcher, made>>
           \/ Log \/ Receive \/ Returns \/ Exit \/ Dies
           \/ (Flush \/ BatcherEnds \/ StorePut) /\ UNCHANGED <<inCh, ev, docs, made>>
  <1>1. CASE Apart
    BY <1>1, Zenon DEF Apart, Returns, IdleTick, Flush, BatcherEnds, TakeKick, RetryFires,
       SeesStop, SkipSpool, Drained, SplitRefused, Loom, PostAccepted, PostReplyLost, PostFails,
       PostRejected, PostTooLarge, Shutdown, CloseStop, LastDrain, vars, shipperVars, channelVars,
       spoolVars, history
  <1>2. CASE SpoolHas \/ SpoolEmpty \/ MemHas \/ SplitMem \/ SplitOk \/ SplitError \/ AskSpool
    BY <1>2, Zenon DEF SpoolHas, SpoolEmpty, MemHas, SplitMem, SplitOk, SplitError, AskSpool,
       OldestFound, OldestEmpty, SplitDone, SplitFailed, Oldest, channelVars, history
  <1>3. CASE Apply \/ SplitSpool
    BY <1>3, Zenon DEF Apply, SplitSpool, Remove, Split, SplitVanished, channelVars, history
  <1>4. CASE InsideSpool
    BY <1>4, Zenon DEF InsideSpool, Expire, SampleRoom, MakeRoom, NameBatch, WriteTemp, RenamePut,
       Enforce, SkipCorrupt, RenameHalf, shipperVars, channelVars, history
  <1>5. CASE Surroundings \/ Start \/ StartNoSpool
    BY <1>5, Zenon DEF Surroundings, Tick, Damage, Start, OpenSpool, StartNoSpool, shipperVars,
       channelVars, history
  <1>6. CASE StorePut
    BY <1>6, Zenon DEF StorePut, history
  <1> QED BY <1>1, <1>2, <1>3, <1>4, <1>5, <1>6, StepKinds, Zenon DEF Returns

\* What changes the memory queue.
LEMMA MemSteps ==
    ASSUME [Next]_vars
    PROVE  \/ UNCHANGED <<mem, memDropped>>
           \/ (StoreFallback \/ StoreNoSpool) /\ MemPut(docs)
           \/ Apply /\ FromMem /\ MemRemove(hand.docs) /\ UNCHANGED memDropped
           \/ SplitMem /\ MemSplit(hand.docs) /\ UNCHANGED memDropped
           \/ (Exit \/ Dies) /\ mem' = <<>> /\ UNCHANGED memDropped
  <1>1. CASE Apart
    BY <1>1, Zenon DEF Apart, IdleTick, Receive, Flush, BatcherEnds, StoreNoSpool, TakeKick, RetryFires,
       SeesStop, SkipSpool, Drained, SplitRefused, Loom, PostAccepted, PostReplyLost, PostFails,
       PostRejected, PostTooLarge, LoomTakes, Shutdown, CloseStop, LastDrain, vars, shipperVars, fates
  <1>2. CASE SpoolHas \/ SpoolEmpty \/ MemHas \/ SplitMem \/ SplitOk \/ SplitError \/ AskSpool
    BY <1>2, Zenon DEF SpoolHas, SpoolEmpty, MemHas, SplitMem, SplitOk, SplitError, AskSpool, fates
  <1>3. CASE Apply \/ SplitSpool
    BY <1>3, Zenon DEF Apply, SplitSpool, fates
  <1>4. CASE InsideSpool \/ Surroundings \/ Start \/ StartNoSpool \/ Log
    BY <1>4, Zenon DEF InsideSpool, Surroundings, Start, StartNoSpool, Log, shipperVars, fates
  <1>5. CASE Exit \/ Dies
    BY <1>5, Zenon DEF Exit, Dies, ResetShipper
  <1>6. CASE StorePut \/ StoreOk \/ StoreFallback
    BY <1>6, Zenon DEF StorePut, StoreOk, StoreFallback, fates
  <1> QED BY <1>1, <1>2, <1>3, <1>4, <1>5, <1>6, StepKinds, Zenon

\* The sender waits in Split for Split's return.
LEMMA SplittingSteps ==
    ASSUME [Next]_vars, sender = "splitting"
    PROVE  sender' = "splitting" \/ SplitOk \/ SplitError \/ Exit \/ Dies
  <1>1. CASE Apart
    BY <1>1, Zenon DEF Apart, IdleTick, Receive, Flush, BatcherEnds, StoreNoSpool, Stored, TakeKick,
       RetryFires, SeesStop, SkipSpool, Drained, SplitRefused, Loom, PostAccepted, PostReplyLost,
       PostFails, PostRejected, PostTooLarge, Shutdown, CloseStop, LastDrain, vars, shipperVars,
       senderVars
  <1>2. CASE SpoolHas \/ SpoolEmpty \/ MemHas \/ SplitMem \/ AskSpool \/ Apply \/ SplitSpool
    BY <1>2, Zenon DEF SpoolHas, SpoolEmpty, MemHas, SplitMem, AskSpool, Apply, SplitSpool
  <1>3. CASE InsideSpool \/ Surroundings \/ Start \/ StartNoSpool \/ Log
    BY <1>3, Zenon DEF InsideSpool, Surroundings, Start, StartNoSpool, Log, shipperVars, senderVars
  <1>4. CASE StorePut \/ StoreOk \/ StoreFallback
    BY <1>4, Zenon DEF StorePut, StoreOk, StoreFallback, Stored, senderVars
  <1> QED BY <1>1, <1>2, <1>3, <1>4, StepKinds, Zenon

\* After store the waiting record, if there is one, is the batch (shipper.go:246-259).
LEMMA ReturnsPipe ==
    ASSUME PipeShape, Returns
    PROVE  /\ inCh' = inCh /\ made' = made /\ ev' = 0 /\ docs' \in Seq(Records)
           /\ Range(docs') = {ev} \ {0}
           /\ batcher' \in {"loop", "flush"} /\ batcher \in {"flush", "put"}
           /\ UNCHANGED <<sender, verdict, overflow, delivered, refused, lost, taken, hand>>
  <1>1. Stored /\ made' = made /\ batcher \in {"flush", "put"} /\ UNCHANGED <<taken, hand>>
    BY Zenon DEF Returns, StoreOk, StoreFallback, StoreNoSpool, PutDone, PutLowDisk, PutFailed,
       spoolVars, memory, history
  <1>2. /\ docs' = IF ev = 0 THEN <<>> ELSE <<ev>>
        /\ inCh' = inCh /\ ev' = 0 /\ batcher' \in {"loop", "flush"}
        /\ UNCHANGED <<sender, verdict, overflow, delivered, refused, lost>>
    BY <1>1 DEF Stored, senderVars
  <1>3. docs' \in Seq(Records) /\ Range(docs') = {ev} \ {0}
    <2>1. CASE ev = 0
      BY <1>2, <2>1 DEF Range
    <2>2. CASE ev # 0
      <3>1. docs' = <<ev>> /\ ev \in Records
        BY <1>2, <2>2 DEF PipeShape
      <3>2. docs' \in Seq(Records) /\ DOMAIN docs' = {1} /\ docs'[1] = ev
        BY <3>1
      <3> QED BY <2>2, <3>2 DEF Range
    <2> QED BY <2>1, <2>2
  <1> QED BY <1>1, <1>2, <1>3

\* Receive moves one record (shipper.go:228-259).
LEMMA ReceivePipe ==
    ASSUME PipeShape, Receive
    PROVE  /\ inCh # <<>> /\ inCh' = Tail(inCh) /\ batcher = "loop" /\ ev = 0
           /\ UNCHANGED spoolVars /\ UNCHANGED <<mem, sender, verdict, fates>>
           /\ \/ ev' = Head(inCh) /\ docs' = docs /\ batcher' = "flush"
              \/ ev' = ev /\ docs' = Append(docs, Head(inCh)) /\ batcher' \in {"flush", "loop"}
  BY DEF Receive, PipeShape, senderVars

\* Dying clears the pipe.
LEMMA EndsPipe ==
    ASSUME Exit \/ Dies
    PROVE  /\ inCh' = <<>> /\ ev' = 0 /\ docs' = <<>> /\ mem' = <<>> /\ sender' = "select" /\ kick'
           /\ UNCHANGED <<made, taken, overflow, delivered, refused, memDropped, spool>>
           /\ lost' = lost \cup (InMemory \ (Held \cup delivered))
           /\ op' = Idle /\ ~up' /\ files' = <<>>
  BY Zenon DEF Exit, Dies, Crash, ProcessEnds, ResetShipper, history

\* A call of Put is made by the batcher, one of Split by the sender.
LEMMA PipeShapeSteps ==
    ASSUME ShipperInv, [Next]_vars
    PROVE  PipeShape'
  <1>0. SpoolInv /\ PipeShape
    BY DEF ShipperInv
  <1>m. made \in Nat
    BY <1>0 DEF SpoolInv, TypeOK
  <1>1. MemType'
    <2>1. MemType /\ docs \in Seq(Records)
      BY <1>0 DEF PipeShape, MemType
    <2>2. hand.docs \in Seq(Records)
      BY <1>0 DEF SpoolInv, TypeOK
    <2>3. CASE mem' = mem
      BY <2>1, <2>3 DEF MemType
    <2>4. CASE mem' = <<>>
      BY <2>4 DEF MemType
    <2>5. CASE MemPut(docs)
      BY <2>1, <2>5, MemPutKeeps
    <2>6. CASE MemRemove(hand.docs)
      BY <2>1, <2>6, MemRemoveKeeps
    <2>7. CASE MemSplit(hand.docs)
      BY <2>1, <2>2, <2>7, MemSplitKeeps
    <2> QED BY <2>3, <2>4, <2>5, <2>6, <2>7, MemSteps, Zenon
  <1>2. op'.call = "split" => sender' = "splitting"
    <2>1. CASE op' = op \/ InsideSpool
      <3>1. op'.call = op.call
        BY <1>0, <2>1, InsideCalls
      <3>2. op.call = "split" => sender = "splitting"
        BY <1>0 DEF PipeShape
      <3>3. CASE SplitOk \/ SplitError \/ Exit \/ Dies
        <4>1. op' = Idle
          BY <3>3, Zenon DEF SplitOk, SplitError, SplitDone, SplitFailed, Return, Exit, Dies, Crash,
             ProcessEnds
        <4> QED BY <4>1, IdleCall
      <3>4. CASE ~(SplitOk \/ SplitError \/ Exit \/ Dies)
        BY <3>1, <3>2, <3>4, SplittingSteps, Zenon
      <3> QED BY <3>3, <3>4
    <2>2. CASE SplitSpool /\ op'.call = "split"
      <3>1. sender' = "splitting" \/ (op' = op /\ op.pc = "idle")
        BY <2>2, Zenon DEF SplitSpool, Goes, SplitVanished
      <3>2. op.pc = "idle" => op.call = "none"
        BY <1>0 DEF SpoolInv, CallShape
      <3> QED BY <2>2, <3>1, <3>2
    <2>3. CASE op' = Idle
      BY <2>3, IdleCall
    <2> QED BY <1>0, <2>1, <2>2, <2>3, CallSteps
  <1>4. /\ made' <= MaxRecords
        /\ inCh' \in Seq(Records) /\ docs' \in Seq(Records) /\ ev' \in Records \cup {0}
        /\ ev' # 0 => batcher' \in {"flush", "put"}
    <2>1. CASE UNCHANGED <<inCh, ev, docs, batcher, made>>
      BY <1>0, <2>1 DEF PipeShape
    <2>2. CASE Log
      <3>1. /\ made' = made + 1 /\ made < MaxRecords
            /\ UNCHANGED <<ev, docs, batcher>>
            /\ inCh' = inCh \/ inCh' = Append(inCh, made + 1)
        BY <2>2 DEF Log
      <3>2. made + 1 \in Records /\ made' <= MaxRecords
        BY <1>m, <3>1, SpoolAssumption DEF Records
      <3>3. inCh' \in Seq(Records)
        <4>1. inCh \in Seq(Records)
          BY <1>0 DEF PipeShape
        <4>2. Append(inCh, made + 1) \in Seq(Records)
          BY <3>2, <4>1
        <4> QED BY <3>1, <4>1, <4>2
      <3> QED BY <1>0, <3>1, <3>2, <3>3 DEF PipeShape
    <2>3. CASE Receive
      <3>1. inCh \in Seq(Records) /\ docs \in Seq(Records) /\ made <= MaxRecords /\ made' = made
        BY <1>0, <2>3, ReceivePipe DEF PipeShape, spoolVars, history
      <3>2. /\ inCh # <<>> /\ inCh' = Tail(inCh) /\ ev = 0
            /\ \/ ev' = Head(inCh) /\ docs' = docs /\ batcher' = "flush"
               \/ ev' = ev /\ docs' = Append(docs, Head(inCh))
        BY <1>0, <2>3, ReceivePipe
      <3>3. Head(inCh) \in Records /\ Tail(inCh) \in Seq(Records)
        BY <3>1, <3>2
      <3>4. Append(docs, Head(inCh)) \in Seq(Records)
        BY <3>1, <3>3
      <3> QED BY <3>1, <3>2, <3>3, <3>4
    <2>4. CASE Returns
      BY <1>0, <2>4, ReturnsPipe DEF PipeShape
    <2>5. CASE Exit \/ Dies
      <3>1. <<>> \in Seq(Records)
        OBVIOUS
      <3> QED BY <1>0, <2>5, <3>1, EndsPipe DEF PipeShape
    <2>6. CASE (Flush \/ BatcherEnds \/ StorePut) /\ UNCHANGED <<inCh, ev, docs, made>>
      <3>1. batcher' \in {"flush", "put"} \/ batcher = "loop"
        BY <2>6, Zenon DEF Flush, BatcherEnds, StorePut
      <3> QED BY <1>0, <2>6, <3>1 DEF PipeShape
    <2> QED BY <2>1, <2>2, <2>3, <2>4, <2>5, <2>6, ChannelSteps, Zenon
  <1>5. op'.call = "put" => batcher' = "put" /\ op'.docs = docs'
    <2>0. op.call = "put" => batcher = "put" /\ op.docs = docs
      BY <1>0 DEF PipeShape
    <2>1. CASE op' = op \/ InsideSpool
      <3>1. op'.call = op.call /\ op'.docs = op.docs
        BY <1>0, <2>1, InsideCalls
      <3>2. CASE UNCHANGED <<inCh, ev, docs, batcher, made>> \/ Log
        BY <2>0, <3>1, <3>2 DEF Log
      <3>3. CASE Receive \/ Flush \/ BatcherEnds \/ StorePut
        <4>1. batcher # "put"
          BY <3>3, Zenon DEF Receive, Flush, BatcherEnds, StorePut
        <4> QED BY <2>0, <3>1, <4>1
      <3>4. CASE Returns
        <4>1. op' = Idle \/ batcher = "flush"
          BY <3>4, Zenon DEF Returns, StoreOk, StoreFallback, StoreNoSpool, PutDone, PutLowDisk,
             PutFailed, Return
        <4> QED BY <2>0, <3>1, <4>1, IdleCall
      <3>5. CASE Exit \/ Dies
        BY <3>5, EndsPipe, IdleCall
      <3> QED BY <3>2, <3>3, <3>4, <3>5, ChannelSteps, Zenon
    <2>2. CASE StorePut /\ op'.docs = docs
      BY <2>2 DEF StorePut
    <2>3. CASE op'.call \in {"oldest", "split"} \/ op' = Idle
      BY <2>3, IdleCall
    <2> QED BY <1>0, <2>1, <2>2, <2>3, CallSteps
  <1> QED BY <1>1, <1>2, <1>4, <1>5, Zenon DEF PipeShape, MemType

\* A step that moves no record between the batcher's places.
LEMMA UpstreamSame ==
    ASSUME UpstreamNew, UNCHANGED <<inCh, ev, docs, made>>, Known' = Known, Landed' <=> Landed
    PROVE  UpstreamNew'
  BY DEF UpstreamNew, Upstream

\* What is upstream of the spool is not in it: Put always brings new records.
LEMMA UpstreamSteps ==
    ASSUME ShipperInv, [Next]_vars
    PROVE  UpstreamNew'
  <1>0. SpoolInv /\ PipeShape /\ UpstreamNew
    BY DEF ShipperInv
  <1>m. made \in Nat /\ Known \subseteq 1..made
    BY <1>0 DEF SpoolInv, TypeOK, RecordsKnown
  <1>k. Known' = Known \/ (Lands /\ Known' = Known \cup Range(op.docs))
    BY SpoolSteps
  <1>1. CASE Lands /\ Known' = Known \cup Range(op.docs)
    <2>1. InsideSpool /\ op.call = "put" /\ UNCHANGED <<inCh, ev, docs>>
      BY <1>1, Zenon DEF Lands, InsideSpool, RenamePut, shipperVars, channelVars
    <2>2. op.docs = docs
      BY <1>0, <2>1 DEF PipeShape
    <2>3. op'.call = "put" /\ made' = made
      BY <1>0, <2>1, InsideCalls
    <2>4. op'.pc = "enforce"
      <3>1. op' = [op EXCEPT !.pc = "enforce"] /\ op \in Call
        BY <1>0, <1>1 DEF Lands, RenamePut, Goto, SpoolInv, TypeOK
      <3> QED BY <3>1 DEF Call
    <2>5. Landed'
      BY <2>3, <2>4 DEF Landed
    <2>6. 0 \notin Range(docs)
      <3>1. Range(docs) \subseteq 1..made
        BY <1>0 DEF UpstreamNew, Upstream
      <3> QED BY <1>m, <3>1
    <2> QED BY <1>0, <1>1, <2>1, <2>2, <2>3, <2>5 DEF UpstreamNew, Upstream
  <1>2. ASSUME Known' = Known, ~Lands PROVE UpstreamNew'
    <2>1. CASE InsideSpool
      <3>1. ~RenamePut
        BY <1>2, <2>1, Zenon DEF Lands, InsideSpool
      <3>2. UNCHANGED <<inCh, ev, docs, made>> /\ (Landed' <=> Landed)
        BY <1>0, <2>1, <3>1, InsideCalls DEF Landed, shipperVars, channelVars
      <3> QED BY <1>0, <1>2, <3>2, UpstreamSame, Zenon
    <2>2. CASE Log
      <3>1. /\ UNCHANGED <<ev, docs, op>> /\ made' = made + 1
            /\ inCh' = inCh \/ inCh' = Append(inCh, made + 1)
        BY <2>2 DEF Log, memory
      <3>2. CASE inCh' = inCh
        <4>1. Upstream' = Upstream /\ 1..made \subseteq 1..made'
          BY <1>m, <3>1, <3>2 DEF Upstream
        <4> QED BY <1>0, <1>2, <3>1, <3>2, <4>1 DEF UpstreamNew, Landed
      <3>3. CASE inCh' = Append(inCh, made + 1)
        <4>1. inCh \in Seq(Records) /\ Len(inCh) \in Nat /\ DOMAIN inCh = 1..Len(inCh)
          BY <1>0 DEF PipeShape
        <4>2. /\ DOMAIN inCh' = 1..(Len(inCh) + 1) /\ inCh'[Len(inCh) + 1] = made + 1
              /\ \A i \in 1..Len(inCh) : inCh'[i] = inCh[i]
          BY <3>3, <4>1
        <4>3. Range(inCh') = Range(inCh) \cup {made + 1}
          BY <4>1, <4>2 DEF Range
        <4>4. made + 1 \notin Upstream /\ made + 1 \notin Known /\ made + 1 # 0 /\ made + 1 \notin Range(inCh)
          <5>1. Upstream \subseteq 1..made /\ Range(inCh) \subseteq Upstream
            BY <1>0 DEF UpstreamNew, Upstream
          <5> QED BY <1>m, <5>1
        <4>5. IsInjective(inCh')
          <5>1. \A i \in 1..Len(inCh) : inCh[i] # made + 1
            BY <4>1, <4>4 DEF Range
          <5>2. \A i, j \in 1..Len(inCh) : inCh[i] = inCh[j] => i = j
            BY <1>0, <4>1 DEF UpstreamNew, IsInjective
          <5>3. ASSUME NEW i \in 1..(Len(inCh) + 1), NEW j \in 1..(Len(inCh) + 1), inCh'[i] = inCh'[j]
                PROVE  i = j
            <6>1. CASE i \in 1..Len(inCh) /\ j \in 1..Len(inCh)
              BY <4>2, <5>2, <5>3, <6>1
            <6>2. CASE i \in 1..Len(inCh) /\ j = Len(inCh) + 1
              BY <4>2, <5>1, <5>3, <6>2
            <6>3. CASE i = Len(inCh) + 1 /\ j \in 1..Len(inCh)
              BY <4>2, <5>1, <5>3, <6>3
            <6>4. CASE i = Len(inCh) + 1 /\ j = Len(inCh) + 1
              BY <6>4
            <6> QED BY <4>1, <6>1, <6>2, <6>3, <6>4
          <5> QED BY <4>2, <5>3 DEF IsInjective
        <4>6. Upstream' = Upstream \cup {made + 1} /\ Upstream' \subseteq 1..made'
          <5>1. Upstream' = Upstream \cup {made + 1}
            BY <3>1, <4>3 DEF Upstream
          <5>2. Upstream \subseteq 1..made
            BY <1>0 DEF UpstreamNew
          <5> QED BY <1>m, <3>1, <5>1, <5>2
        <4>7. made + 1 # ev /\ made + 1 \notin Range(docs)
          BY <4>4 DEF Upstream
        <4>8. Landed' <=> Landed
          BY <3>1 DEF Landed
        <4> QED BY <1>0, <1>2, <3>1, <4>3, <4>4, <4>5, <4>6, <4>7, <4>8 DEF UpstreamNew
      <3> QED BY <3>1, <3>2, <3>3
    <2>3. CASE Receive
      <3>1. /\ inCh # <<>> /\ inCh' = Tail(inCh) /\ batcher = "loop" /\ ev = 0
            /\ \/ ev' = Head(inCh) /\ docs' = docs
               \/ ev' = ev /\ docs' = Append(docs, Head(inCh))
        BY <1>0, <2>3, ReceivePipe
      <3>2. op' = op /\ made' = made
        BY <1>0, <2>3, ReceivePipe DEF spoolVars, memory, history
      <3>3. op.call # "put"
        BY <1>0, <3>1 DEF PipeShape
      <3>4. ~Landed /\ ~Landed'
        BY <3>2, <3>3 DEF Landed
      <3>5. inCh \in Seq(Records) /\ docs \in Seq(Records) /\ Len(inCh) \in Nat /\ DOMAIN inCh = 1..Len(inCh)
        BY <1>0 DEF PipeShape
      <3>6. PICK h : h = Head(inCh)
        OBVIOUS
      <3>7. h = inCh[1] /\ 1 \in DOMAIN inCh /\ h \in Range(inCh)
        BY <3>1, <3>5, <3>6 DEF Range
      <3>8. /\ DOMAIN inCh' = 1..(Len(inCh) - 1)
            /\ \A i \in 1..(Len(inCh) - 1) : inCh'[i] = inCh[i + 1] /\ i + 1 \in DOMAIN inCh
        BY <3>1, <3>5
      <3>9. \A i, j \in DOMAIN inCh : inCh[i] = inCh[j] => i = j
        BY <1>0 DEF UpstreamNew, IsInjective
      <3>10. Range(inCh') \subseteq Range(inCh) /\ h \notin Range(inCh')
        <4>1. Range(inCh') \subseteq Range(inCh)
          BY <3>8 DEF Range
        <4>2. ASSUME NEW i \in DOMAIN inCh', inCh'[i] = h PROVE FALSE
          <5>1. i \in 1..(Len(inCh) - 1) /\ inCh[i + 1] = inCh[1] /\ i + 1 \in DOMAIN inCh
            BY <3>7, <3>8, <4>2
          <5>2. i + 1 = 1
            BY <3>7, <3>9, <5>1
          <5> QED BY <3>5, <5>1, <5>2
        <4> QED BY <4>1, <4>2 DEF Range
      <3>11. IsInjective(inCh')
        <4>1. ASSUME NEW i \in DOMAIN inCh', NEW j \in DOMAIN inCh', inCh'[i] = inCh'[j] PROVE i = j
          <5>1. inCh[i + 1] = inCh[j + 1] /\ i + 1 \in DOMAIN inCh /\ j + 1 \in DOMAIN inCh
            BY <3>8, <4>1
          <5>2. i + 1 = j + 1
            BY <3>9, <5>1
          <5>3. i \in Nat /\ j \in Nat
            BY <3>5, <3>8
          <5> QED BY <5>2, <5>3
        <4> QED BY <4>1 DEF IsInjective
      <3>12. h # 0 /\ h \notin Range(docs) /\ h \notin Known /\ 0 \notin Range(inCh) /\ 0 \notin Range(docs)
        <4>1. Range(inCh) \subseteq 1..made /\ Range(docs) \subseteq 1..made
          BY <1>0 DEF UpstreamNew, Upstream
        <4> QED BY <1>0, <1>m, <3>7, <4>1 DEF UpstreamNew
      <3>13. Range(docs) \cap Known = {}
        BY <1>0, <3>4 DEF UpstreamNew
      <3>14. CASE ev' = h /\ docs' = docs
        <4>1. Upstream' \subseteq Upstream
          BY <3>7, <3>10, <3>14 DEF Upstream
        <4>2. Upstream' \subseteq 1..made'
          BY <1>0, <3>2, <4>1 DEF UpstreamNew
        <4> QED BY <1>0, <1>2, <3>4, <3>7, <3>10, <3>11, <3>12, <3>13, <3>14, <4>2 DEF UpstreamNew
      <3>15. CASE ev' = ev /\ docs' = Append(docs, h)
        <4>1. Range(docs') = Range(docs) \cup {h}
          <5>1. h \in Records /\ Len(docs) \in Nat /\ DOMAIN docs = 1..Len(docs)
            BY <3>5, <3>7
          <5>2. /\ DOMAIN docs' = 1..(Len(docs) + 1) /\ docs'[Len(docs) + 1] = h
                /\ \A i \in 1..Len(docs) : docs'[i] = docs[i]
            BY <3>5, <3>15, <5>1
          <5> QED BY <5>1, <5>2 DEF Range
        <4>2. Upstream' \subseteq Upstream
          BY <3>7, <3>10, <3>15, <4>1 DEF Upstream
        <4>3. Upstream' \subseteq 1..made'
          BY <1>0, <3>2, <4>2 DEF UpstreamNew
        <4>4. ev = 0 /\ 0 \notin Known
          BY <1>m, <3>1
        <4> QED BY <1>0, <1>2, <3>4, <3>7, <3>10, <3>11, <3>12, <3>13, <3>15, <4>1, <4>3, <4>4 DEF UpstreamNew
      <3> QED BY <3>1, <3>6, <3>14, <3>15
    <2>4. CASE Returns
      <3>1. inCh' = inCh /\ made' = made /\ ev' = 0 /\ Range(docs') = {ev} \ {0}
        BY <1>0, <2>4, ReturnsPipe
      <3>2. op' = Idle \/ (batcher = "flush" /\ op' = op)
        BY <2>4, Zenon DEF Returns, StoreOk, StoreFallback, StoreNoSpool, PutDone, PutLowDisk,
           PutFailed, Return, spoolVars, memory
      <3>3. ~Landed'
        BY <1>0, <3>2, IdleCall DEF Landed, PipeShape
      <3>4. 0 \notin Range(inCh) /\ 0 \notin Known
        <4>1. Range(inCh) \subseteq 1..made
          BY <1>0 DEF UpstreamNew, Upstream
        <4> QED BY <1>m, <4>1
      <3>5. Upstream' \subseteq Upstream
        BY <3>1 DEF Upstream
      <3> QED BY <1>0, <1>2, <3>1, <3>3, <3>4, <3>5 DEF UpstreamNew
    <2>5. CASE Exit \/ Dies
      <3>1. inCh' = <<>> /\ ev' = 0 /\ docs' = <<>> /\ op' = Idle /\ made' = made
        BY <2>5, EndsPipe
      <3>2. Range(inCh') = {} /\ Range(docs') = {} /\ IsInjective(inCh')
        BY <3>1 DEF Range, IsInjective
      <3>3. ~Landed' /\ Upstream' = {}
        BY <3>1, <3>2, IdleCall DEF Landed, Upstream
      <3>4. 0 \notin Known
        BY <1>m
      <3> QED BY <1>2, <3>1, <3>2, <3>3, <3>4 DEF UpstreamNew
    <2>6. CASE /\ ~InsideSpool /\ ~Returns /\ ~Exit /\ ~Dies /\ ~Log /\ ~Receive
      <3>1. UNCHANGED <<inCh, ev, docs, made>>
        BY <2>6, ChannelSteps, Zenon
      <3>2. Landed' <=> Landed
        <4>1. \/ op' = op
              \/ op.call = "none" /\ (op'.call # "put" \/ op'.pc = "expire")
              \/ (SpoolHas \/ SpoolEmpty \/ SplitOk \/ SplitError) /\ op' = Idle
          BY <1>0, <2>6, CallSteps DEF Returns
        <4>2. SpoolHas \/ SpoolEmpty \/ SplitOk \/ SplitError => op.call # "put"
          <5>1. SplitOk => op.pc = "swap"
            BY Zenon DEF SplitOk, SplitDone
          <5>2. op.pc = "swap" => op.call = "split"
            BY <1>0 DEF SpoolInv, CallShape
          <5> QED BY <5>1, <5>2 DEF SpoolHas, SpoolEmpty, SplitError, OldestFound, OldestEmpty, SplitFailed
        <4> QED BY <4>1, <4>2, IdleCall DEF Landed
      <3> QED BY <1>0, <1>2, <3>1, <3>2, UpstreamSame, Zenon
    <2> QED BY <2>1, <2>2, <2>3, <2>4, <2>5, <2>6
  <1>3. ASSUME Known' = Known, Lands PROVE UpstreamNew'
    <2>1. Known' = Known \cup Range(op.docs)
      BY <1>0, <1>3, RenamePutInv DEF Lands
    <2> QED BY <1>1, <1>3, <2>1
  <1> QED BY <1>1, <1>2, <1>3, <1>k

----------------------------------------------------------------------------
(* What Loom took or refused. *)

\* The steps that touch what Apply relies on.
LEMMA SettleSteps ==
    ASSUME [Next]_vars
    PROVE  \/ UNCHANGED <<taken, delivered, refused>>
                /\ (sender' # "apply" \/ UNCHANGED <<sender, verdict, hand>>)
           \/ PostAccepted \/ Apply
           \/ (PostRejected \/ SplitRefused \/ SplitError) /\ verdict' = "refused"
                /\ UNCHANGED <<taken, delivered, refused>>
           \/ PostReplyLost /\ sender' # "apply"
  <1>1. CASE Apart
    BY <1>1, Zenon DEF Apart, IdleTick, Receive, Flush, BatcherEnds, StoreNoSpool, Stored, TakeKick,
       RetryFires, SeesStop, SkipSpool, Drained, DrainReturns, Goes, SplitRefused, Loom, PostReplyLost,
       PostFails, PostRejected, PostTooLarge, Shutdown, CloseStop, LastDrain, vars, shipperVars,
       senderVars, fates, spoolVars, memory, history
  <1>2. CASE SpoolHas \/ SpoolEmpty \/ MemHas \/ SplitMem \/ AskSpool \/ SplitSpool
    BY <1>2, Zenon DEF SpoolHas, SpoolEmpty, MemHas, SplitMem, AskSpool, SplitSpool, Goes, fates,
       OldestFound, OldestEmpty, Oldest, Split, SplitVanished, history
  <1>3. CASE SplitOk \/ SplitError
    BY <1>3, Zenon DEF SplitOk, SplitError, SplitDone, SplitFailed, Goes, fates, history
  <1>4. CASE InsideSpool
    BY <1>4, Zenon DEF InsideSpool, Expire, SampleRoom, MakeRoom, NameBatch, WriteTemp, RenamePut,
       Enforce, SkipCorrupt, RenameHalf, shipperVars, senderVars, fates, history
  <1>5. CASE Surroundings \/ Start \/ StartNoSpool \/ Log
    BY <1>5, Zenon DEF Surroundings, Tick, Damage, Start, OpenSpool, StartNoSpool, Log, shipperVars,
       senderVars, fates, memory, history
  <1>6. CASE StorePut \/ StoreOk \/ StoreFallback
    BY <1>6, Zenon DEF StorePut, StoreOk, StoreFallback, Stored, PutDone, PutLowDisk, PutFailed,
       senderVars, fates, history
  <1>7. CASE Exit \/ Dies
    <2>1. sender' = "select" /\ UNCHANGED <<taken, delivered, refused>>
      BY <1>7, EndsPipe
    <2> QED BY <2>1
  <1> QED BY <1>1, <1>2, <1>3, <1>4, <1>5, <1>6, <1>7, StepKinds, Zenon

\* A batch leaves the spool by Remove once its post was accepted or refused for good.
LEMMA TakenSteps ==
    ASSUME TakenSettled, [Next]_vars
    PROVE  TakenSettled' /\ delivered \subseteq delivered' /\ refused \subseteq refused'
  <1>1. CASE /\ UNCHANGED <<taken, delivered, refused>>
             /\ sender' # "apply" \/ UNCHANGED <<sender, verdict, hand>>
    BY <1>1 DEF TakenSettled
  <1>2. CASE PostAccepted
    <2>1. /\ delivered' = delivered \cup Range(hand.docs) /\ UNCHANGED <<refused, taken, hand>>
          /\ verdict' = "shipped"
      BY <1>2 DEF PostAccepted, LoomTakes, spoolVars, memory, history
    <2> QED BY <2>1 DEF TakenSettled
  <1>3. CASE Apply
    <2>1. /\ sender = "apply" /\ sender' = "next" /\ delivered' = delivered
          /\ taken' = taken \/ taken' = taken \cup Range(hand.docs)
          /\ refused' = IF verdict = "refused" THEN refused \cup Range(hand.docs) ELSE refused
      BY <1>3, Zenon DEF Apply, Remove, Goes, history
    <2> QED BY <2>1 DEF TakenSettled
  <1>4. CASE verdict' = "refused" /\ UNCHANGED <<taken, delivered, refused>>
    BY <1>4 DEF TakenSettled
  <1>5. CASE PostReplyLost /\ sender' # "apply"
    <2>1. /\ delivered' = delivered \cup Range(hand.docs) /\ UNCHANGED <<refused, taken>>
      BY <1>5 DEF PostReplyLost, LoomTakes, spoolVars, history
    <2> QED BY <1>5, <2>1 DEF TakenSettled
  <1> QED BY <1>1, <1>2, <1>3, <1>4, <1>5, SettleSteps, Zenon

----------------------------------------------------------------------------
(* No record is lost silently. *)

\* Accounted with the records the spool ever knew: those it gave away are settled.
Covered == \A r \in 1..made : r \in InMemory \cup Known \cup Settled

\* The records that left the spool are settled, so the two say the same.
LEMMA CoveredAccounted == TakenSettled => (Accounted <=> Covered)
  BY DEF TakenSettled, Accounted, Covered, Settled, Known

\* Every step of the two goroutines, of Loom, of main and of a crash.
LEMMA CoveredSteps ==
    ASSUME ShipperInv, Covered, [Next]_vars
    PROVE  Covered'
  <1>0. SpoolInv /\ PipeShape /\ UpstreamNew /\ TakenSettled
    BY DEF ShipperInv
  <1>d. made \in Nat /\ MemType /\ docs \in Seq(Records) /\ hand.docs \in Seq(Records)
    BY <1>0 DEF SpoolInv, TypeOK, PipeShape, MemType
  <1>k. /\ Known \subseteq Known'
        /\ delivered \subseteq delivered' /\ refused \subseteq refused'
    BY <1>0, SpoolSteps, TakenSteps
  <1>o. dropped \subseteq Known'
    BY <1>k DEF Known
  \* What the fates only gain.
  <1>f. overflow \subseteq overflow' /\ memDropped \subseteq memDropped' /\ lost \subseteq lost'
    <2>1. CASE Apart
      BY <2>1, <1>d, MemPutKeeps, Zenon DEF Apart, IdleTick, Receive, Flush, BatcherEnds, StoreNoSpool,
         Stored, TakeKick, RetryFires, SeesStop, SkipSpool, Drained, SplitRefused, Loom, PostAccepted,
         PostReplyLost, PostFails, PostRejected, PostTooLarge, LoomTakes, Shutdown, CloseStop, LastDrain,
         vars, shipperVars, fates
    <2>2. CASE SpoolHas \/ SpoolEmpty \/ MemHas \/ SplitMem \/ AskSpool \/ SplitSpool \/ SplitOk
               \/ SplitError \/ Apply \/ StorePut
      BY <2>2, Zenon DEF SpoolHas, SpoolEmpty, MemHas, SplitMem, AskSpool, SplitSpool, SplitOk,
         SplitError, Apply, StorePut, fates
    <2>3. CASE InsideSpool \/ Surroundings \/ Start \/ StartNoSpool
      BY <2>3, Zenon DEF InsideSpool, Surroundings, Start, StartNoSpool, shipperVars, fates
    <2>4. CASE Log
      BY <2>4 DEF Log
    <2>5. CASE StoreOk \/ StoreFallback
      BY <2>5, <1>d, MemPutKeeps, Zenon DEF StoreOk, StoreFallback, Stored
    <2>6. CASE Exit \/ Dies
      BY <2>6, EndsPipe
    <2> QED BY <2>1, <2>2, <2>3, <2>4, <2>5, <2>6, StepKinds, Zenon
  <1>s. Known \cup Settled \subseteq Known' \cup Settled'
    BY <1>k, <1>o, <1>f DEF Settled
  \* The memory queue.
  <1>q. CASE ~Exit /\ ~Dies
    <2>1. InMem \subseteq InMem' \cup Settled'
      <3>1. CASE mem' = mem
        BY <3>1 DEF InMem
      <3>2. CASE MemPut(docs)
        BY <1>d, <3>2, MemPutKeeps DEF Settled
      <3>3. CASE Apply /\ MemRemove(hand.docs)
        <4>1. InMem \subseteq InMem' \cup Range(hand.docs)
          BY <1>d, <3>3, MemRemoveKeeps
        <4>2. Range(hand.docs) \subseteq delivered' \cup refused'
          <5>1. /\ sender = "apply" /\ delivered' = delivered
                /\ refused' = IF verdict = "refused" THEN refused \cup Range(hand.docs) ELSE refused
            BY <3>3, Zenon DEF Apply
          <5> QED BY <1>0, <5>1 DEF TakenSettled
        <4> QED BY <4>1, <4>2 DEF Settled
      <3>4. CASE MemSplit(hand.docs)
        BY <1>d, <3>4, MemSplitKeeps
      <3> QED BY <1>q, <3>1, <3>2, <3>3, <3>4, MemSteps, Zenon
    <2>2. ASSUME made' = made, Upstream \subseteq Upstream' \cup InMem' \cup Known' \cup Settled'
          PROVE  Covered'
      <3>1. /\ InMemory = Upstream \cup InMem
            /\ InMemory' = Upstream' \cup InMem'
        BY DEF InMemory, Upstream
      <3>2. InMemory \cup Known \cup Settled \subseteq InMemory' \cup Known' \cup Settled'
        BY <1>s, <2>1, <2>2, <3>1
      <3> QED BY <2>2, <3>2 DEF Covered
    <2>3. CASE /\ UNCHANGED <<inCh, ev, docs, made>>
      <3>1. Upstream' = Upstream
        BY <2>3 DEF Upstream
      <3> QED BY <2>2, <2>3, <3>1
    <2>4. CASE Log
      <3>1. made' = made + 1 /\ UNCHANGED <<ev, docs, mem>>
        BY <2>4 DEF Log
      <3>2. \/ inCh' = inCh /\ overflow' = overflow \cup {made + 1}
            \/ inCh' = Append(inCh, made + 1)
        BY <2>4 DEF Log
      <3>3. inCh \in Seq(Records)
        BY <1>0 DEF PipeShape
      <3>4. /\ Range(inCh) \subseteq Range(inCh')
            /\ made + 1 \in Range(inCh') \cup overflow'
        <4>1. CASE inCh' = inCh /\ overflow' = overflow \cup {made + 1}
          BY <4>1
        <4>2. CASE inCh' = Append(inCh, made + 1)
          <5>1. Len(inCh) \in Nat /\ DOMAIN inCh = 1..Len(inCh)
            BY <3>3
          <5>2. /\ DOMAIN inCh' = 1..(Len(inCh) + 1) /\ inCh'[Len(inCh) + 1] = made + 1
                /\ \A i \in 1..Len(inCh) : inCh'[i] = inCh[i]
            BY <3>3, <4>2, <5>1
          <5> QED BY <5>1, <5>2 DEF Range
        <4> QED BY <3>2, <4>1, <4>2
      <3>5. InMem' = InMem
        BY <3>1 DEF InMem
      <3>6. InMemory \subseteq InMemory' /\ made + 1 \in InMemory' \cup Settled'
        BY <3>1, <3>4, <3>5 DEF InMemory, Settled
      <3>7. \A r \in 1..made : r \in InMemory' \cup Known' \cup Settled'
        BY <1>s, <3>6 DEF Covered
      <3>8. \A r \in 1..(made + 1) : r \in 1..made \/ r = made + 1
        BY <1>d
      <3> QED BY <3>1, <3>6, <3>7, <3>8 DEF Covered
    <2>5. CASE Receive
      <3>1. inCh \in Seq(Records) /\ inCh # <<>> /\ inCh' = Tail(inCh) /\ ev = 0 /\ made' = made
        BY <1>0, <2>5, ReceivePipe DEF PipeShape, spoolVars, history
      <3>2. PICK h : h = Head(inCh)
        OBVIOUS
      <3>3. Range(inCh) \subseteq Range(inCh') \cup {h}
        <4>1. Len(inCh) \in Nat /\ DOMAIN inCh = 1..Len(inCh) /\ h = inCh[1]
          BY <3>1, <3>2
        <4>2. /\ DOMAIN inCh' = 1..(Len(inCh) - 1)
              /\ \A i \in 1..(Len(inCh) - 1) : inCh'[i] = inCh[i + 1]
          BY <3>1, <4>1
        <4>3. ASSUME NEW i \in 1..Len(inCh) PROVE inCh[i] \in Range(inCh') \cup {h}
          <5>1. CASE i = 1
            BY <4>1, <5>1
          <5>2. CASE i # 1
            <6>1. i - 1 \in 1..(Len(inCh) - 1) /\ (i - 1) + 1 = i
              BY <4>1, <5>2
            <6>2. inCh'[i - 1] = inCh[i] /\ i - 1 \in DOMAIN inCh'
              BY <4>2, <6>1
            <6> QED BY <6>2 DEF Range
          <5> QED BY <5>1, <5>2
        <4> QED BY <4>1, <4>3 DEF Range
      <3>4. Range(docs) \cup {h} \subseteq Range(docs') \cup ({ev'} \ {0})
        <4>1. h # 0
          <5>1. h \in Records
            BY <3>1, <3>2
          <5> QED BY <5>1 DEF Records
        <4>2. CASE ev' = h /\ docs' = docs
          BY <4>1, <4>2
        <4>3. CASE docs' = Append(docs, h)
          <5>1. Len(docs) \in Nat /\ DOMAIN docs = 1..Len(docs)
            BY <1>d
          <5>2. /\ DOMAIN docs' = 1..(Len(docs) + 1) /\ docs'[Len(docs) + 1] = h
                /\ \A i \in 1..Len(docs) : docs'[i] = docs[i]
            BY <1>d, <4>3, <5>1
          <5> QED BY <5>1, <5>2 DEF Range
        <4> QED BY <1>0, <2>5, <3>2, <4>2, <4>3, ReceivePipe
      <3>5. Upstream \subseteq Upstream'
        BY <3>1, <3>3, <3>4 DEF Upstream
      <3> QED BY <2>2, <3>1, <3>5
    <2>6. CASE Returns
      <3>1. inCh' = inCh /\ made' = made /\ Range(docs') = {ev} \ {0}
        BY <1>0, <2>6, ReturnsPipe
      <3>2. Range(docs) \subseteq InMem' \cup Known' \cup Settled'
        <4>1. CASE StoreOk
          <5>1. op.pc = "enforce"
            BY <4>1 DEF StoreOk, PutDone
          <5>2. Landed
            BY <1>0, <5>1 DEF SpoolInv, CallShape, Landed
          <5>3. Range(docs) \subseteq Known
            BY <1>0, <5>2 DEF UpstreamNew
          <5> QED BY <1>k, <5>3
        <4>2. CASE StoreFallback \/ StoreNoSpool
          <5>1. MemPut(docs)
            BY <4>2, Zenon DEF StoreFallback, StoreNoSpool
          <5>2. Range(docs) \subseteq InMem' \cup memDropped'
            BY <1>d, <5>1, MemPutKeeps
          <5> QED BY <5>2 DEF Settled
        <4> QED BY <2>6, <4>1, <4>2 DEF Returns
      <3>3. Upstream \subseteq Upstream' \cup Range(docs)
        BY <3>1 DEF Upstream
      <3> QED BY <2>2, <3>1, <3>2, <3>3
    <2> QED BY <1>q, <2>3, <2>4, <2>5, <2>6, ChannelSteps, Zenon
  \* The end of the process.
  <1>e. CASE Exit \/ Dies
    <2>1. made' = made /\ lost' = lost \cup (InMemory \ (Held \cup delivered))
      BY <1>e, EndsPipe
    <2>2. InMemory \subseteq Known' \cup Settled'
      BY <1>k, <2>1 DEF Known, Settled
    <2> QED BY <1>s, <2>1, <2>2 DEF Covered
  <1> QED BY <1>q, <1>e

----------------------------------------------------------------------------
(* The theorems. *)

\* Nothing is logged at first.
LEMMA ShipperInit == Init => ShipperInv /\ DQ!Init
  <1> SUFFICES ASSUME Init PROVE ShipperInv /\ DQ!Init
    OBVIOUS
  <1>1. SpoolInv /\ DQ!Init
    BY InitInv DEF Init
  <1>2. /\ inCh = <<>> /\ ev = 0 /\ docs = <<>> /\ mem = <<>> /\ sender = "select"
        /\ made = 0 /\ taken = {} /\ op = Idle
    BY DEF Init, FreshShipper, SpoolInit
  <1>3. Range(inCh) = {} /\ Range(docs) = {} /\ IsInjective(inCh)
    BY <1>2 DEF Range, IsInjective
  <1>4. op.call = "none"
    BY <1>2, IdleCall
  <1>5. PipeShape
    <2>1. <<>> \in Seq(Records) /\ <<>> \in Seq(Seq(Records))
      OBVIOUS
    <2> QED BY <1>2, <1>4, <2>1, SpoolAssumption DEF PipeShape
  <1>6. UpstreamNew
    <2>1. Known \subseteq 1..0
      BY <1>1, <1>2 DEF SpoolInv, RecordsKnown
    <2>2. Known = {}
      BY <2>1
    <2> QED BY <1>2, <1>3, <1>4, <2>2 DEF UpstreamNew, Upstream, Landed
  <1>7. TakenSettled /\ Accounted
    BY <1>2 DEF TakenSettled, Accounted
  <1> QED BY <1>1, <1>5, <1>6, <1>7 DEF ShipperInv

\* Every step of batcher, sender, Shutdown and surroundings keeps ShipperInv.
LEMMA ShipperSteps == ShipperInv /\ [Next]_vars => ShipperInv' /\ DQStep
  <1> SUFFICES ASSUME ShipperInv, [Next]_vars PROVE ShipperInv' /\ DQStep
    OBVIOUS
  <1>1. SpoolInv' /\ DQStep
    BY SpoolSteps
  <1>2. PipeShape' /\ UpstreamNew'
    BY PipeShapeSteps, UpstreamSteps
  <1>3. TakenSettled'
    BY TakenSteps DEF ShipperInv
  <1>4. Accounted'
    <2>1. Covered
      BY CoveredAccounted DEF ShipperInv
    <2>2. Covered'
      BY <2>1, CoveredSteps
    <2>3. (TakenSettled => (Accounted <=> Covered))'
      BY CoveredAccounted, PTL
    <2> QED BY <1>3, <2>2, <2>3, Zenon
  <1> QED BY <1>1, <1>2, <1>3, <1>4 DEF ShipperInv

\* The invariant holds of the composition.
LEMMA ShipperInvariant == Spec => []ShipperInv
  <1>1. Init => ShipperInv
    BY ShipperInit
  <1>2. ShipperInv /\ [Next]_vars => ShipperInv'
    BY ShipperSteps
  <1> QED BY <1>1, <1>2, PTL DEF Spec

\* No record is lost silently (shipper.go:23-51): each one logged is on its way, on
\* disk, with Loom, or was counted as turned away, refused, dropped or gone with the
\* memory of a process that ended; whatever posts, writes and processes fail.
THEOREM RecordsAccounted == Spec => []Accounted
  <1>1. ShipperInv => Accounted
    BY DEF ShipperInv
  <1> QED BY <1>1, ShipperInvariant, PTL

\* The spool keeps its promise under the shipper's own calls too, with batches that
\* come back from failed writes and processes that run without a spool.
THEOREM ShipperKeepsQueue == Spec => ImplementsDurableQueue
  <1>1. Init => DQ!Init
    BY ShipperInit
  <1>2. ShipperInv /\ [Next]_vars => [DQ!Next]_(DQ!vars)
    BY ShipperSteps DEF DQStep
  <1> QED BY <1>1, <1>2, ShipperInvariant, PTL DEF Spec, ImplementsDurableQueue, DQ!Spec

----------------------------------------------------------------------------
(* Nobody waits without a waker. *)

\* Only the sender takes the token.
LEMMA KickSteps ==
    ASSUME [Next]_vars
    PROVE  kick' = kick \/ kick' = TRUE \/ TakeKick
  <1>1. CASE Apart
    BY <1>1, Zenon DEF Apart, IdleTick, Receive, Flush, BatcherEnds, StoreNoSpool, Stored, Wake,
       RetryFires, SeesStop, SkipSpool, Drained, SplitRefused, Loom, PostAccepted, PostReplyLost,
       PostFails, PostRejected, PostTooLarge, Shutdown, CloseStop, LastDrain, vars, shipperVars
  <1>2. CASE SpoolHas \/ SpoolEmpty \/ MemHas \/ SplitMem \/ AskSpool \/ SplitSpool \/ SplitOk
             \/ SplitError \/ Apply \/ StorePut
    BY <1>2, Zenon DEF SpoolHas, SpoolEmpty, MemHas, SplitMem, AskSpool, SplitSpool, SplitOk,
       SplitError, Apply, StorePut
  <1>3. CASE InsideSpool \/ Surroundings \/ Start \/ StartNoSpool \/ Log
    BY <1>3, Zenon DEF InsideSpool, Surroundings, Start, StartNoSpool, Log, shipperVars
  <1>4. CASE StoreOk \/ StoreFallback \/ Exit \/ Dies
    BY <1>4, Zenon DEF StoreOk, StoreFallback, Stored, Wake, Exit, Dies, ResetShipper
  <1> QED BY <1>1, <1>2, <1>3, <1>4, StepKinds, Zenon

\* How the sender gets to its two places of rest.
LEMMA SenderSteps ==
    ASSUME [Next]_vars
    PROVE  \/ UNCHANGED <<sender, retry>> \/ sender' \notin {"mem", "select"}
           \/ SpoolEmpty \/ SkipSpool \/ Drained \/ Exit \/ Dies
           \/ retry' = TRUE /\ sender' # "mem"
  <1>1. CASE Apart
    BY <1>1, Zenon DEF Apart, IdleTick, Receive, Flush, BatcherEnds, StoreNoSpool, Stored, TakeKick,
       RetryFires, SeesStop, SplitRefused, Loom, PostAccepted, PostReplyLost, DrainReturns, Goes,
       PostFails, PostRejected, PostTooLarge, Shutdown, CloseStop, LastDrain, vars, shipperVars,
       senderVars
  <1>2. CASE SpoolHas \/ MemHas \/ SplitMem \/ AskSpool \/ SplitSpool \/ SplitOk
             \/ SplitError \/ Apply \/ StorePut
    BY <1>2, Zenon DEF SpoolHas, MemHas, SplitMem, AskSpool, SplitSpool, SplitOk,
       SplitError, Apply, StorePut, Goes, senderVars
  <1>3. CASE InsideSpool \/ Surroundings \/ Start \/ StartNoSpool \/ Log
    BY <1>3, Zenon DEF InsideSpool, Surroundings, Start, StartNoSpool, Log, shipperVars, senderVars
  <1>4. CASE StoreOk \/ StoreFallback
    BY <1>4, Zenon DEF StoreOk, StoreFallback, Stored, senderVars
  <1> QED BY <1>1, <1>2, <1>3, <1>4, StepKinds, Zenon

\* Who changes the index, and who starts and ends.
LEMMA IndexSteps ==
    ASSUME [Next]_vars
    PROVE  /\ \/ files' = files \/ InsideSpool \/ Start \/ files' = <<>>
              \/ (Apply \/ SplitOk) /\ DOMAIN files # {}
           /\ up' = up \/ Exit \/ Dies \/ Start \/ StartNoSpool
           /\ spool' = spool \/ Start \/ StartNoSpool
  <1>1. CASE Apart
    <2>1. spool' = spool
      BY <1>1, Zenon DEF Apart, IdleTick, Receive, Flush, BatcherEnds, StoreNoSpool, Stored, TakeKick,
         RetryFires, SeesStop, SkipSpool, Drained, SplitRefused, Loom, PostAccepted, PostReplyLost,
         PostFails, PostRejected, PostTooLarge, Shutdown, CloseStop, LastDrain, vars, shipperVars
    <2>2. files' = files /\ up' = up
      BY <1>1, ApartSteps DEF spoolVars, memory
    <2> QED BY <2>1, <2>2
  <1>2. CASE SpoolHas \/ SpoolEmpty \/ MemHas \/ SplitMem \/ AskSpool \/ SplitSpool \/ StorePut
             \/ SplitError
    BY <1>2, Zenon DEF SpoolHas, SpoolEmpty, MemHas, SplitMem, AskSpool, SplitSpool, StorePut,
       SplitError, OldestFound, OldestEmpty, Oldest, Split, SplitVanished, SplitFailed
  <1>3. CASE Apply \/ SplitOk
    <2>1. /\ UNCHANGED <<up, spool>>
          /\ files' = files \/ \E i \in DOMAIN files : TRUE
      BY <1>3, Zenon DEF Apply, SplitOk, Remove, SplitDone
    <2> QED BY <1>3, <2>1, Zenon
  <1>4. CASE Surroundings \/ StartNoSpool \/ Log
    BY <1>4, Zenon DEF Surroundings, Tick, Damage, StartNoSpool, Log, shipperVars, memory
  <1>5. CASE StoreOk \/ StoreFallback
    BY <1>5, Zenon DEF StoreOk, StoreFallback, Stored, PutDone, PutLowDisk, PutFailed
  <1>6. CASE InsideSpool
    BY <1>6, Zenon DEF InsideSpool, Expire, SampleRoom, MakeRoom, NameBatch, WriteTemp, RenamePut,
       Land, Enforce, SkipCorrupt, RenameHalf, shipperVars
  <1>7. CASE Exit \/ Dies
    BY <1>7, EndsPipe, Zenon
  <1>8. CASE Start
    BY <1>8
  <1> QED BY <1>1, <1>2, <1>3, <1>4, <1>5, <1>6, <1>7, <1>8, StepKinds, Zenon

\* A batch in the index that no Put is about to announce.
Unserved == files # <<>> /\ op.call # "put"

\* A batch gets there with a token.
LEMMA UnservedSteps ==
    ASSUME SpoolInv, ~up => kick, [Next]_vars, Unserved'
    PROVE  Unserved \/ kick' = TRUE \/ (kick' = kick /\ kick)
  <1>1. CASE op.call = "put"
    <2>1. op' # op /\ ~InsideSpool
      BY <1>1, InsideCalls DEF Unserved
    <2>2. StoreOk \/ StoreFallback \/ SpoolHas \/ SpoolEmpty \/ SplitOk \/ SplitError \/ Exit \/ Dies
      BY <1>1, <2>1, CallSteps
    <2>3. ~(SpoolHas \/ SpoolEmpty \/ SplitError)
      BY <1>1 DEF SpoolHas, SpoolEmpty, SplitError, OldestFound, OldestEmpty, SplitFailed
    <2>4. ~SplitOk
      <3>1. SplitOk => op.pc = "swap"
        BY Zenon DEF SplitOk, SplitDone
      <3> QED BY <1>1, <3>1 DEF SpoolInv, CallShape
    <2>5. StoreOk \/ StoreFallback \/ Exit \/ Dies => kick' = TRUE
      BY Zenon DEF StoreOk, StoreFallback, Stored, Wake, Exit, Dies, ResetShipper
    <2> QED BY <2>2, <2>3, <2>4, <2>5
  <1>2. CASE files = <<>> /\ op.call # "put"
    <2>1. files' # files /\ files' # <<>> /\ DOMAIN files = {} /\ op'.call # "put"
      BY <1>2 DEF Unserved
    <2>2. InsideSpool \/ Start
      BY <2>1, IndexSteps, Zenon
    <2>3. ~InsideSpool
      <3>1. SUFFICES ASSUME InsideSpool PROVE FALSE
        OBVIOUS
      <3>2. ~RenamePut
        BY <1>2 DEF RenamePut
      <3>3. files' = files \/ files # <<>>
        BY <3>1, <3>2, Zenon DEF InsideSpool, Expire, SampleRoom, MakeRoom, NameBatch, WriteTemp,
           Enforce, SkipCorrupt, RenameHalf, DropFront
      <3> QED BY <1>2, <2>1, <3>3
    <2>4. Start => kick' = kick /\ ~up
      BY Zenon DEF Start, OpenSpool
    <2> QED BY <2>2, <2>3, <2>4, Zenon
  <1> QED BY <1>1, <1>2 DEF Unserved

\* Each part of WakeInv after a step.
LEMMA WakeSteps ==
    ASSUME SpoolInv, WakeInv, [Next]_vars
    PROVE  WakeInv'
  <1>0. /\ ~up => kick
        /\ ~spool => files = <<>> /\ op.call = "none"
        /\ sender = "mem" => kick \/ ~Unserved
    BY Zenon DEF WakeInv, Unserved
  <1>1. ~up' => kick'
    <2>1. CASE Exit \/ Dies
      BY <2>1, EndsPipe, Zenon
    <2>2. CASE Start \/ StartNoSpool
      BY <2>2, Zenon DEF Start, OpenSpool, StartNoSpool
    <2>3. CASE up' = up
      <3>1. TakeKick => up
        BY Zenon DEF TakeKick
      <3> QED BY <1>0, <2>3, <3>1, KickSteps, Zenon
    <2> QED BY <2>1, <2>2, <2>3, IndexSteps, Zenon
  <1>2. ~spool' => files' = <<>> /\ op'.call = "none"
    <2>1. CASE StartNoSpool
      <3>1. ~up /\ files' = files /\ op' = op
        BY <2>1, Zenon DEF StartNoSpool, memory
      <3>2. files = <<>> /\ op = Idle
        BY <3>1, Zenon DEF SpoolInv
      <3> QED BY <3>1, <3>2, IdleCall
    <2>2. CASE Start
      BY <2>2, Zenon DEF Start
    <2>3. CASE spool' = spool /\ ~spool /\ ~Start /\ ~StartNoSpool
      <3>1. files = <<>> /\ op.call = "none" /\ DOMAIN files = {}
        BY <1>0, <2>3
      <3>2. ~InsideSpool
        BY <3>1, InsideCalls
      <3>3. files' = <<>>
        BY <2>3, <3>1, <3>2, IndexSteps, Zenon
      <3>4. ~StorePut /\ ~AskSpool
        BY <2>3, Zenon DEF StorePut, AskSpool
      <3>5. SplitSpool => op' = op
        BY <3>1 DEF SplitSpool, Split, SplitVanished, Positions
      <3>6. op'.call = "none"
        BY <3>1, <3>2, <3>4, <3>5, CallSteps, IdleCall
      <3> QED BY <3>3, <3>6
    <2> QED BY <2>1, <2>2, <2>3, IndexSteps, Zenon
  <1>3. sender' = "mem" => kick' \/ ~Unserved'
    <2>1. SUFFICES ASSUME sender' = "mem", ~kick', Unserved' PROVE FALSE
      BY Zenon
    <2>2. Unserved /\ ~kick
      <3>1. ~TakeKick
        BY <2>1, Zenon DEF TakeKick, Goes
      <3>2. kick' = kick
        BY <2>1, <3>1, KickSteps, Zenon
      <3> QED BY <1>0, <2>1, <3>2, UnservedSteps, Zenon
    <2>3. CASE SpoolEmpty
      <3>1. files = <<>>
        BY <2>3, Zenon DEF SpoolEmpty, OldestEmpty
      <3> QED BY <2>2, <3>1 DEF Unserved
    <2>4. CASE SkipSpool
      BY <1>0, <2>2, <2>4, Zenon DEF SkipSpool, Unserved
    <2>5. CASE sender = "mem"
      BY <1>0, <2>2, <2>5, Zenon
    <2>7. ~Drained /\ ~Exit /\ ~Dies
      BY <2>1, EndsPipe DEF Drained, DrainReturns
    <2> QED BY <2>1, <2>3, <2>4, <2>5, <2>7, SenderSteps, Zenon
  <1>4. NoLostWakeup'
    <2>1. SUFFICES ASSUME up', sender' = "select", ~kick', ~retry'
                   PROVE  mem' = <<>> /\ ~Unserved'
      BY Zenon DEF NoLostWakeup, Unserved
    <2>2. ~Exit /\ ~Dies /\ ~SpoolEmpty /\ ~SkipSpool
      BY <2>1, EndsPipe DEF SpoolEmpty, SkipSpool, Goes
    <2>3. Drained \/ (UNCHANGED <<sender, retry>>)
      BY <2>1, <2>2, SenderSteps, Zenon
    <2>4. ~TakeKick
      <3>1. SUFFICES ASSUME TakeKick PROVE FALSE
        OBVIOUS
      <3>2. retry' = retry
        BY <3>1, Zenon DEF TakeKick
      <3>3. ~retry
        BY <2>1, <3>2
      <3>4. sender' = "next"
        BY <3>1, <3>3, Zenon DEF TakeKick, Goes
      <3> QED BY <2>1, <3>4
    <2>5. kick' = kick /\ ~kick
      <3>1. kick' = kick
        BY <2>1, <2>4, KickSteps, Zenon
      <3> QED BY <2>1, <3>1
    <2>6. CASE Drained
      <3>1. mem' = <<>> /\ sender = "mem"
        BY <2>6, Zenon DEF Drained
      <3>2. ~Unserved
        BY <1>0, <2>5, <3>1, Zenon
      <3> QED BY <2>1, <2>5, <3>1, <3>2, UnservedSteps, <1>0, Zenon
    <2>7. CASE UNCHANGED <<sender, retry>>
      <3>1. sender = "select" /\ ~retry /\ up
        <4>1. up
          BY <1>0, <2>5, Zenon
        <4> QED BY <2>1, <2>7, <4>1, Zenon
      <3>2. mem = <<>> /\ ~Unserved
        BY <2>5, <3>1, Zenon DEF WakeInv, NoLostWakeup, Unserved
      <3>3. ~Unserved'
        BY <1>0, <2>1, <2>5, <3>2, UnservedSteps, Zenon
      <3>4. ~StoreFallback /\ ~StoreNoSpool
        BY <2>1, Zenon DEF StoreFallback, StoreNoSpool, Stored, Wake
      <3>5. ~Apply /\ ~SplitMem
        BY <3>1 DEF Apply, SplitMem
      <3>6. mem' = mem
        BY <2>2, <3>4, <3>5, MemSteps, Zenon
      <3> QED BY <3>2, <3>3, <3>6, Zenon
    <2> QED BY <2>3, <2>6, <2>7
  <1> QED BY <1>1, <1>2, <1>3, <1>4, Zenon DEF WakeInv, Unserved

\* No batch waits unnoticed (shipper.go:264-306): while the sender sleeps with neither
\* a token in the channel nor its retry timer set, both queues are empty, or the Put
\* that fills the spool has yet to send its token. It holds for every interleaving of
\* batcher, sender and Shutdown, and across restarts.
THEOREM NoWakeupLost == Spec => []NoLostWakeup
  <1>1. Init => WakeInv
    <2>1. SUFFICES ASSUME Init PROVE WakeInv
      OBVIOUS
    <2>2. kick /\ spool /\ sender = "select"
      BY <2>1, Zenon DEF Init, FreshShipper
    <2>3. sender # "mem"
      BY <2>2
    <2> QED BY <2>2, <2>3, Zenon DEF WakeInv, NoLostWakeup
  <1>2. ShipperInv /\ WakeInv /\ [Next]_vars => WakeInv'
    <2>1. ShipperInv => SpoolInv
      BY DEF ShipperInv
    <2> QED BY <2>1, WakeSteps
  <1>3. WakeInv => NoLostWakeup
    BY DEF WakeInv
  <1> QED BY <1>1, <1>2, <1>3, ShipperInvariant, PTL DEF Spec

----------------------------------------------------------------------------
(* Nothing is sent twice. *)

\* The spool's part of a step: one of Spool's own, the end of the process, or a caller's.
LEMMA SpoolParts ==
    ASSUME [Next]_vars, "nospool" \notin Faults
    PROVE  \/ [SpoolNext]_spoolVars \/ ProcessEnds \/ Log \/ StorePut
           \/ UNCHANGED <<up, clock, files, total, seq, op, directory, history>>
  <1>1. CASE Apart
    BY <1>1, ApartSteps
  <1>2. CASE StoreOk \/ StoreFallback \/ SpoolHas \/ SpoolEmpty \/ SplitOk \/ SplitError
    <2>1. SpoolCall
      BY <1>2, Zenon DEF StoreOk, StoreFallback, SpoolHas, SpoolEmpty, SplitOk, SplitError, SpoolCall
    <2> QED BY <2>1, Zenon DEF SpoolNext
  <1>3. CASE MemHas \/ SplitMem
    BY <1>3, Zenon DEF MemHas, SplitMem
  <1>4. CASE Apply
    BY <1>4, Zenon DEF Apply, SpoolNext
  <1>5. CASE AskSpool \/ SplitSpool
    BY <1>5, Zenon DEF AskSpool, SplitSpool, SpoolNext
  <1>6. CASE InsideSpool
    BY <1>6, Zenon DEF InsideSpool, SpoolNext, SpoolCall
  <1>7. CASE Surroundings \/ Start
    BY <1>7, Zenon DEF Surroundings, Start, SpoolNext
  <1>8. CASE Exit \/ Dies
    BY <1>8, Zenon DEF Exit, Dies, Crash
  <1>9. ~StartNoSpool
    BY DEF StartNoSpool
  <1> QED BY <1>1, <1>2, <1>3, <1>4, <1>5, <1>6, <1>7, <1>8, <1>9, StepKinds, Zenon

\* The directory stays listed under the shipper's calls.
LEMMA ShipperListed ==
    ASSUME SpoolInv, ListedInv, [Next]_vars, "nospool" \notin Faults, "unlink" \notin Faults
    PROVE  ListedInv'
  <1>1. CASE [SpoolNext]_spoolVars
    BY <1>1, ListedSteps
  <1>2. CASE ProcessEnds
    <2>1. ~up' /\ op' = Idle
      BY <1>2 DEF ProcessEnds
    <2> QED BY <2>1, IdleCall DEF ListedInv, DiskListed, TempsOwn, SplitListed
  <1>3. CASE Log
    <2>1. UNCHANGED <<up, files, op, disk, temps>>
      BY <1>3 DEF Log, memory, directory
    <2> QED BY <2>1 DEF ListedInv, DiskListed, TempsOwn, SplitListed, Listed, Target
  <1>4. CASE StorePut
    <2>1. UNCHANGED <<up, files, disk, temps>>
      BY <1>4 DEF StorePut, directory
    <2>2. op.pc = "idle" /\ op' = Begin("put", "expire", NoName, docs)
      BY <1>4 DEF StorePut, PutCall
    <2>3. op.call = "none" /\ op'.call = "put" /\ op'.pc = "expire"
      BY <2>2 DEF SpoolInv, CallShape, Begin
    <2> QED BY <2>1, <2>2, <2>3 DEF ListedInv, DiskListed, TempsOwn, SplitListed, Listed
  <1>5. CASE UNCHANGED <<up, clock, files, total, seq, op, directory, history>>
    <2>1. UNCHANGED <<up, files, op, disk, temps>>
      BY <1>5 DEF directory
    <2> QED BY <2>1 DEF ListedInv, DiskListed, TempsOwn, SplitListed, Listed, Target
  <1> QED BY <1>1, <1>2, <1>3, <1>4, <1>5, SpoolParts

\* Shutdown's waits.
LEMMA MainSteps ==
    ASSUME MainShape, [Next]_vars
    PROVE  MainShape'
  <1>1. CASE Apart
    <2>1. CASE Receive \/ Flush \/ BatcherEnds \/ StoreNoSpool \/ IdleTick
      BY <2>1, Zenon DEF Receive, Flush, BatcherEnds, StoreNoSpool, Stored, IdleTick, vars, shipperVars,
         senderVars, channelVars, MainShape
    <2>2. CASE TakeKick \/ RetryFires \/ SeesStop \/ SkipSpool \/ SplitRefused \/ LastDrain \/ CloseStop
               \/ Shutdown \/ UNCHANGED vars
      BY <2>2, Zenon DEF TakeKick, RetryFires, SeesStop, SkipSpool, SplitRefused, LastDrain, CloseStop,
         Shutdown, Goes, vars, shipperVars, senderVars, channelVars, MainShape
    <2>3. CASE Drained \/ Loom
      BY <2>3, Zenon DEF Drained, Loom, PostAccepted, PostReplyLost, PostFails, PostRejected, PostTooLarge,
         DrainReturns, Goes, channelVars, MainShape
    <2> QED BY <1>1, <2>1, <2>2, <2>3, Zenon DEF Apart
  <1>2. CASE SpoolHas \/ SpoolEmpty \/ MemHas \/ SplitMem \/ AskSpool \/ SplitSpool \/ SplitOk
             \/ SplitError \/ Apply
    BY <1>2, Zenon DEF SpoolHas, SpoolEmpty, MemHas, SplitMem, AskSpool, SplitSpool, SplitOk,
       SplitError, Apply, Goes, channelVars, MainShape
  <1>3. CASE InsideSpool \/ Surroundings \/ Start \/ StartNoSpool \/ Log
    BY <1>3, Zenon DEF InsideSpool, Surroundings, Start, StartNoSpool, Log, shipperVars, senderVars, channelVars,
       MainShape
  <1>4. CASE StorePut \/ StoreOk \/ StoreFallback
    BY <1>4, Zenon DEF StorePut, StoreOk, StoreFallback, Stored, senderVars, MainShape
  <1>5. CASE Exit \/ Dies
    <2>1. main' = "run"
      BY <1>5, Zenon DEF Exit, Dies, ResetShipper
    <2> QED BY <2>1 DEF MainShape
  <1> QED BY <1>1, <1>2, <1>3, <1>4, <1>5, StepKinds, Zenon

\* Names carry a sequence number.
LEMMA NumberedSteps ==
    ASSUME ShipperInv, Numbered, [Next]_vars
    PROVE  Numbered'
  <1>0. SpoolInv /\ seq \in Nat /\ op \in Call
    BY DEF ShipperInv, SpoolInv, TypeOK
  <1>1. CASE NameBatch
    <2>1. seq' = seq + 1 /\ body' = body
      BY <1>1 DEF NameBatch, directory
    <2> QED BY <1>0, <2>1 DEF Numbered
  <1>2. CASE RenamePut
    <2>1. op.call = "put" /\ op.pc = "rename" /\ op'.pc = "enforce" /\ DOMAIN body' = DOMAIN body \cup {op.name}
      <3>1. op' = [op EXCEPT !.pc = "enforce"] /\ Target = op.name /\ op.call = "put" /\ op.pc = "rename"
        BY <1>2 DEF RenamePut, Goto, Land, Target
      <3>2. DOMAIN body' = DOMAIN body \cup {Target}
        BY <1>2 DEF RenamePut, Land
      <3> QED BY <1>0, <3>1, <3>2 DEF Call
    <2>2. op.name = [t |-> clock, seq |-> seq, sfx |-> <<>>] /\ PutNamed
      BY <1>0, <2>1 DEF SpoolInv, NamesFresh, PutNamed
    <2> QED BY <2>1, <2>2 DEF Numbered, PutNamed
  <1>3. CASE RenameHalf
    <2>1. op.name \in DOMAIN body /\ DOMAIN body' = DOMAIN body \cup {HalfName(op.name, op.half)}
          /\ op'.call = "split"
      BY <1>0, <1>3, HalfLands
    <2>2. HalfName(op.name, op.half).seq = op.name.seq
      BY DEF HalfName
    <2> QED BY <2>1, <2>2 DEF Numbered, PutNamed
  <1>4. ASSUME ~NameBatch, ~RenamePut, ~RenameHalf
        PROVE  body' = body /\ (PutNamed' => PutNamed /\ seq' = seq)
    <2>1. CASE InsideSpool
      <3>1. body' = body /\ seq' = seq
        BY <1>4, <2>1, Zenon DEF InsideSpool, Expire, SampleRoom, MakeRoom, WriteTemp, Enforce, SkipCorrupt,
           directory
      <3>2. op'.call = op.call
        BY <1>0, <2>1, InsideCalls
      <3>3. CASE Expire \/ Enforce \/ SkipCorrupt
        BY <3>1, <3>3 DEF Expire, Enforce, SkipCorrupt, PutNamed
      <3>4. CASE SampleRoom \/ MakeRoom
        <4>1. op'.pc = "room"
          BY <1>0, <3>4 DEF SampleRoom, MakeRoom, ShortOfRoom, Call
        <4> QED BY <3>1, <4>1 DEF PutNamed
      <3>5. CASE WriteTemp
        <4>1. op.pc = "write"
          BY <3>5 DEF WriteTemp
        <4> QED BY <3>1, <3>2, <4>1 DEF PutNamed
      <3> QED BY <1>4, <2>1, <3>3, <3>4, <3>5 DEF InsideSpool
    <2>2. CASE ~InsideSpool
      <3>1. body' = body
        <4>1. CASE Apart
          BY <4>1, ApartSteps DEF spoolVars, directory
        <4>2. CASE Log \/ StorePut \/ StoreOk \/ StoreFallback \/ SpoolHas \/ SpoolEmpty \/ MemHas \/ SplitMem
                   \/ SplitOk \/ SplitError \/ AskSpool \/ Apply \/ SplitSpool
          BY <4>2, Zenon DEF Log, StorePut, StoreOk, StoreFallback, SpoolHas, SpoolEmpty, MemHas, SplitMem,
             SplitOk, SplitError, AskSpool, Apply, SplitSpool, PutDone, PutLowDisk, PutFailed, OldestFound,
             OldestEmpty, SplitDone, SplitFailed, Oldest, Remove, Split, SplitVanished, directory
        <4>3. CASE Surroundings \/ Exit \/ Dies \/ Start \/ StartNoSpool
          BY <4>3, Zenon DEF Surroundings, Tick, Damage, Exit, Dies, Crash, ProcessEnds, Start, OpenSpool,
             StartNoSpool, directory
        <4> QED BY <2>2, <4>1, <4>2, <4>3, StepKinds, Zenon
      <3>2. PutNamed' => op' = op
        <4>1. \/ op' = op \/ op'.pc = "expire" \/ op'.call \in {"oldest", "split"} \/ op' = Idle
          BY <1>0, <2>2, CallSteps
        <4> QED BY <4>1, IdleCall DEF PutNamed
      <3>3. ASSUME op' = op, PutNamed PROVE seq' = seq
        <4>1. up /\ op # Idle /\ op.pc # "idle"
          BY <1>0, <3>3, IdleCall DEF PutNamed, SpoolInv
        <4>2. CASE Apart
          BY <4>2, ApartSteps DEF spoolVars, memory
        <4>3. CASE Log \/ StorePut \/ StoreOk \/ StoreFallback \/ SpoolHas \/ SpoolEmpty \/ MemHas \/ SplitMem
                   \/ SplitOk \/ SplitError \/ AskSpool \/ Apply \/ SplitSpool
          BY <4>3, Zenon DEF Log, StorePut, StoreOk, StoreFallback, SpoolHas, SpoolEmpty, MemHas, SplitMem,
             SplitOk, SplitError, AskSpool, Apply, SplitSpool, PutDone, PutLowDisk, PutFailed, OldestFound,
             OldestEmpty, SplitDone, SplitFailed, Oldest, Remove, Split, SplitVanished, memory
        <4>4. CASE Exit \/ Dies
          BY <3>3, <4>1, <4>4, EndsPipe
        <4>5. CASE Surroundings \/ Start \/ StartNoSpool
          BY <4>5, Zenon DEF Surroundings, Tick, Damage, Start, OpenSpool, StartNoSpool, memory
        <4> QED BY <2>2, <4>2, <4>3, <4>4, <4>5, StepKinds, Zenon
      <3> QED BY <3>1, <3>2, <3>3 DEF PutNamed
    <2> QED BY <2>1, <2>2
  <1>5. ASSUME ~NameBatch, ~RenamePut, ~RenameHalf PROVE Numbered'
    BY <1>4, <1>5 DEF Numbered
  <1> QED BY <1>1, <1>2, <1>3, <1>5

\* Processes end through Shutdown, unlinks work and the spool opens.
Orderly == "crash" \notin Faults /\ "unlink" \notin Faults /\ "nospool" \notin Faults

\* What changes the batch files.
LEMMA DiskSteps ==
    ASSUME SpoolInv, [Next]_vars, Orderly
    PROVE  \/ body' = body /\ disk' \subseteq disk
           \/ (RenamePut /\ InsideSpool) \/ (RenameHalf /\ InsideSpool)
  <1>1. CASE Apart
    BY <1>1, ApartSteps DEF spoolVars, directory
  <1>2. CASE Log \/ StorePut \/ StoreOk \/ StoreFallback \/ SpoolHas \/ SpoolEmpty \/ MemHas \/ SplitMem
             \/ AskSpool \/ SplitSpool
    BY <1>2, Zenon DEF Log, StorePut, StoreOk, StoreFallback, SpoolHas, SpoolEmpty, MemHas, SplitMem,
       AskSpool, SplitSpool, PutDone, PutLowDisk, PutFailed, OldestFound,
       OldestEmpty, Oldest, Split, SplitVanished, directory
  <1>3. CASE SplitOk
    <2>1. SplitDone
      BY <1>3, Zenon DEF SplitOk
    <2> QED BY <2>1, SplitDoneFacts DEF Orderly
  <1>4. CASE SplitError
    <2>1. SplitFailed
      BY <1>4, Zenon DEF SplitError
    <2> QED BY <2>1, SplitFailedFacts DEF Orderly
  <1>5. CASE Apply
    <2>1. CASE Remove
      BY <2>1, RemoveFacts DEF Orderly
    <2>2. CASE ~Remove
      BY <1>5, <2>2, Zenon DEF Apply, directory
    <2> QED BY <2>1, <2>2
  <1>6. CASE InsideSpool
    <2>1. CASE Expire \/ MakeRoom \/ Enforce \/ SkipCorrupt
      BY <2>1, DropFacts DEF Orderly
    <2>2. CASE SampleRoom \/ NameBatch \/ WriteTemp
      BY <2>2, Zenon DEF SampleRoom, NameBatch, WriteTemp, directory
    <2> QED BY <1>6, <2>1, <2>2, Zenon DEF InsideSpool
  <1>7. CASE Surroundings \/ Exit \/ Dies \/ Start \/ StartNoSpool
    BY <1>7, Zenon DEF Surroundings, Tick, Damage, Exit, Dies, Crash, ProcessEnds, Start, OpenSpool,
       StartNoSpool, directory
  <1> QED BY <1>1, <1>2, <1>3, <1>4, <1>5, <1>6, <1>7, StepKinds, Zenon

\* What puts a batch in the sender's hand, and what leaves it there.
LEMMA HandSteps ==
    ASSUME [Next]_vars, "crash" \notin Faults
    PROVE  \/ ~InHand' \/ SpoolHas \/ MemHas
           \/ /\ InHand /\ hand' = hand
              /\ sender' # "apply" => sender # "apply"
              /\ ~Apply /\ ~SplitMem /\ ~Exit
  <1>1. CASE Apart
    <2>1. CASE Receive \/ Flush \/ BatcherEnds \/ StoreNoSpool \/ IdleTick \/ UNCHANGED vars
      <3>1. UNCHANGED <<sender, hand>> /\ UNCHANGED op
        BY <2>1, Zenon DEF Receive, Flush, BatcherEnds, StoreNoSpool, Stored, IdleTick, vars, shipperVars,
           senderVars, spoolVars, memory
      <3>2. Apply \/ SplitMem \/ Exit => ~InHand'
        BY DEF Apply, SplitMem, Exit, ResetShipper, InHand, Goes
      <3> QED BY <3>1, <3>2, Zenon DEF InHand
    <2>2. CASE TakeKick \/ RetryFires \/ SeesStop \/ SkipSpool \/ LastDrain \/ Drained
      <3>1. ~InHand'
        <4>1. CASE TakeKick
          <5>1. sender' \in {"select", "next"}
            BY <4>1 DEF TakeKick, Goes
          <5> QED BY <5>1 DEF InHand
        <4>2. CASE RetryFires \/ SeesStop \/ SkipSpool \/ LastDrain \/ Drained
          BY <4>2 DEF RetryFires, SeesStop, SkipSpool, LastDrain, Drained, DrainReturns, Goes, InHand
        <4> QED BY <2>2, <4>1, <4>2
      <3> QED BY <3>1
    <2>3. CASE CloseStop \/ Shutdown
      <3>1. UNCHANGED <<sender, hand>>
        BY <2>3, Zenon DEF CloseStop, Shutdown, senderVars, spoolVars, memory
      <3>2. Apply \/ SplitMem \/ Exit => ~InHand'
        BY DEF Apply, SplitMem, Exit, ResetShipper, InHand, Goes
      <3> QED BY <3>1, <3>2, Zenon DEF InHand
    <2>4. CASE SplitRefused \/ Loom
      <3>1. hand' = hand /\ sender \in {"split", "post"} /\ sender' \in {"apply", "split", "done", "select"}
        BY <2>4 DEF SplitRefused, Loom, PostAccepted, PostReplyLost, PostFails, PostRejected, PostTooLarge,
           DrainReturns, Goes, spoolVars, memory
      <3>2. Apply \/ SplitMem \/ Exit => ~InHand'
        BY DEF Apply, SplitMem, Exit, ResetShipper, InHand, Goes
      <3> QED BY <3>1, <3>2 DEF InHand
    <2> QED BY <1>1, <2>1, <2>2, <2>3, <2>4, Zenon DEF Apart
  <1>2. CASE SpoolEmpty \/ SplitMem \/ AskSpool \/ Apply \/ SplitOk \/ Exit
    BY <1>2 DEF SpoolEmpty, SplitMem, AskSpool, SplitOk, Apply, Exit, ResetShipper, Goes, InHand
  <1>3. CASE SplitSpool
    <2>1. CASE Split /\ Goes("splitting")
      <3>1. hand' = hand /\ sender = "split" /\ sender' = "splitting"
        BY <1>3, <2>1, Zenon DEF SplitSpool, Split, Goes
      <3>2. Apply \/ SplitMem \/ Exit => ~InHand'
        BY DEF Apply, SplitMem, Exit, ResetShipper, InHand, Goes
      <3> QED BY <3>1, <3>2 DEF InHand
    <2>2. CASE Goes("next")
      BY <2>2 DEF Goes, InHand
    <2> QED BY <1>3, <2>1, <2>2, Zenon DEF SplitSpool
  <1>4. CASE SplitError
    <2>1. hand' = hand /\ sender = "splitting" /\ sender' = "apply"
      BY <1>4, Zenon DEF SplitError, SplitFailed, Goes
    <2>2. Apply \/ SplitMem \/ Exit => ~InHand'
      BY DEF Apply, SplitMem, Exit, ResetShipper, InHand, Goes
    <2> QED BY <2>1, <2>2 DEF InHand
  <1>5. CASE InsideSpool \/ Surroundings \/ Start \/ StartNoSpool \/ Log \/ StorePut \/ StoreOk \/ StoreFallback
    <2>1. UNCHANGED <<sender, hand>>
      <3>1. CASE InsideSpool
        BY <3>1, Zenon DEF InsideSpool, Expire, SampleRoom, MakeRoom, NameBatch, WriteTemp, RenamePut, Enforce,
           SkipCorrupt, RenameHalf, shipperVars, senderVars
      <3>2. CASE Surroundings \/ Start \/ StartNoSpool \/ Log
        BY <3>2, Zenon DEF Surroundings, Start, StartNoSpool, Log, shipperVars, senderVars, Tick, Damage, OpenSpool,
           memory
      <3>3. CASE StorePut \/ StoreOk \/ StoreFallback
        BY <3>3, Zenon DEF StorePut, StoreOk, StoreFallback, Stored, PutDone, PutLowDisk, PutFailed, senderVars
      <3> QED BY <1>5, <3>1, <3>2, <3>3
    <2>2. Apply \/ SplitMem \/ Exit => ~InHand'
      BY DEF Apply, SplitMem, Exit, ResetShipper, InHand, Goes
    <2> QED BY <2>1, <2>2, Zenon DEF InHand
  <1>6. ~Dies
    BY Zenon DEF Dies, Crash
  <1> QED BY <1>1, <1>2, <1>3, <1>4, <1>5, <1>6, StepKinds, Zenon

\* What Loom took changes when it answers.
LEMMA DeliveredSteps ==
    ASSUME [Next]_vars, "replyLost" \notin Posts
    PROVE  UNCHANGED <<delivered, resent>> \/ PostAccepted
  <1>1. CASE Apart
    BY <1>1, Zenon DEF Apart, IdleTick, Receive, Flush, BatcherEnds, StoreNoSpool, Stored, TakeKick,
       RetryFires, SeesStop, SkipSpool, Drained, SplitRefused, Loom, PostReplyLost,
       PostFails, PostRejected, PostTooLarge, Shutdown, CloseStop, LastDrain, vars, shipperVars, fates
  <1>2. CASE SpoolHas \/ SpoolEmpty \/ MemHas \/ SplitMem \/ AskSpool \/ SplitSpool \/ SplitOk \/ SplitError
             \/ Apply
    BY <1>2, Zenon DEF SpoolHas, SpoolEmpty, MemHas, SplitMem, AskSpool, SplitSpool, SplitOk, SplitError,
       Apply, fates
  <1>3. CASE InsideSpool \/ Surroundings \/ Start \/ StartNoSpool \/ Log \/ Exit \/ Dies
    BY <1>3, Zenon DEF InsideSpool, Surroundings, Start, StartNoSpool, Log, Exit, Dies, ResetShipper,
       shipperVars, fates
  <1>4. CASE StorePut \/ StoreOk \/ StoreFallback
    BY <1>4, Zenon DEF StorePut, StoreOk, StoreFallback, Stored, fates
  <1> QED BY <1>1, <1>2, <1>3, <1>4, StepKinds, Zenon

\* What the batcher has moves down the pipe, and a new record only enters it by Log.
LEMMA UpstreamFlow ==
    ASSUME ShipperInv, [Next]_vars
    PROVE  /\ Upstream' \subseteq Upstream \cup {made + 1}
           /\ made \in Nat /\ made' \in Nat /\ made <= made'
           /\ made + 1 \in Upstream' => made < made'
  <1>0. SpoolInv /\ SpoolInv' /\ PipeShape /\ UpstreamNew
    BY SpoolSteps DEF ShipperInv
  <1>1. made \in Nat /\ made' \in Nat
    BY <1>0 DEF SpoolInv, TypeOK
  <1>2. Upstream \subseteq 1..made /\ made + 1 \notin Upstream
    BY <1>0, <1>1 DEF UpstreamNew
  <1>3. CASE Upstream' \subseteq Upstream /\ made' = made
    BY <1>1, <1>2, <1>3
  <1>4. CASE UNCHANGED <<inCh, ev, docs, made>>
    <2>1. Upstream' = Upstream
      BY <1>4 DEF Upstream
    <2> QED BY <1>3, <1>4, <2>1
  <1>5. CASE Log
    <2>1. UNCHANGED <<ev, docs>> /\ made' = made + 1 /\ (inCh' = inCh \/ inCh' = Append(inCh, made + 1))
      BY <1>5 DEF Log
    <2>2. inCh \in Seq(Records) /\ Len(inCh) \in Nat /\ DOMAIN inCh = 1..Len(inCh)
      BY <1>0 DEF PipeShape
    <2>3. Range(inCh') \subseteq Range(inCh) \cup {made + 1}
      <3>1. CASE inCh' = inCh
        BY <3>1
      <3>2. CASE inCh' = Append(inCh, made + 1)
        <4>1. /\ DOMAIN inCh' = 1..(Len(inCh) + 1) /\ inCh'[Len(inCh) + 1] = made + 1
              /\ \A i \in 1..Len(inCh) : inCh'[i] = inCh[i]
          BY <2>2, <3>2
        <4> QED BY <2>2, <4>1 DEF Range
      <3> QED BY <2>1, <3>1, <3>2
    <2>4. Upstream' \subseteq Upstream \cup {made + 1}
      BY <2>1, <2>3 DEF Upstream
    <2> QED BY <1>1, <2>1, <2>4
  <1>6. CASE Receive
    <2>1. /\ inCh # <<>> /\ inCh' = Tail(inCh) /\ made' = made
          /\ \/ ev' = Head(inCh) /\ docs' = docs
             \/ ev' = ev /\ docs' = Append(docs, Head(inCh))
      BY <1>0, <1>6, ReceivePipe DEF spoolVars, history
    <2>2. inCh \in Seq(Records) /\ docs \in Seq(Records) /\ Len(inCh) \in Nat /\ DOMAIN inCh = 1..Len(inCh)
      BY <1>0 DEF PipeShape
    <2>3. PICK h : h = Head(inCh)
      OBVIOUS
    <2>4. h = inCh[1] /\ h \in Range(inCh) /\ Range(inCh') \subseteq Range(inCh)
      <3>1. h = inCh[1] /\ 1 \in DOMAIN inCh
        BY <2>1, <2>2, <2>3
      <3>2. /\ DOMAIN inCh' = 1..(Len(inCh) - 1)
            /\ \A i \in 1..(Len(inCh) - 1) : inCh'[i] = inCh[i + 1] /\ i + 1 \in DOMAIN inCh
        BY <2>1, <2>2
      <3> QED BY <3>1, <3>2 DEF Range
    <2>5. Range(docs') \subseteq Range(docs) \cup {h}
      <3>1. CASE docs' = docs
        BY <3>1
      <3>2. CASE docs' = Append(docs, h)
        <4>1. Len(docs) \in Nat /\ DOMAIN docs = 1..Len(docs)
          BY <2>2
        <4>2. /\ DOMAIN docs' = 1..(Len(docs) + 1) /\ docs'[Len(docs) + 1] = h
              /\ \A i \in 1..Len(docs) : docs'[i] = docs[i]
          BY <2>2, <3>2, <4>1
        <4> QED BY <4>1, <4>2 DEF Range
      <3> QED BY <2>1, <2>3, <3>1, <3>2
    <2>6. Upstream' \subseteq Upstream
      BY <2>1, <2>3, <2>4, <2>5 DEF Upstream
    <2> QED BY <1>3, <2>1, <2>6
  <1>7. CASE Returns
    <2>1. inCh' = inCh /\ made' = made /\ ev' = 0 /\ Range(docs') = {ev} \ {0}
      BY <1>0, <1>7, ReturnsPipe
    <2> QED BY <1>3, <2>1 DEF Upstream
  <1>8. CASE Exit \/ Dies
    <2>1. inCh' = <<>> /\ ev' = 0 /\ docs' = <<>> /\ made' = made
      BY <1>8, EndsPipe
    <2>2. Range(inCh') = {} /\ Range(docs') = {}
      BY <2>1 DEF Range
    <2> QED BY <1>3, <2>1, <2>2 DEF Upstream
  <1> QED BY <1>4, <1>5, <1>6, <1>7, <1>8, ChannelSteps, Zenon

\* What the spool gets, Put got from the batcher.
LEMMA KnownFlow ==
    ASSUME ShipperInv, [Next]_vars
    PROVE  Known \subseteq Known' /\ Known' \subseteq Known \cup Range(docs) /\ Range(docs) \subseteq Upstream
  <1>1. CASE Lands /\ Known' = Known \cup Range(op.docs)
    <2>1. op.docs = docs
      BY <1>1 DEF Lands, RenamePut, ShipperInv, PipeShape
    <2> QED BY <1>1, <2>1 DEF Upstream
  <1> QED BY <1>1, SpoolSteps DEF Upstream

\* The halves of a batch without repetitions have none either, and share nothing
\* (spool.go:288-291).
LEMMA HalvesApart ==
    ASSUME NEW S, NEW d \in Seq(S), IsInjective(d)
    PROVE  /\ \A h \in {0, 1} : IsInjective(Half(d, h))
           /\ Range(Half(d, 0)) \cap Range(Half(d, 1)) = {}
  <1> DEFINE mid == Len(d) \div 2
  <1>1. mid \in Nat /\ mid <= Len(d) /\ Len(d) \in Nat
    OBVIOUS
  <1>2. Half(d, 0) = SubSeq(d, 1, mid)
    BY DEF Half
  <1>3. Half(d, 1) = SubSeq(d, mid + 1, Len(d))
    BY DEF Half
  <1> HIDE DEF mid
  <1>4. /\ DOMAIN Half(d, 0) = 1..mid
        /\ \A i \in 1..mid : Half(d, 0)[i] = d[i]
    BY <1>1, <1>2
  <1>5. /\ DOMAIN Half(d, 1) = 1..(Len(d) - mid)
        /\ \A i \in 1..(Len(d) - mid) : Half(d, 1)[i] = d[i + mid]
    BY <1>1, <1>3
  <1>6. \A i, j \in 1..Len(d) : d[i] = d[j] => i = j
    BY DEF IsInjective
  <1>7. IsInjective(Half(d, 0))
    <2> SUFFICES ASSUME NEW i \in 1..mid, NEW j \in 1..mid, Half(d, 0)[i] = Half(d, 0)[j] PROVE i = j
      BY <1>4 DEF IsInjective
    <2>1. i \in 1..Len(d) /\ j \in 1..Len(d)
      BY <1>1
    <2> QED BY <1>4, <1>6, <2>1
  <1>8. IsInjective(Half(d, 1))
    <2> SUFFICES ASSUME NEW i \in 1..(Len(d) - mid), NEW j \in 1..(Len(d) - mid),
                        Half(d, 1)[i] = Half(d, 1)[j]
                 PROVE  i = j
      BY <1>5 DEF IsInjective
    <2>1. i + mid \in 1..Len(d) /\ j + mid \in 1..Len(d)
      BY <1>1
    <2>2. i + mid = j + mid
      BY <1>5, <1>6, <2>1
    <2> QED BY <1>1, <2>2
  <1>9. ASSUME NEW i \in 1..mid, NEW j \in 1..(Len(d) - mid)
        PROVE  Half(d, 0)[i] # Half(d, 1)[j]
    <2>1. i \in 1..Len(d) /\ j + mid \in 1..Len(d) /\ i # j + mid
      BY <1>1
    <2> QED BY <1>4, <1>5, <1>6, <2>1
  <1>10. ASSUME NEW x, x \in Range(Half(d, 0)), x \in Range(Half(d, 1)) PROVE FALSE
    <2>1. PICK i \in DOMAIN Half(d, 0) : x = Half(d, 0)[i]
      BY <1>10 DEF Range
    <2>2. PICK j \in DOMAIN Half(d, 1) : x = Half(d, 1)[j]
      BY <1>10 DEF Range
    <2> QED BY <1>4, <1>5, <1>9, <2>1, <2>2
  <1> QED BY <1>7, <1>8, <1>10

\* The batch being filled takes a record once.
LEMMA DocsOnce ==
    ASSUME ShipperInv, IsInjective(docs), [Next]_vars
    PROVE  IsInjective(docs')
  <1>0. PipeShape /\ UpstreamNew
    BY DEF ShipperInv
  <1>1. CASE docs' = docs
    BY <1>1
  <1>2. CASE Receive
    <2>1. PICK h : h = Head(inCh)
      OBVIOUS
    <2>2. docs' = docs \/ docs' = Append(docs, h)
      BY <1>0, <1>2, <2>1, ReceivePipe
    <2>3. h \in Records /\ h \notin Range(docs)
      <3>1. inCh \in Seq(Records) /\ inCh # <<>>
        BY <1>0, <1>2 DEF Receive, PipeShape
      <3>2. h = inCh[1] /\ 1 \in DOMAIN inCh /\ h \in Records
        BY <2>1, <3>1
      <3>3. h \in Range(inCh)
        BY <3>2 DEF Range
      <3> QED BY <1>0, <3>2, <3>3 DEF UpstreamNew
    <2>4. CASE docs' = Append(docs, h)
      <3>1. docs \in Seq(Records) /\ Len(docs) \in Nat /\ DOMAIN docs = 1..Len(docs)
        BY <1>0 DEF PipeShape
      <3>2. /\ DOMAIN docs' = 1..(Len(docs) + 1) /\ docs'[Len(docs) + 1] = h
            /\ \A i \in 1..Len(docs) : docs'[i] = docs[i]
        BY <2>3, <2>4, <3>1
      <3>3. \A i, j \in 1..Len(docs) : docs[i] = docs[j] => i = j
        BY <3>1 DEF IsInjective
      <3>4. \A i \in 1..Len(docs) : docs[i] # h
        BY <2>3, <3>1 DEF Range
      <3>5. ASSUME NEW i \in 1..(Len(docs) + 1), NEW j \in 1..(Len(docs) + 1), docs'[i] = docs'[j]
            PROVE  i = j
        <4>1. (i \in 1..Len(docs) \/ i = Len(docs) + 1) /\ (j \in 1..Len(docs) \/ j = Len(docs) + 1)
          BY <3>1
        <4> QED BY <3>2, <3>3, <3>4, <3>5, <4>1
      <3> QED BY <3>2, <3>5 DEF IsInjective
    <2> QED BY <1>1, <2>2, <2>4
  <1>3. CASE Returns
    <2>1. docs' = <<>> \/ docs' = <<ev>>
      BY <1>3 DEF Returns, StoreOk, StoreFallback, StoreNoSpool, Stored
    <2> QED BY <2>1 DEF IsInjective
  <1>4. CASE Exit \/ Dies
    <2>1. docs' = <<>>
      BY <1>4, EndsPipe
    <2> QED BY <2>1 DEF IsInjective
  <1>5. CASE Log
    BY <1>1, <1>5 DEF Log
  <1> QED BY <1>1, <1>2, <1>3, <1>4, <1>5, ChannelSteps, Zenon

\* A rename by Put (spool.go:157-163).
LEMMA PutRenames ==
    ASSUME SpoolInv, RenamePut
    PROVE  /\ op.call = "put" /\ op.name \notin DOMAIN body
           /\ disk' = disk \cup {op.name} /\ DOMAIN body' = DOMAIN body \cup {op.name}
           /\ body'[op.name] = op.docs /\ \A nm \in DOMAIN body : body'[nm] = body[nm]
           /\ op'.call = "put" /\ hand' = hand
           /\ Range(op.docs) \cap Known = {}
  <1>1. /\ up /\ op.call = "put" /\ op.pc = "rename" /\ op \in Call /\ Target = op.name /\ Content = op.docs
        /\ hand' = hand
    BY DEF RenamePut, Land, Target, Content, SpoolInv, TypeOK
  <1>2. /\ disk' = disk \cup {op.name}
        /\ body' = [nm \in DOMAIN body \cup {op.name} |-> IF nm = op.name THEN op.docs ELSE body[nm]]
    BY <1>1 DEF RenamePut, Land
  <1>3. op.name \notin DOMAIN body
    BY <1>1 DEF SpoolInv, NamesFresh, PutNamed
  <1>4. op'.call = "put"
    <2>1. op' = [op EXCEPT !.pc = "enforce"]
      BY DEF RenamePut, Goto
    <2> QED BY <1>1, <2>1 DEF Call
  <1>5. Range(op.docs) \cap Known = {}
    BY <1>1 DEF SpoolInv, RecordsKnown, PutPending
  <1> QED BY <1>1, <1>2, <1>3, <1>4, <1>5

\* A part once written stays so until the split returns: then the batch is gone, or
\* the part is (spool.go:286-308).
LEMMA PartSteps ==
    ASSUME ShipperInv, MainShape, [Next]_vars, Orderly, NEW nm, PartWritten(nm)
    PROVE  \/ PartWritten(nm)' /\ op'.name = op.name
           \/ SplitOk /\ op.name \notin disk'
           \/ SplitError /\ nm \notin disk'
  <1>0. SpoolInv /\ PipeShape /\ op \in Call
    BY DEF ShipperInv, SpoolInv, TypeOK
  <1>1. op.call = "split" /\ sender = "splitting"
    BY <1>0 DEF PartWritten, PipeShape
  <1>2. CASE op' = op
    BY <1>2 DEF PartWritten
  <1>3. CASE InsideSpool
    <2>1. CASE RenameHalf
      <3>1. op'.call = "split" /\ op'.name = op.name /\ op'.half = 1 /\ op.pc = "rename"
        BY <1>0, <2>1, HalfLands DEF RenameHalf, Land
      <3> QED BY <3>1 DEF PartWritten
    <2>2. CASE WriteTemp
      <3>1. op.pc = "write" /\ op' = [op EXCEPT !.pc = "rename"]
        BY <2>2 DEF WriteTemp, Goto
      <3>2. op'.call = op.call /\ op'.name = op.name /\ op'.half = op.half
        BY <1>0, <3>1 DEF Call
      <3> QED BY <3>1, <3>2 DEF PartWritten
    <2>3. ~Expire /\ ~MakeRoom /\ ~Enforce /\ ~SkipCorrupt
      BY <1>0, <1>1, DropFacts DEF Orderly
    <2>4. ~RenamePut /\ ~SampleRoom /\ ~NameBatch
      BY <1>0, <1>1 DEF RenamePut, SampleRoom, NameBatch, SpoolInv, CallShape
    <2> QED BY <1>3, <2>1, <2>2, <2>3, <2>4, Zenon DEF InsideSpool
  <1>4. CASE SplitOk
    <2>1. SplitDone
      BY <1>4, Zenon DEF SplitOk
    <2> QED BY <1>0, <1>4, <2>1, SplitDoneFacts DEF Orderly
  <1>5. CASE SplitError
    <2>1. SplitFailed
      BY <1>5, Zenon DEF SplitError
    <2>2. op.pc # "swap" /\ (op.half = 1 => HalfName(op.name, 0) \notin disk')
      BY <1>0, <2>1, SplitFailedFacts DEF Orderly
    <2> QED BY <1>5, <2>2 DEF PartWritten
  <1>6. ~Exit /\ ~Dies
    <2>1. ~Exit
      BY <1>1 DEF Exit, MainShape
    <2> QED BY <2>1, Zenon DEF Orderly, Dies, Crash
  <1>7. ~StoreOk /\ ~StoreFallback /\ ~SpoolHas /\ ~SpoolEmpty
    BY <1>0, <1>1 DEF StoreOk, StoreFallback, SpoolHas, SpoolEmpty, PutDone, PutLowDisk, PutFailed,
       OldestFound, OldestEmpty, SpoolInv, CallShape, ShortOfRoom
  <1> QED BY <1>0, <1>1, <1>2, <1>3, <1>4, <1>5, <1>6, <1>7, CallSteps

\* Two files share records only while one is being split into the other.
LEMMA FilesSteps ==
    ASSUME ShipperInv, MainShape, FilesApart, InHand => HandApart, Numbered, [Next]_vars, Orderly
    PROVE  FilesApart'
  <1>0. SpoolInv /\ PipeShape /\ op \in Call /\ disk \subseteq DOMAIN body
    BY DEF ShipperInv, SpoolInv, TypeOK
  <1>1. IsInjective(docs')
    BY DocsOnce DEF FilesApart
  <1>2. CASE body' = body /\ disk' \subseteq disk
    <2>1. ASSUME NEW a \in disk', NEW b \in disk'
          PROVE  \/ a = b \/ (DocsOf(a) \cap DocsOf(b) = {})'
                 \/ a = op'.name /\ PartWritten(b)'
                 \/ b = op'.name /\ PartWritten(a)'
      <3>1. a \in disk /\ b \in disk /\ DocsOf(a)' = DocsOf(a) /\ DocsOf(b)' = DocsOf(b)
        BY <1>2 DEF DocsOf
      <3>2. \/ a = b \/ DocsOf(a) \cap DocsOf(b) = {}
            \/ a = op.name /\ PartWritten(b)
            \/ b = op.name /\ PartWritten(a)
        BY <3>1 DEF FilesApart
      <3>3. CASE a = op.name /\ PartWritten(b)
        BY <3>3, PartSteps
      <3>4. CASE b = op.name /\ PartWritten(a)
        BY <3>4, PartSteps
      <3> QED BY <3>1, <3>2, <3>3, <3>4
    <2>2. \A nm \in DOMAIN body' : IsInjective(body'[nm])
      BY <1>2 DEF FilesApart
    <2> QED BY <1>1, <2>1, <2>2 DEF FilesApart
  <1>3. CASE RenamePut
    <2>0. PICK N : N = op.name
      OBVIOUS
    <2>1. /\ op.call = "put" /\ N \notin DOMAIN body
          /\ disk' = disk \cup {N} /\ DOMAIN body' = DOMAIN body \cup {N}
          /\ body'[N] = op.docs /\ \A nm \in DOMAIN body : body'[nm] = body[nm]
          /\ Range(op.docs) \cap Known = {}
      BY <1>0, <1>3, <2>0, PutRenames
    <2>2. op.docs = docs /\ IsInjective(docs) /\ ~\E nm : PartWritten(nm)
      BY <1>0, <2>1 DEF PipeShape, FilesApart, PartWritten
    <2>3. \A nm \in disk : DocsOf(nm)' = DocsOf(nm) /\ DocsOf(nm) \cap Range(docs) = {}
      BY <1>0, <2>1, <2>2 DEF DocsOf, Held, Known
    <2>4. DocsOf(N)' = Range(docs)
      BY <2>1, <2>2 DEF DocsOf
    <2>5. \A nm \in DOMAIN body' : IsInjective(body'[nm])
      BY <2>1, <2>2 DEF FilesApart
    <2>6. ASSUME NEW a \in disk', NEW b \in disk' PROVE a = b \/ DocsOf(a)' \cap DocsOf(b)' = {}
      <3>1. CASE a \in disk /\ b \in disk
        <4>1. a = b \/ DocsOf(a) \cap DocsOf(b) = {}
          BY <2>2, <3>1 DEF FilesApart
        <4> QED BY <2>3, <3>1, <4>1
      <3>2. CASE a \in disk /\ b = N
        BY <2>3, <2>4, <3>2
      <3>3. CASE a = N /\ b \in disk
        BY <2>3, <2>4, <3>3
      <3> QED BY <2>1, <3>1, <3>2, <3>3
    <2> QED BY <1>1, <2>5, <2>6 DEF FilesApart
  <1>4. CASE RenameHalf
    <2>0. PICK N, h, T : N = op.name /\ h = op.half /\ T = HalfName(N, h)
      OBVIOUS
    <2>1. /\ op.call = "split" /\ N = hand.name /\ hand.name # NoName /\ h \in {0, 1} /\ op.pc = "rename"
          /\ N \in DOMAIN body /\ N \in Name
          /\ disk' = disk \cup {T} /\ DOMAIN body' = DOMAIN body \cup {T}
          /\ \A nm \in DOMAIN body : body'[nm] = body[nm]
          /\ body'[T] = Half(body[N], h)
          /\ op'.call = "split" /\ op'.name = N /\ op'.half = 1
          /\ op'.pc = "swap" <=> h = 1
      <3>1. op'.pc = "swap" <=> h = 1
        <4>1. op' = IF op.half = 0 THEN [op EXCEPT !.pc = "write", !.half = 1] ELSE [op EXCEPT !.pc = "swap"]
          BY <1>4, Zenon DEF RenameHalf
        <4>2. op.half \in {0, 1}
          BY <1>0 DEF Call
        <4> QED BY <1>0, <2>0, <4>1, <4>2 DEF Call
      <3> QED BY <1>0, <1>4, <2>0, <3>1, HalfLands DEF RenameHalf, Land
    <2>2. PICK d : d = body[N]
      OBVIOUS
    <2>3. d \in Seq(Records) /\ IsInjective(d) /\ hand.docs = d
      <3>1. d \in Seq(Records) /\ IsInjective(d)
        BY <1>0, <2>1, <2>2 DEF SpoolInv, TypeOK, FilesApart
      <3> QED BY <1>0, <2>1, <2>2, <3>1 DEF SpoolInv, HandBacked
    <2>4. /\ IsInjective(Half(d, h)) /\ Range(Half(d, h)) \subseteq Range(d)
          /\ Range(Half(d, 0)) \cap Range(Half(d, 1)) = {}
      BY <2>1, <2>3, HalvesApart, HalfDocs
    <2>5. \A nm \in disk : DocsOf(nm)' = DocsOf(nm)
      BY <1>0, <2>1 DEF DocsOf
    <2>6. DocsOf(T)' = Range(Half(d, h)) /\ PartWritten(T)'
      <3>1. DocsOf(T)' = Range(Half(d, h))
        BY <2>1, <2>2 DEF DocsOf
      <3>2. h = 0 \/ h = 1
        BY <2>1
      <3> QED BY <2>0, <2>1, <3>1, <3>2 DEF PartWritten
    <2>7. \A nm \in DOMAIN body' : IsInjective(body'[nm])
      BY <2>1, <2>2, <2>4 DEF FilesApart
    <2>8. HandApart /\ ~FromMem
      <3>1. InHand
        BY <1>0, <2>1 DEF PipeShape, InHand
      <3> QED BY <2>1, <3>1 DEF FromMem
    <2>9. ASSUME NEW b \in disk, b # N PROVE b = T \/ (DocsOf(b) \cap DocsOf(T))' = {}
      <3>1. PartWritten(b) \/ DocsOf(b) \cap Range(d) = {}
        BY <2>1, <2>3, <2>8, <2>9 DEF HandApart
      <3>2. CASE DocsOf(b) \cap Range(d) = {}
        BY <2>4, <2>5, <2>6, <3>2
      <3>3. CASE PartWritten(b)
        <4>1. h = 1 /\ b = HalfName(N, 0)
          BY <2>0, <2>1, <3>3 DEF PartWritten
        <4>2. body[b] = Half(op.docs, 0) /\ op.docs = d
          <5>1. op.docs = d
            BY <1>0, <2>1, <2>3 DEF SpoolInv, SplitProgress
          <5>2. HalfName(op.name, 0) \in DOMAIN body
            BY <1>0, <2>0, <4>1
          <5> QED BY <1>0, <2>0, <2>1, <4>1, <5>1, <5>2, PartsWritten
        <4>3. DocsOf(b)' = Range(Half(d, 0))
          BY <2>5, <4>2 DEF DocsOf
        <4> QED BY <2>4, <2>6, <4>1, <4>3
      <3> QED BY <3>1, <3>2, <3>3
    <2>10. ASSUME NEW a \in disk', NEW b \in disk'
           PROVE  \/ a = b \/ (DocsOf(a) \cap DocsOf(b) = {})'
                  \/ a = op'.name /\ PartWritten(b)'
                  \/ b = op'.name /\ PartWritten(a)'
      <3>1. CASE a \in disk /\ b \in disk
        <4>1. \/ a = b \/ DocsOf(a) \cap DocsOf(b) = {}
              \/ a = op.name /\ PartWritten(b)
              \/ b = op.name /\ PartWritten(a)
          BY <3>1 DEF FilesApart
        <4>2. PartWritten(a) => PartWritten(a)'
          BY <2>0, <2>1 DEF PartWritten
        <4>3. PartWritten(b) => PartWritten(b)'
          BY <2>0, <2>1 DEF PartWritten
        <4> QED BY <2>0, <2>1, <2>5, <3>1, <4>1, <4>2, <4>3
      <3>2. CASE a \in disk /\ b = T
        BY <2>1, <2>6, <2>9, <3>2
      <3>3. CASE a = T /\ b \in disk
        BY <2>1, <2>6, <2>9, <3>3
      <3> QED BY <2>1, <3>1, <3>2, <3>3
    <2> QED BY <1>1, <2>7, <2>10 DEF FilesApart
  <1> QED BY <1>0, <1>2, <1>3, <1>4, DiskSteps

\* The batches of a queue share no record.
QueueApart(m) ==
    /\ \A i \in DOMAIN m : IsInjective(m[i])
    /\ \A i, j \in DOMAIN m : i # j => Range(m[i]) \cap Range(m[j]) = {}

\* Taking one batch out (shipper.go:487-498).
LEMMA QueueCut ==
    ASSUME NEW m \in Seq(Seq(Records)), QueueApart(m), NEW p \in DOMAIN m
    PROVE  /\ QueueApart(Without(m, p))
           /\ \A k \in DOMAIN Without(m, p) :
                 /\ \E i \in DOMAIN m : Without(m, p)[k] = m[i]
                 /\ Range(Without(m, p)[k]) \cap Range(m[p]) = {}
  <1>1. PICK w : w = Without(m, p)
    OBVIOUS
  <1>2. /\ DOMAIN w = 1..(Len(m) - 1)
        /\ \A k \in 1..(Len(m) - 1) : Old(p, k) \in DOMAIN m /\ Old(p, k) # p /\ w[k] = m[Old(p, k)]
        /\ \A i, j \in 1..(Len(m) - 1) : i < j <=> Old(p, i) < Old(p, j)
    <2>1. PICK T : T = Seq(Records)
      OBVIOUS
    <2>2. m \in Seq(T)
      BY <2>1
    <2>3. /\ DOMAIN Without(m, p) = 1..(Len(m) - 1)
          /\ \A k \in 1..(Len(m) - 1) :
                Old(p, k) \in DOMAIN m /\ Old(p, k) # p /\ Without(m, p)[k] = m[Old(p, k)]
          /\ \A i, j \in 1..(Len(m) - 1) : i < j <=> Old(p, i) < Old(p, j)
      BY <2>2, CutPositions
    <2> QED BY <1>1, <2>3, Zenon
  <1>3. ASSUME NEW i \in DOMAIN w, NEW j \in DOMAIN w, i # j PROVE Old(p, i) # Old(p, j)
    <2>1. i \in Int /\ j \in Int /\ p \in Int
      BY <1>2
    <2> QED BY <1>3, <2>1 DEF Old
  <1>4. QueueApart(w)
    BY <1>2, <1>3 DEF QueueApart
  <1> QED BY <1>1, <1>2, <1>4 DEF QueueApart

\* Two halves in the place of a batch (shipper.go:500-523).
LEMMA QueueSplice ==
    ASSUME NEW m \in Seq(Seq(Records)), QueueApart(m), NEW p \in DOMAIN m
    PROVE  LET w == Splice(m, p, Half(m[p], 0), Half(m[p], 1))
           IN  /\ QueueApart(w)
               /\ \A k \in DOMAIN w : \E i \in DOMAIN m : Range(w[k]) \subseteq Range(m[i])
  <1>1. PICK a, b : a = Half(m[p], 0) /\ b = Half(m[p], 1)
    OBVIOUS
  <1>2. m[p] \in Seq(Records) /\ IsInjective(m[p])
    BY DEF QueueApart
  <1>3. /\ a \in Seq(Records) /\ b \in Seq(Records) /\ IsInjective(a) /\ IsInjective(b)
        /\ Range(a) \subseteq Range(m[p]) /\ Range(b) \subseteq Range(m[p]) /\ Range(a) \cap Range(b) = {}
    BY <1>1, <1>2, HalvesApart, HalfDocs
  <1>4. PICK w : w = Splice(m, p, a, b)
    OBVIOUS
  <1>5. /\ DOMAIN w = 1..(Len(m) + 1) /\ w[p] = a /\ w[p + 1] = b
        /\ \A k \in 1..(Len(m) + 1) : k # p /\ k # p + 1 =>
              Was(p, k) \in DOMAIN m /\ Was(p, k) # p /\ w[k] = m[Was(p, k)]
    <2>1. PICK T : T = Seq(Records)
      OBVIOUS
    <2>2. m \in Seq(T) /\ a \in T /\ b \in T
      BY <1>3, <2>1
    <2>3. /\ DOMAIN Splice(m, p, a, b) = 1..(Len(m) + 1)
          /\ Splice(m, p, a, b)[p] = a /\ Splice(m, p, a, b)[p + 1] = b
          /\ \A k \in 1..(Len(m) + 1) : k # p /\ k # p + 1 =>
                Was(p, k) \in DOMAIN m /\ Was(p, k) # p /\ Splice(m, p, a, b)[k] = m[Was(p, k)]
      BY <2>2, SplicePositions
    <2> QED BY <1>4, <2>3, Zenon
  <1>6. p \in Int /\ DOMAIN w \subseteq Int
    BY <1>5
  <1>7. ASSUME NEW k \in DOMAIN w
        PROVE  IsInjective(w[k]) /\ \E i \in DOMAIN m : Range(w[k]) \subseteq Range(m[i])
    BY <1>3, <1>5 DEF QueueApart
  <1>8. ASSUME NEW i \in DOMAIN w, NEW j \in DOMAIN w, i # j PROVE Range(w[i]) \cap Range(w[j]) = {}
    <2>1. CASE i \in {p, p + 1} /\ j \in {p, p + 1}
      BY <1>3, <1>5, <1>6, <1>8, <2>1
    <2>2. CASE i \in {p, p + 1} /\ j \notin {p, p + 1}
      <3>1. Range(w[i]) \subseteq Range(m[p]) /\ Range(w[j]) \cap Range(m[p]) = {}
        BY <1>3, <1>5, <2>2 DEF QueueApart
      <3> QED BY <3>1
    <2>3. CASE i \notin {p, p + 1} /\ j \in {p, p + 1}
      <3>1. Range(w[j]) \subseteq Range(m[p]) /\ Range(w[i]) \cap Range(m[p]) = {}
        BY <1>3, <1>5, <2>3 DEF QueueApart
      <3> QED BY <3>1
    <2>4. CASE i \notin {p, p + 1} /\ j \notin {p, p + 1}
      <3>1. Was(p, i) # Was(p, j)
        BY <1>6, <1>8, <2>4 DEF Was
      <3> QED BY <1>5, <2>4, <3>1 DEF QueueApart
    <2> QED BY <2>1, <2>2, <2>3, <2>4
  <1>9. QueueApart(w) /\ \A k \in DOMAIN w : \E i \in DOMAIN m : Range(w[k]) \subseteq Range(m[i])
    BY <1>7, <1>8 DEF QueueApart
  <1> QED BY <1>1, <1>4, <1>9

\* A batch of other records at the end, and the oldest gone (shipper.go:463-475).
LEMMA QueuePut ==
    ASSUME MemType, QueueApart(mem), NEW b \in Seq(Records), IsInjective(b), Range(b) \cap InMem = {},
           MemPut(b)
    PROVE  /\ QueueApart(mem')
           /\ \A k \in DOMAIN mem' : mem'[k] = b \/ \E i \in DOMAIN mem : mem'[k] = mem[i]
  <1>1. PICK s : s = Append(mem, b)
    OBVIOUS
  <1>2. /\ s \in Seq(Seq(Records)) /\ Len(s) = Len(mem) + 1 /\ Len(mem) \in Nat /\ DOMAIN mem = 1..Len(mem)
        /\ s[Len(s)] = b /\ \A i \in 1..Len(mem) : s[i] = mem[i]
    BY <1>1 DEF MemType
  <1>3. PICK k \in 1..Len(s) : mem' = SubSeq(s, k, Len(s))
    BY <1>1, Zenon DEF MemPut
  <1>4. DOMAIN mem' = 1..(Len(s) - k + 1) /\ \A j \in 1..(Len(s) - k + 1) : mem'[j] = s[k + j - 1]
    BY <1>2, <1>3
  <1>5. ASSUME NEW j \in DOMAIN mem' PROVE k + j - 1 \in 1..Len(s) /\ mem'[j] = s[k + j - 1]
    BY <1>2, <1>4
  <1>6. ASSUME NEW i \in 1..Len(s) PROVE (i \in DOMAIN mem /\ s[i] = mem[i]) \/ (i = Len(s) /\ s[i] = b)
    <2>1. i \in 1..Len(mem) \/ i = Len(s)
      BY <1>2
    <2> QED BY <1>2, <2>1
  <1>7. \A i \in DOMAIN mem : Range(mem[i]) \cap Range(b) = {}
    BY DEF InMem
  <1>8. QueueApart(s)
    <2>1. DOMAIN s = 1..Len(s)
      BY <1>2
    <2>2. \A i \in DOMAIN s : IsInjective(s[i])
      BY <1>6, <2>1 DEF QueueApart
    <2>3. ASSUME NEW i \in DOMAIN s, NEW j \in DOMAIN s, i # j PROVE Range(s[i]) \cap Range(s[j]) = {}
      <3>1. /\ (i \in DOMAIN mem /\ s[i] = mem[i]) \/ (i = Len(s) /\ s[i] = b)
            /\ (j \in DOMAIN mem /\ s[j] = mem[j]) \/ (j = Len(s) /\ s[j] = b)
        BY <1>6, <2>1
      <3> QED BY <1>7, <2>3, <3>1 DEF QueueApart
    <2> QED BY <2>2, <2>3 DEF QueueApart
  <1>9. QueueApart(mem')
    <2>1. DOMAIN s = 1..Len(s)
      BY <1>2
    <2>2. ASSUME NEW i \in DOMAIN mem', NEW j \in DOMAIN mem', i # j PROVE k + i - 1 # k + j - 1
      BY <1>2, <1>4, <2>2
    <2> QED BY <1>5, <1>8, <2>1, <2>2 DEF QueueApart
  <1> QED BY <1>5, <1>6, <1>9

\* The memory queue keeps its batches apart, from one another and from the rest.
LEMMA MemApartSteps ==
    ASSUME ShipperInv, FilesApart, MemApart, [Next]_vars
    PROVE  MemApart'
  <1>0. SpoolInv /\ PipeShape /\ UpstreamNew /\ MemType /\ docs \in Seq(Records) /\ QueueApart(mem)
    BY DEF ShipperInv, PipeShape, MemType, MemApart, QueueApart
  <1>1. /\ Upstream' \subseteq Upstream \cup {made + 1} /\ made \in Nat /\ made' \in Nat /\ made <= made'
        /\ Known' \subseteq Known \cup Range(docs) /\ Range(docs) \subseteq Upstream
    BY UpstreamFlow, KnownFlow
  <1>2. InMem \subseteq 1..made /\ InMem \cap (Known \cup Upstream) = {}
    BY DEF MemApart
  <1>3. ASSUME QueueApart(mem'), InMem' \subseteq InMem
        PROVE  MemApart'
    <2>1. 1..made \subseteq 1..made' /\ made + 1 \notin 1..made
      BY <1>1
    <2>2. InMem' \subseteq 1..made'
      BY <1>2, <1>3, <2>1
    <2>3. InMem' \cap (Known' \cup Upstream') = {}
      BY <1>1, <1>2, <1>3, <2>1
    <2> QED BY <1>3, <2>2, <2>3 DEF MemApart, QueueApart
  <1>4. ASSUME NEW m \in Seq(Seq(Records)), mem' = m, QueueApart(m),
               \A k \in DOMAIN m : \E i \in DOMAIN mem : Range(m[k]) \subseteq Range(mem[i])
        PROVE  MemApart'
    <2>1. InMem' \subseteq InMem
      BY <1>4 DEF InMem
    <2> QED BY <1>3, <1>4, <2>1
  <1>5. CASE mem' = mem
    <2>1. InMem' = InMem
      BY <1>5 DEF InMem
    <2> QED BY <1>0, <1>3, <1>5, <2>1
  <1>6. CASE mem' = <<>>
    <2>1. InMem' = {} /\ QueueApart(mem')
      BY <1>6 DEF InMem, QueueApart
    <2> QED BY <1>3, <2>1
  <1>7. CASE (StoreFallback \/ StoreNoSpool) /\ MemPut(docs)
    <2>1. ~Landed /\ Known' = Known
      <3>1. CASE StoreFallback
        <4>1. PutLowDisk \/ PutFailed
          BY <3>1, Zenon DEF StoreFallback
        <4> QED BY <1>0, <4>1, ReturnsInv DEF PutLowDisk, PutFailed, ShortOfRoom, WriteFails, Landed
      <3>2. CASE StoreNoSpool
        <4>1. UNCHANGED spoolVars /\ batcher = "flush"
          BY <3>2, Zenon DEF StoreNoSpool
        <4> QED BY <1>0, <4>1, StutterInv DEF Landed, PipeShape
      <3> QED BY <1>7, <3>1, <3>2
    <2>2. Range(docs) \cap Known = {} /\ Range(docs) \subseteq 1..made /\ IsInjective(docs)
          /\ Range(docs) \cap InMem = {}
      BY <1>0, <1>1, <1>2, <2>1 DEF UpstreamNew, FilesApart
    <2>3. /\ QueueApart(mem')
          /\ \A k \in DOMAIN mem' : mem'[k] = docs \/ \E i \in DOMAIN mem : mem'[k] = mem[i]
      BY <1>0, <1>7, <2>2, QueuePut
    <2>4. InMem' \subseteq InMem \cup Range(docs)
      BY <2>3 DEF InMem
    <2>5. inCh' = inCh /\ ev' = 0 /\ made' = made /\ Range(docs') = {ev} \ {0}
      BY <1>0, <1>7, ReturnsPipe DEF Returns
    <2>6. Upstream' \subseteq Upstream /\ Upstream' \cap Range(docs) = {}
      BY <1>0, <2>5 DEF Upstream, UpstreamNew
    <2>7. InMem' \subseteq 1..made' /\ InMem' \cap (Known' \cup Upstream') = {}
      BY <1>2, <2>1, <2>2, <2>4, <2>5, <2>6
    <2> QED BY <2>3, <2>7 DEF MemApart, QueueApart
  <1>8. CASE MemRemove(hand.docs)
    <2>1. ASSUME NEW i \in DOMAIN mem, mem' = Without(mem, i) PROVE MemApart'
      <3>1. /\ QueueApart(mem') /\ \A k \in DOMAIN mem' : \E j \in DOMAIN mem : mem'[k] = mem[j]
        BY <1>0, <2>1, QueueCut DEF MemType
      <3>2. InMem' \subseteq InMem
        BY <3>1 DEF InMem
      <3> QED BY <1>3, <3>1, <3>2
    <2> QED BY <1>5, <1>8, <2>1, Zenon DEF MemRemove
  <1>9. CASE MemSplit(hand.docs)
    <2>1. ASSUME NEW i \in DOMAIN mem, mem[i] = hand.docs,
                 mem' = SubSeq(mem, 1, i - 1) \o <<Half(hand.docs, 0), Half(hand.docs, 1)>>
                          \o SubSeq(mem, i + 1, Len(mem))
          PROVE  MemApart'
      <3>1. mem' = Splice(mem, i, Half(mem[i], 0), Half(mem[i], 1))
        BY <2>1, Zenon DEF Splice
      <3>2. QueueApart(mem') /\ \A k \in DOMAIN mem' : \E j \in DOMAIN mem : Range(mem'[k]) \subseteq Range(mem[j])
        BY <1>0, <3>1, QueueSplice DEF MemType
      <3>3. InMem' \subseteq InMem
        BY <3>2 DEF InMem
      <3> QED BY <1>3, <3>2, <3>3
    <2> QED BY <1>5, <1>9, <2>1, Zenon DEF MemSplit
  <1> QED BY <1>5, <1>6, <1>7, <1>8, <1>9, MemSteps, Zenon

\* The batch the sender takes, and the one it keeps, share no record with another.
LEMMA HandApartSteps ==
    ASSUME ShipperInv, ApartInv, [Next]_vars, Orderly, InHand'
    PROVE  HandApart'
  <1>0. SpoolInv /\ PipeShape /\ UpstreamNew /\ op \in Call /\ disk \subseteq DOMAIN body
    BY DEF ShipperInv, SpoolInv, TypeOK
  <1>i. /\ MainShape /\ Numbered /\ FilesApart /\ MemApart /\ (InHand => HandApart)
    BY DEF ApartInv
  <1>1. /\ Upstream' \subseteq Upstream \cup {made + 1} /\ made \in Nat /\ made' \in Nat /\ made <= made'
        /\ Known \subseteq Known'
        /\ Known' \subseteq Known \cup Range(docs) /\ Range(docs) \subseteq Upstream
    BY UpstreamFlow, KnownFlow
  <1>2. 1..made \subseteq 1..made' /\ made + 1 \notin 1..made
    BY <1>1
  <1>3. CASE SpoolHas
    <2>0. PICK N : N = files[1].name
      OBVIOUS
    <2>1. /\ up /\ op.call = "oldest" /\ N \in disk /\ hand' = [name |-> N, docs |-> body[N]] /\ op' = Idle
          /\ UNCHANGED <<disk, body, made, taken, dropped>>
          /\ sender = "oldest" /\ sender' = "post" /\ UNCHANGED <<inCh, ev, docs, delivered, mem>>
      BY <1>3, <2>0 DEF SpoolHas, OldestFound, Readable, Return, Goes, directory, history, channelVars, fates
    <2>2. hand'.name = N /\ hand'.docs = body[N]
      BY <2>1
    <2>3. /\ Range(body[N]) \subseteq Held /\ Held \subseteq Known /\ Known \subseteq 1..made
      BY <1>0, <2>1 DEF Held, DocsOf, Known, SpoolInv, RecordsKnown
    <2>4. Upstream' = Upstream /\ Upstream \cap Known = {}
      <3>1. ~Landed
        BY <2>1 DEF Landed
      <3> QED BY <1>0, <2>1, <3>1 DEF UpstreamNew, Upstream, SpoolInv, RecordsKnown
    <2>6. N # NoName
      <3>1. N.seq > 0 /\ NoName.seq = 0
        BY <1>0, <1>i, <2>1 DEF Numbered, NoName
      <3> QED BY <3>1
    <2>7. ASSUME NEW nm \in disk' PROVE nm = N \/ (DocsOf(nm)' \cap Range(body[N]) = {})
      <3>1. nm = N \/ DocsOf(nm) \cap DocsOf(N) = {}
        BY <1>i, <2>1, <2>7 DEF FilesApart, PartWritten
      <3> QED BY <2>1, <3>1 DEF DocsOf
    <2> QED BY <1>1, <1>2, <2>1, <2>2, <2>3, <2>4, <2>6, <2>7 DEF HandApart, FromMem
  <1>4. CASE MemHas
    <2>0. PICK b : b = Head(mem)
      OBVIOUS
    <2>1. /\ mem # <<>> /\ hand' = [name |-> NoName, docs |-> b]
          /\ UNCHANGED <<disk, body, made, taken, dropped>>
          /\ sender = "mem" /\ sender' = "post" /\ UNCHANGED <<inCh, ev, docs, delivered, mem>>
      BY <1>4, <2>0 DEF MemHas, Goes, directory, history, channelVars, fates
    <2>2. hand'.name = NoName /\ hand'.docs = b
      BY <2>1
    <2>3. 1 \in DOMAIN mem /\ b = mem[1]
      BY <1>0, <2>0, <2>1 DEF PipeShape
    <2>4. /\ Range(b) \subseteq InMem /\ InMem \subseteq 1..made /\ InMem \cap (Known \cup Upstream) = {}
          /\ \A i \in DOMAIN mem : mem[i] = b \/ Range(mem[i]) \cap Range(b) = {}
      BY <1>i, <2>3 DEF MemApart, InMem
    <2>5. Upstream' = Upstream /\ Known' = Known
      BY <2>1 DEF Upstream, Known, Held, DocsOf
    <2> QED BY <2>1, <2>2, <2>4, <2>5 DEF HandApart, FromMem
  <1>5. CASE /\ InHand /\ hand' = hand
             /\ sender' # "apply" => sender # "apply"
             /\ ~Apply /\ ~SplitMem /\ ~Exit
    <2>0. PICK d, N : d = hand.docs /\ N = hand.name
      OBVIOUS
    <2>1. HandApart /\ hand'.docs = d /\ hand'.name = N
      BY <1>5, <1>i, <2>0
    <2>2. /\ Range(d) \subseteq 1..made' /\ Range(d) \cap Upstream' = {}
      BY <1>1, <1>2, <2>0, <2>1 DEF HandApart
    <2>4. ASSUME N = NoName
          PROVE  /\ Range(d) \cap Known' = {}
                 /\ \A i \in DOMAIN mem' : mem'[i] = d \/ Range(mem'[i]) \cap Range(d) = {}
      <3>1. /\ Range(d) \cap Known = {} /\ Range(d) \cap Upstream = {}
            /\ \A i \in DOMAIN mem : mem[i] = d \/ Range(mem[i]) \cap Range(d) = {}
        BY <2>0, <2>1, <2>4 DEF HandApart, FromMem
      <3>2. CASE mem' = mem
        BY <1>1, <3>1, <3>2
      <3>3. CASE mem' = <<>>
        BY <1>1, <3>1, <3>3
      <3>4. CASE (StoreFallback \/ StoreNoSpool) /\ MemPut(docs)
        <4>1. \A k \in DOMAIN mem' : mem'[k] = docs \/ \E i \in DOMAIN mem : mem'[k] = mem[i]
          <5>1. ~Landed
            BY <1>0, <3>4 DEF StoreFallback, StoreNoSpool, PutLowDisk, PutFailed, ShortOfRoom, WriteFails,
               Landed, PipeShape
          <5>2. /\ MemType /\ QueueApart(mem) /\ docs \in Seq(Records) /\ IsInjective(docs)
                /\ Range(docs) \cap InMem = {}
            BY <1>0, <1>1, <1>i DEF PipeShape, MemType, MemApart, QueueApart, FilesApart
          <5> QED BY <3>4, <5>2, QueuePut
        <4> QED BY <1>1, <3>1, <4>1
      <3> QED BY <1>5, <3>2, <3>3, <3>4, MemSteps, Zenon
    <2>5. ASSUME N # NoName
          PROVE  /\ Range(d) \subseteq Known'
                 /\ \A nm \in disk' : nm = N \/ PartWritten(nm)' \/ DocsOf(nm)' \cap Range(d) = {}
      <3>1. /\ Range(d) \subseteq Known /\ Range(d) \cap Upstream = {}
            /\ \A nm \in disk : nm = N \/ PartWritten(nm) \/ DocsOf(nm) \cap Range(d) = {}
        BY <2>0, <2>1, <2>5 DEF HandApart, FromMem
      <3>2. ASSUME NEW nm \in disk', nm \in disk, DocsOf(nm)' = DocsOf(nm)
            PROVE  nm = N \/ PartWritten(nm)' \/ DocsOf(nm)' \cap Range(d) = {}
        <4>1. CASE PartWritten(nm)
          <5>1. CASE SplitOk
            BY <5>1 DEF SplitOk, Goes, InHand
          <5> QED BY <1>i, <3>2, <4>1, <5>1, PartSteps
        <4> QED BY <3>1, <3>2, <4>1
      <3>3. CASE body' = body /\ disk' \subseteq disk
        <4>1. \A nm \in disk' : nm \in disk /\ DocsOf(nm)' = DocsOf(nm)
          BY <3>3 DEF DocsOf
        <4> QED BY <1>1, <3>1, <3>2, <4>1
      <3>4. CASE RenamePut
        <4>0. PICK P : P = op.name
          OBVIOUS
        <4>1. /\ op.call = "put" /\ disk' = disk \cup {P} /\ body'[P] = op.docs
              /\ \A nm \in DOMAIN body : body'[nm] = body[nm]
          BY <1>0, <3>4, <4>0, PutRenames
        <4>2. DocsOf(P)' = Range(docs) /\ \A nm \in disk : DocsOf(nm)' = DocsOf(nm)
          BY <1>0, <4>1 DEF DocsOf, PipeShape
        <4> QED BY <1>1, <3>1, <3>2, <4>1, <4>2
      <3>5. CASE RenameHalf
        <4>0. PICK h, T : h = op.half /\ T = HalfName(op.name, h)
          OBVIOUS
        <4>1. /\ op.call = "split" /\ op'.call = "split" /\ op'.name = op.name /\ op'.half = 1
              /\ disk' = disk \cup {T} /\ \A nm \in DOMAIN body : body'[nm] = body[nm]
              /\ h \in {0, 1}
          BY <1>0, <3>5, <4>0, HalfLands
        <4>2. h = 1 => op'.pc = "swap"
          <5>1. op.half = 1 => op' = [op EXCEPT !.pc = "swap"]
            BY <3>5 DEF RenameHalf
          <5> QED BY <1>0, <4>0, <5>1 DEF Call
        <4>3. PartWritten(T)'
          <5>1. h = 0 \/ h = 1
            BY <4>1
          <5> QED BY <4>0, <4>1, <4>2, <5>1 DEF PartWritten
        <4>4. \A nm \in disk : DocsOf(nm)' = DocsOf(nm)
          BY <1>0, <4>1 DEF DocsOf
        <4> QED BY <1>1, <3>1, <3>2, <4>1, <4>3, <4>4
      <3> QED BY <1>0, <3>3, <3>4, <3>5, DiskSteps
    <2> QED BY <2>1, <2>2, <2>4, <2>5 DEF HandApart, FromMem
  <1> QED BY <1>3, <1>4, <1>5, HandSteps DEF Orderly

\* No batch is queued twice, whatever posts end in (spool.go:16-25, shipper.go:44-51).
LEMMA ApartInvariant ==
    ASSUME Orderly
    PROVE  Spec => [](ShipperInv /\ ListedInv /\ ApartInv)
  <1>1. Init => ShipperInv /\ ListedInv /\ ApartInv
    <2> SUFFICES ASSUME Init PROVE ShipperInv /\ ListedInv /\ ApartInv
      OBVIOUS
    <2>1. ShipperInv
      BY ShipperInit
    <2>2. /\ docs = <<>> /\ mem = <<>> /\ sender = "select" /\ main = "run"
          /\ disk = {} /\ temps = {} /\ op = Idle /\ body = [nm \in {} |-> <<>>]
      BY DEF Init, FreshShipper, SpoolInit
    <2>3. op.call = "none" /\ op.pc = "idle"
      BY <2>2, IdleCall
    <2>4. ListedInv
      BY <2>2, <2>3 DEF ListedInv, DiskListed, TempsOwn, SplitListed
    <2>5. DOMAIN body = {} /\ InMem = {} /\ IsInjective(docs)
      BY <2>2 DEF InMem, IsInjective
    <2>6. MainShape /\ Numbered /\ FilesApart /\ MemApart /\ ~InHand
      BY <2>2, <2>3, <2>5 DEF MainShape, Numbered, PutNamed, FilesApart, MemApart, InHand
    <2> QED BY <2>1, <2>4, <2>6 DEF ApartInv
  <1>2. ShipperInv /\ ListedInv /\ ApartInv /\ [Next]_vars => (ShipperInv /\ ListedInv /\ ApartInv)'
    <2> SUFFICES ASSUME ShipperInv, ListedInv, ApartInv, [Next]_vars PROVE (ShipperInv /\ ListedInv /\ ApartInv)'
      OBVIOUS
    <2>1. ShipperInv' /\ ListedInv'
      BY ShipperSteps, ShipperListed DEF ShipperInv, Orderly
    <2>2. MainShape' /\ Numbered' /\ FilesApart' /\ MemApart'
      BY MainSteps, NumberedSteps, FilesSteps, MemApartSteps DEF ApartInv
    <2>3. InHand' => HandApart'
      BY HandApartSteps
    <2> QED BY <2>1, <2>2, <2>3 DEF ApartInv
  <1> QED BY <1>1, <1>2, PTL DEF Spec

\* The sender takes what Loom does not have, and keeps it in hand only while Loom
\* has not taken it (shipper.go:324-376).
LEMMA HandNewSteps ==
    ASSUME ShipperInv, OnceInv, [Next]_vars, Orderly, "replyLost" \notin Posts
    PROVE  HandNew'
  <1> SUFFICES ASSUME InHand', sender' # "apply" PROVE Range(hand'.docs) \cap delivered' = {}
    BY DEF HandNew
  <1>0. PipeShape /\ DeliveredGone /\ HandNew
    BY DEF ShipperInv, OnceInv
  <1>1. CASE SpoolHas
    <2>1. /\ files[1].name \in disk /\ hand'.docs = body[files[1].name]
          /\ sender = "oldest" /\ delivered' = delivered
      BY <1>1 DEF SpoolHas, OldestFound, Readable, fates
    <2>2. delivered \cap Held = {}
      BY <1>0, <2>1 DEF DeliveredGone, Removing
    <2> QED BY <2>1, <2>2 DEF Held, DocsOf
  <1>2. CASE MemHas
    <2>1. mem # <<>> /\ hand'.docs = Head(mem) /\ sender = "mem" /\ delivered' = delivered
      BY <1>2 DEF MemHas, fates
    <2>2. 1 \in DOMAIN mem /\ Head(mem) = mem[1]
      BY <1>0, <2>1 DEF PipeShape
    <2>3. delivered \cap InMem = {}
      BY <1>0, <2>1 DEF DeliveredGone, Removing
    <2> QED BY <2>1, <2>2, <2>3 DEF InMem
  <1>3. CASE InHand /\ hand' = hand /\ sender # "apply"
    <2>1. CASE delivered' = delivered
      BY <1>0, <1>3, <2>1 DEF HandNew
    <2>2. CASE PostAccepted
      BY <2>2 DEF PostAccepted, Goes
    <2> QED BY <2>1, <2>2, DeliveredSteps
  <1> QED BY <1>1, <1>2, <1>3, HandSteps DEF Orderly

\* What Remove takes is nowhere else (spool.go:244-258, shipper.go:487-498).
LEMMA ApplyGone ==
    ASSUME ShipperInv, ListedInv, ApartInv, Apply, Orderly
    PROVE  /\ Held' \subseteq Held /\ InMem' \subseteq InMem
           /\ verdict = "shipped" => Range(hand.docs) \cap (Held' \cup InMem') = {}
  <1>0. SpoolInv /\ PipeShape /\ op \in Call /\ disk \subseteq DOMAIN body /\ MemType
    BY DEF ShipperInv, SpoolInv, TypeOK, PipeShape, MemType
  <1>i. MemApart /\ HandApart /\ QueueApart(mem)
    BY DEF ApartInv, Apply, InHand, MemApart, QueueApart
  <1>1. CASE ~FromMem /\ Remove /\ UNCHANGED mem
    <2>1. InMem' = InMem
      BY <1>1 DEF InMem
    <2>2. /\ op.call = "none" /\ up /\ op.pc = "idle" /\ body' = body
          /\ \/ disk' = disk /\ Positions(hand.name) = {}
             \/ disk' = disk \ {hand.name}
      <3>1. up /\ op.pc = "idle" /\ body' = body
        BY <1>1 DEF Remove
      <3>2. \/ disk' = disk /\ Positions(hand.name) = {}
            \/ disk' = disk \ {hand.name}
        BY <1>1 DEF Remove, Unlink, Orderly
      <3> QED BY <1>0, <3>1, <3>2 DEF SpoolInv, CallShape
    <2>3. disk' \subseteq disk /\ hand.name \notin disk'
      <3>1. CASE Positions(hand.name) = {}
        <4>1. hand.name \notin Listed
          BY <3>1 DEF Listed, Positions
        <4> QED BY <2>2, <4>1 DEF ListedInv, DiskListed
      <3> QED BY <2>2, <3>1
    <2>4. \A nm : DocsOf(nm)' = DocsOf(nm)
      BY <2>2 DEF DocsOf
    <2>5. Held' \subseteq Held
      BY <2>3, <2>4 DEF Held
    <2>6. \A nm \in disk' : DocsOf(nm)' \cap Range(hand.docs) = {}
      BY <1>1, <1>i, <2>2, <2>3, <2>4 DEF HandApart, PartWritten
    <2>7. Range(hand.docs) \cap Held' = {}
      BY <2>6 DEF Held
    <2>8. Range(hand.docs) \cap InMem = {}
      BY <1>1, <1>i DEF HandApart, MemApart
    <2> QED BY <2>1, <2>5, <2>7, <2>8
  <1>2. CASE FromMem /\ MemRemove(hand.docs) /\ UNCHANGED <<disk, body>>
    <2>1. Held' = Held /\ Range(hand.docs) \cap Held = {}
      BY <1>2, <1>i DEF Held, DocsOf, HandApart, Known
    <2>2. \A i \in DOMAIN mem : mem[i] = hand.docs \/ Range(mem[i]) \cap Range(hand.docs) = {}
      BY <1>2, <1>i DEF HandApart
    <2>3. CASE hand.docs \notin Range(mem) /\ mem' = mem
      <3>1. \A i \in DOMAIN mem : Range(mem[i]) \cap Range(hand.docs) = {}
        BY <2>2, <2>3 DEF Range
      <3>2. InMem' = InMem /\ Range(hand.docs) \cap InMem = {}
        BY <2>3, <3>1 DEF InMem
      <3> QED BY <2>1, <3>2
    <2>4. ASSUME NEW i \in DOMAIN mem, mem[i] = hand.docs, mem' = Without(mem, i)
          PROVE  InMem' \subseteq InMem /\ Range(hand.docs) \cap InMem' = {}
      <3>1. \A k \in DOMAIN mem' : /\ \E j \in DOMAIN mem : mem'[k] = mem[j]
                                   /\ Range(mem'[k]) \cap Range(mem[i]) = {}
        BY <1>0, <1>i, <2>4, QueueCut DEF MemType
      <3> QED BY <2>4, <3>1 DEF InMem
    <2> QED BY <1>2, <2>1, <2>3, <2>4, Zenon DEF MemRemove
  <1> QED BY <1>1, <1>2, Zenon DEF Apply, directory

\* What the sender is about to remove stays so until it has.
LEMMA RemovingSteps ==
    ASSUME [Next]_vars, MainShape, "crash" \notin Faults
    PROVE  Apply \/ Removing \subseteq Removing'
  <1> SUFFICES ASSUME sender = "apply", ~Apply PROVE UNCHANGED <<sender, verdict, hand>>
    BY DEF Removing
  <1>1. CASE Apart
    <2>1. CASE Receive \/ Flush \/ BatcherEnds \/ StoreNoSpool \/ IdleTick \/ CloseStop \/ Shutdown
               \/ UNCHANGED vars
      BY <2>1, Zenon DEF Receive, Flush, BatcherEnds, StoreNoSpool, Stored, IdleTick, CloseStop, Shutdown,
         vars, shipperVars, senderVars, spoolVars, memory
    <2>2. ~(TakeKick \/ RetryFires \/ SeesStop \/ SkipSpool \/ LastDrain \/ Drained \/ SplitRefused \/ Loom)
      BY Zenon DEF TakeKick, RetryFires, SeesStop, SkipSpool, LastDrain, Drained, SplitRefused, Loom,
         PostAccepted, PostReplyLost, PostFails, PostRejected, PostTooLarge
    <2> QED BY <1>1, <2>1, <2>2, Zenon DEF Apart
  <1>2. ~(SpoolHas \/ SpoolEmpty \/ MemHas \/ SplitMem \/ AskSpool \/ SplitSpool \/ SplitOk \/ SplitError)
    BY Zenon DEF SpoolHas, SpoolEmpty, MemHas, SplitMem, AskSpool, SplitSpool, SplitOk, SplitError
  <1>3. CASE InsideSpool
    BY <1>3, Zenon DEF InsideSpool, Expire, SampleRoom, MakeRoom, NameBatch, WriteTemp, RenamePut, Enforce,
       SkipCorrupt, RenameHalf, shipperVars, senderVars
  <1>4. CASE Surroundings \/ Start \/ StartNoSpool \/ Log
    BY <1>4, Zenon DEF Surroundings, Start, StartNoSpool, Log, shipperVars, senderVars, Tick, Damage, OpenSpool,
       memory
  <1>5. CASE StorePut \/ StoreOk \/ StoreFallback
    BY <1>5, Zenon DEF StorePut, StoreOk, StoreFallback, Stored, PutDone, PutLowDisk, PutFailed, senderVars
  <1>6. ~Exit /\ ~Dies
    <2>1. ~Exit
      BY DEF Exit, MainShape
    <2> QED BY <2>1, Zenon DEF Dies, Crash
  <1> QED BY <1>1, <1>2, <1>3, <1>4, <1>5, <1>6, StepKinds, Zenon

\* What Loom took is queued nowhere, so that nothing is sent twice.
LEMMA GoneSteps ==
    ASSUME ShipperInv, ListedInv, OnceInv, [Next]_vars, Orderly, "replyLost" \notin Posts
    PROVE  DeliveredGone' /\ SentOnce'
  <1>0. SpoolInv /\ PipeShape /\ UpstreamNew /\ op \in Call /\ disk \subseteq DOMAIN body
    BY DEF ShipperInv, SpoolInv, TypeOK
  <1>i. /\ MainShape /\ FilesApart /\ MemApart /\ (InHand => HandApart) /\ HandNew /\ DeliveredGone /\ SentOnce
        /\ ApartInv
    BY DEF OnceInv, ApartInv
  <1>1. /\ Upstream' \subseteq Upstream \cup {made + 1} /\ made \in Nat /\ made' \in Nat /\ made <= made'
        /\ Range(docs) \subseteq Upstream
    BY UpstreamFlow, KnownFlow
  <1>2. 1..made \subseteq 1..made' /\ made + 1 \notin 1..made
    BY <1>1
  <1>3. CASE PostAccepted
    <2>1. /\ UNCHANGED spoolVars /\ UNCHANGED <<inCh, ev, docs, mem>>
          /\ delivered' = delivered \cup Range(hand.docs) /\ resent' = resent \cup (delivered \cap Range(hand.docs))
          /\ sender = "post" /\ sender' = "apply" /\ verdict' = "shipped"
      BY <1>3 DEF PostAccepted, LoomTakes, Goes, channelVars
    <2>2. Upstream' = Upstream /\ InMem' = InMem /\ Held' = Held /\ hand' = hand /\ made' = made
      BY <2>1 DEF Upstream, InMem, Held, DocsOf, spoolVars, memory, directory, history
    <2>3. /\ HandApart /\ Range(hand.docs) \cap delivered = {} /\ Range(hand.docs) \cap Upstream = {}
          /\ Range(hand.docs) \subseteq 1..made
      BY <1>i, <2>1 DEF InHand, HandApart, HandNew
    <2>4. Removing = {} /\ Removing' = Range(hand.docs)
      BY <2>1, <2>2 DEF Removing
    <2> QED BY <1>i, <2>1, <2>2, <2>3, <2>4 DEF DeliveredGone, SentOnce
  <1>4. CASE UNCHANGED <<delivered, resent>>
    <2>1. SentOnce' /\ delivered' \subseteq 1..made' /\ delivered' \cap Upstream' = {}
      BY <1>1, <1>2, <1>4, <1>i DEF DeliveredGone, SentOnce
    <2>2. CASE Apply
      <3>1. sender = "apply" /\ delivered \cap (Held \cup InMem) \subseteq Removing
        BY <1>i, <2>2 DEF Apply, DeliveredGone
      <3>2. /\ Held' \subseteq Held /\ InMem' \subseteq InMem
            /\ verdict = "shipped" => Range(hand.docs) \cap (Held' \cup InMem') = {}
        BY <1>i, <2>2, ApplyGone
      <3>3. delivered \cap (Held' \cup InMem') = {}
        BY <3>1, <3>2 DEF Removing
      <3> QED BY <1>4, <2>1, <3>3 DEF DeliveredGone
    <2>3. CASE ~Apply
      <3>1. Removing \subseteq Removing'
        BY <1>i, <2>3, RemovingSteps DEF Orderly
      <3>2. delivered \cap InMem' \subseteq Removing'
        <4>1. InMem' \subseteq InMem \cup Range(docs)
          <5>1. CASE mem' = mem
            BY <5>1 DEF InMem
          <5>2. CASE mem' = <<>>
            BY <5>2 DEF InMem
          <5>3. CASE (StoreFallback \/ StoreNoSpool) /\ MemPut(docs)
            <6>1. /\ MemType /\ QueueApart(mem) /\ docs \in Seq(Records) /\ IsInjective(docs)
                  /\ Range(docs) \cap InMem = {}
              BY <1>0, <1>1, <1>i DEF PipeShape, MemType, MemApart, QueueApart, FilesApart
            <6>2. \A k \in DOMAIN mem' : mem'[k] = docs \/ \E i \in DOMAIN mem : mem'[k] = mem[i]
              BY <5>3, <6>1, QueuePut
            <6> QED BY <6>2 DEF InMem
          <5>4. CASE MemSplit(hand.docs)
            <6>1. MemType /\ QueueApart(mem)
              BY <1>0, <1>i DEF PipeShape, MemType, MemApart, QueueApart
            <6>2. ASSUME NEW i \in DOMAIN mem, mem[i] = hand.docs,
                         mem' = SubSeq(mem, 1, i - 1) \o <<Half(hand.docs, 0), Half(hand.docs, 1)>>
                                  \o SubSeq(mem, i + 1, Len(mem))
                  PROVE  InMem' \subseteq InMem
              <7>1. mem' = Splice(mem, i, Half(mem[i], 0), Half(mem[i], 1))
                BY <6>2, Zenon DEF Splice
              <7>2. \A k \in DOMAIN mem' : \E j \in DOMAIN mem : Range(mem'[k]) \subseteq Range(mem[j])
                BY <6>1, <7>1, QueueSplice DEF MemType
              <7> QED BY <7>2 DEF InMem
            <6> QED BY <5>1, <5>4, <6>2, Zenon DEF MemSplit
          <5> QED BY <2>3, <5>1, <5>2, <5>3, <5>4, MemSteps, Zenon
        <4> QED BY <1>1, <1>i, <3>1, <4>1 DEF DeliveredGone
      <3>3. delivered \cap Held' \subseteq Removing'
        <4>1. CASE Held' \subseteq Held
          BY <1>i, <3>1, <4>1 DEF DeliveredGone
        <4>2. CASE body' = body /\ disk' \subseteq disk
          BY <4>1, <4>2 DEF Held, DocsOf
        <4>3. CASE RenamePut
          <5>1. /\ op.call = "put" /\ disk' = disk \cup {op.name} /\ body'[op.name] = op.docs
                /\ \A nm \in DOMAIN body : body'[nm] = body[nm]
            BY <1>0, <4>3, PutRenames
          <5>2. Held' \subseteq Held \cup Range(docs)
            BY <1>0, <5>1 DEF Held, DocsOf, PipeShape
          <5> QED BY <1>1, <1>i, <3>1, <5>2 DEF DeliveredGone
        <4>4. CASE RenameHalf
          <5>0. PICK h, T : h = op.half /\ T = HalfName(op.name, h)
            OBVIOUS
          <5>1. /\ op.call = "split" /\ op.name = hand.name /\ hand.name # NoName /\ h \in {0, 1}
                /\ op.name \in DOMAIN body
                /\ disk' = disk \cup {T} /\ \A nm \in DOMAIN body : body'[nm] = body[nm]
                /\ body'[T] = Half(body[op.name], h)
            BY <1>0, <4>4, <5>0, HalfLands
          <5>2. sender = "splitting" /\ hand.docs = body[op.name] /\ hand.docs \in Seq(Records)
            BY <1>0, <5>1 DEF PipeShape, SpoolInv, HandBacked, TypeOK
          <5>3. Range(body'[T]) \subseteq Range(hand.docs)
            BY <5>1, <5>2, HalfDocs
          <5>4. Held' \subseteq Held \cup Range(hand.docs)
            BY <1>0, <5>1, <5>3 DEF Held, DocsOf
          <5>5. Range(hand.docs) \cap delivered = {}
            BY <1>i, <5>2 DEF InHand, HandNew
          <5> QED BY <1>i, <3>1, <5>4, <5>5 DEF DeliveredGone
        <4> QED BY <1>0, <4>2, <4>3, <4>4, DiskSteps
      <3> QED BY <1>4, <2>1, <3>2, <3>3 DEF DeliveredGone
    <2> QED BY <2>2, <2>3
  <1> QED BY <1>3, <1>4, DeliveredSteps

\* Together.
LEMMA OnceInvariant ==
    ASSUME Orderly, "replyLost" \notin Posts
    PROVE  Spec => []OnceInv
  <1>1. Init => HandNew /\ DeliveredGone /\ SentOnce
    BY DEF Init, FreshShipper, HandNew, InHand, DeliveredGone, SentOnce
  <1>2. /\ ShipperInv /\ ListedInv /\ ApartInv /\ HandNew /\ DeliveredGone /\ SentOnce /\ [Next]_vars
        => (HandNew /\ DeliveredGone /\ SentOnce)'
    BY HandNewSteps, GoneSteps DEF OnceInv
  <1>3. ApartInv /\ HandNew /\ DeliveredGone /\ SentOnce => OnceInv
    BY DEF OnceInv
  <1> QED BY <1>1, <1>2, <1>3, ApartInvariant, PTL DEF Spec

\* "2xx: delivered: the batch is deleted and never sent again" (shipper.go:44): while
\* processes end through Shutdown, unlinks work, the spool opens and Loom's answers
\* arrive, no record is posted again once Loom took it, however often batches are split,
\* retried, dropped, damaged, or kept in memory after a failed write, and whatever the
\* clock says.
THEOREM NothingSentTwice ==
    ASSUME "crash" \notin Faults, "unlink" \notin Faults, "nospool" \notin Faults, "replyLost" \notin Posts
    PROVE  Spec => []SentOnce
  <1>1. Orderly
    BY DEF Orderly
  <1>2. OnceInv => SentOnce
    BY DEF OnceInv
  <1> QED BY <1>1, <1>2, OnceInvariant, PTL

----------------------------------------------------------------------------
(* What is given up, and what a stop leaves behind. *)

\* A verdict is reached in one step and acted on in the next by the sender.
LEMMA VerdictSteps ==
    ASSUME SenderShape, [Next]_vars
    PROVE  SenderShape'
  <1>1. CASE Apart
    <2>1. CASE Receive \/ Flush \/ BatcherEnds \/ StoreNoSpool \/ IdleTick \/ CloseStop \/ Shutdown
               \/ UNCHANGED vars
      <3>1. UNCHANGED <<sender, verdict, hand>>
        BY <2>1, Zenon DEF Receive, Flush, BatcherEnds, StoreNoSpool, Stored, IdleTick, CloseStop, Shutdown,
           vars, shipperVars, senderVars, spoolVars, memory
      <3> QED BY <3>1 DEF SenderShape
    <2>2. CASE TakeKick \/ RetryFires \/ SeesStop \/ SkipSpool \/ LastDrain \/ Drained \/ PostReplyLost \/ PostFails
      <3>1. verdict' = verdict /\ sender # "apply" /\ sender' \in {"select", "next", "done", "mem"}
        BY <2>2 DEF TakeKick, RetryFires, SeesStop, SkipSpool, LastDrain, Drained, PostReplyLost, PostFails,
           DrainReturns, Goes
      <3> QED BY <3>1 DEF SenderShape
    <2>3. CASE SplitRefused \/ PostAccepted \/ PostRejected
      <3>1. sender' = "apply"
        BY <2>3 DEF SplitRefused, PostAccepted, PostRejected, Goes
      <3> QED BY <3>1 DEF SenderShape
    <2>4. CASE PostTooLarge
      <3>1. sender = "post" /\ verdict' = verdict /\ sender' = "split" /\ hand' = hand /\ TooLarge(hand.docs)
        BY <2>4, Zenon DEF PostTooLarge, Goes, spoolVars, memory
      <3>2. hand.docs # <<>>
        <4> SUFFICES ASSUME hand.docs = <<>> PROVE FALSE
          OBVIOUS
        <4>1. Len(hand.docs) = 0 /\ Range(hand.docs) = {}
          BY DEF Range
        <4> QED BY <3>1, <4>1, ShipperAssumption DEF TooLarge
      <3> QED BY <3>1, <3>2 DEF SenderShape
    <2> QED BY <1>1, <2>1, <2>2, <2>3, <2>4, Zenon DEF Apart, Loom
  <1>2. CASE SpoolHas \/ SpoolEmpty \/ MemHas \/ SplitMem \/ AskSpool \/ SplitSpool \/ SplitOk
    <2>1. verdict' = verdict /\ sender # "apply" /\ sender' \notin {"apply", "split"}
      BY <1>2 DEF SpoolHas, SpoolEmpty, MemHas, SplitMem, AskSpool, SplitSpool, SplitOk, Goes
    <2> QED BY <2>1 DEF SenderShape
  <1>3. CASE SplitError \/ Apply
    <2>1. sender' = "apply" \/ (sender' = "next" /\ verdict' = "none")
      BY <1>3 DEF SplitError, Apply, Goes
    <2> QED BY <2>1 DEF SenderShape
  <1>4. CASE InsideSpool \/ Surroundings \/ Start \/ StartNoSpool \/ Log \/ StorePut \/ StoreOk \/ StoreFallback
    <2>1. UNCHANGED <<sender, verdict, hand>>
      <3>1. CASE InsideSpool
        BY <3>1, Zenon DEF InsideSpool, Expire, SampleRoom, MakeRoom, NameBatch, WriteTemp, RenamePut, Enforce,
           SkipCorrupt, RenameHalf, shipperVars, senderVars
      <3>2. CASE Surroundings \/ Start \/ StartNoSpool \/ Log
        BY <3>2, Zenon DEF Surroundings, Start, StartNoSpool, Log, shipperVars, senderVars, Tick, Damage, OpenSpool,
           memory
      <3>3. CASE StorePut \/ StoreOk \/ StoreFallback
        BY <3>3, Zenon DEF StorePut, StoreOk, StoreFallback, Stored, PutDone, PutLowDisk, PutFailed, senderVars
      <3> QED BY <1>4, <3>1, <3>2, <3>3
    <2> QED BY <2>1 DEF SenderShape
  <1>5. CASE Exit \/ Dies
    <2>1. sender' = "select" /\ verdict' = "none"
      BY <1>5, Zenon DEF Exit, Dies, ResetShipper
    <2> QED BY <2>1 DEF SenderShape
  <1> QED BY <1>1, <1>2, <1>3, <1>4, <1>5, StepKinds, Zenon

\* How far Shutdown is.
LEMMA MainMoves ==
    ASSUME [Next]_vars
    PROVE  main' = "run" => main = "run" \/ Exit \/ Dies
  <1>1. CASE Apart
    BY <1>1, Zenon DEF Apart, IdleTick, Receive, Flush, BatcherEnds, StoreNoSpool, Stored, TakeKick,
       RetryFires, SeesStop, SkipSpool, Drained, DrainReturns, SplitRefused, Loom, PostAccepted, PostReplyLost,
       PostFails, PostRejected, PostTooLarge, Shutdown, CloseStop, LastDrain, vars, shipperVars
  <1>2. CASE SpoolHas \/ SpoolEmpty \/ MemHas \/ SplitMem \/ AskSpool \/ SplitSpool \/ SplitOk \/ SplitError
             \/ Apply
    BY <1>2, Zenon DEF SpoolHas, SpoolEmpty, MemHas, SplitMem, AskSpool, SplitSpool, SplitOk, SplitError, Apply
  <1>3. CASE InsideSpool \/ Surroundings \/ Start \/ StartNoSpool \/ Log
    BY <1>3, Zenon DEF InsideSpool, Surroundings, Start, StartNoSpool, Log, shipperVars
  <1>4. CASE StorePut \/ StoreOk \/ StoreFallback
    BY <1>4, Zenon DEF StorePut, StoreOk, StoreFallback, Stored
  <1> QED BY <1>1, <1>2, <1>3, <1>4, StepKinds, Zenon

\* The batcher closes a batch at BatchSize (shipper.go:237-259), and ends once the
\* channel is drained and the last batch stored.
LEMMA BatcherSteps ==
    ASSUME PipeShape, BatcherShape, [Next]_vars
    PROVE  BatcherShape'
  <1>0. /\ docs \in Seq(Records) /\ inCh \in Seq(Records) /\ Len(docs) \in Nat
        /\ BatchSize \in Nat /\ BatchSize >= 1
    BY ShipperAssumption DEF PipeShape
  <1>1. CASE Log
    <2>1. main = "run" /\ UNCHANGED <<docs, batcher>>
      BY <1>1 DEF Log
    <2> QED BY <2>1 DEF BatcherShape
  <1>2. CASE Receive
    <2>1. CASE docs' = docs /\ batcher' = "flush"
      BY <2>1 DEF BatcherShape
    <2>2. CASE docs' = Append(docs, Head(inCh))
      <3>1. batcher = "loop" /\ inCh # <<>>
            /\ batcher' = IF Len(docs) + 1 >= BatchSize THEN "flush" ELSE "loop"
        <4>1. batcher = "loop" /\ inCh # <<>>
          BY <1>2 DEF Receive
        <4>2. docs' # docs
          <5>1. Len(docs') = Len(docs) + 1
            BY <1>0, <2>2, <4>1
          <5> QED BY <1>0, <5>1
        <4> QED BY <1>2, <4>1, <4>2 DEF Receive
      <3>2. Len(docs') = Len(docs) + 1 /\ Len(docs) < BatchSize
        BY <1>0, <2>2, <3>1 DEF BatcherShape
      <3> QED BY <1>0, <3>1, <3>2 DEF BatcherShape
    <2> QED BY <1>2, <2>1, <2>2, ReceivePipe
  <1>3. CASE Returns
    <2>1. /\ docs' = IF ev = 0 THEN <<>> ELSE <<ev>>
          /\ batcher' = IF ev # 0 /\ BatchSize = 1 THEN "flush" ELSE "loop"
      BY <1>3, Zenon DEF Returns, StoreOk, StoreFallback, StoreNoSpool, Stored
    <2>2. CASE ev = 0
      <3>1. Len(docs') = 0 /\ batcher' = "loop"
        BY <2>1, <2>2
      <3> QED BY <1>0, <3>1 DEF BatcherShape
    <2>3. CASE ev # 0
      <3>1. Len(docs') = 1 /\ (batcher' = IF BatchSize = 1 THEN "flush" ELSE "loop")
        BY <2>1, <2>3
      <3> QED BY <1>0, <3>1 DEF BatcherShape
    <2> QED BY <2>2, <2>3
  <1>4. CASE Exit \/ Dies
    <2>1. docs' = <<>> /\ batcher' = "loop"
      BY <1>4, Zenon DEF Exit, Dies, ResetShipper
    <2> QED BY <1>0, <2>1 DEF BatcherShape
  <1>5. CASE UNCHANGED <<inCh, ev, docs, batcher>> /\ ~Exit /\ ~Dies
    BY <1>5, MainMoves DEF BatcherShape
  <1>6. CASE Flush \/ StorePut
    <2>1. batcher' \in {"flush", "put"} /\ docs' = docs
      BY <1>6, Zenon DEF Flush, StorePut
    <2> QED BY <2>1 DEF BatcherShape
  <1>7. CASE BatcherEnds
    <2>1. /\ batcher = "loop" /\ main = "closing" /\ inCh = <<>> /\ docs = <<>> /\ batcher' = "done"
          /\ UNCHANGED <<inCh, ev, docs, main>>
      BY <1>7, Zenon DEF BatcherEnds
    <2>2. ev = 0
      BY <2>1 DEF PipeShape
    <2> QED BY <1>0, <2>1, <2>2 DEF BatcherShape
  <1> QED BY <1>1, <1>2, <1>3, <1>4, <1>5, <1>6, <1>7, ChannelSteps, Zenon

\* A Put that finds room for the largest batch finds room.
LEMMA TakesSteps ==
    ASSUME ShipperInv, BatcherShape, SpoolTakesAll, [Next]_vars,
           "write" \notin Faults, "nospool" \notin Faults, \A r \in Rooms : r >= Size(BatchSize)
    PROVE  SpoolTakesAll'
  <1>0. SpoolInv /\ PipeShape /\ op \in Call /\ Len(docs) \in Nat /\ BatchSize \in Nat /\ files \in Index
    BY ShipperAssumption DEF ShipperInv, SpoolInv, TypeOK, PipeShape, Index
  <1>1. ~PutLowDisk /\ ~PutFailed /\ ~StoreNoSpool /\ ~StoreFallback /\ ~MakeRoom
    <2>1. ~ShortOfRoom
      <3>1. op.pc = "room" => op.room >= Size(Len(op.docs)) /\ op.room \in Int /\ Len(op.docs) \in Nat
        BY <1>0 DEF SpoolTakesAll, Call
      <3> QED BY <3>1 DEF ShortOfRoom, Size
    <2> QED BY <2>1, Zenon DEF PutLowDisk, PutFailed, WriteFails, StoreNoSpool, StoreFallback, SpoolTakesAll,
               MakeRoom
  <1>2. mem' = <<>>
    <2>1. CASE MemRemove(hand.docs) \/ MemSplit(hand.docs)
      BY <2>1 DEF MemRemove, MemSplit, SpoolTakesAll
    <2> QED BY <1>1, <2>1, MemSteps, Zenon DEF SpoolTakesAll
  <1>3. spool'
    <2>1. CASE Apart \/ Log \/ StorePut \/ StoreOk
      BY <1>1, <2>1, Zenon DEF Apart, IdleTick, Receive, Flush, BatcherEnds, TakeKick,
         RetryFires, SeesStop, SkipSpool, Drained, SplitRefused, Loom, PostAccepted, PostReplyLost,
         PostFails, PostRejected, PostTooLarge, Shutdown, CloseStop, LastDrain, vars, shipperVars, Log, StorePut,
         StoreOk, Stored, SpoolTakesAll
    <2>2. CASE SpoolHas \/ SpoolEmpty \/ MemHas \/ SplitMem \/ AskSpool \/ SplitSpool \/ SplitOk \/ SplitError
               \/ Apply
      BY <2>2, Zenon DEF SpoolHas, SpoolEmpty, MemHas, SplitMem, AskSpool, SplitSpool, SplitOk, SplitError, Apply,
         SpoolTakesAll
    <2>3. CASE InsideSpool \/ Surroundings \/ Start \/ Exit \/ Dies
      BY <2>3, Zenon DEF InsideSpool, Surroundings, Start, Exit, Dies, ResetShipper, shipperVars, SpoolTakesAll
    <2>4. ~StartNoSpool
      BY Zenon DEF StartNoSpool
    <2> QED BY <1>1, <2>1, <2>2, <2>3, <2>4, StepKinds, Zenon
  <1>4. op'.pc = "room" => op'.room >= Size(Len(op'.docs))
    <2>1. CASE op' = op
      BY <2>1 DEF SpoolTakesAll
    <2>2. CASE InsideSpool
      <3>1. CASE SampleRoom
        <4>1. PICK r \in Rooms : op' = [op EXCEPT !.pc = "room", !.room = r]
          BY <3>1 DEF SampleRoom
        <4>2. op.call = "put" /\ op'.room = r /\ op'.docs = op.docs
          BY <1>0, <3>1, <4>1 DEF SampleRoom, Call
        <4>3. op.docs = docs /\ Len(docs) <= BatchSize
          BY <1>0, <4>2 DEF PipeShape, BatcherShape
        <4>4. r \in Int /\ r >= Size(BatchSize)
          BY SpoolAssumption
        <4> QED BY <1>0, <4>2, <4>3, <4>4 DEF Size
      <3>2. CASE NameBatch
        <4>1. op'.pc = "write"
          BY <1>0, <3>2 DEF NameBatch, Call
        <4> QED BY <4>1
      <3>3. CASE WriteTemp \/ RenamePut
        <4>1. op'.pc \in {"rename", "enforce"}
          BY <1>0, <3>3 DEF WriteTemp, RenamePut, Goto, Call
        <4> QED BY <4>1
      <3>4. CASE RenameHalf
        <4>1. op'.call = "split"
          BY <1>0, <3>4, HalfLands
        <4>2. op'.pc # "room"
          <5>1. SpoolInv'
            BY SpoolSteps
          <5> QED BY <4>1, <5>1 DEF SpoolInv, CallShape
        <4> QED BY <4>2
      <3>5. CASE Expire \/ Enforce \/ SkipCorrupt
        BY <2>1, <3>5 DEF Expire, Enforce, SkipCorrupt
      <3> QED BY <1>1, <2>2, <3>1, <3>2, <3>3, <3>4, <3>5, Zenon DEF InsideSpool
    <2>3. CASE op'.pc = "expire" \/ op' = Idle \/ op'.call \in {"oldest", "split"}
      <3>1. op'.pc # "room"
        <4>1. SpoolInv'
          BY SpoolSteps
        <4> QED BY <2>3, <4>1, IdleCall DEF SpoolInv, CallShape
      <3> QED BY <3>1
    <2> QED BY <1>0, <2>1, <2>2, <2>3, CallSteps
  <1> QED BY <1>2, <1>3, <1>4 DEF SpoolTakesAll

\* One step gives up one record at most, and Shutdown leaves none behind.
LEMMA GivesUpStep ==
    ASSUME ShipperInv, GiveUpInv, [Next]_vars, "write" \notin Faults
    PROVE  /\ verdict' = "refused" /\ sender \in {"split", "splitting"} => Len(hand.docs) = 1
           /\ Exit => lost' = lost
  <1>1. ASSUME Exit PROVE lost' = lost
    <2>1. lost' = lost \cup (InMemory \ (Held \cup delivered))
      BY <1>1, EndsPipe
    <2>2. inCh = <<>> /\ ev = 0 /\ docs = <<>> /\ mem = <<>>
      BY <1>1 DEF Exit, GiveUpInv, MainShape, BatcherShape, SpoolTakesAll
    <2>3. InMemory = {}
      BY <2>2 DEF InMemory, InMem, Range
    <2> QED BY <2>1, <2>3
  <1>2. ASSUME verdict' = "refused", sender \in {"split", "splitting"} PROVE Len(hand.docs) = 1
    <2>1. verdict = "none"
      BY <1>2 DEF GiveUpInv, SenderShape
    <2>2. ~SplitError
      BY Zenon DEF SplitError, SplitFailed, WriteFails
    <2>3. CASE SplitRefused
      <3>1. sender = "split" /\ ~(Len(hand.docs) >= 2) /\ hand.docs # <<>>
        BY <2>3 DEF SplitRefused, Splittable, GiveUpInv, SenderShape
      <3>2. hand.docs \in Seq(Records)
        BY DEF ShipperInv, SpoolInv, TypeOK
      <3>3. PICK n : n = Len(hand.docs)
        OBVIOUS
      <3>4. n \in Nat /\ n # 0
        BY <3>1, <3>2, <3>3
      <3>5. ~(n >= 2)
        BY <3>1, <3>3
      <3>6. n = 1
        BY <3>4, <3>5
      <3> QED BY <3>3, <3>6
    <2>4. CASE ~SplitRefused
      <3>1. UNCHANGED verdict \/ verdict' # "refused"
        <4>1. CASE Apart
          BY <1>2, <2>4, <4>1 DEF Apart, IdleTick, Receive, Flush, BatcherEnds, StoreNoSpool, Stored, TakeKick,
             RetryFires, SeesStop, SkipSpool, Drained, DrainReturns, SplitRefused, Loom, PostAccepted, PostReplyLost,
             PostFails, PostRejected, PostTooLarge, Shutdown, CloseStop, LastDrain, vars, shipperVars, senderVars
        <4>2. CASE SpoolHas \/ SpoolEmpty \/ MemHas \/ SplitMem \/ AskSpool \/ SplitSpool \/ SplitOk
          BY <4>2, Zenon DEF SpoolHas, SpoolEmpty, MemHas, SplitMem, AskSpool, SplitSpool, SplitOk
        <4>3. CASE Apply \/ Exit \/ Dies
          BY <4>3 DEF Apply, Exit, Dies, ResetShipper
        <4>4. CASE InsideSpool \/ Surroundings \/ Start \/ StartNoSpool \/ Log
          BY <4>4, Zenon DEF InsideSpool, Surroundings, Start, StartNoSpool, Log, shipperVars, senderVars
        <4>5. CASE StorePut \/ StoreOk \/ StoreFallback
          BY <4>5, Zenon DEF StorePut, StoreOk, StoreFallback, Stored, senderVars
        <4> QED BY <2>2, <4>1, <4>2, <4>3, <4>4, <4>5, StepKinds, Zenon
      <3> QED BY <1>2, <2>1, <3>1
    <2> QED BY <2>3, <2>4
  <1> QED BY <1>1, <1>2

\* While the spool takes every batch, nothing is given up for want of room, and no
\* batch waits in memory (shipper.go:264-279).
LEMMA GiveUpInvariant ==
    ASSUME "write" \notin Faults, "nospool" \notin Faults, \A r \in Rooms : r >= Size(BatchSize)
    PROVE  Spec => [](ShipperInv /\ GiveUpInv)
  <1>1. Init => ShipperInv /\ GiveUpInv
    <2> SUFFICES ASSUME Init PROVE ShipperInv /\ GiveUpInv
      OBVIOUS
    <2>1. /\ docs = <<>> /\ mem = <<>> /\ sender = "select" /\ main = "run" /\ verdict = "none"
          /\ batcher = "loop" /\ spool /\ op = Idle
      BY DEF Init, FreshShipper, SpoolInit
    <2>2. GiveUpInv
      BY <2>1, IdleCall, ShipperAssumption DEF GiveUpInv, MainShape, BatcherShape, SenderShape, SpoolTakesAll
    <2> QED BY <2>2, ShipperInit
  <1>2. ShipperInv /\ GiveUpInv /\ [Next]_vars => (ShipperInv /\ GiveUpInv)'
    <2> SUFFICES ASSUME ShipperInv, GiveUpInv, [Next]_vars PROVE (ShipperInv /\ GiveUpInv)'
      OBVIOUS
    <2>1. ShipperInv' /\ PipeShape
      BY ShipperSteps DEF ShipperInv
    <2>2. MainShape' /\ SenderShape'
      BY MainSteps, VerdictSteps DEF GiveUpInv
    <2>3. BatcherShape' /\ SpoolTakesAll'
      BY <2>1, BatcherSteps, TakesSteps DEF GiveUpInv
    <2> QED BY <2>1, <2>2, <2>3 DEF GiveUpInv
  <1> QED BY <1>1, <1>2, PTL DEF Spec

\* Records are given up only alone, as too large (shipper.go:45-47, 371-375), and a stop
\* leaves nothing only in memory (shipper.go:430-443), for every size of batch, with
\* crashes, damaged files, failed unlinks and posts that end in any way, while writes
\* work and the disk has room for one batch.
THEOREM GivesUpOversizedOnly ==
    ASSUME "write" \notin Faults, "nospool" \notin Faults, \A r \in Rooms : r >= Size(BatchSize)
    PROVE  Spec => GivesUpOnlyOversized
  <1>1. Spec => [](ShipperInv /\ GiveUpInv)
    BY GiveUpInvariant
  <1>2. ShipperInv /\ GiveUpInv /\ [Next]_vars =>
           [/\ verdict' = "refused" /\ sender \in {"split", "splitting"} => Len(hand.docs) = 1
            /\ Exit => lost' = lost]_vars
    BY GivesUpStep
  <1> QED BY <1>1, <1>2, PTL DEF Spec, GivesUpOnlyOversized

----------------------------------------------------------------------------
(* The order of delivery. *)

\* A record that is younger than all goes to the end.
LEMMA AppendAscends ==
    ASSUME NEW S \in SUBSET Nat, NEW s \in Seq(S), Ascends(s), NEW x \in S, AllBefore(Range(s), {x})
    PROVE  Ascends(Append(s, x)) /\ Range(Append(s, x)) = Range(s) \cup {x}
  <1> DEFINE w == Append(s, x)
  <1>0. Len(s) \in Nat /\ DOMAIN s = 1..Len(s)
    OBVIOUS
  <1>r. \A i \in 1..Len(s) : s[i] \in Range(s)
    BY <1>0 DEF Range
  <1>1. Len(s) \in Nat /\ DOMAIN s = 1..Len(s) /\ \A i \in 1..Len(s) : s[i] \in Nat /\ s[i] \in Range(s)
    <2>1. \A i \in 1..Len(s) : s[i] \in S
      BY SeqElements
    <2> QED BY <1>0, <1>r, <2>1
  <1>2. /\ DOMAIN w = 1..(Len(s) + 1) /\ w[Len(s) + 1] = x
        /\ \A i \in 1..Len(s) : w[i] = s[i]
    OBVIOUS
  <1> HIDE DEF w
  <1>3. Ascends(w)
    <2> SUFFICES ASSUME NEW i \in DOMAIN w, NEW j \in DOMAIN w, i < j PROVE w[i] < w[j]
      BY DEF Ascends
    <2>1. i \in 1..Len(s) /\ w[i] = s[i]
      BY <1>1, <1>2
    <2>2. CASE j \in 1..Len(s)
      BY <1>1, <1>2, <2>1, <2>2 DEF Ascends
    <2>3. CASE j = Len(s) + 1
      BY <1>1, <1>2, <2>1, <2>3 DEF AllBefore
    <2> QED BY <1>1, <1>2, <2>2, <2>3
  <1>4. Range(w) = Range(s) \cup {x}
    <2>1. \A i \in DOMAIN w : w[i] \in Range(s) \cup {x}
      <3> SUFFICES ASSUME NEW i \in DOMAIN w PROVE w[i] \in Range(s) \cup {x}
        OBVIOUS
      <3>1. i \in 1..Len(s) \/ i = Len(s) + 1
        BY <1>0, <1>2
      <3> QED BY <1>2, <1>r, <3>1
    <2>2. \A i \in 1..Len(s) : i \in DOMAIN w
      BY <1>0, <1>2
    <2>3. Len(s) + 1 \in DOMAIN w
      BY <1>0, <1>2
    <2>4. \A i \in DOMAIN s : s[i] \in Range(w)
      BY <1>0, <1>2, <2>2 DEF Range
    <2>5. x \in Range(w)
      BY <1>2, <2>3 DEF Range
    <2>6. Range(w) = {w[i] : i \in DOMAIN w} /\ Range(s) = {s[i] : i \in DOMAIN s}
      BY DEF Range
    <2> QED BY <2>1, <2>4, <2>5, <2>6
  <1> QED BY <1>3, <1>4 DEF w

\* The first one is the oldest.
LEMMA TailAscends ==
    ASSUME NEW S \in SUBSET Nat, NEW s \in Seq(S), s # <<>>, Ascends(s)
    PROVE  /\ Ascends(Tail(s)) /\ Range(Tail(s)) \subseteq Range(s)
           /\ Head(s) \in Range(s) /\ AllBefore({Head(s)}, Range(Tail(s)))
  <1> DEFINE t == Tail(s)
  <1>1. Len(s) \in Nat /\ DOMAIN s = 1..Len(s) /\ 1 \in DOMAIN s /\ Head(s) = s[1]
    OBVIOUS
  <1>2. DOMAIN t = 1..(Len(s) - 1) /\ \A i \in DOMAIN t : t[i] = s[i + 1] /\ i + 1 \in DOMAIN s
    BY <1>1
  <1> HIDE DEF t
  <1>3. Ascends(t)
    <2> SUFFICES ASSUME NEW i \in DOMAIN t, NEW j \in DOMAIN t, i < j PROVE t[i] < t[j]
      BY DEF Ascends
    <2>1. i + 1 < j + 1 /\ i + 1 \in DOMAIN s /\ j + 1 \in DOMAIN s /\ t[i] = s[i + 1] /\ t[j] = s[j + 1]
      BY <1>1, <1>2
    <2> QED BY <2>1 DEF Ascends
  <1>4. Range(t) \subseteq Range(s)
    BY <1>2 DEF Range
  <1>5. AllBefore({Head(s)}, Range(t))
    <2> SUFFICES ASSUME NEW i \in DOMAIN t PROVE s[1] < t[i]
      BY <1>1 DEF AllBefore, Range
    <2>1. 1 < i + 1 /\ i + 1 \in DOMAIN s /\ t[i] = s[i + 1]
      BY <1>1, <1>2
    <2> QED BY <1>1, <2>1 DEF Ascends
  <1> QED BY <1>1, <1>3, <1>4, <1>5 DEF Range, t

\* Nothing, and one record, are in order.
LEMMA ShortAscends ==
    ASSUME NEW x
    PROVE  Ascends(<<>>) /\ Range(<<>>) = {} /\ Ascends(<<x>>) /\ Range(<<x>>) = {x}
  BY DEF Ascends, Range

\* The same records upstream.
LEMMA ArrivalSame ==
    ASSUME ArrivalOrder, UNCHANGED <<inCh, ev, docs>>, Known' = Known, Landed' <=> Landed
    PROVE  ArrivalOrder'
  BY DEF ArrivalOrder

\* Every step keeps the records in the order they were logged, from LogConnection's
\* channel to the spool (shipper.go:215-262).
LEMMA ArrivalSteps ==
    ASSUME ShipperInv, ArrivalOrder, [Next]_vars
    PROVE  ArrivalOrder'
  <1>0. SpoolInv /\ PipeShape /\ UpstreamNew
    BY DEF ShipperInv
  <1>m. made \in Nat /\ Known \subseteq 1..made /\ Records \in SUBSET Nat
    BY <1>0, SpoolAssumption DEF SpoolInv, TypeOK, RecordsKnown, Records
  <1>q. inCh \in Seq(Records) /\ docs \in Seq(Records)
    BY <1>0 DEF PipeShape
  <1>u. Range(inCh) \subseteq 1..made /\ Range(docs) \subseteq 1..made /\ {ev} \ {0} \subseteq 1..made
    BY <1>0 DEF UpstreamNew, Upstream
  <1>a. /\ Ascends(docs) /\ Ascends(inCh)
        /\ AllBefore(Range(docs), {ev} \ {0}) /\ AllBefore(Range(docs), Range(inCh))
        /\ AllBefore({ev} \ {0}, Range(inCh))
        /\ AllBefore(Known, {ev} \ {0}) /\ AllBefore(Known, Range(inCh))
        /\ ~Landed => AllBefore(Known, Range(docs))
    BY DEF ArrivalOrder
  <1>k. Known' = Known \/ (Lands /\ Known' = Known \cup Range(op.docs))
    BY SpoolSteps
  <1>1. CASE Lands /\ Known' = Known \cup Range(op.docs)
    <2>1. InsideSpool /\ op.call = "put" /\ UNCHANGED <<inCh, ev, docs>>
      BY <1>1, Zenon DEF Lands, InsideSpool, RenamePut, shipperVars, channelVars
    <2>2. op.docs = docs
      BY <1>0, <2>1 DEF PipeShape
    <2>3. op'.call = "put"
      BY <1>0, <2>1, InsideCalls
    <2>4. op'.pc = "enforce"
      <3>1. op' = [op EXCEPT !.pc = "enforce"] /\ op \in Call
        BY <1>0, <1>1 DEF Lands, RenamePut, Goto, SpoolInv, TypeOK
      <3> QED BY <3>1 DEF Call
    <2>5. Landed'
      BY <2>3, <2>4 DEF Landed
    <2> QED BY <1>1, <1>a, <2>1, <2>2, <2>5 DEF ArrivalOrder, AllBefore
  <1>2. ASSUME Known' = Known, ~Lands PROVE ArrivalOrder'
    <2>1. CASE InsideSpool
      <3>1. ~RenamePut
        BY <1>2, <2>1, Zenon DEF Lands, InsideSpool
      <3>2. UNCHANGED <<inCh, ev, docs, made>> /\ (Landed' <=> Landed)
        BY <1>0, <2>1, <3>1, InsideCalls DEF Landed, shipperVars, channelVars
      <3> QED BY <1>2, <3>2, ArrivalSame
    <2>2. CASE Log
      <3>1. /\ UNCHANGED <<ev, docs, op>> /\ made' = made + 1 /\ made < MaxRecords
            /\ inCh' = inCh \/ inCh' = Append(inCh, made + 1)
        BY <2>2 DEF Log, memory
      <3>2. Landed' <=> Landed
        BY <3>1 DEF Landed
      <3>3. CASE inCh' = inCh
        BY <1>2, <3>1, <3>2, <3>3, ArrivalSame
      <3>4. CASE inCh' = Append(inCh, made + 1)
        <4>1. made + 1 \in Records /\ AllBefore(1..made, {made + 1})
          BY <1>m, <3>1, SpoolAssumption DEF Records, AllBefore
        <4>2. AllBefore(Range(inCh), {made + 1})
          BY <1>u, <4>1 DEF AllBefore
        <4>3. Ascends(inCh') /\ Range(inCh') = Range(inCh) \cup {made + 1}
          BY <1>m, <1>q, <1>a, <3>4, <4>1, <4>2, AppendAscends
        <4>4. \A X : X \subseteq 1..made /\ AllBefore(X, Range(inCh)) => AllBefore(X, Range(inCh'))
          BY <4>1, <4>3 DEF AllBefore
        <4> QED BY <1>2, <1>m, <1>u, <1>a, <3>1, <3>2, <4>3, <4>4 DEF ArrivalOrder
      <3> QED BY <3>1, <3>3, <3>4
    <2>3. CASE Receive
      <3>1. /\ inCh # <<>> /\ inCh' = Tail(inCh) /\ batcher = "loop" /\ ev = 0
            /\ \/ ev' = Head(inCh) /\ docs' = docs
               \/ ev' = ev /\ docs' = Append(docs, Head(inCh))
        BY <1>0, <2>3, ReceivePipe
      <3>2. op' = op
        BY <1>0, <2>3, ReceivePipe DEF spoolVars, memory
      <3>3. op.call # "put"
        BY <1>0, <3>1 DEF PipeShape
      <3>4. ~Landed /\ ~Landed'
        BY <3>2, <3>3 DEF Landed
      <3>5. PICK h : h = Head(inCh)
        OBVIOUS
      <3>6. /\ Ascends(inCh') /\ Range(inCh') \subseteq Range(inCh)
            /\ h \in Range(inCh) /\ AllBefore({h}, Range(inCh'))
        BY <1>m, <1>q, <1>a, <3>1, <3>5, TailAscends
      <3>7. h \in Records /\ h # 0
        <4>1. h \in 1..made
          BY <1>u, <3>6
        <4>2. made <= MaxRecords /\ MaxRecords \in Nat
          BY <1>0, SpoolAssumption DEF PipeShape
        <4> QED BY <1>m, <4>1, <4>2 DEF Records
      <3>8. AllBefore(Known, Range(docs)) /\ AllBefore(Known, {h}) /\ AllBefore(Range(docs), {h})
        BY <1>a, <3>4, <3>6 DEF AllBefore
      <3>9. AllBefore(Known, Range(inCh')) /\ AllBefore(Range(docs), Range(inCh'))
        BY <1>a, <3>6 DEF AllBefore
      <3>10. CASE ev' = h /\ docs' = docs
        <4>1. {ev'} \ {0} = {h}
          BY <3>7, <3>10
        <4> QED BY <1>2, <1>a, <3>6, <3>8, <3>9, <3>10, <4>1 DEF ArrivalOrder
      <3>11. CASE ev' = ev /\ docs' = Append(docs, h)
        <4>1. Ascends(docs') /\ Range(docs') = Range(docs) \cup {h}
          BY <1>m, <1>q, <1>a, <3>7, <3>8, <3>11, AppendAscends
        <4>2. {ev'} \ {0} = {}
          BY <3>1, <3>11
        <4>3. AllBefore(Range(docs'), Range(inCh')) /\ AllBefore(Known, Range(docs'))
          BY <3>6, <3>8, <3>9, <4>1 DEF AllBefore
        <4> QED BY <1>2, <1>a, <3>6, <3>9, <4>1, <4>2, <4>3 DEF ArrivalOrder, AllBefore
      <3> QED BY <3>1, <3>5, <3>10, <3>11
    <2>4. CASE Returns
      <3>1. inCh' = inCh /\ ev' = 0 /\ Range(docs') = {ev} \ {0}
        BY <1>0, <2>4, ReturnsPipe
      <3>2. docs' = <<>> \/ docs' = <<ev>>
        BY <2>4, Zenon DEF Returns, StoreOk, StoreFallback, StoreNoSpool, Stored
      <3>3. Ascends(docs')
        BY <3>2, ShortAscends
      <3>4. {ev'} \ {0} = {}
        BY <3>1
      <3> QED BY <1>2, <1>a, <3>1, <3>3, <3>4 DEF ArrivalOrder, AllBefore
    <2>5. CASE Exit \/ Dies
      <3>1. inCh' = <<>> /\ ev' = 0 /\ docs' = <<>>
        BY <2>5, EndsPipe
      <3>2. Range(inCh') = {} /\ Range(docs') = {} /\ Ascends(inCh') /\ Ascends(docs') /\ {ev'} \ {0} = {}
        BY <3>1, ShortAscends
      <3> QED BY <3>2 DEF ArrivalOrder, AllBefore
    <2>6. CASE /\ ~InsideSpool /\ ~Returns /\ ~Exit /\ ~Dies /\ ~Log /\ ~Receive
      <3>1. UNCHANGED <<inCh, ev, docs, made>>
        BY <2>6, ChannelSteps, Zenon
      <3>2. Landed' <=> Landed
        <4>1. \/ op' = op
              \/ op.call = "none" /\ (op'.call # "put" \/ op'.pc = "expire")
              \/ (SpoolHas \/ SpoolEmpty \/ SplitOk \/ SplitError) /\ op' = Idle
          BY <1>0, <2>6, CallSteps DEF Returns
        <4>2. SpoolHas \/ SpoolEmpty \/ SplitOk \/ SplitError => op.call # "put"
          <5>1. SplitOk => op.pc = "swap"
            BY Zenon DEF SplitOk, SplitDone
          <5>2. op.pc = "swap" => op.call = "split"
            BY <1>0 DEF SpoolInv, CallShape
          <5> QED BY <5>1, <5>2 DEF SpoolHas, SpoolEmpty, SplitError, OldestFound, OldestEmpty, SplitFailed
        <4> QED BY <4>1, <4>2, IdleCall DEF Landed
      <3> QED BY <1>2, <3>1, <3>2, ArrivalSame
    <2> QED BY <2>1, <2>2, <2>3, <2>4, <2>5, <2>6
  <1>3. ASSUME Known' = Known, Lands PROVE ArrivalOrder'
    <2>1. Known' = Known \cup Range(op.docs)
      BY <1>0, <1>3, RenamePutInv DEF Lands
    <2> QED BY <1>1, <1>3, <2>1
  <1> QED BY <1>1, <1>2, <1>3, <1>k

\* Names tell the order of records in the shipper's spool too: what its Put brings is
\* younger than all that was stored (shipper.go:215-262).
LEMMA ShipperTells ==
    ASSUME ShipperInv, NamesTell, BodiesAscend, ArrivalOrder, [Next]_vars,
           ~StepBack, "nospool" \notin Faults
    PROVE  NamesTell' /\ BodiesAscend'
  <1>0. SpoolInv
    BY DEF ShipperInv
  <1>1. CASE [SpoolNext]_spoolVars
    BY <1>0, <1>1, TellsSteps, AscendSteps
  <1>2. ASSUME UNCHANGED <<body, clock>>,
               PutPending' => Ascends(op'.docs) /\ \A nm \in DOMAIN body : AllBefore(DocsOf(nm), Range(op'.docs))
        PROVE  NamesTell' /\ BodiesAscend'
    <2>1. \A nm : DocsOf(nm)' = DocsOf(nm)
      BY <1>2 DEF DocsOf
    <2>2. NamesTell'
      BY <1>2, <2>1 DEF NamesTell
    <2>3. BodiesAscend'
      BY <1>2, <2>1 DEF BodiesAscend
    <2> QED BY <2>2, <2>3
  <1>3. CASE ProcessEnds
    <2>1. UNCHANGED <<body, clock>> /\ op' = Idle
      BY <1>3 DEF ProcessEnds, directory
    <2> QED BY <1>2, <2>1, IdleCall DEF PutPending
  <1>4. CASE Log \/ UNCHANGED <<up, clock, files, total, seq, op, directory, history>>
    <2>1. UNCHANGED <<body, clock, op>>
      BY <1>4 DEF Log, directory, memory
    <2> QED BY <1>2, <2>1 DEF PutPending, BodiesAscend
  <1>5. CASE StorePut
    <2>1. UNCHANGED <<body, clock>> /\ op.pc = "idle" /\ op' = Begin("put", "expire", NoName, docs)
      BY <1>5 DEF StorePut, PutCall, directory
    <2>2. op'.docs = docs
      BY <2>1 DEF Begin
    <2>3. Ascends(docs) /\ AllBefore(Known, Range(docs))
      BY <2>1 DEF ArrivalOrder, Landed
    <2>4. \A nm \in DOMAIN body : DocsOf(nm) \subseteq Known
      BY <1>0 DEF SpoolInv, RecordsKnown
    <2> QED BY <1>2, <2>1, <2>2, <2>3, <2>4 DEF AllBefore
  <1> QED BY <1>1, <1>3, <1>4, <1>5, SpoolParts

\* An entry less leaves the order.
LEMMA CutListOrder ==
    ASSUME files \in Index, ListOrder, NEW p \in DOMAIN files, files' = Without(files, p), body' = body
    PROVE  ListOrder'
  <1> DEFINE E == [name : Name, n : Nat]
  <1>0. files \in Seq(E)
    BY DEF Index
  <1> HIDE DEF E
  <1> DEFINE w == Without(files, p)
             N == 1..(Len(files) - 1)
  <1>c. /\ DOMAIN w = N
        /\ \A k \in N : Old(p, k) \in DOMAIN files /\ Old(p, k) # p /\ w[k] = files[Old(p, k)]
        /\ \A m \in DOMAIN files : m # p => \E k \in N : Old(p, k) = m
        /\ \A i, j \in N : i < j <=> Old(p, i) < Old(p, j)
    BY <1>0, CutPositions
  <1> HIDE DEF w
  <1>1. /\ DOMAIN files' = 1..(Len(files) - 1)
        /\ \A k \in 1..(Len(files) - 1) : Old(p, k) \in DOMAIN files /\ files'[k] = files[Old(p, k)]
        /\ \A i, j \in 1..(Len(files) - 1) : i < j <=> Old(p, i) < Old(p, j)
    BY <1>c, Zenon DEF w
  <1>2. \A nm : DocsOf(nm)' = DocsOf(nm)
    BY DEF DocsOf
  <1> SUFFICES ASSUME NEW i \in DOMAIN files', NEW j \in DOMAIN files', i < j
               PROVE  AllBefore(DocsOf(files'[i].name), DocsOf(files'[j].name))
    BY <1>2 DEF ListOrder
  <1>3. /\ Old(p, i) \in DOMAIN files /\ Old(p, j) \in DOMAIN files /\ Old(p, i) < Old(p, j)
        /\ files'[i] = files[Old(p, i)] /\ files'[j] = files[Old(p, j)]
    BY <1>1
  <1> QED BY <1>3 DEF ListOrder

\* The new batch is younger than all that are listed.
LEMMA PutListOrder ==
    ASSUME SpoolInv, BodiesAscend, ListOrder, RenamePut
    PROVE  ListOrder'
  <1>1. /\ PutPending /\ body'[op.name] = op.docs /\ \A nm \in DOMAIN body : body'[nm] = body[nm]
        /\ files' = Append(files, [name |-> op.name, n |-> Len(op.docs)])
    BY PutLands
  <1>2. files \in Seq([name : Name, n : Nat]) /\ \A i \in DOMAIN files : files[i].name \in DOMAIN body
    BY DEF SpoolInv, TypeOK, IndexWritten
  <1>3. /\ Len(files) \in Nat /\ DOMAIN files = 1..Len(files) /\ DOMAIN files' = 1..(Len(files) + 1)
        /\ files'[Len(files) + 1].name = op.name /\ \A i \in DOMAIN files : files'[i] = files[i]
    BY <1>1, <1>2
  <1>4. \A nm \in DOMAIN body : Range(body'[nm]) = DocsOf(nm) /\ AllBefore(DocsOf(nm), Range(op.docs))
    BY <1>1 DEF BodiesAscend, DocsOf
  <1> SUFFICES ASSUME NEW i \in DOMAIN files', NEW j \in DOMAIN files', i < j
               PROVE  AllBefore(Range(body'[files'[i].name]), Range(body'[files'[j].name]))
    BY DEF ListOrder, DocsOf
  <1>5. i \in DOMAIN files /\ files'[i] = files[i] /\ files[i].name \in DOMAIN body
    BY <1>2, <1>3
  <1>6. CASE j \in DOMAIN files
    BY <1>2, <1>3, <1>4, <1>5, <1>6 DEF ListOrder
  <1>7. CASE j = Len(files) + 1
    BY <1>1, <1>3, <1>4, <1>5, <1>7
  <1> QED BY <1>3, <1>6, <1>7

\* The halves take the place of the batch they were, the older first.
LEMMA SplitListOrder ==
    ASSUME SpoolInv, BodiesAscend, ListOrder, "unlink" \notin Faults, SplitDone
    PROVE  ListOrder'
  <1> DEFINE a == HalfName(op.name, 0)
             b == HalfName(op.name, 1)
  <1>1. /\ files \in Index /\ op.call = "split" /\ op.name = hand.name /\ hand.name # NoName
        /\ op.name \in DOMAIN body /\ op.name \in Name /\ a \in disk /\ b \in disk /\ body' = body
    BY SplitDoneFacts
  <1>2. PICK p \in DOMAIN files, m \in Nat, n \in Nat :
               /\ files[p].name = op.name
               /\ files' = Splice(files, p, [name |-> a, n |-> m], [name |-> b, n |-> n])
    BY SplitDoneFacts
  <1>3. a \in DOMAIN body /\ b \in DOMAIN body /\ op.docs = body[op.name]
    BY <1>1 DEF SpoolInv, TypeOK, HandBacked, SplitProgress
  <1>4. op.docs \in Seq(Records) /\ body[a] = Half(op.docs, 0) /\ body[b] = Half(op.docs, 1)
    BY <1>1, <1>3, PartsWritten
  <1>5. DocsOf(a) \subseteq DocsOf(op.name) /\ DocsOf(b) \subseteq DocsOf(op.name) /\ AllBefore(DocsOf(a), DocsOf(b))
    <2>1. Records \in SUBSET Nat
      BY SpoolAssumption DEF Records
    <2>2. Ascends(op.docs)
      BY <1>1, <1>3 DEF BodiesAscend
    <2> QED BY <1>3, <1>4, <2>1, <2>2, HalfDocs, HalvesAscend DEF DocsOf
  <1>6. a \in Name /\ b \in Name
    BY <1>1, HalfNames
  <1> HIDE DEF a, b
  <1> DEFINE x == [name |-> a, n |-> m]
             y == [name |-> b, n |-> n]
             E == [name : Name, n : Nat]
  <1>7. x \in E /\ y \in E /\ files \in Seq(E) /\ files' = Splice(files, p, x, y)
    BY <1>1, <1>2, <1>6 DEF Index
  <1>8. x.name = a /\ y.name = b
    OBVIOUS
  <1> HIDE DEF x, y, E
  <1>9. /\ DOMAIN files' = 1..(Len(files) + 1) /\ files'[p] = x /\ files'[p + 1] = y
        /\ \A k \in 1..(Len(files) + 1) : k # p /\ k # p + 1 =>
              Was(p, k) \in DOMAIN files /\ files'[k] = files[Was(p, k)]
    BY <1>7, SplicePositions
  <1>10. Len(files) \in Nat /\ DOMAIN files = 1..Len(files) /\ p \in 1..Len(files)
    BY <1>7
  <1>11. \A nm : DocsOf(nm)' = DocsOf(nm)
    BY <1>1 DEF DocsOf
  <1> SUFFICES ASSUME NEW i \in DOMAIN files', NEW j \in DOMAIN files', i < j
               PROVE  AllBefore(DocsOf(files'[i].name), DocsOf(files'[j].name))
    BY <1>11 DEF ListOrder
  <1>12. i \in 1..(Len(files) + 1) /\ j \in 1..(Len(files) + 1)
    BY <1>9
  <1>13. CASE i # p /\ i # p + 1 /\ j # p /\ j # p + 1
    <2>1. Was(p, i) < Was(p, j)
      BY <1>10, <1>12, <1>13, SplicePlaces
    <2> QED BY <1>9, <1>12, <1>13, <2>1 DEF ListOrder
  <1>14. CASE i # p /\ i # p + 1 /\ j \in {p, p + 1}
    <2>1. Was(p, i) < p
      BY <1>10, <1>12, <1>14, SplicePlaces
    <2>2. AllBefore(DocsOf(files'[i].name), DocsOf(op.name))
      BY <1>2, <1>9, <1>12, <1>14, <2>1 DEF ListOrder
    <2>3. DocsOf(files'[j].name) \subseteq DocsOf(op.name)
      BY <1>5, <1>8, <1>9, <1>14
    <2> QED BY <2>2, <2>3 DEF AllBefore
  <1>15. CASE i \in {p, p + 1} /\ j # p /\ j # p + 1
    <2>1. p < Was(p, j)
      BY <1>10, <1>12, <1>15, SplicePlaces
    <2>2. AllBefore(DocsOf(op.name), DocsOf(files'[j].name))
      BY <1>2, <1>9, <1>12, <1>15, <2>1 DEF ListOrder
    <2>3. DocsOf(files'[i].name) \subseteq DocsOf(op.name)
      BY <1>5, <1>8, <1>9, <1>15
    <2> QED BY <2>2, <2>3 DEF AllBefore
  <1>16. CASE i \in {p, p + 1} /\ j \in {p, p + 1}
    <2>1. i = p /\ j = p + 1
      BY <1>10, <1>12, <1>16, SplicePlaces
    <2> QED BY <1>5, <1>8, <1>9, <2>1
  <1> QED BY <1>13, <1>14, <1>15, <1>16

\* OpenSpool sorts by name, and no split was left half done.
LEMMA OpenListOrder ==
    ASSUME SpoolInv, NamesTell, FilesApart, OpenSpool
    PROVE  ListOrder'
  <1>1. /\ op = Idle /\ body' = body /\ {files'[i].name : i \in DOMAIN files'} = disk
        /\ \A i, j \in DOMAIN files' : i < j => NameLess(files'[i].name, files'[j].name)
    BY OpenFacts
  <1>2. disk \subseteq DOMAIN body /\ DOMAIN body \subseteq Name
    BY DEF SpoolInv, TypeOK
  <1>3. \A nm : DocsOf(nm)' = DocsOf(nm)
    BY <1>1 DEF DocsOf
  <1> SUFFICES ASSUME NEW i \in DOMAIN files', NEW j \in DOMAIN files', i < j
               PROVE  AllBefore(DocsOf(files'[i].name), DocsOf(files'[j].name))
    BY <1>3 DEF ListOrder
  <1> DEFINE a == files'[i].name
             b == files'[j].name
  <1>4. a \in disk /\ b \in disk /\ NameLess(a, b)
    BY <1>1
  <1> HIDE DEF a, b
  <1>5. a # b
    BY <1>2, <1>4, NameOrder
  <1>6. CASE ~Contains(a, b)
    BY <1>2, <1>4, <1>6 DEF NamesTell, a, b
  <1>7. CASE Contains(a, b)
    <2>1. DocsOf(b) \subseteq DocsOf(a)
      BY <1>2, <1>4, <1>7 DEF NamesTell
    <2>2. \A nm : ~PartWritten(nm)
      BY <1>1, IdleCall DEF PartWritten
    <2>3. DocsOf(a) \cap DocsOf(b) = {}
      BY <1>4, <1>5, <2>2 DEF FilesApart
    <2>4. DocsOf(b) = {}
      BY <2>1, <2>3
    <2> QED BY <2>4 DEF AllBefore, b
  <1> QED BY <1>6, <1>7

\* Every step leaves the index in order.
LEMMA ListSteps ==
    ASSUME SpoolInv, NamesTell, BodiesAscend, ListOrder, FilesApart, [Next]_vars,
           "nospool" \notin Faults, "unlink" \notin Faults
    PROVE  ListOrder'
  <1>1. ASSUME UNCHANGED <<files, body>> PROVE ListOrder'
    BY <1>1 DEF ListOrder, DocsOf
  <1>2. CASE ProcessEnds
    BY <1>2 DEF ProcessEnds, ListOrder
  <1>3. CASE Log \/ StorePut \/ UNCHANGED <<up, clock, files, total, seq, op, directory, history>>
    <2>1. UNCHANGED <<files, body>>
      BY <1>3 DEF Log, StorePut, directory, memory
    <2> QED BY <1>1, <2>1
  <1>4. CASE [SpoolNext]_spoolVars
    <2>1. CASE Still
      BY <1>1, <2>1, StillFacts
    <2>2. CASE OldestFound
      BY <1>1, <2>2 DEF OldestFound, directory
    <2>3. CASE Expire \/ MakeRoom \/ Enforce \/ SkipCorrupt
      BY <2>3, DropFacts, CutListOrder
    <2>4. CASE Remove
      <3>1. /\ files \in Index /\ body' = body
            /\ files' = files \/ \E p \in DOMAIN files : files' = Without(files, p)
        BY <2>4, RemoveFacts
      <3> QED BY <1>1, <3>1, CutListOrder
    <2>5. CASE RenamePut
      BY <2>5, PutListOrder
    <2>6. CASE RenameHalf
      <3>1. files' = files /\ \A nm \in DOMAIN body : body'[nm] = body[nm]
        BY <2>6, HalfLands
      <3>2. \A i \in DOMAIN files : files[i].name \in DOMAIN body
        BY DEF SpoolInv, IndexWritten
      <3>3. \A i \in DOMAIN files : DocsOf(files[i].name)' = DocsOf(files[i].name)
        BY <3>1, <3>2 DEF DocsOf
      <3> QED BY <3>1, <3>3 DEF ListOrder
    <2>7. CASE SplitFailed
      BY <1>1, <2>7, SplitFailedFacts
    <2>8. CASE SplitDone
      BY <2>8, SplitListOrder
    <2>9. CASE OpenSpool
      BY <2>9, OpenListOrder
    <2> QED BY <1>2, <1>4, <2>1, <2>2, <2>3, <2>4, <2>5, <2>6, <2>7, <2>8, <2>9, SpoolStepKinds, Zenon
  <1> QED BY <1>2, <1>3, <1>4, SpoolParts

\* The batch in hand is kept, put away, or taken from a queue.
LEMMA HandMoves ==
    ASSUME [Next]_vars
    PROVE  hand' = hand \/ hand' = NoBatch \/ SpoolHas \/ MemHas
  <1>1. CASE Apart
    BY <1>1, ApartSteps DEF spoolVars, memory
  <1>2. CASE Log \/ StorePut \/ StoreOk \/ StoreFallback \/ SpoolEmpty \/ SplitMem \/ SplitOk \/ SplitError
    BY <1>2, Zenon DEF Log, StorePut, StoreOk, StoreFallback, SpoolEmpty, SplitMem, SplitOk, SplitError,
       PutDone, PutLowDisk, PutFailed, OldestEmpty, SplitDone, SplitFailed, memory
  <1>3. CASE AskSpool \/ Apply \/ SplitSpool
    BY <1>3, Zenon DEF AskSpool, Apply, SplitSpool, Oldest, Remove, Split, SplitVanished
  <1>4. CASE InsideSpool
    BY <1>4, Zenon DEF InsideSpool, Expire, SampleRoom, MakeRoom, NameBatch, WriteTemp, RenamePut, Enforce,
       SkipCorrupt, RenameHalf
  <1>5. CASE Surroundings \/ Exit \/ Dies \/ Start \/ StartNoSpool
    BY <1>5, Zenon DEF Surroundings, Exit, Dies, Crash, Start, StartNoSpool, Tick, Damage, OpenSpool, ProcessEnds,
       memory
  <1> QED BY <1>1, <1>2, <1>3, <1>4, <1>5, StepKinds, Zenon

\* A batch file is new by a Put, whose records were the batcher's, or by a split, whose
\* records are those of the batch in hand.
LEMMA HeldFlow ==
    ASSUME ShipperInv, [Next]_vars, Orderly
    PROVE  Held' \subseteq Held \cup Upstream \cup Range(hand.docs)
  <1>0. SpoolInv /\ PipeShape
    BY DEF ShipperInv
  <1>t. disk \subseteq DOMAIN body
    BY <1>0 DEF SpoolInv, TypeOK
  <1> SUFFICES ASSUME NEW nm \in disk', NEW r \in Range(body'[nm]) PROVE r \in Held \cup Upstream \cup Range(hand.docs)
    BY DEF Held, DocsOf
  <1>1. CASE body' = body /\ disk' \subseteq disk
    BY <1>1 DEF Held, DocsOf
  <1>2. CASE RenamePut
    <2>1. /\ op.call = "put" /\ disk' = disk \cup {op.name} /\ body'[op.name] = op.docs
          /\ \A x \in DOMAIN body : body'[x] = body[x]
      BY <1>0, <1>2, PutRenames
    <2>2. op.docs = docs
      BY <1>0, <2>1 DEF PipeShape
    <2>3. CASE nm = op.name
      BY <2>1, <2>2, <2>3 DEF Upstream
    <2>4. CASE nm \in disk
      BY <1>t, <2>1, <2>4 DEF Held, DocsOf
    <2> QED BY <2>1, <2>3, <2>4
  <1>3. CASE RenameHalf
    <2> DEFINE h == HalfName(op.name, op.half)
    <2>1. /\ op.name = hand.name /\ hand.name # NoName /\ op.half \in {0, 1} /\ op.name \in DOMAIN body
          /\ disk' = disk \cup {h} /\ body'[h] = Half(body[op.name], op.half)
          /\ \A x \in DOMAIN body : body'[x] = body[x]
      BY <1>0, <1>3, HalfLands
    <2> HIDE DEF h
    <2>2. hand.docs = body[op.name] /\ body[op.name] \in Seq(Records)
      BY <1>0, <2>1 DEF SpoolInv, HandBacked, TypeOK
    <2>3. Range(body'[h]) \subseteq Range(hand.docs)
      BY <2>1, <2>2, HalfDocs
    <2>4. CASE nm = h
      BY <2>3, <2>4
    <2>5. CASE nm \in disk
      BY <1>t, <2>1, <2>5 DEF Held, DocsOf
    <2> QED BY <2>1, <2>4, <2>5
  <1> QED BY <1>0, <1>1, <1>2, <1>3, DiskSteps

\* Nothing can be posted that could not be before, but for a record that was just logged.
LEMMA UnpostedFlow ==
    ASSUME ShipperInv, SpoolTakesAll, [Next]_vars, Orderly
    PROVE  Unposted' \subseteq Unposted \cup {made + 1}
  <1>1. Held' \subseteq Unposted /\ Upstream' \subseteq Unposted \cup {made + 1}
    BY HeldFlow, UpstreamFlow DEF Unposted
  <1>2. Range(hand'.docs) \subseteq Unposted
    <2>1. CASE hand' = hand
      BY <2>1 DEF Unposted
    <2>2. CASE hand' = NoBatch
      BY <2>2, ShortAscends DEF NoBatch
    <2>3. CASE SpoolHas
      <3>1. files[1].name \in disk /\ hand'.docs = body[files[1].name]
        BY <2>3 DEF SpoolHas, OldestFound, Readable
      <3> QED BY <3>1 DEF Unposted, Held, DocsOf
    <2>4. ~MemHas
      BY DEF MemHas, SpoolTakesAll
    <2> QED BY <2>1, <2>2, <2>3, <2>4, HandMoves
  <1> QED BY <1>1, <1>2 DEF Unposted

\* The batch that the sender takes is the oldest, and stays it while it is in hand.
LEMMA HandFirstSteps ==
    ASSUME ShipperInv, ListedInv, ApartInv, SpoolTakesAll, ArrivalOrder, ListOrder, HandFirst,
           [Next]_vars, Orderly
    PROVE  HandFirst'
  <1>0. SpoolInv
    BY DEF ShipperInv
  <1>1. CASE SpoolHas
    <2>1. /\ up /\ op.call = "oldest" /\ files # <<>> /\ files[1].name \in disk
          /\ hand' = [name |-> files[1].name, docs |-> body[files[1].name]]
          /\ UNCHANGED <<disk, body, inCh, ev, docs>>
      BY <1>1 DEF SpoolHas, OldestFound, Readable, directory, channelVars
    <2>2. Range(hand'.docs) = DocsOf(files[1].name) /\ Held' = Held /\ Upstream' = Upstream
      BY <2>1 DEF DocsOf, Held, Upstream
    <2>3. 1 \in DOMAIN files /\ \A j \in DOMAIN files : j = 1 \/ 1 < j
      BY <1>0, <2>1 DEF SpoolInv, TypeOK
    <2>4. AllBefore(DocsOf(files[1].name), Held \ DocsOf(files[1].name))
      <3> SUFFICES ASSUME NEW nm \in disk, NEW q \in DocsOf(nm), q \notin DocsOf(files[1].name)
                   PROVE  AllBefore(DocsOf(files[1].name), {q})
        BY DEF AllBefore, Held
      <3>1. nm \in Listed
        BY <2>1 DEF ListedInv, DiskListed
      <3>2. PICK j \in DOMAIN files : files[j].name = nm
        BY <3>1 DEF Listed
      <3>3. 1 < j
        BY <2>3, <3>2
      <3> QED BY <2>3, <3>2, <3>3 DEF ListOrder, AllBefore
    <2>5. AllBefore(DocsOf(files[1].name), Upstream)
      <3>1. DocsOf(files[1].name) \subseteq Known /\ ~Landed
        BY <2>1 DEF Known, Held, Landed
      <3>2. AllBefore(Known, Range(docs)) /\ AllBefore(Known, {ev} \ {0}) /\ AllBefore(Known, Range(inCh))
        BY <3>1 DEF ArrivalOrder
      <3> QED BY <3>1, <3>2 DEF Upstream, AllBefore
    <2> QED BY <2>2, <2>4, <2>5 DEF HandFirst, AllBefore
  <1>2. CASE InHand /\ hand' = hand
    <2>1. Held' \cup Upstream' \subseteq Held \cup Upstream \cup Range(hand.docs) \cup {made + 1} /\ made \in Nat
      BY HeldFlow, UpstreamFlow
    <2>2. Range(hand.docs) \subseteq 1..made
      BY <1>2 DEF ApartInv, HandApart
    <2>3. AllBefore(Range(hand.docs), {made + 1})
      BY <2>1, <2>2 DEF AllBefore
    <2> QED BY <1>2, <2>1, <2>3 DEF HandFirst, AllBefore
  <1>3. ~MemHas
    BY DEF MemHas, SpoolTakesAll
  <1>4. CASE ~InHand'
    BY <1>4 DEF HandFirst
  <1> QED BY <1>1, <1>2, <1>3, <1>4, HandSteps, Zenon DEF Orderly

\* What Loom takes is younger than all it took, and older than all that is left; when
\* its answer is lost, the same batch is posted again.
LEMMA DeliveredFirstSteps ==
    ASSUME ShipperInv, ApartInv, SpoolTakesAll, HandFirst, DeliveredFirst, [Next]_vars, Orderly
    PROVE  /\ DeliveredFirst'
           /\ AllBefore(delivered, delivered' \ delivered)
  <1>0. /\ Unposted' \subseteq Unposted \cup {made + 1} /\ made \in Nat /\ made' \in Nat /\ made <= made'
        /\ delivered \subseteq 1..made /\ 1..made \subseteq 1..made'
    BY UnpostedFlow, UpstreamFlow DEF DeliveredFirst
  <1>1. CASE delivered' = delivered
    <2>1. AllBefore(delivered, {made + 1})
      BY <1>0 DEF AllBefore
    <2> QED BY <1>0, <1>1, <2>1 DEF DeliveredFirst, AllBefore
  <1>2. CASE PostAccepted \/ PostReplyLost
    <2>1. /\ delivered' = delivered \cup Range(hand.docs) /\ InHand
          /\ UNCHANGED <<disk, body, hand, inCh, ev, docs>>
      BY <1>2 DEF PostAccepted, PostReplyLost, LoomTakes, InHand, spoolVars, memory, directory, channelVars
    <2>2. Unposted' = Unposted
      BY <2>1 DEF Unposted, Held, DocsOf, Upstream
    <2>3. AllBefore(Range(hand.docs), Unposted \ Range(hand.docs))
      BY <2>1 DEF HandFirst, Unposted, AllBefore
    <2>4. AllBefore(delivered, Range(hand.docs) \ delivered)
      BY DEF DeliveredFirst, Unposted, AllBefore
    <2>5. Range(hand.docs) \subseteq 1..made
      BY <2>1 DEF ApartInv, HandApart
    <2> QED BY <1>0, <2>1, <2>2, <2>3, <2>4, <2>5 DEF DeliveredFirst, AllBefore
  <1>3. delivered' = delivered \/ PostAccepted \/ PostReplyLost
    <2>1. Apply => delivered' = delivered
      BY DEF Apply
    <2> QED BY <2>1, SettleSteps
  <1> QED BY <1>1, <1>2, <1>3

\* Loom receives the records in the order they were logged (spool.go:18-20): while
\* processes end through Shutdown, the clock is not set back, writes and unlinks work,
\* the disk has room for one batch and the spool opens, for every size of batch and
\* channel, through splits, retries, lost answers, refusals, damaged files, drops and
\* restarts.
THEOREM DeliveryKeepsOrder ==
    ASSUME ~StepBack, Faults \subseteq {"damage"}, \A r \in Rooms : r >= Size(BatchSize)
    PROVE  Spec => DeliveredInOrder
  <1>0. /\ Orderly /\ "write" \notin Faults /\ "nospool" \notin Faults /\ "unlink" \notin Faults
    BY DEF Orderly
  <1>1. Spec => [](ShipperInv /\ ListedInv /\ ApartInv)
    BY <1>0, ApartInvariant
  <1>2. Spec => [](ShipperInv /\ GiveUpInv)
    BY <1>0, GiveUpInvariant
  <1>3. Init => InOrderInv
    <2> SUFFICES ASSUME Init PROVE InOrderInv
      OBVIOUS
    <2>1. /\ inCh = <<>> /\ ev = 0 /\ docs = <<>> /\ sender = "select" /\ files = <<>> /\ op = Idle
          /\ body = [nm \in {} |-> <<>>] /\ delivered = {}
      BY DEF Init, FreshShipper, SpoolInit
    <2>2. DOMAIN body = {} /\ ~PutPending /\ Range(docs) = {} /\ Range(inCh) = {} /\ {ev} \ {0} = {}
      BY <2>1, IdleCall, ShortAscends DEF PutPending
    <2>3. NamesTell /\ BodiesAscend
      BY <2>2 DEF NamesTell, BodiesAscend
    <2>4. ArrivalOrder
      BY <2>1, <2>2, ShortAscends DEF ArrivalOrder, AllBefore
    <2>5. ListOrder /\ HandFirst /\ DeliveredFirst
      BY <2>1 DEF ListOrder, HandFirst, InHand, DeliveredFirst, AllBefore
    <2> QED BY <2>3, <2>4, <2>5 DEF InOrderInv
  <1>4. /\ ShipperInv /\ ListedInv /\ ApartInv /\ GiveUpInv /\ InOrderInv /\ [Next]_vars
        => InOrderInv' /\ AllBefore(delivered, delivered' \ delivered)
    <2> SUFFICES ASSUME ShipperInv, ListedInv, ApartInv, GiveUpInv, InOrderInv, [Next]_vars
                 PROVE  InOrderInv' /\ AllBefore(delivered, delivered' \ delivered)
      OBVIOUS
    <2>1. /\ NamesTell /\ BodiesAscend /\ ArrivalOrder /\ ListOrder /\ HandFirst /\ DeliveredFirst
          /\ SpoolTakesAll /\ FilesApart /\ SpoolInv
      BY DEF InOrderInv, GiveUpInv, ApartInv, ShipperInv
    <2>2. NamesTell' /\ BodiesAscend'
      BY <1>0, <2>1, ShipperTells
    <2>3. ArrivalOrder'
      BY <2>1, ArrivalSteps
    <2>4. ListOrder'
      BY <1>0, <2>1, ListSteps
    <2>5. HandFirst'
      BY <1>0, <2>1, HandFirstSteps
    <2>6. DeliveredFirst' /\ AllBefore(delivered, delivered' \ delivered)
      BY <1>0, <2>1, DeliveredFirstSteps
    <2> QED BY <2>2, <2>3, <2>4, <2>5, <2>6 DEF InOrderInv
  <1>5. AllBefore(delivered, delivered' \ delivered)
        => [\A r \in delivered' \ delivered, q \in delivered : q < r]_vars
    BY DEF AllBefore
  <1> QED BY <1>1, <1>2, <1>3, <1>4, <1>5, PTL DEF Spec, DeliveredInOrder
=============================================================================
