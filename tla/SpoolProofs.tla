---------------------------- MODULE SpoolProofs ----------------------------
(***************************************************************************)
(* Proofs about Spool: its type invariant and that it implements           *)
(* DurableQueue, for every size of batch and spool, every clock and every  *)
(* combination of faults, and so that its running total is the size of its *)
(* index; that the index lists every file, what Put's answer says, the     *)
(* arrival order, and that the caps give up the oldest first, when unlinks *)
(* work and, for the order, the clock is not set back.                     *)
(***************************************************************************)
EXTENDS Spool, FoldProofs, TLAPS

----------------------------------------------------------------------------
(* Bodies and names. *)

\* The two parts of a batch together hold its records (spool.go:288-291).
LEMMA HalfDocs ==
    ASSUME NEW S, NEW docs \in Seq(S), NEW h \in {0, 1}
    PROVE  /\ Half(docs, h) \in Seq(S)
           /\ Range(Half(docs, h)) \subseteq Range(docs)
<1> DEFINE mid == Len(docs) \div 2
<1>1. mid \in Nat /\ mid <= Len(docs)
  OBVIOUS
<1>2. CASE h = 0
  <2>1. Half(docs, h) = SubSeq(docs, 1, mid)
    BY <1>2 DEF Half
  <2> QED
    BY <1>1, <2>1 DEF Range
<1>3. CASE h = 1
  <2>1. Half(docs, h) = SubSeq(docs, mid + 1, Len(docs))
    BY <1>3 DEF Half
  <2> QED
    BY <1>1, <2>1 DEF Range
<1> QED
  BY <1>2, <1>3

\* No record of a batch is in neither part (spool.go:288-291).
LEMMA HalvesCover ==
    ASSUME NEW S, NEW docs \in Seq(S)
    PROVE  Range(docs) \subseteq Range(Half(docs, 0)) \cup Range(Half(docs, 1))
<1> DEFINE mid == Len(docs) \div 2
<1>1. mid \in Nat /\ mid <= Len(docs)
  OBVIOUS
<1>2. Half(docs, 0) = SubSeq(docs, 1, mid)
  BY DEF Half
<1>3. Half(docs, 1) = SubSeq(docs, mid + 1, Len(docs))
  BY DEF Half
<1>4. SUFFICES ASSUME NEW i \in 1..Len(docs)
               PROVE  docs[i] \in Range(Half(docs, 0)) \cup Range(Half(docs, 1))
  BY DEF Range
<1>5. CASE i <= mid
  <2>1. i \in DOMAIN Half(docs, 0) /\ Half(docs, 0)[i] = docs[i]
    BY <1>1, <1>2, <1>5
  <2> QED
    BY <2>1 DEF Range
<1>6. CASE i > mid
  <2>1. /\ i - mid \in DOMAIN Half(docs, 1)
        /\ Half(docs, 1)[i - mid] = docs[i]
    BY <1>1, <1>3, <1>6
  <2> QED
    BY <2>1 DEF Range
<1> QED
  BY <1>1, <1>5, <1>6

\* A part's name tells the batch and the part (spool.go:286-292).
LEMMA HalfNames ==
    ASSUME NEW a \in Name, NEW b \in Name, NEW g \in {0, 1}, NEW h \in {0, 1}
    PROVE  /\ HalfName(a, g) \in Name
           /\ HalfName(a, g).t = a.t /\ HalfName(a, g).seq = a.seq
           /\ HalfName(a, g).sfx # <<>>
           /\ HalfName(a, g) # a
           /\ HalfName(a, g) = HalfName(b, h) => a = b /\ g = h
<1>1. /\ a = [t |-> a.t, seq |-> a.seq, sfx |-> a.sfx] /\ a.t \in Times /\ a.seq \in Nat
      /\ b = [t |-> b.t, seq |-> b.seq, sfx |-> b.sfx] /\ b.t \in Times /\ b.seq \in Nat
  BY DEF Name
<1>2. a.sfx \in Seq({0, 1}) /\ b.sfx \in Seq({0, 1})
  BY DEF Name
<1>3. Len(Append(a.sfx, g)) = Len(a.sfx) + 1
  BY <1>2
<1>4. Append(a.sfx, g) # <<>> /\ Append(a.sfx, g) # a.sfx
  BY <1>2, <1>3
<1>5. Append(a.sfx, g) = Append(b.sfx, h) => a.sfx = b.sfx /\ g = h
  BY <1>2
<1>6. HalfName(a, g) \in Name
  <2>1. Append(a.sfx, g) \in Seq({0, 1})
    BY <1>2
  <2> QED
    BY <1>1, <2>1 DEF Name, HalfName
<1>7. /\ HalfName(a, g).t = a.t /\ HalfName(a, g).seq = a.seq
      /\ HalfName(a, g).sfx = Append(a.sfx, g)
      /\ HalfName(b, h).t = b.t /\ HalfName(b, h).seq = b.seq
      /\ HalfName(b, h).sfx = Append(b.sfx, h)
  BY DEF HalfName
<1>8. HalfName(a, g) = HalfName(b, h) => a = b /\ g = h
  <2> SUFFICES ASSUME HalfName(a, g) = HalfName(b, h) PROVE a = b /\ g = h
    OBVIOUS
  <2>1. a.t = b.t /\ a.seq = b.seq /\ a.sfx = b.sfx /\ g = h
    BY <1>5, <1>7
  <2> QED
    BY <1>1, <2>1
<1> QED
  BY <1>4, <1>6, <1>7, <1>8

----------------------------------------------------------------------------
(* Sequences. *)

\* The front of an index that is not empty is an entry of it.
LEMMA SeqHead ==
    ASSUME NEW S, NEW s \in Seq(S), s # <<>>
    PROVE  s[1] \in S /\ 1 \in DOMAIN s
  OBVIOUS

\* Entries cut out of the index, and what takes their place, are entries of
\* the same kind (spool.go:249, 304-306).
LEMMA SeqSplice ==
    ASSUME NEW S, NEW s \in Seq(S), NEW mid \in Seq(S), NEW i \in DOMAIN s
    PROVE  /\ SubSeq(s, 1, i - 1) \o SubSeq(s, i + 1, Len(s)) \in Seq(S)
           /\ SubSeq(s, 1, i - 1) \o mid \o SubSeq(s, i + 1, Len(s)) \in Seq(S)
<1>1. i \in 1..Len(s) /\ Len(s) \in Nat
  OBVIOUS
<1>2. SubSeq(s, 1, i - 1) \in Seq(S)
  BY <1>1
<1>3. SubSeq(s, i + 1, Len(s)) \in Seq(S)
  BY <1>1
<1> QED
  BY <1>2, <1>3

\* The elements of a sequence over S are in S, and they type it.
LEMMA SeqElements ==
    ASSUME NEW S, NEW s \in Seq(S)
    PROVE  \A i \in 1..Len(s) : s[i] \in S
  OBVIOUS

\* The converse.
LEMMA SeqRetype ==
    ASSUME NEW S, NEW T, NEW s \in Seq(S), \A i \in 1..Len(s) : s[i] \in T
    PROVE  s \in Seq(T)
  OBVIOUS

\* The entries of an index whose files were all written.
Entry == {e \in [name : Name, n : Nat] : e.name \in DOMAIN body}

\* Typing and IndexWritten of the index are membership in Seq(Entry).
LEMMA IndexEntries ==
    files \in Seq(Entry) <=> files \in Seq([name : Name, n : Nat]) /\ IndexWritten
<1>1. ASSUME files \in Seq(Entry)
      PROVE  files \in Seq([name : Name, n : Nat]) /\ IndexWritten
  <2>1. Len(files) \in Nat /\ DOMAIN files = 1..Len(files)
    BY <1>1
  <2>2. \A i \in 1..Len(files) : files[i] \in Entry
    BY <1>1
  <2>3. \A i \in 1..Len(files) :
           files[i] \in [name : Name, n : Nat] /\ files[i].name \in DOMAIN body
    BY <2>2 DEF Entry
  <2>4. files \in Seq([name : Name, n : Nat])
    BY <1>1, <2>3, SeqRetype
  <2> QED
    BY <2>1, <2>3, <2>4 DEF IndexWritten
<1>2. ASSUME files \in Seq([name : Name, n : Nat]), IndexWritten
      PROVE  files \in Seq(Entry)
  <2>1. Len(files) \in Nat /\ DOMAIN files = 1..Len(files)
    BY <1>2
  <2>2. \A i \in 1..Len(files) : files[i] \in [name : Name, n : Nat]
    BY <1>2, SeqElements
  <2>3. \A i \in 1..Len(files) : files[i] \in Entry
    BY <1>2, <2>1, <2>2 DEF Entry, IndexWritten
  <2> QED
    BY <1>2, <2>3, SeqRetype
<1> QED
  BY <1>1, <1>2

----------------------------------------------------------------------------
\* Type correctness at the start.
LEMMA InitType == SpoolInit => TypeOK
  BY SpoolAssumption, FS_EmptySet
  DEF SpoolInit, TypeOK, Call, Idle, Begin, NoBatch, NoName, Name, Records

----------------------------------------------------------------------------
DQStep == DQ!Next \/ UNCHANGED DQ!vars

\* A step that touches neither the batch files nor the history of records.
Quiet == UNCHANGED <<disk, body, taken, dropped>>

\* Such a step is invisible to the durable queue.
LEMMA QuietStep ==
    ASSUME Quiet
    PROVE  Held' = Held /\ Known' = Known /\ DQStep
<1>1. Held' = Held
  BY DEF Quiet, Held, DocsOf
<1> QED
  BY <1>1 DEF Quiet, Known, DQStep, DQ!vars

\* A step that only moves the call under way.
LEMMA OpStep ==
    ASSUME SpoolInv, Quiet, UNCHANGED <<up, clock, files, seq, hand, made, bad>>,
           op' \in Call, temps' \subseteq Name, CallShape', SplitProgress',
           ~up => op' = Idle,
           PutPending' => PutPending /\ op'.docs = op.docs,
           PutNamed' => PutNamed /\ op'.name = op.name
    PROVE  SpoolInv' /\ Known' = Known /\ DQStep
<1>1. Held' = Held /\ Known' = Known /\ DQStep
  BY QuietStep
<1>2. TypeOK'
  BY DEF SpoolInv, TypeOK, Quiet
<1>3. RecordsKnown'
  BY <1>1 DEF SpoolInv, RecordsKnown, DocsOf, Quiet
<1>4. NamesFresh'
  BY DEF SpoolInv, NamesFresh, Quiet
<1>5. PartsMatch' /\ HandBacked' /\ IndexWritten'
  BY DEF SpoolInv, PartsMatch, HandBacked, IndexWritten, Quiet
<1> QED
  BY <1>1, <1>2, <1>3, <1>4, <1>5 DEF SpoolInv

\* makeRoomLocked's look at the free space (spool.go:176-180) keeps the invariant.
LEMMA SampleRoomInv == SpoolInv /\ SampleRoom => SpoolInv' /\ Known' = Known /\ DQStep
<1> SUFFICES ASSUME SpoolInv, SampleRoom PROVE SpoolInv' /\ Known' = Known /\ DQStep
  OBVIOUS
<1>1. PICK r \in Rooms : op' = [op EXCEPT !.pc = "room", !.room = r]
  BY DEF SampleRoom
<1>2. op \in Call /\ r \in Int
  BY SpoolAssumption DEF SpoolInv, TypeOK
<1>3. /\ op'.pc = "room" /\ op'.call = op.call /\ op'.docs = op.docs
      /\ op' \in Call
  BY <1>1, <1>2 DEF Call
<1>4. Quiet /\ UNCHANGED <<up, clock, files, seq, hand, made, bad, temps>>
  BY DEF SampleRoom, Quiet, directory, history
<1>5. op.pc = "expire" /\ op.call = "put" /\ up
  BY DEF SampleRoom, NoneExpired
<1>6. CallShape' /\ SplitProgress'
  BY <1>3, <1>5 DEF CallShape, SplitProgress
<1>7. PutPending' => PutPending /\ op'.docs = op.docs
  BY <1>3, <1>5 DEF PutPending
<1>8. PutNamed' => PutNamed /\ op'.name = op.name
  BY <1>3 DEF PutNamed
<1> QED
  BY <1>3, <1>4, <1>5, <1>6, <1>7, <1>8, OpStep DEF SpoolInv, TypeOK

\* A call that returned is typed and is no call.
LEMMA IdleCall == Idle \in Call /\ Idle.pc = "idle" /\ Idle.call = "none"
  BY DEF Idle, Begin, Call

\* A call that returns and changes nothing else.
LEMMA ReturnStep ==
    ASSUME SpoolInv, Quiet, UNCHANGED <<up, clock, files, seq, hand, made, bad>>,
           op' = Idle, temps' \subseteq temps
    PROVE  SpoolInv' /\ Known' = Known /\ DQStep
<1>1. op' \in Call /\ op'.pc = "idle" /\ op'.call = "none"
  BY IdleCall
<1>2. CallShape' /\ SplitProgress' /\ ~PutPending' /\ ~PutNamed'
  BY <1>1 DEF CallShape, SplitProgress, PutPending, PutNamed
<1>3. temps' \subseteq Name
  BY DEF SpoolInv, TypeOK
<1> QED
  BY <1>1, <1>2, <1>3, OpStep

\* Put's and Oldest's returns that change no file (spool.go:130-146, 225-239).
LEMMA ReturnsInv ==
    SpoolInv /\ (PutLowDisk \/ PutFailed \/ PutDone \/ OldestEmpty) => SpoolInv' /\ Known' = Known /\ DQStep
<1> SUFFICES ASSUME SpoolInv, PutLowDisk \/ PutFailed \/ PutDone \/ OldestEmpty
             PROVE  SpoolInv' /\ Known' = Known /\ DQStep
  OBVIOUS
<1>1. /\ Quiet /\ UNCHANGED <<up, clock, files, seq, hand, made, bad>>
      /\ op' = Idle /\ temps' \subseteq temps
  BY DEF PutLowDisk, PutFailed, PutDone, OldestEmpty, WriteFails, Return, Quiet,
         directory, history
<1> QED
  BY <1>1, ReturnStep

\* Writing the temporary file (spool.go:151-163) is not yet a batch.
LEMMA WriteTempInv == SpoolInv /\ WriteTemp => SpoolInv' /\ Known' = Known /\ DQStep
<1> SUFFICES ASSUME SpoolInv, WriteTemp PROVE SpoolInv' /\ Known' = Known /\ DQStep
  OBVIOUS
<1>1. op \in Call /\ op' = [op EXCEPT !.pc = "rename"] /\ op.pc = "write" /\ up
  BY DEF SpoolInv, TypeOK, WriteTemp, Goto
<1>2. /\ op'.pc = "rename" /\ op'.call = op.call /\ op'.docs = op.docs
      /\ op'.name = op.name /\ op'.half = op.half /\ op' \in Call
  BY <1>1 DEF Call
<1>3. Quiet /\ UNCHANGED <<up, clock, files, seq, hand, made, bad>>
  BY DEF WriteTemp, Quiet, history
<1>4. Target \in Name
  <2>1. CASE op.call = "put"
    <3>1. op.name = [t |-> clock, seq |-> seq, sfx |-> <<>>]
      BY <1>1, <2>1 DEF SpoolInv, NamesFresh, PutNamed
    <3> QED
      BY <2>1, <3>1 DEF SpoolInv, TypeOK, Target, Name
  <2>2. CASE op.call = "split"
    <3>1. op.name \in Name
      BY <2>2 DEF SpoolInv, SplitProgress, HandBacked, TypeOK
    <3> QED
      BY <1>1, <2>2, <3>1, HalfNames DEF Target, Call
  <2> QED
    BY <1>1, <2>1, <2>2 DEF SpoolInv, CallShape
<1>5. temps' \subseteq Name
  BY <1>4 DEF SpoolInv, TypeOK, WriteTemp
<1>6. CallShape'
  BY <1>1, <1>2 DEF SpoolInv, CallShape
<1>7. SplitProgress'
  BY <1>1, <1>2, <1>3 DEF SpoolInv, SplitProgress, Quiet
<1>8. /\ PutPending' => PutPending /\ op'.docs = op.docs
      /\ PutNamed' => PutNamed /\ op'.name = op.name
  BY <1>1, <1>2 DEF PutPending, PutNamed
<1> QED
  BY <1>1, <1>2, <1>3, <1>5, <1>6, <1>7, <1>8, OpStep

\* Split begins (spool.go:265-285).
LEMMA SplitInv == SpoolInv /\ Split => SpoolInv' /\ Known' = Known /\ DQStep
<1> SUFFICES ASSUME SpoolInv, Split PROVE SpoolInv' /\ Known' = Known /\ DQStep
  OBVIOUS
<1>1. /\ op' = Begin("split", "write", hand.name, hand.docs)
      /\ up /\ hand.name # NoName
  BY DEF Split
<1>2. /\ op'.pc = "write" /\ op'.call = "split" /\ op'.name = hand.name
      /\ op'.docs = hand.docs /\ op'.half = 0
  BY <1>1 DEF Begin
<1>3. op' \in Call
  BY <1>1 DEF SpoolInv, TypeOK, Begin, Call
<1>4. Quiet /\ UNCHANGED <<up, clock, files, seq, hand, made, bad, temps>>
  BY DEF Split, Quiet, directory, history
<1>5. CallShape' /\ SplitProgress' /\ ~PutPending' /\ ~PutNamed'
  BY <1>1, <1>2, <1>4 DEF CallShape, SplitProgress, PutPending, PutNamed
<1> QED
  BY <1>1, <1>3, <1>4, <1>5, OpStep DEF SpoolInv, TypeOK

\* Put begins with records never seen (spool.go:130-133).
LEMMA PutInv == SpoolInv /\ Put => SpoolInv' /\ Known' = Known /\ DQStep
<1> SUFFICES ASSUME SpoolInv, Put PROVE SpoolInv' /\ Known' = Known /\ DQStep
  OBVIOUS
<1>1. PICK k \in 1..MaxBatch :
        /\ made + k <= MaxRecords
        /\ PutCall([i \in 1..k |-> made + i])
        /\ made' = made + k
        /\ UNCHANGED <<up, clock, files, total, seq, hand, directory, taken, dropped>>
  BY DEF Put
<1> DEFINE new == [i \in 1..k |-> made + i]
<1>2. Quiet /\ UNCHANGED <<up, clock, files, seq, hand, bad, temps>>
  BY <1>1 DEF Quiet, directory
<1>3. Held' = Held /\ Known' = Known /\ DQStep
  BY <1>2, QuietStep
<1>4. made \in Nat /\ k \in Nat /\ made' \in Nat /\ made <= made'
  BY <1>1, SpoolAssumption DEF SpoolInv, TypeOK
<1>5. new \in Seq(Records)
  <2>1. \A i \in 1..k : made + i \in Records
    BY <1>1, <1>4, SpoolAssumption DEF Records
  <2> QED
    BY <1>4, <2>1
<1>6. Range(new) \subseteq 1..made' /\ Range(new) \cap 1..made = {}
  BY <1>1, <1>4 DEF Range
<1>7. up /\ op' = Begin("put", "expire", NoName, new)
  BY <1>1 DEF PutCall
<1>8. op' \in Call /\ op'.pc = "expire" /\ op'.call = "put" /\ op'.docs = new
  BY <1>5, <1>7 DEF Begin, Call
<1>9. TypeOK'
  BY <1>2, <1>4, <1>8 DEF SpoolInv, TypeOK, Quiet
<1>10. CallShape' /\ SplitProgress'
  BY <1>8 DEF CallShape, SplitProgress
<1>11. RecordsKnown'
  <2>1. \A nm \in DOMAIN body' : DocsOf(nm)' \subseteq Known'
    BY <1>2, <1>3 DEF SpoolInv, RecordsKnown, Quiet, DocsOf
  <2>2. Known \subseteq 1..made /\ 1..made \subseteq 1..made'
    BY <1>4 DEF SpoolInv, RecordsKnown
  <2>3. Range(op'.docs) \subseteq 1..made' /\ Range(op'.docs) \cap Known' = {}
    BY <1>3, <1>6, <1>8, <2>2
  <2> QED
    BY <1>3, <2>1, <2>2, <2>3 DEF RecordsKnown
<1>12. NamesFresh'
  BY <1>2, <1>8 DEF SpoolInv, NamesFresh, Quiet, PutNamed
<1>13. PartsMatch' /\ HandBacked' /\ IndexWritten'
  BY <1>2 DEF SpoolInv, PartsMatch, HandBacked, IndexWritten, Quiet
<1> QED
  BY <1>2, <1>3, <1>7, <1>9, <1>10, <1>11, <1>12, <1>13 DEF SpoolInv

\* Put's name is new: the sequence number grows within a process and no two
\* processes write at one nanosecond (spool.go:137-138).
LEMMA NameBatchInv == SpoolInv /\ NameBatch => SpoolInv' /\ Known' = Known /\ DQStep
<1> SUFFICES ASSUME SpoolInv, NameBatch PROVE SpoolInv' /\ Known' = Known /\ DQStep
  OBVIOUS
<1> DEFINE nm0 == [t |-> clock, seq |-> seq + 1, sfx |-> <<>>]
<1>1. /\ up /\ op.pc = "room" /\ seq' = seq + 1 /\ op \in Call /\ seq \in Nat
      /\ op' = [op EXCEPT !.pc = "write", !.name = nm0]
  BY DEF NameBatch, SpoolInv, TypeOK
<1>2. op.call = "put"
  BY <1>1 DEF SpoolInv, CallShape
<1>3. Quiet /\ UNCHANGED <<up, clock, files, hand, made, bad, temps>>
  BY DEF NameBatch, Quiet, directory, history
<1>4. Held' = Held /\ Known' = Known /\ DQStep
  BY <1>3, QuietStep
<1>5. nm0 \in Name
  BY <1>1 DEF SpoolInv, TypeOK, Name
<1>6. /\ op'.pc = "write" /\ op'.call = "put" /\ op'.docs = op.docs
      /\ op'.name = nm0 /\ op' \in Call
  BY <1>1, <1>2, <1>5 DEF Call
<1>7. TypeOK'
  BY <1>1, <1>3, <1>6 DEF SpoolInv, TypeOK, Quiet
<1>8. CallShape' /\ SplitProgress'
  BY <1>6 DEF CallShape, SplitProgress
<1>9. RecordsKnown'
  BY <1>1, <1>2, <1>3, <1>4, <1>6 DEF SpoolInv, RecordsKnown, PutPending, DocsOf, Quiet
<1>10. NamesFresh'
  <2>1. \A nm \in DOMAIN body : nm \in Name /\ nm.seq \in Nat /\ (nm.t = clock => nm.seq <= seq)
    BY <1>1 DEF SpoolInv, NamesFresh, TypeOK, Name
  <2>2. nm0.t = clock /\ nm0.seq = seq + 1
    OBVIOUS
  <2>3. nm0 \notin DOMAIN body
    BY <1>1, <2>1, <2>2
  <2>4. \A nm \in DOMAIN body : nm.t = clock => nm.seq <= seq + 1
    BY <1>1, <2>1
  <2> QED
    BY <1>1, <1>3, <1>6, <2>3, <2>4 DEF NamesFresh, Quiet
<1>11. PartsMatch' /\ HandBacked' /\ IndexWritten'
  BY <1>3 DEF SpoolInv, PartsMatch, HandBacked, IndexWritten, Quiet
<1> QED
  BY <1>1, <1>3, <1>4, <1>7, <1>8, <1>9, <1>10, <1>11 DEF SpoolInv

\* Steps of the sender between calls, and what happens around the process.
LEMMA OldestInv == SpoolInv /\ Oldest => SpoolInv' /\ Known' = Known /\ DQStep
<1> SUFFICES ASSUME SpoolInv, Oldest PROVE SpoolInv' /\ Known' = Known /\ DQStep
  OBVIOUS
<1>1. Quiet /\ UNCHANGED <<up, clock, files, seq, made, bad, temps>>
  BY DEF Oldest, Quiet, directory, history
<1>2. up /\ hand' = NoBatch /\ op' = Begin("oldest", "expire", NoName, <<>>)
  BY DEF Oldest
<1>3. Held' = Held /\ Known' = Known /\ DQStep
  BY <1>1, QuietStep
<1>4. op' \in Call /\ op'.pc = "expire" /\ op'.call = "oldest"
  BY <1>2 DEF Begin, Call
<1>5. hand' \in [name : Name \cup {NoName}, docs : Seq(Records)] /\ hand'.name = NoName
  BY <1>2 DEF NoBatch
<1>6. TypeOK'
  BY <1>1, <1>4, <1>5 DEF SpoolInv, TypeOK, Quiet
<1>7. CallShape' /\ SplitProgress' /\ HandBacked' /\ ~PutPending' /\ ~PutNamed'
  BY <1>4, <1>5 DEF CallShape, SplitProgress, HandBacked, PutPending, PutNamed
<1>8. RecordsKnown' /\ NamesFresh'
  BY <1>1, <1>3, <1>7 DEF SpoolInv, RecordsKnown, NamesFresh, DocsOf, Quiet
<1>9. PartsMatch' /\ IndexWritten'
  BY <1>1 DEF SpoolInv, PartsMatch, IndexWritten, Quiet
<1> QED
  BY <1>1, <1>2, <1>3, <1>6, <1>7, <1>8, <1>9 DEF SpoolInv

\* Oldest hands out a batch that is on disk (spool.go:225-239).
LEMMA OldestFoundInv == SpoolInv /\ OldestFound => SpoolInv' /\ Known' = Known /\ DQStep
<1> SUFFICES ASSUME SpoolInv, OldestFound PROVE SpoolInv' /\ Known' = Known /\ DQStep
  OBVIOUS
<1> DEFINE nm0 == files[1].name
<1>1. Quiet /\ UNCHANGED <<up, clock, files, seq, made, bad, temps>>
  BY DEF OldestFound, Quiet, directory, history
<1>2. /\ up /\ op' = Idle /\ hand' = [name |-> nm0, docs |-> body[nm0]]
      /\ files # <<>> /\ nm0 \in disk
  BY DEF OldestFound, Return, Readable
<1>3. Held' = Held /\ Known' = Known /\ DQStep
  BY <1>1, QuietStep
<1>4. nm0 \in DOMAIN body /\ nm0 \in Name /\ body[nm0] \in Seq(Records)
  BY <1>2 DEF SpoolInv, TypeOK
<1>5. hand' \in [name : Name \cup {NoName}, docs : Seq(Records)]
  BY <1>2, <1>4
<1>6. TypeOK'
  BY <1>1, <1>2, <1>5, IdleCall DEF SpoolInv, TypeOK, Quiet
<1>7. CallShape' /\ SplitProgress' /\ ~PutPending' /\ ~PutNamed'
  BY <1>2, IdleCall DEF CallShape, SplitProgress, PutPending, PutNamed
<1>8. HandBacked'
  BY <1>1, <1>2, <1>4 DEF HandBacked, Quiet
<1>9. RecordsKnown' /\ NamesFresh'
  BY <1>1, <1>3, <1>7 DEF SpoolInv, RecordsKnown, NamesFresh, DocsOf, Quiet
<1>10. PartsMatch' /\ IndexWritten'
  BY <1>1 DEF SpoolInv, PartsMatch, IndexWritten, Quiet
<1> QED
  BY <1>1, <1>2, <1>3, <1>6, <1>7, <1>8, <1>9, <1>10 DEF SpoolInv

\* Split of a batch the caps removed (spool.go:277-285) changes nothing.
LEMMA SplitVanishedInv == SpoolInv /\ SplitVanished => SpoolInv' /\ Known' = Known /\ DQStep
<1> SUFFICES ASSUME SpoolInv, SplitVanished PROVE SpoolInv' /\ Known' = Known /\ DQStep
  OBVIOUS
<1>1. Quiet /\ UNCHANGED <<up, clock, files, seq, made, bad, temps, op>>
  BY DEF SplitVanished, Quiet, directory, history
<1>2. up /\ op.pc = "idle" /\ hand' = NoBatch
  BY DEF SplitVanished
<1>3. op.call = "none"
  BY <1>2 DEF SpoolInv, CallShape
<1>4. Held' = Held /\ Known' = Known /\ DQStep
  BY <1>1, QuietStep
<1>5. hand' \in [name : Name \cup {NoName}, docs : Seq(Records)] /\ hand'.name = NoName
  BY <1>2 DEF NoBatch
<1>6. TypeOK'
  BY <1>1, <1>5 DEF SpoolInv, TypeOK, Quiet
<1>7. CallShape' /\ SplitProgress' /\ HandBacked' /\ ~PutPending' /\ ~PutNamed'
  BY <1>1, <1>2, <1>3, <1>5 DEF CallShape, SplitProgress, HandBacked, PutPending, PutNamed
<1>8. RecordsKnown' /\ NamesFresh'
  BY <1>1, <1>4, <1>7 DEF SpoolInv, RecordsKnown, NamesFresh, DocsOf, Quiet
<1>9. PartsMatch' /\ IndexWritten'
  BY <1>1 DEF SpoolInv, PartsMatch, IndexWritten, Quiet
<1> QED
  BY <1>1, <1>2, <1>4, <1>6, <1>7, <1>8, <1>9 DEF SpoolInv

\* The process ends between any two steps.
LEMMA CrashInv == SpoolInv /\ ProcessEnds => SpoolInv' /\ Known' = Known /\ DQStep
<1> SUFFICES ASSUME SpoolInv, ProcessEnds PROVE SpoolInv' /\ Known' = Known /\ DQStep
  OBVIOUS
<1>1. Quiet /\ UNCHANGED <<clock, made, bad, temps>>
  BY DEF ProcessEnds, Quiet, directory, history
<1>2. up' = FALSE /\ files' = <<>> /\ seq' = 0 /\ op' = Idle /\ hand' = NoBatch
  BY DEF ProcessEnds
<1>3. Held' = Held /\ Known' = Known /\ DQStep
  BY <1>1, QuietStep
<1>4. hand' \in [name : Name \cup {NoName}, docs : Seq(Records)] /\ hand'.name = NoName
  BY <1>2 DEF NoBatch
<1>5. files' \in Seq([name : Name, n : Nat]) /\ seq' \in Nat
  BY <1>2
<1>6. TypeOK'
  BY <1>1, <1>2, <1>4, <1>5, IdleCall DEF SpoolInv, TypeOK, Quiet
<1>7. CallShape' /\ SplitProgress' /\ HandBacked' /\ ~PutPending' /\ ~PutNamed'
  BY <1>2, <1>4, IdleCall DEF CallShape, SplitProgress, HandBacked, PutPending, PutNamed
<1>8. RecordsKnown' /\ NamesFresh'
  BY <1>1, <1>2, <1>3, <1>7 DEF SpoolInv, RecordsKnown, NamesFresh, DocsOf, Quiet
<1>9. PartsMatch' /\ IndexWritten'
  BY <1>1, <1>2 DEF SpoolInv, PartsMatch, IndexWritten, Quiet
<1> QED
  BY <1>2, <1>3, <1>6, <1>7, <1>8, <1>9 DEF SpoolInv

\* OpenSpool rebuilds the index from the names alone (spool.go:64-103).
LEMMA OpenSpoolInv == SpoolInv /\ OpenSpool => SpoolInv' /\ Known' = Known /\ DQStep
<1> SUFFICES ASSUME SpoolInv, OpenSpool PROVE SpoolInv' /\ Known' = Known /\ DQStep
  OBVIOUS
<1>1. Quiet /\ UNCHANGED <<seq, op, hand, made, bad>>
  BY DEF OpenSpool, Quiet, history
<1>2. up' = TRUE /\ ~up /\ temps' = {} /\ op = Idle /\ hand = NoBatch
  BY DEF OpenSpool, SpoolInv
<1>3. PICK c \in Times : Reading(c) /\ clock' = c
  BY DEF OpenSpool
<1>4. PICK s \in Listings :
        files' = [i \in 1..Len(s) |-> [name |-> s[i], n |-> Len(body[s[i]])]]
  BY DEF OpenSpool
<1>5. Held' = Held /\ Known' = Known /\ DQStep
  BY <1>1, QuietStep
<1>6. Cardinality(disk) \in Nat
  BY FS_CardinalityType DEF SpoolInv, TypeOK
<1>7. s \in [1..Cardinality(disk) -> disk]
  BY DEF Listings
<1>8. Len(s) \in Nat /\ DOMAIN s = 1..Len(s)
  BY <1>6, <1>7
<1>9. \A i \in 1..Len(s) : s[i] \in DOMAIN body /\ s[i] \in Name /\ Len(body[s[i]]) \in Nat
  <2> SUFFICES ASSUME NEW i \in 1..Len(s)
               PROVE  s[i] \in DOMAIN body /\ s[i] \in Name /\ Len(body[s[i]]) \in Nat
    OBVIOUS
  <2>1. s[i] \in disk
    BY <1>7, <1>8
  <2>2. s[i] \in DOMAIN body /\ s[i] \in Name /\ body[s[i]] \in Seq(Records)
    BY <2>1 DEF SpoolInv, TypeOK
  <2> QED
    BY <2>2
<1>10. files' \in Seq([name : Name, n : Nat])
  BY <1>4, <1>8, <1>9
<1>11. TypeOK'
  BY <1>1, <1>2, <1>3, <1>10 DEF SpoolInv, TypeOK, Quiet
<1>12. CallShape' /\ SplitProgress' /\ HandBacked' /\ ~PutPending' /\ ~PutNamed'
  <2>1. op'.pc = "idle" /\ op'.call = "none" /\ hand'.name = NoName
    BY <1>1, <1>2, IdleCall DEF NoBatch
  <2> QED
    BY <2>1 DEF CallShape, SplitProgress, HandBacked, PutPending, PutNamed
<1>13. RecordsKnown' /\ PartsMatch'
  BY <1>1, <1>5, <1>12 DEF SpoolInv, RecordsKnown, PartsMatch, DocsOf, Quiet
<1>14. NamesFresh'
  BY <1>1, <1>3, <1>12 DEF NamesFresh, Quiet, Reading, Unwritten
<1>15. IndexWritten'
  BY <1>1, <1>4, <1>8, <1>9 DEF IndexWritten, Quiet
<1> QED
  BY <1>2, <1>5, <1>11, <1>12, <1>13, <1>14, <1>15 DEF SpoolInv

\* Time passes.
LEMMA TickInv == SpoolInv /\ Tick => SpoolInv' /\ Known' = Known /\ DQStep
<1> SUFFICES ASSUME SpoolInv, Tick PROVE SpoolInv' /\ Known' = Known /\ DQStep
  OBVIOUS
<1>1. Quiet /\ UNCHANGED <<up, files, seq, op, hand, made, bad, temps>>
  BY DEF Tick, Quiet, memory, directory, history
<1>2. up /\ op.pc = "idle" /\ op.call = "none"
  BY DEF Tick, SpoolInv, CallShape
<1>3. PICK c \in Times : Reading(c) /\ clock' = c
  BY DEF Tick
<1>4. Held' = Held /\ Known' = Known /\ DQStep
  BY <1>1, QuietStep
<1>5. TypeOK'
  BY <1>1, <1>3 DEF SpoolInv, TypeOK, Quiet
<1>6. CallShape' /\ SplitProgress' /\ ~PutPending' /\ ~PutNamed'
  BY <1>1, <1>2 DEF CallShape, SplitProgress, PutPending, PutNamed
<1>7. RecordsKnown' /\ PartsMatch' /\ HandBacked' /\ IndexWritten'
  BY <1>1, <1>4, <1>6 DEF SpoolInv, RecordsKnown, PartsMatch, HandBacked, IndexWritten, DocsOf, Quiet
<1>8. NamesFresh'
  BY <1>1, <1>3, <1>6 DEF NamesFresh, Quiet, Reading, Unwritten
<1> QED
  BY <1>1, <1>2, <1>4, <1>5, <1>6, <1>7, <1>8 DEF SpoolInv

\* A damaged file is still a file.
LEMMA DamageInv == SpoolInv /\ Damage => SpoolInv' /\ Known' = Known /\ DQStep
<1> SUFFICES ASSUME SpoolInv, Damage PROVE SpoolInv' /\ Known' = Known /\ DQStep
  OBVIOUS
<1>1. Quiet /\ UNCHANGED <<up, clock, files, seq, op, hand, made, temps>>
  BY DEF Damage, Quiet, memory, history
<1>2. bad' \subseteq disk
  BY DEF Damage, SpoolInv, TypeOK
<1>3. Held' = Held /\ Known' = Known /\ DQStep
  BY <1>1, QuietStep
<1>4. TypeOK'
  BY <1>1, <1>2 DEF SpoolInv, TypeOK, Quiet
<1>5. CallShape' /\ SplitProgress' /\ NamesFresh'
  BY <1>1 DEF SpoolInv, CallShape, SplitProgress, NamesFresh, PutNamed, Quiet
<1>6. RecordsKnown' /\ PartsMatch' /\ HandBacked' /\ IndexWritten'
  BY <1>1, <1>3 DEF SpoolInv, RecordsKnown, PartsMatch, HandBacked, IndexWritten, PutPending, DocsOf, Quiet
<1> QED
  BY <1>1, <1>3, <1>4, <1>5, <1>6 DEF SpoolInv

----------------------------------------------------------------------------
(* Steps that remove files. *)

\* An unlink, successful or not, takes at most the file's records off the disk.
LEMMA UnlinkStep ==
    ASSUME SpoolInv, NEW nm, Unlink(nm), UNCHANGED body
    PROVE  /\ disk' \subseteq disk /\ disk \ {nm} \subseteq disk'
           /\ bad' \subseteq disk' /\ IsFiniteSet(disk')
           /\ Held' \subseteq Held /\ Held \ Held' \subseteq DocsOf(nm)
<1>1. \/ disk' = disk \ {nm} /\ bad' = bad \ {nm}
      \/ disk' = disk /\ bad' = bad
  BY DEF Unlink
<1>2. disk' \subseteq disk /\ disk \ {nm} \subseteq disk' /\ bad' \subseteq disk'
  BY <1>1 DEF SpoolInv, TypeOK
<1>3. IsFiniteSet(disk')
  BY <1>2, FS_Subset DEF SpoolInv, TypeOK
<1>4. Held' \subseteq Held /\ Held \ Held' \subseteq DocsOf(nm)
  BY <1>2 DEF Held, DocsOf
<1> QED
  BY <1>2, <1>3, <1>4

\* Giving up the front batch, inside whatever call.
LEMMA DropStep ==
    ASSUME SpoolInv, DropFront,
           UNCHANGED <<up, clock, seq, hand, temps, body, made, taken>>,
           op' \in Call, up, CallShape', SplitProgress',
           PutPending' => PutPending /\ op'.docs = op.docs,
           PutNamed' => PutNamed /\ op'.name = op.name
    PROVE  SpoolInv' /\ Known' = Known /\ DQStep
<1> DEFINE nm0 == files[1].name
<1>1. /\ files # <<>> /\ Unlink(nm0) /\ files' = Tail(files)
      /\ dropped' = dropped \cup DocsOf(nm0)
  BY DEF DropFront
<1>2. files \in Seq([name : Name, n : Nat]) /\ 1 \in DOMAIN files
  BY <1>1 DEF SpoolInv, TypeOK
<1>3. nm0 \in DOMAIN body /\ body[nm0] \in Seq(Records)
  BY <1>2 DEF SpoolInv, IndexWritten, TypeOK
<1>4. DocsOf(nm0) \subseteq Records /\ DocsOf(nm0) \subseteq Known
  <2>1. DocsOf(nm0) \subseteq Records
    BY <1>3 DEF DocsOf, Range
  <2> QED
    BY <1>3, <2>1 DEF SpoolInv, RecordsKnown
<1>5. /\ disk' \subseteq disk /\ disk \ {nm0} \subseteq disk'
      /\ bad' \subseteq disk' /\ IsFiniteSet(disk')
      /\ Held' \subseteq Held /\ Held \ Held' \subseteq DocsOf(nm0)
  BY <1>1, UnlinkStep
<1>6. Known' = Known
  BY <1>1, <1>4, <1>5 DEF Known
<1>7. DQStep
  <2>1. DocsOf(nm0) \in SUBSET (Held \cup taken \cup dropped)
    BY <1>4 DEF Known
  <2> QED
    BY <1>1, <1>5, <2>1 DEF DQStep, DQ!Next, DQ!Drop, DQ!Known
<1>8. files' \in Seq([name : Name, n : Nat])
  BY <1>1, <1>2
<1>9. TypeOK'
  BY <1>1, <1>4, <1>5, <1>8 DEF SpoolInv, TypeOK
<1>10. RecordsKnown' /\ NamesFresh' /\ PartsMatch'
  BY <1>6 DEF SpoolInv, RecordsKnown, NamesFresh, PartsMatch, DocsOf
<1>11. HandBacked'
  <2>1. CASE hand.name = nm0
    BY <1>1, <2>1 DEF SpoolInv, HandBacked, DocsOf
  <2>2. CASE hand.name # nm0
    BY <1>1, <1>5, <2>2 DEF SpoolInv, HandBacked
  <2> QED
    BY <2>1, <2>2
<1>12. IndexWritten'
  BY <1>1, <1>2 DEF SpoolInv, IndexWritten
<1> QED
  BY <1>6, <1>7, <1>9, <1>10, <1>11, <1>12 DEF SpoolInv

\* Every place that gives up the front batch (spool.go:176-219, 225-239).
LEMMA DropsInv ==
    SpoolInv /\ (Expire \/ MakeRoom \/ Enforce \/ SkipCorrupt) => SpoolInv' /\ Known' = Known /\ DQStep
<1> SUFFICES ASSUME SpoolInv, Expire \/ MakeRoom \/ Enforce \/ SkipCorrupt
             PROVE  SpoolInv' /\ Known' = Known /\ DQStep
  OBVIOUS
<1>1. /\ up /\ DropFront /\ op \in Call
      /\ UNCHANGED <<up, clock, seq, hand, temps, body, made, taken>>
  BY DEF Expire, MakeRoom, Enforce, SkipCorrupt, SpoolInv, TypeOK
<1>2. op.call # "split"
  BY DEF Expire, MakeRoom, Enforce, SkipCorrupt, ShortOfRoom, NoneExpired, SpoolInv, CallShape
<1>3. /\ op' \in Call /\ op'.pc = op.pc /\ op'.call = op.call
      /\ op'.docs = op.docs /\ op'.name = op.name
  <2>1. CASE Expire \/ Enforce \/ SkipCorrupt
    BY <1>1, <2>1 DEF Expire, Enforce, SkipCorrupt
  <2>2. CASE MakeRoom
    <3>1. op' = [op EXCEPT !.room = op.room + Size(files[1].n)]
      BY <2>2 DEF MakeRoom
    <3>2. op.room + Size(files[1].n) \in Int
      <4>1. files \in Seq([name : Name, n : Nat]) /\ files # <<>> /\ op.room \in Int
        BY <1>1 DEF SpoolInv, TypeOK, Call, DropFront
      <4>2. files[1] \in [name : Name, n : Nat]
        BY <4>1, SeqHead
      <4>3. files[1].n \in Nat
        BY <4>2
      <4> QED
        BY <4>1, <4>3 DEF Size
    <3> QED
      BY <1>1, <3>1, <3>2 DEF Call
  <2> QED
    BY <2>1, <2>2
<1>4. CallShape' /\ SplitProgress'
  BY <1>2, <1>3 DEF SpoolInv, CallShape, SplitProgress
<1>5. /\ PutPending' => PutPending /\ op'.docs = op.docs
      /\ PutNamed' => PutNamed /\ op'.name = op.name
  BY <1>3 DEF PutPending, PutNamed
<1> QED
  BY <1>1, <1>3, <1>4, <1>5, DropStep

\* Remove of the batch in hand, still indexed or not (spool.go:244-258).
LEMMA RemoveInv == SpoolInv /\ Remove => SpoolInv' /\ Known' = Known /\ DQStep
<1> SUFFICES ASSUME SpoolInv, Remove PROVE SpoolInv' /\ Known' = Known /\ DQStep
  OBVIOUS
<1>1. /\ up /\ op.pc = "idle" /\ hand.name # NoName
      /\ taken' = taken \cup Range(hand.docs) /\ hand' = NoBatch
      /\ UNCHANGED <<up, clock, seq, op, temps, body, made, dropped>>
  BY DEF Remove
<1>2. /\ hand.name \in DOMAIN body /\ hand.docs = body[hand.name]
      /\ hand.name \in disk \/ Range(hand.docs) \subseteq dropped
  BY <1>1 DEF SpoolInv, HandBacked
<1>3. Range(hand.docs) = DocsOf(hand.name)
  BY <1>2 DEF DocsOf
<1>4. Range(hand.docs) \subseteq Held \cup dropped
  BY <1>2, <1>3 DEF Held
<1>5. Range(hand.docs) \subseteq Records
  BY <1>2 DEF SpoolInv, TypeOK, Range
<1>6. /\ bad' \subseteq disk' /\ disk' \subseteq disk /\ IsFiniteSet(disk')
      /\ Held' \subseteq Held /\ Held \ Held' \subseteq Range(hand.docs)
  <2>1. CASE UNCHANGED <<disk, bad>>
    BY <1>1, <2>1 DEF SpoolInv, TypeOK, Held, DocsOf
  <2>2. CASE Unlink(hand.name)
    BY <1>1, <1>3, <2>2, UnlinkStep
  <2> QED
    BY <2>1, <2>2 DEF Remove
<1>7. Known' = Known
  BY <1>1, <1>4, <1>6 DEF Known
<1>8. DQStep
  BY <1>1, <1>4, <1>6 DEF DQStep, DQ!Next, DQ!Take
<1>9. files' \in Seq([name : Name, n : Nat]) /\ IndexWritten'
  <2>1. files \in Seq(Entry)
    BY IndexEntries DEF SpoolInv, TypeOK
  <2>2. Entry' = Entry
    BY <1>1 DEF Entry
  <2>3. files' \in Seq(Entry)
    <3>1. CASE files' = files
      BY <2>1, <3>1
    <3>2. ASSUME NEW i \in DOMAIN files, files' = Without(files, i)
          PROVE  files' \in Seq(Entry)
      BY <2>1, <3>2, SeqSplice DEF Without
    <3> QED
      BY <3>1, <3>2 DEF Remove
  <2>4. (files \in Seq(Entry) <=> files \in Seq([name : Name, n : Nat]) /\ IndexWritten)'
    BY IndexEntries, PTL
  <2> QED
    BY <2>2, <2>3, <2>4
<1>10. hand' \in [name : Name \cup {NoName}, docs : Seq(Records)] /\ hand'.name = NoName
  BY <1>1 DEF NoBatch
<1>11. TypeOK'
  BY <1>1, <1>5, <1>6, <1>9, <1>10 DEF SpoolInv, TypeOK
<1>12. op.call = "none"
  BY <1>1 DEF SpoolInv, CallShape
<1>13. CallShape' /\ SplitProgress' /\ HandBacked' /\ ~PutPending' /\ ~PutNamed'
  BY <1>1, <1>10, <1>12 DEF SpoolInv, CallShape, SplitProgress, HandBacked, PutPending, PutNamed
<1>14. RecordsKnown' /\ NamesFresh' /\ PartsMatch'
  BY <1>1, <1>7, <1>13 DEF SpoolInv, RecordsKnown, NamesFresh, PartsMatch, DocsOf
<1> QED
  BY <1>1, <1>7, <1>8, <1>9, <1>11, <1>13, <1>14 DEF SpoolInv

----------------------------------------------------------------------------
(* Steps that write files. *)

\* A new batch lands under a name never used.
LEMMA RenamePutInv ==
    SpoolInv /\ RenamePut => SpoolInv' /\ Known' = Known \cup Range(op.docs) /\ DQStep
<1> SUFFICES ASSUME SpoolInv, RenamePut
             PROVE  SpoolInv' /\ Known' = Known \cup Range(op.docs) /\ DQStep
  OBVIOUS
<1>1. /\ up /\ op.call = "put" /\ op.pc = "rename" /\ op \in Call
      /\ Target = op.name /\ Content = op.docs
      /\ UNCHANGED <<up, clock, seq, hand, made, taken, dropped>>
  BY DEF RenamePut, Land, Target, Content, SpoolInv, TypeOK, history
<1>2. /\ temps' = temps \ {op.name} /\ disk' = disk \cup {op.name} /\ bad' = bad \ {op.name}
      /\ body' = [nm \in DOMAIN body \cup {op.name} |->
                     IF nm = op.name THEN op.docs ELSE body[nm]]
  BY <1>1 DEF RenamePut, Land
<1>3. /\ op.name = [t |-> clock, seq |-> seq, sfx |-> <<>>] /\ op.name \notin DOMAIN body
      /\ op.docs \in Seq(Records)
  BY <1>1 DEF SpoolInv, NamesFresh, PutNamed, Call
<1>4. op.name \in Name /\ op.name.t = clock /\ op.name.seq = seq /\ op.name.sfx = <<>>
  BY <1>3 DEF SpoolInv, TypeOK, Name
<1>5. /\ DOMAIN body' = DOMAIN body \cup {op.name} /\ body'[op.name] = op.docs
      /\ \A nm \in DOMAIN body : body'[nm] = body[nm]
  BY <1>2, <1>3
<1>6. Held' = Held \cup Range(op.docs)
  <2>1. \A nm \in disk : Range(body'[nm]) = Range(body[nm])
    BY <1>5 DEF SpoolInv, TypeOK
  <2> QED
    BY <1>2, <1>5, <2>1 DEF Held, DocsOf
<1>7. Range(op.docs) \subseteq 1..made /\ Range(op.docs) \cap Known = {}
  BY <1>1 DEF SpoolInv, RecordsKnown, PutPending
<1>8. Known' = Known \cup Range(op.docs)
  BY <1>1, <1>6 DEF Known
<1>9. DQStep
  <2>1. Range(op.docs) \in SUBSET (Held' \ Held)
    BY <1>6, <1>7 DEF Known
  <2> QED
    BY <1>1, <1>6, <1>7, <2>1 DEF DQStep, DQ!Next, DQ!Accept, DQ!Known, Known
<1>10. op' = [op EXCEPT !.pc = "enforce"]
  BY DEF RenamePut, Goto
<1>11. op' \in Call /\ op'.pc = "enforce" /\ op'.call = "put"
  BY <1>1, <1>10 DEF Call
<1>12. files' = Append(files, [name |-> op.name, n |-> Len(op.docs)])
  BY DEF RenamePut
<1>13. files' \in Seq([name : Name, n : Nat])
  <2>1. [name |-> op.name, n |-> Len(op.docs)] \in [name : Name, n : Nat]
    BY <1>3, <1>4
  <2> QED
    BY <1>12, <2>1 DEF SpoolInv, TypeOK
<1>14. IsFiniteSet(disk')
  BY <1>2, FS_AddElement DEF SpoolInv, TypeOK
<1>15. TypeOK'
  <2>1. \A nm \in DOMAIN body' : body'[nm] \in Seq(Records)
    BY <1>3, <1>5 DEF SpoolInv, TypeOK
  <2> QED
    BY <1>1, <1>2, <1>4, <1>5, <1>11, <1>13, <1>14, <2>1 DEF SpoolInv, TypeOK
<1>16. CallShape' /\ SplitProgress' /\ ~PutPending' /\ ~PutNamed'
  BY <1>11 DEF CallShape, SplitProgress, PutPending, PutNamed
<1>17. RecordsKnown'
  <2>1. \A nm \in DOMAIN body' : Range(body'[nm]) \subseteq Known'
    BY <1>5, <1>8 DEF SpoolInv, RecordsKnown, DocsOf
  <2> QED
    BY <1>1, <1>7, <1>8, <1>16, <2>1 DEF SpoolInv, RecordsKnown, DocsOf
<1>18. NamesFresh'
  <2>1. seq <= seq
    BY DEF SpoolInv, TypeOK
  <2> QED
    BY <1>1, <1>4, <1>5, <1>16, <2>1 DEF SpoolInv, NamesFresh
<1>19. PartsMatch'
  BY <1>3, <1>4, <1>5 DEF SpoolInv, PartsMatch
<1>20. HandBacked'
  BY <1>1, <1>2, <1>5 DEF SpoolInv, HandBacked
<1>21. IndexWritten'
  BY <1>5, <1>12 DEF SpoolInv, IndexWritten, TypeOK
<1> QED
  BY <1>1, <1>8, <1>9, <1>15, <1>16, <1>17, <1>18, <1>19, <1>20, <1>21 DEF SpoolInv

\* A half of a split lands.  Its name carries those records for good, so the
\* directory gains records that had left it at most.
LEMMA RenameHalfInv == SpoolInv /\ RenameHalf => SpoolInv' /\ Known' = Known /\ DQStep
<1> SUFFICES ASSUME SpoolInv, RenameHalf PROVE SpoolInv' /\ Known' = Known /\ DQStep
  OBVIOUS
<1> DEFINE N == op.name
           T == HalfName(N, op.half)
           C == Half(op.docs, op.half)
<1>1. /\ up /\ op.call = "split" /\ op.pc = "rename" /\ op \in Call
      /\ Target = T /\ Content = C
      /\ UNCHANGED <<up, clock, files, seq, hand, made, taken, dropped>>
  BY DEF RenameHalf, Land, Target, Content, SpoolInv, TypeOK, history
<1>2. /\ temps' = temps \ {T} /\ disk' = disk \cup {T} /\ bad' = bad \ {T}
      /\ body' = [nm \in DOMAIN body \cup {T} |-> IF nm = T THEN C ELSE body[nm]]
  BY <1>1 DEF RenameHalf, Land
<1>3. /\ N = hand.name /\ op.docs = hand.docs /\ N \in DOMAIN body
      /\ op.docs = body[N] /\ op.half \in {0, 1}
      /\ op.half = 1 => HalfName(N, 0) \in disk
  BY <1>1 DEF SpoolInv, SplitProgress, HandBacked, Call
<1>4. N \in Name /\ op.docs \in Seq(Records)
  BY <1>3 DEF SpoolInv, TypeOK
<1>5. T \in Name /\ T.t = N.t /\ T.seq = N.seq /\ T.sfx # <<>> /\ T # N
  BY <1>3, <1>4, HalfNames
<1>6. C \in Seq(Records) /\ Range(C) \subseteq Range(op.docs)
  BY <1>3, <1>4, HalfDocs
<1> HIDE DEF T, C
<1>7. T \in DOMAIN body => body[T] = C
  <2> SUFFICES ASSUME T \in DOMAIN body PROVE body[T] = C
    OBVIOUS
  <2>1. PICK nm \in DOMAIN body, h \in {0, 1} :
           T = HalfName(nm, h) /\ body[T] = Half(body[nm], h)
    BY <1>5 DEF SpoolInv, PartsMatch
  <2>2. nm \in Name
    BY DEF SpoolInv, TypeOK
  <2>3. nm = N /\ h = op.half
    BY <1>3, <1>4, <2>1, <2>2, HalfNames DEF T
  <2> QED
    BY <1>3, <2>1, <2>3 DEF C
<1>8. /\ DOMAIN body' = DOMAIN body \cup {T} /\ body'[T] = C
      /\ \A nm \in DOMAIN body : body'[nm] = body[nm]
  BY <1>2, <1>7
<1>9. Held' = Held \cup Range(C)
  <2>1. \A nm \in disk : Range(body'[nm]) = Range(body[nm])
    BY <1>8 DEF SpoolInv, TypeOK
  <2> QED
    BY <1>2, <1>8, <2>1 DEF Held, DocsOf
<1>10. Range(C) \subseteq Known
  <2>1. Range(op.docs) = DocsOf(N)
    BY <1>3 DEF DocsOf
  <2> QED
    BY <1>3, <1>6, <2>1 DEF SpoolInv, RecordsKnown
<1>11. Known' = Known
  BY <1>1, <1>9, <1>10 DEF Known
<1>12. DQStep
  BY <1>1, <1>9, <1>10 DEF DQStep, DQ!Next, DQ!Reappear, Known
<1>13. /\ op' \in Call /\ op'.call = "split" /\ op'.name = N /\ op'.docs = op.docs
       /\ op'.pc \in {"write", "swap"} /\ op'.half = 1
       /\ op'.pc = "swap" => op.half = 1
  <2>1. CASE op.half = 0
    <3>1. op' = [op EXCEPT !.pc = "write", !.half = 1]
      BY <2>1 DEF RenameHalf
    <3> QED
      BY <1>1, <3>1 DEF Call
  <2>2. CASE op.half = 1
    <3>1. op' = [op EXCEPT !.pc = "swap"]
      BY <2>2 DEF RenameHalf
    <3> QED
      BY <1>1, <2>2, <3>1 DEF Call
  <2> QED
    BY <1>3, <2>1, <2>2
<1>14. TypeOK'
  <2>1. \A nm \in DOMAIN body' : body'[nm] \in Seq(Records)
    BY <1>6, <1>8 DEF SpoolInv, TypeOK
  <2>2. IsFiniteSet(disk')
    BY <1>2, FS_AddElement DEF SpoolInv, TypeOK
  <2> QED
    BY <1>1, <1>2, <1>5, <1>8, <1>13, <2>1, <2>2 DEF SpoolInv, TypeOK
<1>15. CallShape' /\ ~PutPending' /\ ~PutNamed'
  BY <1>13 DEF CallShape, PutPending, PutNamed
<1>16. RecordsKnown'
  <2>1. \A nm \in DOMAIN body' : Range(body'[nm]) \subseteq Known'
    BY <1>8, <1>10, <1>11 DEF SpoolInv, RecordsKnown, DocsOf
  <2> QED
    BY <1>1, <1>11, <1>15, <2>1 DEF SpoolInv, RecordsKnown, DocsOf
<1>17. NamesFresh'
  BY <1>1, <1>3, <1>5, <1>8, <1>15 DEF SpoolInv, NamesFresh
<1>18. PartsMatch'
  <2> SUFFICES ASSUME NEW x \in DOMAIN body', x.sfx # <<>>
               PROVE  \E nm \in DOMAIN body', h \in {0, 1} :
                          x = HalfName(nm, h) /\ body'[x] = Half(body'[nm], h)
    BY DEF PartsMatch
  <2>1. CASE x = T
    BY <1>3, <1>8, <2>1 DEF T, C
  <2>2. CASE x \in DOMAIN body
    <3>1. PICK nm \in DOMAIN body, h \in {0, 1} :
             x = HalfName(nm, h) /\ body[x] = Half(body[nm], h)
      BY <2>2 DEF SpoolInv, PartsMatch
    <3> QED
      BY <1>8, <2>2, <3>1
  <2> QED
    BY <1>8, <2>1, <2>2
<1>19. HandBacked'
  BY <1>1, <1>2, <1>8 DEF SpoolInv, HandBacked
<1>20. SplitProgress'
  <2>1. hand.name # NoName
    BY <1>1 DEF SpoolInv, SplitProgress
  <2>2. HalfName(N, 0) \in disk'
    BY <1>2, <1>3 DEF T
  <2>3. op'.pc = "swap" => HalfName(N, 1) \in disk'
    BY <1>2, <1>13 DEF T
  <2> QED
    BY <1>1, <1>3, <1>13, <2>1, <2>2, <2>3 DEF SplitProgress
<1>21. IndexWritten'
  BY <1>1, <1>8 DEF SpoolInv, IndexWritten
<1> QED
  BY <1>1, <1>11, <1>12, <1>14, <1>15, <1>16, <1>17, <1>18, <1>19, <1>20, <1>21 DEF SpoolInv

\* A split that fails takes its first half back.  The batch is still there, or
\* the caps dropped it and its records were reported.
LEMMA SplitFailedInv == SpoolInv /\ SplitFailed => SpoolInv' /\ Known' = Known /\ DQStep
<1> SUFFICES ASSUME SpoolInv, SplitFailed PROVE SpoolInv' /\ Known' = Known /\ DQStep
  OBVIOUS
<1> DEFINE N == op.name
           T == HalfName(N, 0)
<1>1. /\ up /\ op.call = "split" /\ op \in Call /\ op' = Idle
      /\ UNCHANGED <<up, clock, files, seq, hand, body, made, taken, dropped>>
      /\ temps' \subseteq Name
  BY DEF SplitFailed, WriteFails, Return, SpoolInv, TypeOK, history
<1>2. CASE UNCHANGED <<disk, bad>>
  BY <1>1, <1>2, ReturnStep DEF Quiet, SplitFailed, WriteFails
<1>3. CASE op.half = 1 /\ Unlink(T)
  <2>1. /\ N = hand.name /\ op.docs = hand.docs /\ hand.name # NoName
        /\ N \in DOMAIN body /\ op.docs = body[N] /\ T \in disk
        /\ N \in disk \/ Range(op.docs) \subseteq dropped
    BY <1>1, <1>3 DEF SpoolInv, SplitProgress, HandBacked
  <2>2. N \in Name /\ op.docs \in Seq(Records) /\ T \in DOMAIN body
    BY <2>1 DEF SpoolInv, TypeOK
  <2>3. T \in Name /\ T.sfx # <<>> /\ T # N
    BY <2>2, HalfNames
  <2>4. DocsOf(T) \subseteq DocsOf(N)
    <3>1. PICK nm \in DOMAIN body, h \in {0, 1} :
             T = HalfName(nm, h) /\ body[T] = Half(body[nm], h)
      BY <2>2, <2>3 DEF SpoolInv, PartsMatch
    <3>2. nm \in Name /\ body[nm] \in Seq(Records)
      BY DEF SpoolInv, TypeOK
    <3>3. nm = N
      BY <2>2, <3>1, <3>2, HalfNames
    <3>4. Range(Half(body[nm], h)) \subseteq Range(body[nm])
      BY <3>2, HalfDocs
    <3> QED
      BY <3>1, <3>3, <3>4 DEF DocsOf
  <2>5. /\ disk' \subseteq disk /\ disk \ {T} \subseteq disk'
        /\ bad' \subseteq disk' /\ IsFiniteSet(disk')
        /\ Held' \subseteq Held /\ Held \ Held' \subseteq DocsOf(T)
    BY <1>1, <1>3, UnlinkStep
  <2>6. Held \ Held' \subseteq dropped
    <3>1. CASE N \in disk
      <4>1. N \in disk'
        BY <2>3, <2>5, <3>1
      <4>2. DocsOf(N) \subseteq Held'
        BY <1>1, <4>1 DEF Held, DocsOf
      <4> QED
        BY <2>4, <2>5, <4>2
    <3>2. CASE Range(op.docs) \subseteq dropped
      BY <2>1, <2>4, <2>5, <3>2 DEF DocsOf
    <3> QED
      BY <2>1, <3>1, <3>2
  <2>7. Known' = Known
    BY <1>1, <2>5, <2>6 DEF Known
  <2>8. DQStep
    <3>1. /\ (Held \ Held') \in SUBSET (Held \cup taken \cup dropped)
          /\ dropped' = dropped \cup (Held \ Held')
      BY <1>1, <2>6
    <3> QED
      BY <1>1, <2>5, <3>1 DEF DQStep, DQ!Next, DQ!Drop, DQ!Known
  <2>9. op' \in Call /\ op'.pc = "idle" /\ op'.call = "none"
    BY <1>1, IdleCall
  <2>10. TypeOK'
    BY <1>1, <2>5, <2>9 DEF SpoolInv, TypeOK
  <2>11. CallShape' /\ SplitProgress' /\ ~PutPending' /\ ~PutNamed'
    BY <2>9 DEF CallShape, SplitProgress, PutPending, PutNamed
  <2>12. RecordsKnown' /\ NamesFresh' /\ PartsMatch' /\ IndexWritten'
    BY <1>1, <2>7, <2>11 DEF SpoolInv, RecordsKnown, NamesFresh, PartsMatch, IndexWritten, DocsOf
  <2>13. HandBacked'
    BY <1>1, <2>1, <2>3, <2>5 DEF SpoolInv, HandBacked
  <2> QED
    BY <1>1, <2>7, <2>8, <2>10, <2>11, <2>12, <2>13 DEF SpoolInv
<1> QED
  BY <1>2, <1>3 DEF SplitFailed

\* The batch goes once both halves are there, so no record leaves the disk.
LEMMA SplitDoneInv == SpoolInv /\ SplitDone => SpoolInv' /\ Known' = Known /\ DQStep
<1> SUFFICES ASSUME SpoolInv, SplitDone PROVE SpoolInv' /\ Known' = Known /\ DQStep
  OBVIOUS
<1> DEFINE N == op.name
           part(h) == HalfName(N, h)
<1>1. /\ up /\ op.pc = "swap" /\ op.call = "split" /\ op' = Idle /\ hand' = NoBatch
      /\ Unlink(N)
      /\ UNCHANGED <<up, clock, seq, temps, body, made, taken, dropped>>
  BY DEF SplitDone, Return, history, SpoolInv, CallShape
<1>2. /\ N \in DOMAIN body /\ op.docs = body[N]
      /\ part(0) \in disk /\ part(1) \in disk
  BY <1>1 DEF SpoolInv, SplitProgress, HandBacked
<1>3. /\ N \in Name /\ op.docs \in Seq(Records)
      /\ part(0) \in DOMAIN body /\ part(1) \in DOMAIN body
  BY <1>2 DEF SpoolInv, TypeOK
<1>4. ASSUME NEW h \in {0, 1}
      PROVE  part(h) \in Name /\ part(h) # N /\ body[part(h)] = Half(op.docs, h)
  <2>1. part(h) \in Name /\ part(h) # N /\ part(h).sfx # <<>>
    BY <1>3, HalfNames
  <2>2. PICK nm \in DOMAIN body, g \in {0, 1} :
           part(h) = HalfName(nm, g) /\ body[part(h)] = Half(body[nm], g)
    BY <1>3, <2>1 DEF SpoolInv, PartsMatch
  <2>3. nm \in Name
    BY DEF SpoolInv, TypeOK
  <2>4. nm = N /\ g = h
    BY <1>3, <2>2, <2>3, HalfNames
  <2> QED
    BY <1>2, <2>1, <2>2, <2>4
<1>5. /\ disk' \subseteq disk /\ disk \ {N} \subseteq disk'
      /\ bad' \subseteq disk' /\ IsFiniteSet(disk')
      /\ Held' \subseteq Held /\ Held \ Held' \subseteq DocsOf(N)
  BY <1>1, UnlinkStep
<1>6. Held' = Held
  <2>1. Range(op.docs) \subseteq Range(Half(op.docs, 0)) \cup Range(Half(op.docs, 1))
    BY <1>3, HalvesCover
  <2>2. part(0) \in disk' /\ part(1) \in disk'
    BY <1>2, <1>4, <1>5
  <2>3. DocsOf(part(0)) \subseteq Held' /\ DocsOf(part(1)) \subseteq Held'
    BY <1>1, <2>2 DEF Held, DocsOf
  <2>4. DocsOf(N) \subseteq Held'
    BY <1>2, <1>4, <2>1, <2>3 DEF DocsOf
  <2> QED
    BY <1>5, <2>4
<1>7. Known' = Known /\ DQStep
  BY <1>1, <1>6 DEF Known, DQStep, DQ!vars
<1>8. files' \in Seq([name : Name, n : Nat]) /\ IndexWritten'
  <2>1. files \in Seq(Entry)
    BY IndexEntries DEF SpoolInv, TypeOK
  <2>2. Entry' = Entry
    BY <1>1 DEF Entry
  <2>3. ASSUME NEW h \in {0, 1} PROVE HalfEntry(h) \in Entry
    <3>1. Half(op.docs, h) \in Seq(Records)
      BY <1>3, HalfDocs
    <3>2. Len(Half(op.docs, h)) \in Nat
      BY <3>1
    <3>3. part(h) \in Name /\ part(h) \in DOMAIN body
      BY <1>3, <1>4
    <3> QED
      BY <3>2, <3>3 DEF HalfEntry, Entry
  <2>4. <<HalfEntry(0), HalfEntry(1)>> \in Seq(Entry)
    BY <2>3
  <2>5. PICK i \in DOMAIN files :
           files' = SubSeq(files, 1, i - 1) \o <<HalfEntry(0), HalfEntry(1)>>
                      \o SubSeq(files, i + 1, Len(files))
    BY DEF SplitDone
  <2>6. files' \in Seq(Entry)
    BY <2>1, <2>4, <2>5, SeqSplice
  <2>7. (files \in Seq(Entry) <=> files \in Seq([name : Name, n : Nat]) /\ IndexWritten)'
    BY IndexEntries, PTL
  <2> QED
    BY <2>2, <2>6, <2>7
<1>9. hand' \in [name : Name \cup {NoName}, docs : Seq(Records)] /\ hand'.name = NoName
  BY <1>1 DEF NoBatch
<1>10. op' \in Call /\ op'.pc = "idle" /\ op'.call = "none"
  BY <1>1, IdleCall
<1>11. TypeOK'
  BY <1>1, <1>5, <1>8, <1>9, <1>10 DEF SpoolInv, TypeOK
<1>12. CallShape' /\ SplitProgress' /\ HandBacked' /\ ~PutPending' /\ ~PutNamed'
  BY <1>9, <1>10 DEF CallShape, SplitProgress, HandBacked, PutPending, PutNamed
<1>13. RecordsKnown' /\ NamesFresh' /\ PartsMatch'
  BY <1>1, <1>7, <1>12 DEF SpoolInv, RecordsKnown, NamesFresh, PartsMatch, DocsOf
<1> QED
  BY <1>1, <1>7, <1>8, <1>11, <1>12, <1>13 DEF SpoolInv

----------------------------------------------------------------------------
(* The theorems. *)

\* A fresh spool is an empty queue and satisfies the invariant.
LEMMA InitInv == SpoolInit => SpoolInv /\ DQ!Init
<1> SUFFICES ASSUME SpoolInit PROVE SpoolInv /\ DQ!Init
  OBVIOUS
<1>1. TypeOK
  BY InitType
<1>2. /\ up = TRUE /\ files = <<>> /\ op = Idle /\ hand = NoBatch /\ disk = {}
      /\ DOMAIN body = {} /\ taken = {} /\ dropped = {} /\ made = 0
  BY DEF SpoolInit
<1>3. op.pc = "idle" /\ op.call = "none" /\ hand.name = NoName
  BY <1>2, IdleCall DEF NoBatch
<1>4. Held = {} /\ Known = {}
  BY <1>2 DEF Held, Known
<1>5. CallShape /\ SplitProgress /\ HandBacked /\ ~PutPending /\ ~PutNamed
  BY <1>3 DEF CallShape, SplitProgress, HandBacked, PutPending, PutNamed
<1>6. RecordsKnown /\ NamesFresh /\ PartsMatch /\ IndexWritten
  BY <1>2, <1>4, <1>5 DEF RecordsKnown, NamesFresh, PartsMatch, IndexWritten
<1> QED
  BY <1>1, <1>2, <1>4, <1>5, <1>6 DEF SpoolInv, DQ!Init

\* A step of the spool's client that does not touch it.
LEMMA StutterInv == SpoolInv /\ UNCHANGED spoolVars => SpoolInv' /\ Known' = Known /\ DQStep
<1> SUFFICES ASSUME SpoolInv, UNCHANGED spoolVars PROVE SpoolInv' /\ Known' = Known /\ DQStep
  OBVIOUS
<1>1. Quiet /\ UNCHANGED <<up, clock, files, seq, op, hand, made, bad, temps>>
  BY DEF spoolVars, Quiet, memory, directory, history
<1>2. Held' = Held /\ Known' = Known /\ DQStep
  BY <1>1, QuietStep
<1>3. TypeOK'
  BY <1>1 DEF SpoolInv, TypeOK, Quiet
<1>4. CallShape' /\ SplitProgress' /\ NamesFresh' /\ PartsMatch' /\ HandBacked' /\ IndexWritten'
  BY <1>1 DEF SpoolInv, CallShape, SplitProgress, NamesFresh, PutNamed, PartsMatch,
              HandBacked, IndexWritten, Quiet
<1>5. RecordsKnown'
  BY <1>1, <1>2 DEF SpoolInv, RecordsKnown, PutPending, DocsOf, Quiet
<1> QED
  BY <1>1, <1>2, <1>3, <1>4, <1>5 DEF SpoolInv

\* Every step of a call, of its client or of the surroundings keeps the
\* invariant and is a step of the durable queue or invisible to it.
LEMMA StepInv == SpoolInv /\ [SpoolNext]_spoolVars => SpoolInv' /\ DQStep
<1> SUFFICES ASSUME SpoolInv, [SpoolNext]_spoolVars PROVE SpoolInv' /\ DQStep
  OBVIOUS
<1>1. CASE Put \/ Oldest \/ Remove \/ Split \/ SplitVanished
  BY <1>1, PutInv, OldestInv, RemoveInv, SplitInv, SplitVanishedInv
<1>2. CASE SpoolCall
  BY <1>2, DropsInv, SampleRoomInv, ReturnsInv, NameBatchInv, WriteTempInv,
     RenamePutInv, OldestFoundInv, RenameHalfInv, SplitFailedInv, SplitDoneInv
  DEF SpoolCall
<1>3. CASE Crash \/ OpenSpool \/ Tick \/ Damage
  BY <1>3, CrashInv, OpenSpoolInv, TickInv, DamageInv DEF Crash
<1>4. CASE UNCHANGED spoolVars
  BY <1>4, StutterInv
<1> QED
  BY <1>1, <1>2, <1>3, <1>4 DEF SpoolNext

\* The invariant behind the spool's promise holds of every state that calls of
\* spool.go, crashes between their steps and restarts reach.
THEOREM SpoolInvariant == SpoolSpec => []SpoolInv
<1>1. SpoolInit => SpoolInv
  BY InitInv
<1>2. SpoolInv /\ [SpoolNext]_spoolVars => SpoolInv'
  BY StepInv
<1> QED
  BY <1>1, <1>2, PTL DEF SpoolSpec

\* The variables of spool.go's Spool and the directory keep their types.
THEOREM SpoolTypes == SpoolSpec => []TypeOK
<1>1. SpoolInv => TypeOK
  BY DEF SpoolInv
<1> QED
  BY <1>1, SpoolInvariant, PTL

\* spool.go:23-25, "Nothing else is ever lost here": the spool implements the
\* durable queue.
THEOREM SpoolImplementsDurableQueue == SpoolSpec => ImplementsDurableQueue
<1>1. SpoolInit => DQ!Init
  BY InitInv
<1>2. SpoolInv /\ [SpoolNext]_spoolVars => [DQ!Next]_(DQ!vars)
  BY StepInv DEF DQStep
<1> QED
  BY <1>1, <1>2, SpoolInvariant, PTL DEF SpoolSpec, ImplementsDurableQueue, DQ!Spec
----------------------------------------------------------------------------
(* The order of names. *)

\* Sequences with the same elements are the same.
LEMMA SameSequence ==
    ASSUME NEW S, NEW x \in Seq(S), NEW y \in Seq(S), Len(x) = Len(y),
           \A m \in 1..Len(x) : x[m] = y[m]
    PROVE  x = y
  OBVIOUS

\* Prefix and SfxLess, element by element.
LEMMA SuffixOrder ==
    ASSUME NEW x \in Seq({0, 1}), NEW y \in Seq({0, 1})
    PROVE  /\ Prefix(x, y) <=> Len(x) <= Len(y) /\ \A m \in 1..Len(x) : x[m] = y[m]
           /\ SfxLess(x, y) <=>
                 \/ Prefix(x, y) /\ Len(x) < Len(y)
                 \/ \E k \in 1..Len(x) : /\ k <= Len(y) /\ x[k] < y[k]
                                         /\ \A m \in 1..(k - 1) : x[m] = y[m]
  <1>1. ASSUME Len(x) <= Len(y)
        PROVE  SubSeq(y, 1, Len(x)) = x <=> \A m \in 1..Len(x) : x[m] = y[m]
    <2>1. /\ SubSeq(y, 1, Len(x)) \in Seq({0, 1}) /\ Len(SubSeq(y, 1, Len(x))) = Len(x)
          /\ \A m \in 1..Len(x) : SubSeq(y, 1, Len(x))[m] = y[m]
      BY <1>1
    <2>2. ASSUME \A m \in 1..Len(x) : x[m] = y[m]
          PROVE  SubSeq(y, 1, Len(x)) = x
      BY <1>1, <2>1, <2>2
    <2> QED BY <2>1, <2>2
  <1>2. Prefix(x, y) <=> Len(x) <= Len(y) /\ \A m \in 1..Len(x) : x[m] = y[m]
    BY <1>1, Zenon DEF Prefix
  <1>3. ASSUME NEW k \in 1..Len(x), k <= Len(y)
        PROVE  SubSeq(x, 1, k - 1) = SubSeq(y, 1, k - 1) <=> \A m \in 1..(k - 1) : x[m] = y[m]
    <2>1. /\ SubSeq(x, 1, k - 1) \in Seq({0, 1}) /\ Len(SubSeq(x, 1, k - 1)) = k - 1
          /\ \A m \in 1..(k - 1) : SubSeq(x, 1, k - 1)[m] = x[m]
      BY <1>3
    <2>2. /\ SubSeq(y, 1, k - 1) \in Seq({0, 1}) /\ Len(SubSeq(y, 1, k - 1)) = k - 1
          /\ \A m \in 1..(k - 1) : SubSeq(y, 1, k - 1)[m] = y[m]
      BY <1>3
    <2>3. ASSUME \A m \in 1..(k - 1) : x[m] = y[m]
          PROVE  SubSeq(x, 1, k - 1) = SubSeq(y, 1, k - 1)
      BY <2>1, <2>2, <2>3
    <2> QED BY <2>1, <2>2, <2>3
  <1>4. Prefix(x, y) /\ x # y <=> Prefix(x, y) /\ Len(x) < Len(y)
    BY <1>2
  <1>5. (\E k \in 1..Len(x) : /\ k <= Len(y)
                              /\ SubSeq(x, 1, k - 1) = SubSeq(y, 1, k - 1)
                              /\ x[k] < y[k])
          <=> \E k \in 1..Len(x) : /\ k <= Len(y) /\ x[k] < y[k]
                                   /\ \A m \in 1..(k - 1) : x[m] = y[m]
    BY <1>3, Zenon
  <1> QED BY <1>2, <1>4, <1>5, Zenon DEF SfxLess

\* The suffix of a part's name, element by element.
LEMMA HalfSuffix ==
    ASSUME NEW x \in Name, NEW h \in {0, 1}
    PROVE  /\ HalfName(x, h).t = x.t /\ HalfName(x, h).seq = x.seq
           /\ HalfName(x, h).sfx \in Seq({0, 1})
           /\ Len(HalfName(x, h).sfx) = Len(x.sfx) + 1
           /\ HalfName(x, h).sfx[Len(x.sfx) + 1] = h
           /\ \A m \in 1..Len(x.sfx) : HalfName(x, h).sfx[m] = x.sfx[m]
           /\ x.sfx \in Seq({0, 1}) /\ Len(x.sfx) \in Nat
  BY DEF HalfName, Name

\* Containment is a partial order.
LEMMA ContainsOrder ==
    ASSUME NEW a \in Name, NEW b \in Name, NEW c \in Name
    PROVE  /\ Contains(a, a)
           /\ Contains(a, b) /\ Contains(b, c) => Contains(a, c)
           /\ Contains(a, b) /\ Contains(b, a) => a = b
  <1>1. a.sfx \in Seq({0, 1}) /\ b.sfx \in Seq({0, 1}) /\ c.sfx \in Seq({0, 1})
    BY DEF Name
  <1>2. Contains(a, a)
    BY <1>1, SuffixOrder DEF Contains
  <1>3. Contains(a, b) /\ Contains(b, c) => Contains(a, c)
    <2> SUFFICES ASSUME Contains(a, b), Contains(b, c) PROVE Prefix(a.sfx, c.sfx)
      BY DEF Contains
    <2>1. Prefix(a.sfx, b.sfx) /\ Prefix(b.sfx, c.sfx)
      BY DEF Contains
    <2> QED BY <1>1, <2>1, SuffixOrder
  <1>4. Contains(a, b) /\ Contains(b, a) => a = b
    <2> SUFFICES ASSUME Contains(a, b), Contains(b, a) PROVE a = b
      OBVIOUS
    <2>1. Prefix(a.sfx, b.sfx) /\ Prefix(b.sfx, a.sfx) /\ a.t = b.t /\ a.seq = b.seq
      BY DEF Contains
    <2>2. a.sfx = b.sfx
      BY <1>1, <2>1, SuffixOrder
    <2> QED BY <2>1, <2>2 DEF Name
  <1> QED BY <1>2, <1>3, <1>4

\* The order of names is strict, and a batch sorts before its parts.
LEMMA NameOrder ==
    ASSUME NEW a \in Name, NEW b \in Name
    PROVE  /\ ~NameLess(a, a)
           /\ NameLess(a, b) => ~NameLess(b, a) /\ ~Contains(b, a)
           /\ Contains(a, b) /\ a # b => NameLess(a, b)
  <1>1. /\ a.sfx \in Seq({0, 1}) /\ b.sfx \in Seq({0, 1})
        /\ a.t \in Times /\ b.t \in Times /\ a.seq \in Nat /\ b.seq \in Nat
    BY DEF Name
  <1>2. a.t \in Nat /\ b.t \in Nat
    BY <1>1, SpoolAssumption
  <1>3. ~SfxLess(a.sfx, a.sfx)
    BY <1>1, SuffixOrder
  <1>4. SfxLess(a.sfx, b.sfx) => ~SfxLess(b.sfx, a.sfx) /\ ~Prefix(b.sfx, a.sfx)
    <2> DEFINE x == a.sfx  y == b.sfx
    <2> SUFFICES ASSUME SfxLess(x, y) PROVE ~SfxLess(y, x) /\ ~Prefix(y, x)
      OBVIOUS
    <2>1. CASE Prefix(x, y) /\ Len(x) < Len(y)
      BY <1>1, <2>1, SuffixOrder
    <2>2. ASSUME NEW k \in 1..Len(x), k <= Len(y), x[k] < y[k], \A m \in 1..(k - 1) : x[m] = y[m]
          PROVE  ~SfxLess(y, x) /\ ~Prefix(y, x)
      <3>1. ~Prefix(y, x) /\ ~Prefix(x, y)
        BY <1>1, <2>2, SuffixOrder
      <3>2. ASSUME NEW n \in 1..Len(y), n <= Len(x), y[n] < x[n], \A m \in 1..(n - 1) : y[m] = x[m]
            PROVE  FALSE
        <4>1. n < k \/ n = k \/ k < n
          OBVIOUS
        <4> QED BY <1>1, <2>2, <3>2, <4>1
      <3> QED BY <1>1, <3>1, <3>2, SuffixOrder
    <2> QED BY <1>1, <2>1, <2>2, SuffixOrder
  <1>5. Prefix(a.sfx, b.sfx) /\ a.sfx # b.sfx => SfxLess(a.sfx, b.sfx)
    BY DEF SfxLess
  <1>6. Contains(a, b) /\ a # b => a.sfx # b.sfx
    BY DEF Contains, Name
  <1> QED BY <1>1, <1>2, <1>3, <1>4, <1>5, <1>6 DEF NameLess, Contains

\* What contains a part, and what a batch contains.
LEMMA HalfContains ==
    ASSUME NEW x \in Name, NEW b \in Name, NEW h \in {0, 1}
    PROVE  /\ Contains(x, HalfName(x, h))
           /\ Contains(b, HalfName(x, h)) => b = HalfName(x, h) \/ Contains(b, x)
           /\ Contains(HalfName(x, h), b) => Contains(x, b) /\ b # x
           /\ Contains(x, b) /\ b # x => \E g \in {0, 1} : Contains(HalfName(x, g), b)
  <1> DEFINE y == HalfName(x, h)
  <1>1. /\ b.sfx \in Seq({0, 1}) /\ x.sfx \in Seq({0, 1}) /\ y.sfx \in Seq({0, 1})
        /\ y.t = x.t /\ y.seq = x.seq /\ Len(y.sfx) = Len(x.sfx) + 1 /\ Len(x.sfx) \in Nat
        /\ y.sfx[Len(x.sfx) + 1] = h
        /\ \A m \in 1..Len(x.sfx) : y.sfx[m] = x.sfx[m]
    BY HalfSuffix DEF Name
  <1>2. y \in Name
    BY HalfNames
  <1> HIDE DEF y
  <1>3. Contains(x, y)
    <2>1. Len(x.sfx) <= Len(y.sfx) /\ \A m \in 1..Len(x.sfx) : x.sfx[m] = y.sfx[m]
      BY <1>1
    <2>2. Prefix(x.sfx, y.sfx)
      BY <1>1, <2>1, SuffixOrder, Zenon
    <2> QED BY <1>1, <2>2 DEF Contains
  <1>4. Contains(b, y) => b = y \/ Contains(b, x)
    <2> SUFFICES ASSUME Contains(b, y) PROVE b = y \/ Contains(b, x)
      OBVIOUS
    <2>1. /\ Len(b.sfx) <= Len(y.sfx) /\ \A m \in 1..Len(b.sfx) : b.sfx[m] = y.sfx[m]
          /\ b.t = y.t /\ b.seq = y.seq
      BY <1>1, SuffixOrder DEF Contains
    <2>2. CASE Len(b.sfx) = Len(y.sfx)
      <3>1. b.sfx = y.sfx
        BY <1>1, <2>1, <2>2, SameSequence, Zenon
      <3> QED BY <1>2, <2>1, <3>1 DEF Name
    <2>3. CASE Len(b.sfx) <= Len(x.sfx)
      <3>1. \A m \in 1..Len(b.sfx) : b.sfx[m] = x.sfx[m]
        BY <1>1, <2>1, <2>3
      <3>2. Prefix(b.sfx, x.sfx)
        BY <1>1, <2>3, <3>1, SuffixOrder
      <3> QED BY <1>1, <2>1, <3>2 DEF Contains
    <2>4. Len(b.sfx) \in Nat
      BY <1>1
    <2> QED BY <1>1, <2>1, <2>2, <2>3, <2>4
  <1>5. Contains(y, b) => Contains(x, b) /\ b # x
    <2> SUFFICES ASSUME Contains(y, b) PROVE Contains(x, b) /\ b # x
      OBVIOUS
    <2>1. /\ Len(y.sfx) <= Len(b.sfx) /\ \A m \in 1..Len(y.sfx) : b.sfx[m] = y.sfx[m]
          /\ b.t = y.t /\ b.seq = y.seq
      BY <1>1, SuffixOrder DEF Contains
    <2>2. Len(b.sfx) # Len(x.sfx) /\ Len(x.sfx) <= Len(b.sfx)
      BY <1>1, <2>1
    <2>3. \A m \in 1..Len(x.sfx) : x.sfx[m] = b.sfx[m]
      BY <1>1, <2>1
    <2>4. Prefix(x.sfx, b.sfx)
      BY <1>1, <2>2, <2>3, SuffixOrder
    <2> QED BY <1>1, <2>1, <2>2, <2>4 DEF Contains
  <1>6. ASSUME Contains(x, b), b # x
        PROVE  \E g \in {0, 1} : Contains(HalfName(x, g), b)
    <2> DEFINE k == Len(x.sfx) + 1
    <2>1. /\ Len(x.sfx) <= Len(b.sfx) /\ \A m \in 1..Len(x.sfx) : x.sfx[m] = b.sfx[m]
          /\ b.t = x.t /\ b.seq = x.seq
      BY <1>1, <1>6, SuffixOrder DEF Contains
    <2>2. Len(x.sfx) # Len(b.sfx)
      <3>1. SUFFICES ASSUME Len(x.sfx) = Len(b.sfx) PROVE FALSE
        OBVIOUS
      <3>2. x.sfx = b.sfx
        BY <1>1, <2>1, <3>1
      <3> QED BY <1>6, <2>1, <3>2 DEF Name
    <2>3. k \in 1..Len(b.sfx) /\ b.sfx[k] \in {0, 1}
      BY <1>1, <2>1, <2>2
    <2>4. PICK g \in {0, 1} : b.sfx[k] = g
      BY <2>3
    <2> DEFINE z == HalfName(x, g)
    <2>5. /\ z.sfx \in Seq({0, 1}) /\ z.t = x.t /\ z.seq = x.seq /\ Len(z.sfx) = k
          /\ z.sfx[k] = g /\ \A m \in 1..Len(x.sfx) : z.sfx[m] = x.sfx[m]
      BY HalfSuffix
    <2> HIDE DEF z
    <2>6. Len(z.sfx) <= Len(b.sfx) /\ \A m \in 1..Len(z.sfx) : z.sfx[m] = b.sfx[m]
      <3>1. ASSUME NEW m \in 1..k PROVE z.sfx[m] = b.sfx[m]
        <4>1. m = k \/ m \in 1..Len(x.sfx)
          BY <1>1
        <4> QED BY <2>1, <2>4, <2>5, <4>1
      <3>2. k <= Len(b.sfx)
        BY <1>1, <2>3
      <3> QED BY <2>5, <3>1, <3>2
    <2>7. Prefix(z.sfx, b.sfx)
      BY <1>1, <2>5, <2>6, SuffixOrder, Zenon
    <2>8. Contains(z, b)
      BY <2>1, <2>5, <2>7 DEF Contains
    <2> QED BY <2>8 DEF z
  <1> QED BY <1>3, <1>4, <1>5, <1>6 DEF y

\* Where an extended suffix sorts.
LEMMA LongerSuffix ==
    ASSUME NEW x \in Seq({0, 1}), NEW y \in Seq({0, 1}), NEW b \in Seq({0, 1}),
           Len(y) = Len(x) + 1, \A m \in 1..Len(x) : y[m] = x[m]
    PROVE  /\ SfxLess(x, y)
           /\ SfxLess(b, x) => SfxLess(b, y)
           /\ ~Prefix(x, b) => (SfxLess(y, b) <=> SfxLess(x, b))
           /\ ~Prefix(x, b) /\ SfxLess(b, y) => SfxLess(b, x)
  <1>1. Len(x) \in Nat /\ Len(b) \in Nat
    OBVIOUS
  <1>2. Prefix(x, y)
    <2>1. Len(x) <= Len(y) /\ \A m \in 1..Len(x) : x[m] = y[m]
      BY <1>1
    <2> QED BY <2>1, SuffixOrder, Zenon
  <1>3. SfxLess(x, y)
    BY <1>1, <1>2, SuffixOrder
  <1>4. ASSUME SfxLess(b, x) PROVE SfxLess(b, y)
    <2>1. CASE Prefix(b, x) /\ Len(b) < Len(x)
      <3>1. Len(b) <= Len(x) /\ \A m \in 1..Len(b) : b[m] = x[m]
        BY <2>1, SuffixOrder
      <3>2. Len(b) < Len(y) /\ Len(b) <= Len(y) /\ \A m \in 1..Len(b) : b[m] = y[m]
        BY <1>1, <3>1
      <3> QED BY <3>2, SuffixOrder, Zenon
    <2>2. ASSUME NEW k \in 1..Len(b), k <= Len(x), b[k] < x[k], \A m \in 1..(k - 1) : b[m] = x[m]
          PROVE  SfxLess(b, y)
      <3>1. k <= Len(y) /\ b[k] < y[k] /\ \A m \in 1..(k - 1) : b[m] = y[m]
        BY <1>1, <2>2
      <3> QED BY <3>1, SuffixOrder, Zenon
    <2> QED BY <1>4, <2>1, <2>2, SuffixOrder
  <1>5. ASSUME ~Prefix(x, b), SfxLess(x, b) PROVE SfxLess(y, b)
    <2>1. PICK k \in 1..Len(x) : k <= Len(b) /\ x[k] < b[k] /\ \A m \in 1..(k - 1) : x[m] = b[m]
      BY <1>5, SuffixOrder
    <2>2. k \in 1..Len(y) /\ k <= Len(b) /\ y[k] < b[k] /\ \A m \in 1..(k - 1) : y[m] = b[m]
      BY <1>1, <2>1
    <2> QED BY <2>2, SuffixOrder, Zenon
  <1>6. ASSUME ~Prefix(x, b), NEW k \in 1..Len(y), k <= Len(b), \A m \in 1..(k - 1) : y[m] = b[m]
        PROVE  k \in 1..Len(x)
    <2>1. SUFFICES ASSUME k = Len(x) + 1 PROVE FALSE
      BY <1>1
    <2>2. Len(x) <= Len(b) /\ \A m \in 1..Len(x) : x[m] = b[m]
      BY <1>1, <1>6, <2>1
    <2>3. Prefix(x, b)
      BY <2>2, SuffixOrder, Zenon
    <2> QED BY <1>6, <2>3
  <1>7. ASSUME ~Prefix(x, b), SfxLess(y, b) PROVE SfxLess(x, b)
    <2>1. ~Prefix(y, b)
      <3>1. SUFFICES ASSUME Prefix(y, b) PROVE FALSE
        OBVIOUS
      <3>2. Len(y) <= Len(b) /\ \A m \in 1..Len(y) : y[m] = b[m]
        BY <3>1, SuffixOrder
      <3>3. Len(x) <= Len(b) /\ \A m \in 1..Len(x) : x[m] = b[m]
        BY <1>1, <3>2
      <3>4. Prefix(x, b)
        BY <3>3, SuffixOrder, Zenon
      <3> QED BY <1>7, <3>4
    <2>2. PICK k \in 1..Len(y) : k <= Len(b) /\ y[k] < b[k] /\ \A m \in 1..(k - 1) : y[m] = b[m]
      BY <1>7, <2>1, SuffixOrder
    <2>3. k \in 1..Len(x)
      BY <1>6, <1>7, <2>2
    <2>4. x[k] < b[k] /\ \A m \in 1..(k - 1) : x[m] = b[m]
      BY <1>1, <2>2, <2>3
    <2> QED BY <2>2, <2>3, <2>4, SuffixOrder, Zenon
  <1>8. ASSUME ~Prefix(x, b), SfxLess(b, y) PROVE SfxLess(b, x)
    <2>1. CASE Prefix(b, y) /\ Len(b) < Len(y)
      <3>1. Len(b) <= Len(y) /\ \A m \in 1..Len(b) : b[m] = y[m]
        BY <2>1, SuffixOrder
      <3>2. Len(b) <= Len(x) /\ \A m \in 1..Len(b) : b[m] = x[m]
        BY <1>1, <2>1, <3>1
      <3>3. Len(b) # Len(x)
        <4>1. SUFFICES ASSUME Len(b) = Len(x) PROVE FALSE
          OBVIOUS
        <4>2. b = x
          BY <3>2, <4>1, SameSequence, Zenon
        <4>3. Prefix(x, x)
          BY SuffixOrder
        <4> QED BY <1>8, <4>2, <4>3
      <3>4. Len(b) < Len(x)
        BY <1>1, <3>2, <3>3
      <3> QED BY <3>2, <3>4, SuffixOrder, Zenon
    <2>2. ASSUME NEW k \in 1..Len(b), k <= Len(y), b[k] < y[k], \A m \in 1..(k - 1) : b[m] = y[m]
          PROVE  SfxLess(b, x)
      <3>1. k \in 1..Len(y) /\ k <= Len(b) /\ \A m \in 1..(k - 1) : y[m] = b[m]
        BY <1>1, <2>2
      <3>2. k \in 1..Len(x)
        BY <1>6, <1>8, <3>1
      <3>3. k <= Len(x) /\ b[k] < x[k] /\ \A m \in 1..(k - 1) : b[m] = x[m]
        BY <1>1, <2>2, <3>2
      <3> QED BY <3>3, SuffixOrder, Zenon
    <2> QED BY <1>8, <2>1, <2>2, SuffixOrder
  <1> QED BY <1>3, <1>4, <1>5, <1>7, <1>8

\* Suffixes that part at the element after a common beginning.
LEMMA ApartSuffix ==
    ASSUME NEW x \in Seq({0, 1}), NEW y \in Seq({0, 1}), NEW k \in 1..Len(x), k <= Len(y),
           x[k] = 0, y[k] = 1, \A m \in 1..(k - 1) : x[m] = y[m]
    PROVE  SfxLess(x, y)
  <1>1. x[k] < y[k]
    OBVIOUS
  <1> QED BY <1>1, SuffixOrder, Zenon

\* A part sorts where its batch does, and the first before the second.
LEMMA HalfOrder ==
    ASSUME NEW x \in Name, NEW b \in Name, NEW h \in {0, 1}
    PROVE  /\ NameLess(b, x) => NameLess(b, HalfName(x, h))
           /\ ~Contains(x, b) => (NameLess(HalfName(x, h), b) <=> NameLess(x, b))
           /\ ~Contains(x, b) /\ NameLess(b, HalfName(x, h)) => NameLess(b, x)
           /\ Contains(HalfName(x, 0), b) => NameLess(b, HalfName(x, 1))
           /\ Contains(HalfName(x, 1), b) => NameLess(HalfName(x, 0), b)
  <1> DEFINE y == HalfName(x, h)  y0 == HalfName(x, 0)  y1 == HalfName(x, 1)
  <1>1. /\ b.sfx \in Seq({0, 1}) /\ x.sfx \in Seq({0, 1}) /\ y.sfx \in Seq({0, 1})
        /\ y.t = x.t /\ y.seq = x.seq /\ Len(y.sfx) = Len(x.sfx) + 1 /\ Len(x.sfx) \in Nat
        /\ \A m \in 1..Len(x.sfx) : y.sfx[m] = x.sfx[m]
    BY HalfSuffix DEF Name
  <1>2. /\ y0.sfx \in Seq({0, 1}) /\ y0.t = x.t /\ y0.seq = x.seq
        /\ Len(y0.sfx) = Len(x.sfx) + 1 /\ y0.sfx[Len(x.sfx) + 1] = 0
        /\ \A m \in 1..Len(x.sfx) : y0.sfx[m] = x.sfx[m]
    BY HalfSuffix
  <1>3. /\ y1.sfx \in Seq({0, 1}) /\ y1.t = x.t /\ y1.seq = x.seq
        /\ Len(y1.sfx) = Len(x.sfx) + 1 /\ y1.sfx[Len(x.sfx) + 1] = 1
        /\ \A m \in 1..Len(x.sfx) : y1.sfx[m] = x.sfx[m]
    BY HalfSuffix
  <1> HIDE DEF y, y0, y1
  <1>4. /\ SfxLess(b.sfx, x.sfx) => SfxLess(b.sfx, y.sfx)
        /\ ~Prefix(x.sfx, b.sfx) => (SfxLess(y.sfx, b.sfx) <=> SfxLess(x.sfx, b.sfx))
        /\ ~Prefix(x.sfx, b.sfx) /\ SfxLess(b.sfx, y.sfx) => SfxLess(b.sfx, x.sfx)
    BY <1>1, LongerSuffix
  <1>5. b.t \in Nat /\ x.t \in Nat /\ b.seq \in Nat /\ x.seq \in Nat
    <2>1. b.t \in Times /\ x.t \in Times /\ b.seq \in Nat /\ x.seq \in Nat
      BY DEF Name
    <2> QED BY <2>1, SpoolAssumption
  <1>6. NameLess(b, x) => NameLess(b, y)
    BY <1>1, <1>4, <1>5 DEF NameLess
  <1>7. ~Contains(x, b) => (NameLess(y, b) <=> NameLess(x, b))
    BY <1>1, <1>4, <1>5 DEF NameLess, Contains
  <1>8. ~Contains(x, b) /\ NameLess(b, y) => NameLess(b, x)
    BY <1>1, <1>4, <1>5 DEF NameLess, Contains
  <1> DEFINE k == Len(x.sfx) + 1
  <1>k. /\ k \in Nat /\ k >= 1 /\ Len(b.sfx) \in Nat
        /\ Len(y0.sfx) = k /\ y0.sfx[k] = 0 /\ Len(y1.sfx) = k /\ y1.sfx[k] = 1
    BY <1>1, <1>2, <1>3
  <1> HIDE DEF k
  <1>9. ASSUME Contains(y0, b) PROVE NameLess(b, y1)
    <2>1. /\ Len(y0.sfx) <= Len(b.sfx) /\ \A m \in 1..Len(y0.sfx) : y0.sfx[m] = b.sfx[m]
          /\ b.t = x.t /\ b.seq = x.seq
      BY <1>1, <1>2, <1>9, SuffixOrder DEF Contains
    <2>2. k \in 1..Len(b.sfx) /\ k <= Len(y1.sfx) /\ b.sfx[k] = 0
      BY <1>k, <2>1
    <2>3. \A m \in 1..(k - 1) : b.sfx[m] = y1.sfx[m]
      BY <1>1, <1>2, <1>3, <1>k, <2>1 DEF k
    <2>4. SfxLess(b.sfx, y1.sfx)
      BY <1>1, <1>3, <1>k, <2>2, <2>3, ApartSuffix
    <2> QED BY <1>3, <2>1, <2>4 DEF NameLess
  <1>10. ASSUME Contains(y1, b) PROVE NameLess(y0, b)
    <2>1. /\ Len(y1.sfx) <= Len(b.sfx) /\ \A m \in 1..Len(y1.sfx) : y1.sfx[m] = b.sfx[m]
          /\ b.t = x.t /\ b.seq = x.seq
      BY <1>1, <1>3, <1>10, SuffixOrder DEF Contains
    <2>2. k \in 1..Len(y0.sfx) /\ k <= Len(b.sfx) /\ b.sfx[k] = 1
      BY <1>k, <2>1
    <2>3. \A m \in 1..(k - 1) : y0.sfx[m] = b.sfx[m]
      BY <1>1, <1>2, <1>3, <1>k, <2>1 DEF k
    <2>4. SfxLess(y0.sfx, b.sfx)
      BY <1>1, <1>2, <1>k, <2>2, <2>3, ApartSuffix
    <2> QED BY <1>2, <2>1, <2>4 DEF NameLess
  <1> QED BY <1>6, <1>7, <1>8, <1>9, <1>10 DEF y, y0, y1
----------------------------------------------------------------------------
(* Names tell where the records of a batch stand. *)

\* The first part of a batch has its earlier records (spool.go:288-291).
LEMMA HalvesAscend ==
    ASSUME NEW S \in SUBSET Nat, NEW docs \in Seq(S), Ascends(docs), NEW h \in {0, 1}
    PROVE  /\ Ascends(Half(docs, h))
           /\ AllBefore(Range(Half(docs, 0)), Range(Half(docs, 1)))
  <1> DEFINE mid == Len(docs) \div 2
  <1>1. mid \in Nat /\ mid <= Len(docs) /\ Len(docs) \in Nat
    OBVIOUS
  <1>2. Half(docs, 0) = SubSeq(docs, 1, mid)
    BY DEF Half
  <1>3. Half(docs, 1) = SubSeq(docs, mid + 1, Len(docs))
    BY DEF Half
  <1> HIDE DEF mid
  <1>4. /\ DOMAIN Half(docs, 0) = 1..mid
        /\ \A i \in 1..mid : Half(docs, 0)[i] = docs[i]
    BY <1>1, <1>2
  <1>5. /\ DOMAIN Half(docs, 1) = 1..(Len(docs) - mid)
        /\ \A i \in 1..(Len(docs) - mid) : Half(docs, 1)[i] = docs[i + mid]
    BY <1>1, <1>3
  <1>6. \A i, j \in 1..Len(docs) : i < j => docs[i] < docs[j]
    BY DEF Ascends
  <1>7. Ascends(Half(docs, 0))
    BY <1>1, <1>4, <1>6 DEF Ascends
  <1>8. Ascends(Half(docs, 1))
    BY <1>1, <1>5, <1>6 DEF Ascends
  <1>9. ASSUME NEW i \in 1..mid, NEW j \in 1..(Len(docs) - mid)
        PROVE  Half(docs, 0)[i] < Half(docs, 1)[j]
    <2>1. i \in 1..Len(docs) /\ j + mid \in 1..Len(docs) /\ i < j + mid
      BY <1>1
    <2> QED BY <1>4, <1>5, <1>6, <2>1
  <1>10. AllBefore(Range(Half(docs, 0)), Range(Half(docs, 1)))
    BY <1>4, <1>5, <1>9 DEF AllBefore, Range
  <1> QED BY <1>7, <1>8, <1>10

\* What a rename inside Split changes: the part's name holds the part, as it did if
\* it was written before (spool.go:286-299).
LEMMA HalfLands ==
    ASSUME SpoolInv, RenameHalf
    PROVE  /\ op.call = "split" /\ op.name = hand.name /\ hand.name # NoName /\ op.half \in {0, 1}
           /\ op.name \in DOMAIN body /\ op.name \in Name
           /\ HalfName(op.name, op.half) \in Name
           /\ disk' = disk \cup {HalfName(op.name, op.half)}
           /\ temps' = temps \ {HalfName(op.name, op.half)}
           /\ DOMAIN body' = DOMAIN body \cup {HalfName(op.name, op.half)}
           /\ \A nm \in DOMAIN body : body'[nm] = body[nm]
           /\ body'[HalfName(op.name, op.half)] = Half(body[op.name], op.half)
           /\ UNCHANGED <<up, clock, files, hand, dropped>>
           /\ op'.call = "split" /\ op'.name = op.name /\ op'.half = 1
           /\ op'.pc = "swap" => op.half = 1
           /\ op'.pc # "rename"
  <1> DEFINE N == op.name
             T == HalfName(N, op.half)
             C == Half(op.docs, op.half)
  <1>1. /\ up /\ op.call = "split" /\ op.pc = "rename" /\ op \in Call
        /\ Target = T /\ Content = C
        /\ UNCHANGED <<up, clock, files, hand, dropped>>
    BY DEF RenameHalf, Land, Target, Content, SpoolInv, TypeOK, history
  <1>2. /\ temps' = temps \ {T} /\ disk' = disk \cup {T}
        /\ body' = [nm \in DOMAIN body \cup {T} |-> IF nm = T THEN C ELSE body[nm]]
    BY <1>1 DEF RenameHalf, Land
  <1>3. /\ N = hand.name /\ op.docs = hand.docs /\ N \in DOMAIN body
        /\ op.docs = body[N] /\ op.half \in {0, 1} /\ hand.name # NoName
    BY <1>1 DEF SpoolInv, SplitProgress, HandBacked, Call
  <1>4. N \in Name
    BY <1>3 DEF SpoolInv, TypeOK
  <1>5. T \in Name /\ T.sfx # <<>>
    BY <1>3, <1>4, HalfNames
  <1> HIDE DEF T, C
  <1>6. T \in DOMAIN body => body[T] = C
    <2> SUFFICES ASSUME T \in DOMAIN body PROVE body[T] = C
      OBVIOUS
    <2>1. PICK nm \in DOMAIN body, h \in {0, 1} :
             T = HalfName(nm, h) /\ body[T] = Half(body[nm], h)
      BY <1>5 DEF SpoolInv, PartsMatch
    <2>2. nm \in Name
      BY DEF SpoolInv, TypeOK
    <2>3. nm = N /\ h = op.half
      BY <1>3, <1>4, <2>1, <2>2, HalfNames DEF T
    <2> QED BY <1>3, <2>1, <2>3 DEF C
  <1>7. /\ DOMAIN body' = DOMAIN body \cup {T} /\ body'[T] = C
        /\ \A nm \in DOMAIN body : body'[nm] = body[nm]
    BY <1>2, <1>6
  <1>8. /\ op'.call = "split" /\ op'.name = N /\ op'.half = 1
        /\ op'.pc = "swap" => op.half = 1
        /\ op'.pc # "rename"
    <2>1. CASE op.half = 0
      <3>1. op' = [op EXCEPT !.pc = "write", !.half = 1]
        BY <2>1 DEF RenameHalf
      <3> QED BY <1>1, <3>1 DEF Call
    <2>2. CASE op.half = 1
      <3>1. op' = [op EXCEPT !.pc = "swap"]
        BY <2>2 DEF RenameHalf
      <3> QED BY <1>1, <2>2, <3>1 DEF Call
    <2> QED BY <1>3, <2>1, <2>2
  <1> QED BY <1>1, <1>2, <1>3, <1>4, <1>5, <1>7, <1>8 DEF T, C

\* A batch that was written has its ancestors written.
LEMMA Ancestors ==
    ASSUME TypeOK, BodiesAscend, NEW a \in Name, NEW b \in DOMAIN body, Contains(a, b)
    PROVE  a \in DOMAIN body
  <1>1. b \in Name
    BY DEF TypeOK
  <1>2. a.sfx \in Seq({0, 1}) /\ b.sfx \in Seq({0, 1})
    BY <1>1 DEF Name
  <1>3. Len(a.sfx) \in 0..Len(b.sfx) /\ SubSeq(b.sfx, 1, Len(a.sfx)) = a.sfx
    BY <1>2 DEF Contains, Prefix
  <1>4. Parent(b, Len(a.sfx)) \in DOMAIN body
    BY <1>3 DEF BodiesAscend
  <1>5. Parent(b, Len(a.sfx)) = a
    BY <1>1, <1>3 DEF Parent, Contains, Name
  <1> QED BY <1>4, <1>5

\* What the rename of a Put changes: a new name, after all that were written.
LEMMA PutLands ==
    ASSUME SpoolInv, BodiesAscend, RenamePut
    PROVE  /\ up /\ op.call = "put" /\ PutPending /\ op.name \in Name /\ op.name \notin DOMAIN body
           /\ op.name.sfx = <<>> /\ op.name.t = clock
           /\ disk' = disk \cup {op.name} /\ temps' = temps \ {op.name}
           /\ DOMAIN body' = DOMAIN body \cup {op.name} /\ body'[op.name] = op.docs
           /\ \A nm \in DOMAIN body : body'[nm] = body[nm]
           /\ files' = Append(files, [name |-> op.name, n |-> Len(op.docs)])
           /\ UNCHANGED <<up, clock, hand, dropped>>
           /\ op'.call = "put" /\ op'.pc = "enforce"
           /\ \A nm \in DOMAIN body : nm.t < op.name.t \/ (nm.t = op.name.t /\ nm.seq < op.name.seq)
  <1>1. /\ up /\ op.call = "put" /\ op.pc = "rename" /\ op \in Call /\ Target = op.name /\ Content = op.docs
        /\ UNCHANGED <<up, clock, seq, hand, dropped>>
    BY DEF RenamePut, Land, Target, Content, SpoolInv, TypeOK, history
  <1>2. /\ temps' = temps \ {op.name} /\ disk' = disk \cup {op.name}
        /\ body' = [nm \in DOMAIN body \cup {op.name} |-> IF nm = op.name THEN op.docs ELSE body[nm]]
        /\ files' = Append(files, [name |-> op.name, n |-> Len(op.docs)])
    BY <1>1 DEF RenamePut, Land
  <1>3. op.name = [t |-> clock, seq |-> seq, sfx |-> <<>>] /\ op.name \notin DOMAIN body
    BY <1>1 DEF SpoolInv, NamesFresh, PutNamed
  <1>4. op.name.t = clock /\ op.name.seq = seq /\ op.name.sfx = <<>>
    BY <1>3
  <1>5. clock \in Times /\ clock \in Nat /\ seq \in Nat
    BY SpoolAssumption DEF SpoolInv, TypeOK
  <1>6. op.name \in Name
    BY <1>3, <1>5 DEF Name
  <1>7. op' = [op EXCEPT !.pc = "enforce"]
    BY DEF RenamePut, Goto
  <1>8. op'.call = "put" /\ op'.pc = "enforce"
    BY <1>1, <1>7 DEF Call
  <1>9. ASSUME NEW nm \in DOMAIN body
        PROVE  nm.t < op.name.t \/ (nm.t = op.name.t /\ nm.seq < op.name.seq)
    <2>1. nm \in Name /\ nm.t \in Nat /\ nm.seq \in Nat
      <3>1. nm \in Name
        BY DEF SpoolInv, TypeOK
      <3> QED BY <3>1, SpoolAssumption DEF Name
    <2>2. nm.t <= clock /\ (nm.t = clock => nm.seq <= seq)
      BY <1>1 DEF BodiesAscend, SpoolInv, NamesFresh
    <2>3. ~(nm.t = clock /\ nm.seq = seq)
      <3>1. SUFFICES ASSUME nm.t = clock, nm.seq = seq PROVE FALSE
        OBVIOUS
      <3>2. nm.sfx \in Seq({0, 1})
        BY <2>1 DEF Name
      <3>3. Prefix(<<>>, nm.sfx)
        <4>1. <<>> \in Seq({0, 1}) /\ Len(<<>>) = 0 /\ Len(<<>>) <= Len(nm.sfx)
          BY <3>2
        <4>2. \A m \in 1..Len(<<>>) : <<>>[m] = nm.sfx[m]
          BY <4>1
        <4> QED BY <3>2, <4>1, <4>2, SuffixOrder, Zenon
      <3>4. Contains(op.name, nm)
        BY <1>4, <3>1, <3>3 DEF Contains
      <3> QED BY <1>3, <1>6, <3>4, Ancestors DEF SpoolInv
    <2> QED BY <1>4, <1>5, <2>1, <2>2, <2>3
  <1>10. PutPending
    BY <1>1 DEF PutPending
  <1> QED BY <1>1, <1>2, <1>3, <1>4, <1>6, <1>8, <1>9, <1>10

\* Names in order, of batches put at different times or numbers.
LEMMA EarlierNames ==
    ASSUME NEW a \in Name, NEW b \in Name, a.t < b.t \/ (a.t = b.t /\ a.seq < b.seq)
    PROVE  NameLess(a, b) /\ ~Contains(a, b) /\ ~Contains(b, a) /\ ~NameLess(b, a) /\ a # b
  <1>1. a.t \in Nat /\ b.t \in Nat /\ a.seq \in Nat /\ b.seq \in Nat
    <2>1. a.t \in Times /\ b.t \in Times /\ a.seq \in Nat /\ b.seq \in Nat
      BY DEF Name
    <2> QED BY <2>1, SpoolAssumption
  <1> QED BY <1>1 DEF NameLess, Contains

\* A Put's name tells where its records stand.
LEMMA PutTells ==
    ASSUME SpoolInv, NamesTell, BodiesAscend, RenamePut
    PROVE  NamesTell'
  <1>1. /\ PutPending /\ op.name \in Name
        /\ DOMAIN body' = DOMAIN body \cup {op.name} /\ body'[op.name] = op.docs
        /\ \A nm \in DOMAIN body : body'[nm] = body[nm]
        /\ \A nm \in DOMAIN body : nm.t < op.name.t \/ (nm.t = op.name.t /\ nm.seq < op.name.seq)
    BY PutLands
  <1>2. \A nm \in DOMAIN body : nm \in Name
    BY DEF SpoolInv, TypeOK
  <1>3. \A nm \in DOMAIN body : Range(body'[nm]) = DocsOf(nm)
    BY <1>1 DEF DocsOf
  <1>4. SUFFICES ASSUME NEW a \in DOMAIN body', NEW b \in DOMAIN body'
                 PROVE  /\ Contains(a, b) => Range(body'[b]) \subseteq Range(body'[a])
                        /\ NameLess(a, b) /\ ~Contains(a, b) =>
                              AllBefore(Range(body'[a]), Range(body'[b]))
    BY DEF NamesTell, DocsOf
  <1>5. CASE a \in DOMAIN body /\ b \in DOMAIN body
    BY <1>3, <1>5 DEF NamesTell
  <1>6. CASE a \in DOMAIN body /\ b = op.name
    <2>1. ~Contains(a, b)
      BY <1>1, <1>2, <1>6, EarlierNames
    <2>2. AllBefore(DocsOf(a), Range(op.docs))
      BY <1>1, <1>6 DEF BodiesAscend
    <2> QED BY <1>1, <1>3, <1>6, <2>1, <2>2
  <1>7. CASE a = op.name /\ b \in DOMAIN body
    BY <1>1, <1>2, <1>7, EarlierNames
  <1>8. CASE a = op.name /\ b = op.name
    BY <1>1, <1>8, NameOrder
  <1> QED BY <1>1, <1>4, <1>5, <1>6, <1>7, <1>8

\* A part's name tells where its records stand.
LEMMA HalfTells ==
    ASSUME SpoolInv, NamesTell, BodiesAscend, RenameHalf
    PROVE  NamesTell'
  <1> DEFINE X == op.name
             T == HalfName(op.name, op.half)
  <1>1. /\ X \in DOMAIN body /\ X \in Name /\ T \in Name /\ op.half \in {0, 1}
        /\ DOMAIN body' = DOMAIN body \cup {T}
        /\ \A nm \in DOMAIN body : body'[nm] = body[nm]
        /\ body'[T] = Half(body[X], op.half)
    BY HalfLands
  <1>2. \A nm \in DOMAIN body : nm \in Name
    BY DEF SpoolInv, TypeOK
  <1>3. \A nm \in DOMAIN body : Range(body'[nm]) = DocsOf(nm)
    BY <1>1 DEF DocsOf
  <1>4. body[X] \in Seq(Records) /\ Records \in SUBSET Nat /\ Ascends(body[X])
    BY <1>1, SpoolAssumption DEF SpoolInv, TypeOK, BodiesAscend, Records
  <1>5. /\ Range(Half(body[X], op.half)) \subseteq DocsOf(X)
        /\ AllBefore(Range(Half(body[X], 0)), Range(Half(body[X], 1)))
    BY <1>1, <1>4, HalfDocs, HalvesAscend DEF DocsOf
  <1>6. ASSUME NEW g \in {0, 1}, NEW b \in DOMAIN body, Contains(HalfName(X, g), b)
        PROVE  DocsOf(b) \subseteq Range(Half(body[X], g))
    <2>1. HalfName(X, g) \in Name /\ HalfName(X, g).sfx # <<>>
      BY <1>1, HalfNames
    <2>2. HalfName(X, g) \in DOMAIN body
      BY <1>6, <2>1, Ancestors DEF SpoolInv
    <2>3. DocsOf(b) \subseteq DocsOf(HalfName(X, g))
      BY <1>6, <2>2 DEF NamesTell
    <2>4. PICK nm \in DOMAIN body, h \in {0, 1} :
             HalfName(X, g) = HalfName(nm, h) /\ body[HalfName(X, g)] = Half(body[nm], h)
      BY <2>1, <2>2 DEF SpoolInv, PartsMatch
    <2>5. nm = X /\ h = g
      BY <1>1, <1>2, <2>4, HalfNames
    <2> QED BY <2>3, <2>4, <2>5 DEF DocsOf
  <1> HIDE DEF T
  <1>7. SUFFICES ASSUME NEW a \in DOMAIN body', NEW b \in DOMAIN body'
                 PROVE  /\ Contains(a, b) => Range(body'[b]) \subseteq Range(body'[a])
                        /\ NameLess(a, b) /\ ~Contains(a, b) =>
                              AllBefore(Range(body'[a]), Range(body'[b]))
    BY DEF NamesTell, DocsOf
  <1>8. CASE a \in DOMAIN body /\ b \in DOMAIN body
    BY <1>3, <1>8 DEF NamesTell
  <1>9. CASE a = T /\ b = T
    BY <1>1, <1>9, NameOrder
  <1>10. CASE T \notin DOMAIN body /\ a \in DOMAIN body /\ b = T
    <2>1. ASSUME Contains(a, T) PROVE Range(body'[T]) \subseteq Range(body'[a])
      <3>1. Contains(a, X)
        BY <1>1, <1>2, <1>10, <2>1, HalfContains DEF T
      <3>2. DocsOf(X) \subseteq DocsOf(a)
        BY <1>1, <1>10, <3>1 DEF NamesTell
      <3> QED BY <1>1, <1>3, <1>5, <1>10, <3>2
    <2>2. ASSUME NameLess(a, T), ~Contains(a, T) PROVE AllBefore(DocsOf(a), Range(body'[T]))
      <3>1. CASE ~Contains(X, a)
        <4>1. NameLess(a, X)
          BY <1>1, <1>2, <1>10, <2>2, <3>1, HalfOrder DEF T
        <4>2. ~Contains(a, X)
          <5>1. Contains(X, T)
            BY <1>1, HalfContains DEF T
          <5> QED BY <1>1, <1>2, <1>10, <2>2, <5>1, ContainsOrder
        <4>3. AllBefore(DocsOf(a), DocsOf(X))
          BY <1>1, <1>10, <4>1, <4>2 DEF NamesTell
        <4> QED BY <1>1, <1>5, <4>3 DEF AllBefore
      <3>2. CASE Contains(X, a)
        <4>1. a # X
          BY <1>1, <2>2, HalfContains DEF T
        <4>2. PICK g \in {0, 1} : Contains(HalfName(X, g), a)
          BY <1>1, <1>2, <1>10, <3>2, <4>1, HalfContains
        <4>3. g # op.half
          <5>1. SUFFICES ASSUME Contains(T, a) PROVE FALSE
            BY <4>2 DEF T
          <5> QED BY <1>1, <1>2, <1>10, <5>1, Ancestors DEF SpoolInv
        <4>4. ~(g = 1 /\ op.half = 0)
          <5>1. SUFFICES ASSUME Contains(HalfName(X, 1), a), T = HalfName(X, 0) PROVE FALSE
            BY <4>2 DEF T
          <5>2. NameLess(T, a)
            BY <1>1, <1>2, <1>10, <5>1, HalfOrder
          <5> QED BY <1>1, <1>2, <1>10, <2>2, <5>2, NameOrder
        <4>5. g = 0 /\ op.half = 1
          BY <1>1, <4>3, <4>4
        <4>6. DocsOf(a) \subseteq Range(Half(body[X], 0))
          BY <1>6, <1>10, <4>2, <4>5
        <4> QED BY <1>1, <1>5, <4>5, <4>6 DEF AllBefore
      <3> QED BY <3>1, <3>2
    <2> QED BY <1>3, <1>10, <2>1, <2>2
  <1>11. CASE T \notin DOMAIN body /\ a = T /\ b \in DOMAIN body
    <2>1. ~Contains(T, b)
      BY <1>1, <1>11, Ancestors DEF SpoolInv
    <2>2. ASSUME NameLess(T, b) PROVE AllBefore(Range(body'[T]), DocsOf(b))
      <3>1. CASE ~Contains(X, b)
        <4>1. NameLess(X, b)
          BY <1>1, <1>2, <1>11, <2>2, <3>1, HalfOrder DEF T
        <4>2. AllBefore(DocsOf(X), DocsOf(b))
          BY <1>1, <1>11, <3>1, <4>1 DEF NamesTell
        <4> QED BY <1>1, <1>5, <4>2 DEF AllBefore
      <3>2. CASE Contains(X, b)
        <4>1. b # X
          <5>1. Contains(X, T)
            BY <1>1, HalfContains DEF T
          <5> QED BY <1>1, <2>2, <5>1, NameOrder
        <4>2. PICK g \in {0, 1} : Contains(HalfName(X, g), b)
          BY <1>1, <1>2, <1>11, <3>2, <4>1, HalfContains
        <4>3. g # op.half
          BY <2>1, <4>2 DEF T
        <4>4. ~(g = 0 /\ op.half = 1)
          <5>1. SUFFICES ASSUME Contains(HalfName(X, 0), b), T = HalfName(X, 1) PROVE FALSE
            BY <4>2 DEF T
          <5>2. NameLess(b, T)
            BY <1>1, <1>2, <1>11, <5>1, HalfOrder
          <5> QED BY <1>1, <1>2, <1>11, <2>2, <5>2, NameOrder
        <4>5. g = 1 /\ op.half = 0
          BY <1>1, <4>3, <4>4
        <4>6. DocsOf(b) \subseteq Range(Half(body[X], 1))
          BY <1>6, <1>11, <4>2, <4>5
        <4> QED BY <1>1, <1>5, <4>5, <4>6 DEF AllBefore
      <3> QED BY <3>1, <3>2
    <2> QED BY <1>3, <1>11, <2>1, <2>2
  <1> QED BY <1>1, <1>7, <1>8, <1>9, <1>10, <1>11

\* Which steps write bodies, and which move the clock.
LEMMA BodySteps ==
    ASSUME SpoolInv, [SpoolNext]_spoolVars
    PROVE  /\ body' = body \/ RenamePut \/ RenameHalf
           /\ clock' = clock \/ Tick \/ OpenSpool
  <1>1. CASE Put \/ Oldest \/ Remove \/ Split \/ SplitVanished
    BY <1>1, Zenon DEF Put, Oldest, Remove, Split, SplitVanished, directory
  <1>2. CASE SpoolCall
    BY <1>2, Zenon DEF SpoolCall, Expire, SampleRoom, MakeRoom, PutLowDisk, NameBatch, WriteTemp,
       RenamePut, PutFailed, Enforce, PutDone, SkipCorrupt, OldestFound, OldestEmpty, RenameHalf,
       SplitFailed, SplitDone, directory
  <1>3. CASE Crash \/ OpenSpool \/ Tick \/ Damage
    BY <1>3, Zenon DEF Crash, ProcessEnds, OpenSpool, Tick, Damage, directory
  <1>4. CASE UNCHANGED spoolVars
    BY <1>4, Zenon DEF spoolVars, directory
  <1> QED BY <1>1, <1>2, <1>3, <1>4, Zenon DEF SpoolNext

\* A Put under way was called now or before, with the same records, and nothing was
\* written since.
LEMMA PutSteps ==
    ASSUME SpoolInv, [SpoolNext]_spoolVars, PutPending'
    PROVE  Put \/ (PutPending /\ op'.docs = op.docs /\ body' = body)
  <1>1. op'.call = "put" /\ op'.pc \in {"expire", "room", "write", "rename"}
    BY DEF PutPending
  <1>2. op \in Call
    BY DEF SpoolInv, TypeOK
  <1>3. CASE Oldest \/ Split
    BY <1>1, <1>3 DEF Oldest, Split, Begin
  <1>4. CASE PutLowDisk \/ PutFailed \/ PutDone \/ OldestFound \/ OldestEmpty \/ SplitFailed
             \/ SplitDone \/ Crash
    <2>1. op' = Idle
      BY <1>4, Zenon DEF PutLowDisk, PutFailed, PutDone, OldestFound, OldestEmpty, SplitFailed,
         SplitDone, Crash, ProcessEnds, Return
    <2> QED BY <1>1, <2>1, IdleCall
  <1>5. CASE Remove \/ SplitVanished \/ Expire \/ Enforce \/ SkipCorrupt \/ OpenSpool \/ Tick \/ Damage
             \/ UNCHANGED spoolVars
    <2>1. op' = op /\ body' = body
      BY <1>5, Zenon DEF Remove, SplitVanished, Expire, Enforce, SkipCorrupt, OpenSpool, Tick, Damage,
         spoolVars, memory, directory
    <2> QED BY <1>1, <2>1 DEF PutPending
  <1>6. CASE SampleRoom \/ MakeRoom \/ NameBatch
    <2>1. body' = body /\ op.call = "put" /\ op.pc \in {"expire", "room"} /\ op'.docs = op.docs
      <3>1. CASE SampleRoom
        BY <1>2, <3>1 DEF SampleRoom, NoneExpired, Call, directory
      <3>2. CASE MakeRoom
        BY <1>2, <3>2 DEF MakeRoom, ShortOfRoom, Call, SpoolInv, CallShape
      <3>3. CASE NameBatch
        BY <1>2, <3>3 DEF NameBatch, Call, SpoolInv, CallShape, directory
      <3> QED BY <1>6, <3>1, <3>2, <3>3
    <2> QED BY <2>1 DEF PutPending
  <1>7. CASE WriteTemp
    <2>1. op' = [op EXCEPT !.pc = "rename"] /\ op.pc = "write" /\ body' = body
      BY <1>7 DEF WriteTemp, Goto
    <2> QED BY <1>1, <1>2, <2>1 DEF PutPending, Call
  <1>8. CASE RenamePut
    <2>1. op' = [op EXCEPT !.pc = "enforce"]
      BY <1>8 DEF RenamePut, Goto
    <2> QED BY <1>1, <1>2, <2>1 DEF Call
  <1>9. CASE RenameHalf
    BY <1>1, <1>9, HalfLands
  <1> QED BY <1>3, <1>4, <1>5, <1>6, <1>7, <1>8, <1>9, Zenon DEF SpoolNext, SpoolCall

\* Time goes on.
LEMMA ClockSteps ==
    ASSUME SpoolInv, ~StepBack, [SpoolNext]_spoolVars
    PROVE  clock \in Nat /\ clock' \in Nat /\ clock <= clock'
  <1>1. clock \in Nat
    BY SpoolAssumption DEF SpoolInv, TypeOK
  <1>2. CASE clock' = clock
    BY <1>1, <1>2
  <1>3. CASE Tick \/ OpenSpool
    <2>1. PICK c \in Times : Reading(c) /\ clock' = c
      BY <1>3 DEF Tick, OpenSpool
    <2>2. c \in Nat /\ c > clock
      BY <2>1, SpoolAssumption DEF Reading
    <2> QED BY <1>1, <2>1, <2>2
  <1> QED BY <1>2, <1>3, BodySteps

\* Bodies ascend after every step.
LEMMA AscendSteps ==
    ASSUME SpoolInv, BodiesAscend, ~StepBack, [SpoolNext]_spoolVars
    PROVE  BodiesAscend'
  <1>0. \A nm \in DOMAIN body : nm \in Name /\ nm.t \in Nat
    <2>1. \A nm \in DOMAIN body : nm \in Name
      BY DEF SpoolInv, TypeOK
    <2> QED BY <2>1, SpoolAssumption DEF Name
  <1>1. clock \in Nat /\ clock' \in Nat /\ clock <= clock'
    BY ClockSteps
  <1>2. /\ \A nm \in DOMAIN body' : Ascends(body'[nm])
        /\ \A nm \in DOMAIN body' : \A k \in 0..Len(nm.sfx) : Parent(nm, k) \in DOMAIN body'
        /\ \A nm \in DOMAIN body' : nm.t <= clock'
    <2>1. CASE body' = body
      BY <1>0, <1>1, <2>1 DEF BodiesAscend
    <2>2. CASE RenamePut
      <3>1. /\ DOMAIN body' = DOMAIN body \cup {op.name} /\ body'[op.name] = op.docs /\ PutPending
            /\ \A nm \in DOMAIN body : body'[nm] = body[nm]
            /\ op.name \in Name /\ op.name.sfx = <<>> /\ op.name.t = clock
        BY <2>2, PutLands
      <3>2. Ascends(op.docs)
        BY <3>1 DEF BodiesAscend
      <3>3. \A k \in 0..Len(op.name.sfx) : Parent(op.name, k) = op.name
        BY <3>1 DEF Parent, Name
      <3>4. \A nm \in DOMAIN body' : Ascends(body'[nm])
        BY <3>1, <3>2 DEF BodiesAscend
      <3>5. \A nm \in DOMAIN body' : \A k \in 0..Len(nm.sfx) : Parent(nm, k) \in DOMAIN body'
        BY <3>1, <3>3 DEF BodiesAscend
      <3>6. \A nm \in DOMAIN body' : nm.t <= clock'
        BY <1>0, <1>1, <3>1 DEF BodiesAscend
      <3> QED BY <3>4, <3>5, <3>6
    <2>3. CASE RenameHalf
      <3> DEFINE X == op.name
                 T == HalfName(op.name, op.half)
      <3>1. /\ X \in DOMAIN body /\ X \in Name /\ T \in Name /\ op.half \in {0, 1}
            /\ DOMAIN body' = DOMAIN body \cup {T}
            /\ \A nm \in DOMAIN body : body'[nm] = body[nm]
            /\ body'[T] = Half(body[X], op.half)
        BY <2>3, HalfLands
      <3>2. Ascends(body'[T])
        <4>1. body[X] \in Seq(Records) /\ Records \in SUBSET Nat /\ Ascends(body[X])
          BY <3>1, SpoolAssumption DEF SpoolInv, TypeOK, BodiesAscend, Records
        <4> QED BY <3>1, <4>1, HalvesAscend
      <3>3. ASSUME NEW k \in 0..Len(T.sfx) PROVE Parent(T, k) \in DOMAIN body'
        <4>1. /\ T.sfx = Append(X.sfx, op.half) /\ T.t = X.t /\ T.seq = X.seq
              /\ X.sfx \in Seq({0, 1}) /\ T.sfx \in Seq({0, 1}) /\ Len(T.sfx) = Len(X.sfx) + 1
          BY <3>1 DEF HalfName, Name
        <4>2. CASE k <= Len(X.sfx)
          <5>1. SubSeq(T.sfx, 1, k) = SubSeq(X.sfx, 1, k)
            BY <4>1, <4>2
          <5>2. Parent(T, k) = Parent(X, k)
            BY <3>1, <4>1, <5>1 DEF Parent, Name
          <5>3. k \in 0..Len(X.sfx)
            BY <4>1, <4>2
          <5> QED BY <3>1, <5>2, <5>3 DEF BodiesAscend
        <4>3. CASE k = Len(T.sfx)
          <5>1. SubSeq(T.sfx, 1, k) = T.sfx
            BY <4>1, <4>3
          <5>2. Parent(T, k) = T
            BY <3>1, <5>1 DEF Parent, Name
          <5> QED BY <3>1, <5>2
        <4> QED BY <4>1, <4>2, <4>3
      <3>4. T.t <= clock'
        <4>1. T.t = X.t
          BY DEF HalfName
        <4> QED BY <1>0, <1>1, <3>1, <4>1 DEF BodiesAscend
      <3> HIDE DEF T
      <3>5. \A nm \in DOMAIN body' : Ascends(body'[nm])
        BY <3>1, <3>2 DEF BodiesAscend
      <3>6. \A nm \in DOMAIN body' : \A k \in 0..Len(nm.sfx) : Parent(nm, k) \in DOMAIN body'
        BY <3>1, <3>3 DEF BodiesAscend
      <3>7. \A nm \in DOMAIN body' : nm.t <= clock'
        BY <1>0, <1>1, <3>1, <3>4 DEF BodiesAscend
      <3> QED BY <3>5, <3>6, <3>7
    <2> QED BY <2>1, <2>2, <2>3, BodySteps
  <1>3. ASSUME PutPending'
        PROVE  Ascends(op'.docs) /\ \A nm \in DOMAIN body' : AllBefore(Range(body'[nm]), Range(op'.docs))
    <2>1. CASE PutPending /\ op'.docs = op.docs /\ body' = body
      BY <2>1 DEF BodiesAscend, DocsOf
    <2>2. CASE Put
      <3>1. PICK k \in 1..MaxBatch : PutCall([i \in 1..k |-> made + i]) /\ UNCHANGED directory
        BY <2>2 DEF Put
      <3>2. op'.docs = [i \in 1..k |-> made + i] /\ body' = body
        BY <3>1 DEF PutCall, Begin, directory
      <3>3. made \in Nat /\ k \in Nat
        BY SpoolAssumption DEF SpoolInv, TypeOK
      <3>4. Ascends(op'.docs)
        BY <3>2, <3>3 DEF Ascends
      <3>5. Range(op'.docs) \subseteq {m \in Nat : m > made}
        BY <3>2, <3>3 DEF Range
      <3>6. \A nm \in DOMAIN body : DocsOf(nm) \subseteq 1..made
        BY DEF SpoolInv, RecordsKnown
      <3>7. \A nm \in DOMAIN body : AllBefore(DocsOf(nm), Range(op'.docs))
        BY <3>3, <3>5, <3>6 DEF AllBefore
      <3> QED BY <3>2, <3>4, <3>7 DEF DocsOf
    <2> QED BY <1>3, <2>1, <2>2, PutSteps
  <1> QED BY <1>2, <1>3 DEF BodiesAscend, DocsOf

----------------------------------------------------------------------------
(* The order of an index. *)

Index == Seq([name : Name, n : Nat])

\* The entries left when one is cut out, and their places.
Old(p, k) == IF k < p THEN k ELSE k + 1

\* Where the entries of an index are once one is cut out (spool.go:249).
LEMMA CutPositions ==
    ASSUME NEW S, NEW s \in Seq(S), NEW p \in DOMAIN s
    PROVE  /\ DOMAIN Without(s, p) = 1..(Len(s) - 1)
           /\ \A k \in 1..(Len(s) - 1) :
                 Old(p, k) \in DOMAIN s /\ Old(p, k) # p /\ Without(s, p)[k] = s[Old(p, k)]
           /\ \A m \in DOMAIN s : m # p => \E k \in 1..(Len(s) - 1) : Old(p, k) = m
           /\ \A i, j \in 1..(Len(s) - 1) : i < j <=> Old(p, i) < Old(p, j)
  <1>1. p \in 1..Len(s) /\ Len(s) \in Nat
    OBVIOUS
  <1>2. /\ SubSeq(s, 1, p - 1) \in Seq(S) /\ Len(SubSeq(s, 1, p - 1)) = p - 1
        /\ \A k \in 1..(p - 1) : SubSeq(s, 1, p - 1)[k] = s[k]
    BY <1>1
  <1>3. /\ SubSeq(s, p + 1, Len(s)) \in Seq(S) /\ Len(SubSeq(s, p + 1, Len(s))) = Len(s) - p
        /\ \A k \in 1..(Len(s) - p) : SubSeq(s, p + 1, Len(s))[k] = s[k + p]
    BY <1>1
  <1>4. /\ DOMAIN Without(s, p) = 1..(Len(s) - 1)
        /\ \A k \in 1..(Len(s) - 1) : Without(s, p)[k] = s[Old(p, k)]
    <2> DEFINE u == SubSeq(s, 1, p - 1)
               v == SubSeq(s, p + 1, Len(s))
    <2>1. Without(s, p) = u \o v
      BY DEF Without
    <2>2. u \in Seq(S) /\ v \in Seq(S) /\ Len(u) = p - 1 /\ Len(v) = Len(s) - p
      BY <1>2, <1>3
    <2> HIDE DEF u, v
    <2>3. /\ DOMAIN (u \o v) = 1..(Len(u) + Len(v))
          /\ \A k \in 1..(Len(u) + Len(v)) : (u \o v)[k] = IF k <= Len(u) THEN u[k] ELSE v[k - Len(u)]
      BY <2>2, SMTT(30)
    <2>4. ASSUME NEW k \in 1..(Len(s) - 1) PROVE (u \o v)[k] = s[Old(p, k)]
      <3>1. CASE k < p
        <4>1. k \in 1..(Len(u) + Len(v)) /\ k <= Len(u) /\ k \in 1..(p - 1) /\ Old(p, k) = k
          BY <1>1, <2>2, <3>1, SMTT(30) DEF Old
        <4>2. (u \o v)[k] = u[k]
          BY <2>3, <4>1
        <4> QED BY <1>2, <4>1, <4>2 DEF u
      <3>2. CASE k >= p
        <4>1. /\ k \in 1..(Len(u) + Len(v)) /\ ~(k <= Len(u)) /\ k - Len(u) \in 1..(Len(s) - p)
              /\ k - Len(u) + p = k + 1 /\ Old(p, k) = k + 1
          BY <1>1, <2>2, <3>2, SMTT(30) DEF Old
        <4>2. (u \o v)[k] = v[k - Len(u)]
          BY <2>3, <4>1
        <4>3. v[k - Len(u)] = s[k - Len(u) + p]
          BY <1>3, <4>1 DEF v
        <4> QED BY <4>1, <4>2, <4>3
      <3>3. k \in Int /\ p \in Int
        BY <1>1
      <3>4. k < p \/ k >= p
        BY <3>3
      <3> QED BY <3>1, <3>2, <3>4
    <2>5. Len(u) + Len(v) = Len(s) - 1
      BY <1>1, <2>2
    <2> QED BY <2>1, <2>3, <2>4, <2>5
  <1>5. \A k \in 1..(Len(s) - 1) : Old(p, k) \in DOMAIN s /\ Old(p, k) # p
    BY <1>1 DEF Old
  <1>6. ASSUME NEW m \in DOMAIN s, m # p PROVE \E k \in 1..(Len(s) - 1) : Old(p, k) = m
    <2>1. CASE m < p
      BY <1>1, <2>1 DEF Old
    <2>2. CASE m > p
      <3>1. m - 1 \in 1..(Len(s) - 1) /\ Old(p, m - 1) = m
        BY <1>1, <2>2 DEF Old
      <3> QED BY <3>1
    <2> QED BY <1>6, <2>1, <2>2
  <1>7. \A i, j \in 1..(Len(s) - 1) : i < j <=> Old(p, i) < Old(p, j)
    BY <1>1 DEF Old
  <1> QED BY <1>4, <1>5, <1>6, <1>7

\* An entry goes, and its file: the order stays (spool.go:221-227, 244-257).
LEMMA CutOrder ==
    ASSUME NEW f \in Index, NEW d \in SUBSET Name, NEW g, NEW h, g \subseteq h, NEW p \in DOMAIN f,
           IndexOrder(f, d, g)
    PROVE  IndexOrder(Without(f, p), d \ {f[p].name}, h)
  <1> DEFINE e == Without(f, p)
             c == d \ {f[p].name}
             N == 1..(Len(f) - 1)
  <1>1. /\ DOMAIN e = N
        /\ \A k \in N : Old(p, k) \in DOMAIN f /\ Old(p, k) # p /\ e[k] = f[Old(p, k)]
        /\ \A m \in DOMAIN f : m # p => \E k \in N : Old(p, k) = m
        /\ \A i, j \in N : i < j <=> Old(p, i) < Old(p, j)
    BY CutPositions DEF Index
  <1> HIDE DEF e, N
  <1>3. \A x : (Backed(c, x) => Backed(d, x)) /\ (Above(c, x) => Above(d, x))
    BY DEF Backed, Above, c
  <1>4. ASSUME NEW j \in N, Repeated(f, Old(p, j))
        PROVE  \/ Repeated(e, j)
               \/ ~Backed(c, e[j].name) \/ e[j].name \in g
    <2>1. PICK k \in DOMAIN f : k < Old(p, j) /\ f[k].name = e[j].name
      BY <1>1, <1>4 DEF Repeated
    <2>2. CASE k # p
      <3>1. PICK m \in N : Old(p, m) = k
        BY <1>1, <2>2
      <3> QED BY <1>1, <2>1, <3>1 DEF Repeated
    <2>3. CASE k = p
      <3>1. ~Above(d, e[j].name) \/ e[j].name \in g
        BY <1>1, <1>4 DEF IndexOrder, RepeatsSplit
      <3>2. ~Above(d, e[j].name) => ~Backed(c, e[j].name)
        BY <2>1, <2>3 DEF Above, Backed, c
      <3> QED BY <3>1, <3>2
    <2> QED BY <2>2, <2>3
  <1>5. Sorted(e, c, h)
    <2> SUFFICES ASSUME NEW i \in N, NEW j \in N, i < j
                 PROVE  \/ NameLess(e[i].name, e[j].name)
                        \/ Repeated(e, j) \/ ~Backed(c, e[j].name) \/ e[j].name \in h
      BY <1>1 DEF Sorted
    <2>1. \/ NameLess(e[i].name, e[j].name)
          \/ Repeated(f, Old(p, j)) \/ ~Backed(d, e[j].name) \/ e[j].name \in g
      BY <1>1 DEF IndexOrder, Sorted
    <2> QED BY <1>3, <1>4, <2>1
  <1>6. RepeatsSplit(e, c, h)
    <2> SUFFICES ASSUME NEW j \in N, Repeated(e, j) PROVE ~Above(c, e[j].name) \/ e[j].name \in h
      BY <1>1 DEF RepeatsSplit
    <2>1. Repeated(f, Old(p, j))
      BY <1>1 DEF Repeated
    <2>2. ~Above(d, e[j].name) \/ e[j].name \in g
      BY <1>1, <2>1 DEF IndexOrder, RepeatsSplit
    <2> QED BY <1>3, <2>2
  <1>7. Shallow(e, c, h)
    <2> SUFFICES ASSUME NEW a \in c, NEW b \in c \cup {e[i].name : i \in DOMAIN e}, Contains(a, b)
                 PROVE  b = a \/ Child(a, b) \/ b \in h
      BY DEF Shallow
    <2>1. a \in d /\ b \in d \cup {f[i].name : i \in DOMAIN f}
      BY <1>1 DEF c
    <2> QED BY <2>1 DEF IndexOrder, Shallow
  <1> QED BY <1>5, <1>6, <1>7 DEF IndexOrder, e

\* A Put's entry comes last (spool.go:142).
LEMMA AppendOrder ==
    ASSUME NEW f \in Index, NEW d \in SUBSET Name, NEW g, NEW h, g \subseteq h, NEW x \in Name, NEW n \in Nat,
           IndexOrder(f, d, g),
           \A b \in d \cup {f[i].name : i \in DOMAIN f} :
              b \in Name /\ NameLess(b, x) /\ ~Contains(b, x) /\ ~Contains(x, b)
    PROVE  IndexOrder(Append(f, [name |-> x, n |-> n]), d \cup {x}, h)
  <1> DEFINE e == Append(f, [name |-> x, n |-> n])
             c == d \cup {x}
             L == Len(f) + 1
  <1>1. /\ DOMAIN e = DOMAIN f \cup {L} /\ L \notin DOMAIN f /\ DOMAIN f = 1..Len(f) /\ Len(f) \in Nat
        /\ \A i \in DOMAIN f : e[i] = f[i] /\ i < L
        /\ e[L].name = x
    BY DEF Index
  <1>i. L \in Int /\ \A i \in DOMAIN f : i \in Int /\ i < L /\ ~(L < i) /\ ~(L < L)
    BY <1>1
  <1> HIDE DEF e, L
  <1>2. ASSUME NEW b \in d \cup {f[i].name : i \in DOMAIN f}
        PROVE  (Backed(c, b) => Backed(d, b)) /\ (Above(c, b) => Above(d, b))
    BY <1>2 DEF Backed, Above, c
  <1>3. ASSUME NEW j \in DOMAIN f PROVE Repeated(e, j) <=> Repeated(f, j)
    <2>1. j \in Int /\ L \in Int /\ j < L /\ ~(L < j)
      BY <1>i
    <2>2. \A k \in DOMAIN e : k < j => k \in DOMAIN f
      BY <1>1, <2>1
    <2> QED BY <1>1, <2>2 DEF Repeated
  <1>4. ~Repeated(e, L)
    <2>1. SUFFICES ASSUME NEW k \in DOMAIN f, f[k].name = x PROVE FALSE
      BY <1>1, <1>i DEF Repeated
    <2>2. NameLess(x, x)
      BY <2>1
    <2> QED BY <2>2, NameOrder
  <1>5. Sorted(e, c, h)
    <2> SUFFICES ASSUME NEW i \in DOMAIN e, NEW j \in DOMAIN e, i < j
                 PROVE  \/ NameLess(e[i].name, e[j].name)
                        \/ Repeated(e, j) \/ ~Backed(c, e[j].name) \/ e[j].name \in h
      BY DEF Sorted
    <2>1. i \in DOMAIN f
      BY <1>1, <1>i
    <2>2. CASE j = L
      BY <1>1, <2>1, <2>2
    <2>3. CASE j \in DOMAIN f
      <3>1. \/ NameLess(f[i].name, f[j].name)
            \/ Repeated(f, j) \/ ~Backed(d, f[j].name) \/ f[j].name \in g
        BY <2>1, <2>3 DEF IndexOrder, Sorted
      <3>2. e[i] = f[i] /\ e[j] = f[j]
        BY <1>1, <2>1, <2>3
      <3> QED BY <1>2, <1>3, <2>3, <3>1, <3>2
    <2> QED BY <1>1, <2>2, <2>3
  <1>6. RepeatsSplit(e, c, h)
    <2> SUFFICES ASSUME NEW j \in DOMAIN e, Repeated(e, j) PROVE ~Above(c, e[j].name) \/ e[j].name \in h
      BY DEF RepeatsSplit
    <2>1. j \in DOMAIN f /\ e[j] = f[j]
      BY <1>1, <1>4
    <2>2. ~Above(d, f[j].name) \/ f[j].name \in g
      BY <1>3, <2>1 DEF IndexOrder, RepeatsSplit
    <2> QED BY <1>2, <2>1, <2>2
  <1>7. Shallow(e, c, h)
    <2> SUFFICES ASSUME NEW a \in c, NEW b \in c \cup {e[i].name : i \in DOMAIN e}, Contains(a, b)
                 PROVE  b = a \/ Child(a, b) \/ b \in h
      BY DEF Shallow
    <2>1. b = x \/ b \in d \cup {f[i].name : i \in DOMAIN f}
      BY <1>1 DEF c
    <2>2. CASE b = x
      BY <2>2 DEF c
    <2>3. CASE b \in d \cup {f[i].name : i \in DOMAIN f}
      <3>1. a \in d
        BY <2>3 DEF c
      <3> QED BY <2>3, <3>1 DEF IndexOrder, Shallow
    <2> QED BY <2>1, <2>2, <2>3
  <1> QED BY <1>5, <1>6, <1>7 DEF IndexOrder, e

\* The entries of an index carry names.
LEMMA IndexNames ==
    ASSUME NEW f \in Index
    PROVE  \A i \in DOMAIN f : f[i] \in [name : Name, n : Nat] /\ f[i].name \in Name
  <1>1. DOMAIN f = 1..Len(f) /\ f \in Seq([name : Name, n : Nat])
    BY DEF Index
  <1>2. \A i \in 1..Len(f) : f[i] \in [name : Name, n : Nat]
    BY <1>1, SeqElements
  <1> QED BY <1>1, <1>2

\* Files that go and records given up keep the order.
LEMMA LessOrder ==
    ASSUME NEW f, NEW d, NEW c, c \subseteq d, NEW g, NEW h, g \subseteq h, IndexOrder(f, d, g)
    PROVE  IndexOrder(f, c, h)
  <1>1. \A x : (Backed(c, x) => Backed(d, x)) /\ (Above(c, x) => Above(d, x))
    BY DEF Backed, Above
  <1>2. Sorted(f, c, h)
    BY <1>1 DEF IndexOrder, Sorted
  <1>3. RepeatsSplit(f, c, h)
    BY <1>1 DEF IndexOrder, RepeatsSplit
  <1>4. Shallow(f, c, h)
    BY DEF IndexOrder, Shallow
  <1> QED BY <1>2, <1>3, <1>4 DEF IndexOrder

\* A part lands beside its batch, which is there or was given up (spool.go:286-302).
LEMMA LandOrder ==
    ASSUME NEW f \in Index, NEW d \in SUBSET Name, NEW g, NEW h, g \subseteq h,
           NEW x \in Name, NEW k \in {0, 1}, IndexOrder(f, d, g),
           \/ x \in d /\ ~Above(d, x)
           \/ \A b \in d \cup {HalfName(x, k)} \cup {f[i].name : i \in DOMAIN f} : Contains(x, b) => b \in h
    PROVE  IndexOrder(f, d \cup {HalfName(x, k)}, h)
  <1> DEFINE y == HalfName(x, k)
             c == d \cup {y}
             l == {f[i].name : i \in DOMAIN f}
  <1>1. y \in Name
    BY HalfNames
  <1>2. \A i \in DOMAIN f : f[i].name \in l /\ f[i].name \in Name
    BY IndexNames
  <1>3. l \subseteq Name
    BY <1>2
  <1>4. Contains(x, y) /\ ~Contains(y, x)
    BY <1>1, HalfContains
  <1>5. ASSUME NEW b \in d \cup l, Contains(y, b)
        PROVE  Contains(x, b) /\ b # x
    BY <1>3, <1>5, HalfContains
  <1> HIDE DEF y, l
  <1>6. \/ x \in d /\ ~Above(d, x)
        \/ \A b \in c \cup l : Contains(x, b) => b \in h
    BY DEF y, l
  <1>7. ASSUME NEW b \in l PROVE (Backed(c, b) => Backed(d, b) \/ b \in h) /\ (Above(c, b) => Above(d, b) \/ b \in h)
    <2>1. CASE ~Contains(y, b)
      BY <2>1 DEF Backed, Above
    <2>2. CASE Contains(y, b)
      <3>1. Contains(x, b) /\ b # x
        BY <1>5, <2>2
      <3> QED BY <1>6, <3>1 DEF Backed, Above
    <2> QED BY <2>1, <2>2
  <1>8. Sorted(f, c, h)
    <2> SUFFICES ASSUME NEW i \in DOMAIN f, NEW j \in DOMAIN f, i < j
                 PROVE  \/ NameLess(f[i].name, f[j].name)
                        \/ Repeated(f, j) \/ ~Backed(c, f[j].name) \/ f[j].name \in h
      BY DEF Sorted
    <2>1. \/ NameLess(f[i].name, f[j].name)
          \/ Repeated(f, j) \/ ~Backed(d, f[j].name) \/ f[j].name \in g
      BY DEF IndexOrder, Sorted
    <2> QED BY <1>2, <1>7, <2>1
  <1>9. RepeatsSplit(f, c, h)
    BY <1>2, <1>7 DEF IndexOrder, RepeatsSplit
  <1>10. Shallow(f, c, h)
    <2> SUFFICES ASSUME NEW a \in c, NEW b \in c \cup l, Contains(a, b)
                 PROVE  b = a \/ Child(a, b) \/ b \in h
      BY DEF Shallow, l
    <2>0. \A a1 \in d, b1 \in d \cup l : Contains(a1, b1) => b1 = a1 \/ Child(a1, b1) \/ b1 \in h
      BY DEF IndexOrder, Shallow, l
    <2>1. CASE a \in d /\ b \in d \cup l
      BY <2>0, <2>1
    <2>2. CASE a \in d /\ b = y
      <3>1. a = y \/ Contains(a, x)
        BY <2>2, HalfContains DEF y
      <3>2. CASE Contains(a, x)
        <4>1. CASE x \in d /\ ~Above(d, x)
          <5>1. a = x
            BY <2>2, <3>2, <4>1 DEF Above
          <5> QED BY <2>2, <5>1 DEF Child, y
        <4>2. CASE \A b1 \in c \cup l : Contains(x, b1) => b1 \in h
          BY <1>4, <2>2, <4>2
        <4> QED BY <1>6, <4>1, <4>2
      <3> QED BY <2>2, <3>1, <3>2
    <2>3. CASE a = y /\ b \in d \cup l /\ b # y
      <3>1. Contains(x, b) /\ b # x
        BY <1>5, <2>3
      <3>2. CASE x \in d
        <4>1. Child(x, b) \/ b \in h
          BY <2>0, <2>3, <3>1, <3>2
        <4>2. CASE Child(x, b)
          <5>1. PICK m \in {0, 1} : b = HalfName(x, m)
            BY <4>2 DEF Child
          <5>2. y = b \/ Contains(y, x)
            BY <1>1, <2>3, <5>1, HalfContains
          <5> QED BY <1>4, <2>3, <5>2
        <4> QED BY <4>1, <4>2
      <3> QED BY <1>6, <3>1, <3>2
    <2> QED BY <2>1, <2>2, <2>3
  <1> QED BY <1>8, <1>9, <1>10 DEF IndexOrder, y

\* A listed batch has a first entry.
LEMMA FirstEntry ==
    ASSUME NEW f \in Index, NEW i \in DOMAIN f
    PROVE  \E k \in DOMAIN f : f[k].name = f[i].name /\ ~Repeated(f, k)
  <1> DEFINE T == {k \in DOMAIN f : f[k].name = f[i].name}
             R == OpToRel(<, Nat)
  <1>1. T \subseteq Nat /\ T # {}
    BY DEF Index
  <1>2. \E k \in T : \A m \in T : ~(<<m, k>> \in R)
    <2> HIDE DEF T, R
    <2>1. IsWellFoundedOn(R, Nat)
      BY NatLessThanWellFounded DEF R
    <2> QED BY <1>1, <2>1, WFMin
  <1>3. PICK k \in T : \A m \in T : ~(<<m, k>> \in R)
    BY <1>2
  <1>4. \A m \in T : ~(m < k)
    BY <1>1, <1>3 DEF OpToRel
  <1>5. ~Repeated(f, k)
    BY <1>4 DEF Repeated
  <1> QED BY <1>5

\* Two entries in the place of one, and where the others were.
Splice(s, p, a, b) == SubSeq(s, 1, p - 1) \o <<a, b>> \o SubSeq(s, p + 1, Len(s))
Was(p, k) == IF k < p THEN k ELSE k - 1

\* Where the entries of an index are once two took the place of one (spool.go:303-306).
LEMMA SplicePositions ==
    ASSUME NEW S, NEW s \in Seq(S), NEW p \in DOMAIN s, NEW a \in S, NEW b \in S
    PROVE  /\ DOMAIN Splice(s, p, a, b) = 1..(Len(s) + 1)
           /\ Splice(s, p, a, b)[p] = a /\ Splice(s, p, a, b)[p + 1] = b
           /\ \A k \in 1..(Len(s) + 1) : k # p /\ k # p + 1 =>
                 Was(p, k) \in DOMAIN s /\ Was(p, k) # p /\ Splice(s, p, a, b)[k] = s[Was(p, k)]
           /\ \A m \in DOMAIN s : m # p => \E k \in 1..(Len(s) + 1) : k # p /\ k # p + 1 /\ Was(p, k) = m
  <1>1. p \in 1..Len(s) /\ Len(s) \in Nat /\ p \in Int
    OBVIOUS
  <1> DEFINE u == SubSeq(s, 1, p - 1)
             v == SubSeq(s, p + 1, Len(s))
             w == u \o <<a, b>>
             e == Splice(s, p, a, b)
  <1>2. /\ u \in Seq(S) /\ Len(u) = p - 1 /\ \A k \in 1..(p - 1) : u[k] = s[k]
        /\ v \in Seq(S) /\ Len(v) = Len(s) - p /\ \A k \in 1..(Len(s) - p) : v[k] = s[k + p]
    BY <1>1
  <1>3. e = w \o v
    BY DEF Splice
  <1> HIDE DEF u, v, e
  <1>4. /\ w \in Seq(S) /\ Len(w) = p + 1 /\ w[p] = a /\ w[p + 1] = b
        /\ \A k \in 1..(p - 1) : w[k] = u[k]
    BY <1>1, <1>2, SMTT(30)
  <1> HIDE DEF w
  <1>5. /\ DOMAIN e = 1..(Len(w) + Len(v))
        /\ \A k \in 1..(Len(w) + Len(v)) : e[k] = IF k <= Len(w) THEN w[k] ELSE v[k - Len(w)]
    <2>1. w \in Seq(S) /\ v \in Seq(S)
      BY <1>2, <1>4
    <2>2. /\ DOMAIN (w \o v) = 1..(Len(w) + Len(v))
          /\ \A k \in 1..(Len(w) + Len(v)) : (w \o v)[k] = IF k <= Len(w) THEN w[k] ELSE v[k - Len(w)]
      BY <2>1
    <2> QED BY <1>3, <2>2
  <1>6. DOMAIN e = 1..(Len(s) + 1)
    BY <1>1, <1>2, <1>4, <1>5
  <1>7. /\ e[p] = a /\ e[p + 1] = b
        /\ \A k \in 1..(p - 1) : e[k] = s[k]
    <2>1. \A k \in 1..(p + 1) : k \in 1..(Len(w) + Len(v)) /\ k <= Len(w)
      BY <1>1, <1>2, <1>4, SMTT(30)
    <2>2. \A k \in 1..(p + 1) : e[k] = w[k]
      BY <1>5, <2>1
    <2>3. p \in 1..(p + 1) /\ p + 1 \in 1..(p + 1) /\ 1..(p - 1) \subseteq 1..(p + 1)
      BY <1>1
    <2> QED BY <1>2, <1>4, <2>2, <2>3
  <1>8. ASSUME NEW k \in 1..(Len(s) + 1), k > p + 1 PROVE e[k] = s[k - 1]
    <2>1. /\ k \in 1..(Len(w) + Len(v)) /\ ~(k <= Len(w)) /\ k - Len(w) \in 1..(Len(s) - p)
          /\ k - Len(w) + p = k - 1
      <3>1. Len(w) = p + 1 /\ Len(v) = Len(s) - p
        BY <1>2, <1>4
      <3>2. k \in Int /\ k <= Len(s) + 1 /\ 1 <= k /\ Len(s) \in Int
        BY <1>1
      <3>3. Len(w) + Len(v) = Len(s) + 1
        BY <1>1, <3>1
      <3>4. ~(k <= p + 1) /\ k - (p + 1) + p = k - 1 /\ k - (p + 1) \in 1..(Len(s) - p)
        BY <1>1, <1>8, <3>2
      <3> QED BY <3>1, <3>3, <3>4
    <2>2. e[k] = v[k - Len(w)]
      BY <1>5, <2>1
    <2>3. v[k - Len(w)] = s[k - Len(w) + p]
      BY <1>2, <2>1
    <2> QED BY <2>1, <2>2, <2>3
  <1>9. ASSUME NEW k \in 1..(Len(s) + 1), k # p, k # p + 1
        PROVE  Was(p, k) \in DOMAIN s /\ Was(p, k) # p /\ e[k] = s[Was(p, k)]
    <2>1. k \in 1..(p - 1) \/ k > p + 1
      BY <1>1, <1>9
    <2>2. CASE k \in 1..(p - 1)
      BY <1>1, <1>7, <2>2 DEF Was
    <2>3. CASE k > p + 1
      <3>1. Was(p, k) = k - 1 /\ k - 1 \in 1..Len(s) /\ k - 1 # p
        BY <1>1, <2>3 DEF Was
      <3> QED BY <1>8, <2>3, <3>1
    <2> QED BY <2>1, <2>2, <2>3
  <1>10. ASSUME NEW m \in DOMAIN s, m # p
         PROVE  \E k \in 1..(Len(s) + 1) : k # p /\ k # p + 1 /\ Was(p, k) = m
    <2>1. CASE m < p
      BY <1>1, <2>1 DEF Was
    <2>2. CASE m > p
      <3>1. m + 1 \in 1..(Len(s) + 1) /\ m + 1 # p /\ m + 1 # p + 1 /\ Was(p, m + 1) = m
        BY <1>1, <2>2 DEF Was
      <3> QED BY <3>1
    <2> QED BY <1>1, <1>10, <2>1, <2>2
  <1> QED BY <1>6, <1>7, <1>9, <1>10 DEF e

\* How places compare before and after.
LEMMA SplicePlaces ==
    ASSUME NEW n \in Nat, NEW p \in 1..n, NEW i \in 1..(n + 1), NEW j \in 1..(n + 1)
    PROVE  /\ i # p /\ i # p + 1 /\ j # p /\ j # p + 1 => (i < j <=> Was(p, i) < Was(p, j))
           /\ i # p /\ i # p + 1 /\ j \in {p, p + 1} => (i < j <=> Was(p, i) < p)
           /\ i \in {p, p + 1} /\ j # p /\ j # p + 1 => (i < j <=> p < Was(p, j))
           /\ i \in {p, p + 1} /\ j \in {p, p + 1} /\ i < j => i = p /\ j = p + 1
  BY DEF Was

\* The parts take the place of their batch (spool.go:303-308).
LEMMA SpliceOrder ==
    ASSUME NEW f \in Index, NEW d \in SUBSET Name, NEW g, NEW h, g \subseteq h,
           NEW p \in DOMAIN f, NEW x \in Name, f[p].name = x, ~Repeated(f, p),
           NEW m \in Nat, NEW n \in Nat,
           HalfName(x, 0) \in d, HalfName(x, 1) \in d, IndexOrder(f, d, g),
           \/ x \in d /\ ~Above(d, x) /\ x \notin g
           \/ \A b \in d \cup {f[i].name : i \in DOMAIN f} : Contains(x, b) => b \in h
    PROVE  IndexOrder(Splice(f, p, [name |-> HalfName(x, 0), n |-> m], [name |-> HalfName(x, 1), n |-> n]),
                      d \ {x}, h)
  <1> DEFINE e == Splice(f, p, [name |-> HalfName(x, 0), n |-> m], [name |-> HalfName(x, 1), n |-> n])
             c == d \ {x}
             l == {f[i].name : i \in DOMAIN f}
             N == 1..(Len(f) + 1)
             O == {k \in N : k # p /\ k # p + 1}
             W(k) == Was(p, k)
             y(k) == HalfName(x, k)
  <1>1. y(0) \in Name /\ y(1) \in Name /\ \A k \in {0, 1} : y(k) \in Name
    BY HalfNames
  <1>2. /\ DOMAIN e = N /\ e[p].name = y(0) /\ e[p + 1].name = y(1)
        /\ \A k \in O : W(k) \in DOMAIN f /\ W(k) # p /\ e[k] = f[W(k)]
        /\ \A q \in DOMAIN f : q # p => \E k \in O : W(k) = q
    <2>1. [name |-> HalfName(x, 0), n |-> m] \in [name : Name, n : Nat] /\ [name |-> HalfName(x, 1), n |-> n] \in [name : Name, n : Nat]
      BY <1>1
    <2>2. f \in Seq([name : Name, n : Nat])
      BY DEF Index
    <2>3. /\ DOMAIN e = N /\ e[p] = [name |-> HalfName(x, 0), n |-> m] /\ e[p + 1] = [name |-> HalfName(x, 1), n |-> n]
          /\ \A k \in O : W(k) \in DOMAIN f /\ W(k) # p /\ e[k] = f[W(k)]
          /\ \A q \in DOMAIN f : q # p => \E k \in O : W(k) = q
      <3> DEFINE A == [name |-> HalfName(x, 0), n |-> m]
                 B == [name |-> HalfName(x, 1), n |-> n]
                 S == [name : Name, n : Nat]
      <3>1. A \in S /\ B \in S /\ f \in Seq(S)
        BY <2>1, <2>2
      <3> HIDE DEF A, B, S
      <3>2. /\ DOMAIN Splice(f, p, A, B) = 1..(Len(f) + 1)
            /\ Splice(f, p, A, B)[p] = A /\ Splice(f, p, A, B)[p + 1] = B
            /\ \A k \in 1..(Len(f) + 1) : k # p /\ k # p + 1 =>
                 Was(p, k) \in DOMAIN f /\ Was(p, k) # p /\ Splice(f, p, A, B)[k] = f[Was(p, k)]
            /\ \A q \in DOMAIN f : q # p => \E k \in 1..(Len(f) + 1) : k # p /\ k # p + 1 /\ Was(p, k) = q
        BY <3>1, SplicePositions
      <3>3. e = Splice(f, p, A, B)
        BY DEF A, B
      <3> HIDE DEF e
      <3> QED BY <3>2, <3>3 DEF A, B
    <2> QED BY <2>3
  <1>3. /\ N = O \cup {p, p + 1} /\ p # p + 1 /\ p < p + 1
        /\ \A i, j \in O : i < j <=> W(i) < W(j)
        /\ \A i \in O, j \in {p, p + 1} : (i < j <=> W(i) < p) /\ (j < i <=> p < W(i))
        /\ \A i, j \in {p, p + 1} : i < j => i = p /\ j = p + 1
    <2>1. Len(f) \in Nat /\ p \in 1..Len(f)
      BY DEF Index
    <2>2. N = O \cup {p, p + 1} /\ p # p + 1 /\ p < p + 1
      BY <2>1
    <2> HIDE DEF N
    <2>3. \A i \in N, j \in N :
           /\ i # p /\ i # p + 1 /\ j # p /\ j # p + 1 => (i < j <=> Was(p, i) < Was(p, j))
           /\ i # p /\ i # p + 1 /\ j \in {p, p + 1} => (i < j <=> Was(p, i) < p)
           /\ i \in {p, p + 1} /\ j # p /\ j # p + 1 => (i < j <=> p < Was(p, j))
           /\ i \in {p, p + 1} /\ j \in {p, p + 1} /\ i < j => i = p /\ j = p + 1
      BY <2>1, SplicePlaces DEF N
    <2> QED BY <2>2, <2>3
  <1>4. /\ \A i \in DOMAIN f : f[i].name \in l /\ f[i].name \in Name
        /\ l \subseteq Name
    BY IndexNames
  <1> HIDE DEF e, N, O, W
  <1>5. \A k \in {0, 1} : /\ Contains(x, y(k)) /\ y(k) # x /\ y(k) \in d
                          /\ \A a \in Name : Contains(a, y(k)) => a = y(k) \/ Contains(a, x)
    BY <1>1, HalfContains, HalfNames
  <1>6. NameLess(y(0), y(1))
    BY <1>1, HalfOrder, ContainsOrder
  <1>7. \A b \in l : /\ NameLess(b, x) => \A k \in {0, 1} : NameLess(b, y(k))
                     /\ NameLess(x, b) /\ ~Contains(x, b) => \A k \in {0, 1} : NameLess(y(k), b)
    BY <1>4, HalfOrder
  <1> HIDE DEF y, l
  <1>8. \/ x \in d /\ ~Above(d, x) /\ x \notin g
        \/ \A b \in d \cup l : Contains(x, b) => b \in h
    BY DEF l
  <1>9. \A z : (Backed(c, z) => Backed(d, z)) /\ (Above(c, z) => Above(d, z))
    BY DEF Backed, Above
  \* Nothing that stays is above the batch or its parts.
  <1>10. ~Backed(c, x) \/ x \in h
    <2>1. ~Above(d, x) => ~Backed(c, x)
      BY DEF Above, Backed
    <2>2. Contains(x, x) /\ x \in l
      BY <1>4, ContainsOrder
    <2> QED BY <1>8, <2>1, <2>2
  <1>11. \A k \in {0, 1} : ~Above(c, y(k)) \/ y(k) \in h
    <2> TAKE k \in {0, 1}
    <2>1. CASE ~Above(d, x)
      BY <1>5, <2>1 DEF Above
    <2> QED BY <1>5, <1>8, <2>1
  <1>12. ASSUME NEW j \in O, Repeated(f, W(j))
         PROVE  Repeated(e, j) \/ ~Backed(c, e[j].name) \/ e[j].name \in h
    <2>1. PICK q \in DOMAIN f : q < W(j) /\ f[q].name = e[j].name
      BY <1>2, <1>12 DEF Repeated
    <2>2. CASE q # p
      <3>1. PICK k \in O : W(k) = q
        BY <1>2, <2>2
      <3>2. k < j /\ k \in DOMAIN e /\ e[k].name = e[j].name
        BY <1>2, <1>3, <2>1, <3>1
      <3> QED BY <3>2 DEF Repeated
    <2> QED BY <1>10, <2>1, <2>2
  <1>13. Sorted(e, c, h)
    <2> SUFFICES ASSUME NEW i \in N, NEW j \in N, i < j
                 PROVE  \/ NameLess(e[i].name, e[j].name)
                        \/ Repeated(e, j) \/ ~Backed(c, e[j].name) \/ e[j].name \in h
      BY <1>2 DEF Sorted
    <2>0. \A r, s \in DOMAIN f : r < s =>
             \/ NameLess(f[r].name, f[s].name)
             \/ Repeated(f, s) \/ ~Backed(d, f[s].name) \/ f[s].name \in g
      BY DEF IndexOrder, Sorted
    <2>1. CASE i \in O /\ j \in O
      <3>1. \/ NameLess(e[i].name, e[j].name)
            \/ Repeated(f, W(j)) \/ ~Backed(d, e[j].name) \/ e[j].name \in g
        BY <1>2, <1>3, <2>0, <2>1
      <3> QED BY <1>9, <1>12, <2>1, <3>1
    <2>2. CASE i \in O /\ j \in {p, p + 1}
      <3>1. PICK k \in {0, 1} : e[j].name = y(k)
        BY <1>2, <2>2
      <3>2. NameLess(e[i].name, x) \/ ~Backed(d, x) \/ x \in g
        BY <1>2, <1>3, <2>0, <2>2
      <3>3. CASE NameLess(e[i].name, x)
        BY <1>2, <1>4, <1>7, <2>2, <3>1, <3>3
      <3>4. CASE x \notin d
        BY <1>5, <1>8, <3>1, <3>4
      <3>5. x \in d => Backed(d, x)
        BY ContainsOrder DEF Backed
      <3>6. CASE x \in g /\ x \in d /\ ~NameLess(e[i].name, x)
        BY <1>5, <1>8, <3>1, <3>6
      <3> QED BY <3>2, <3>3, <3>4, <3>5, <3>6
    <2>3. CASE i = p /\ j = p + 1
      BY <1>2, <1>6, <2>3
    <2>4. CASE i \in {p, p + 1} /\ j \in O
      <3>1. PICK k \in {0, 1} : e[i].name = y(k)
        BY <1>2, <2>4
      <3>2. \/ NameLess(x, e[j].name)
            \/ Repeated(f, W(j)) \/ ~Backed(d, e[j].name) \/ e[j].name \in g
        BY <1>2, <1>3, <2>0, <2>4
      <3>3. CASE NameLess(x, e[j].name)
        <4>1. e[j].name \in l
          BY <1>2, <1>4, <2>4
        <4>2. CASE ~Contains(x, e[j].name)
          BY <1>7, <3>1, <3>3, <4>1, <4>2
        <4>3. CASE Contains(x, e[j].name) /\ x \in d
          <5>1. e[j].name # x
            BY <3>3, NameOrder
          <5>2. Child(x, e[j].name) \/ e[j].name \in g
            BY <4>1, <4>3, <5>1 DEF IndexOrder, Shallow, l
          <5>3. CASE Child(x, e[j].name)
            <6>1. e[j].name = y(0) \/ e[j].name = y(1)
              BY <5>3 DEF Child, y
            <6>2. p \in DOMAIN e /\ p + 1 \in DOMAIN e /\ p < j /\ p + 1 < j
              BY <1>2, <1>3, <2>4
            <6> QED BY <1>2, <6>1, <6>2 DEF Repeated
          <5> QED BY <5>2, <5>3
        <4>4. CASE Contains(x, e[j].name) /\ x \notin d
          BY <1>8, <4>1, <4>4
        <4> QED BY <4>2, <4>3, <4>4
      <3> QED BY <1>9, <1>12, <2>4, <3>2, <3>3
    <2> QED BY <1>3, <2>1, <2>2, <2>3, <2>4
  <1>14. RepeatsSplit(e, c, h)
    <2> SUFFICES ASSUME NEW j \in N, Repeated(e, j)
                 PROVE  ~Above(c, e[j].name) \/ e[j].name \in h
      BY <1>2 DEF RepeatsSplit
    <2>1. CASE \E k \in {0, 1} : e[j].name = y(k)
      BY <1>11, <2>1
    <2>2. CASE ~\E k \in {0, 1} : e[j].name = y(k)
      <3>1. PICK k \in N : k < j /\ e[k].name = e[j].name
        BY <1>2 DEF Repeated
      <3>2. k \in O /\ j \in O
        BY <1>2, <1>3, <2>2, <3>1
      <3>3. Repeated(f, W(j))
        BY <1>2, <1>3, <3>1, <3>2 DEF Repeated
      <3>4. ~Above(d, e[j].name) \/ e[j].name \in g
        BY <1>2, <3>2, <3>3 DEF IndexOrder, RepeatsSplit
      <3> QED BY <1>9, <3>4
    <2> QED BY <2>1, <2>2
  <1>15. Shallow(e, c, h)
    <2> SUFFICES ASSUME NEW a \in c, NEW b \in c \cup {e[i].name : i \in DOMAIN e}, Contains(a, b)
                 PROVE  b = a \/ Child(a, b) \/ b \in h
      BY DEF Shallow
    <2>1. \A i \in DOMAIN e : e[i].name \in d \cup l
      BY <1>2, <1>3, <1>4, <1>5
    <2>2. b \in d \cup l
      BY <2>1
    <2> QED BY <2>2 DEF IndexOrder, Shallow, l
  <1> QED BY <1>13, <1>14, <1>15 DEF IndexOrder, e

\* OpenSpool lists the directory sorted by name, each file once (spool.go:79-104).
LEMMA ListingOrder ==
    ASSUME NEW f \in Index, NEW d \in SUBSET Name, NEW g, IndexOrder(<<>>, d, g),
           {f[i].name : i \in DOMAIN f} \subseteq d,
           \A i, j \in DOMAIN f : i < j => NameLess(f[i].name, f[j].name)
    PROVE  IndexOrder(f, d, g)
  <1>1. \A j \in DOMAIN f : ~Repeated(f, j)
    <2> SUFFICES ASSUME NEW j \in DOMAIN f, NEW k \in DOMAIN f, k < j, f[k].name = f[j].name PROVE FALSE
      BY DEF Repeated
    <2>1. NameLess(f[k].name, f[k].name) /\ f[k].name \in Name
      BY IndexNames
    <2> QED BY <2>1, NameOrder
  <1>2. Shallow(f, d, g)
    BY DEF IndexOrder, Shallow
  <1> QED BY <1>1, <1>2 DEF IndexOrder, Sorted, RepeatsSplit

----------------------------------------------------------------------------
(* What the steps do to the index and to the directory when unlinks work.  *)

\* The front goes: the first place is cut (spool.go:221-227).
LEMMA TailCuts ==
    ASSUME NEW f \in Index, f # <<>>
    PROVE  1 \in DOMAIN f /\ Tail(f) = Without(f, 1)
  <1>1. f \in Seq([name : Name, n : Nat])
    BY DEF Index
  <1>2. 1 \in DOMAIN f /\ Tail(f) = SubSeq(f, 2, Len(f)) /\ SubSeq(f, 1, 0) = <<>>
    BY <1>1
  <1>3. Tail(f) \in Seq([name : Name, n : Nat])
    BY <1>1
  <1>4. <<>> \o Tail(f) = Tail(f)
    BY <1>3
  <1> QED BY <1>2, <1>4 DEF Without

\* What is listed stays listed, but for the entry cut out.
LEMMA CutNames ==
    ASSUME NEW f \in Index, NEW p \in DOMAIN f
    PROVE  \A x \in {f[i].name : i \in DOMAIN f} :
              x = f[p].name \/ x \in {Without(f, p)[i].name : i \in DOMAIN Without(f, p)}
  <1>1. /\ DOMAIN Without(f, p) = 1..(Len(f) - 1)
        /\ \A k \in 1..(Len(f) - 1) :
              Old(p, k) \in DOMAIN f /\ Old(p, k) # p /\ Without(f, p)[k] = f[Old(p, k)]
        /\ \A m \in DOMAIN f : m # p => \E k \in 1..(Len(f) - 1) : Old(p, k) = m
    BY CutPositions DEF Index
  <1> SUFFICES ASSUME NEW i \in DOMAIN f, i # p
               PROVE  f[i].name \in {Without(f, p)[k].name : k \in DOMAIN Without(f, p)}
    OBVIOUS
  <1>2. PICK k \in 1..(Len(f) - 1) : Old(p, k) = i
    BY <1>1
  <1> QED BY <1>1, <1>2

\* dropFrontLocked, whichever cap asked for it (spool.go:176-227).
LEMMA DropFacts ==
    ASSUME SpoolInv, "unlink" \notin Faults, Expire \/ MakeRoom \/ Enforce \/ SkipCorrupt
    PROVE  /\ files \in Index /\ 1 \in DOMAIN files /\ files' = Without(files, 1)
           /\ disk' = disk \ {files[1].name} /\ dropped' = dropped \cup DocsOf(files[1].name)
           /\ up /\ op.call # "split" /\ op.pc # "rename" /\ op'.call = op.call
           /\ UNCHANGED <<up, hand, temps, body>>
  <1>1. up /\ DropFront /\ op \in Call /\ UNCHANGED <<up, hand, temps, body>>
    BY DEF Expire, MakeRoom, Enforce, SkipCorrupt, SpoolInv, TypeOK
  <1>2. op.call # "split" /\ op.pc # "rename"
    BY DEF Expire, MakeRoom, Enforce, SkipCorrupt, ShortOfRoom, NoneExpired, SpoolInv, CallShape
  <1>3. op'.call = op.call
    <2>1. CASE Expire \/ Enforce \/ SkipCorrupt
      BY <2>1 DEF Expire, Enforce, SkipCorrupt
    <2>2. CASE MakeRoom
      BY <1>1, <2>2 DEF MakeRoom, Call
    <2> QED BY <2>1, <2>2
  <1>4. files \in Index
    BY DEF SpoolInv, TypeOK, Index
  <1>5. /\ files # <<>> /\ files' = Tail(files)
        /\ disk' = disk \ {files[1].name} /\ dropped' = dropped \cup DocsOf(files[1].name)
    BY <1>1 DEF DropFront, Unlink
  <1>6. 1 \in DOMAIN files /\ Tail(files) = Without(files, 1)
    BY <1>4, <1>5, TailCuts
  <1> QED BY <1>1, <1>2, <1>3, <1>4, <1>5, <1>6

\* Remove cuts the entry and its file, or finds neither (spool.go:244-258).
LEMMA RemoveFacts ==
    ASSUME SpoolInv, "unlink" \notin Faults, Remove
    PROVE  /\ files \in Index /\ up /\ op.pc = "idle" /\ op.call = "none" /\ hand' = NoBatch
           /\ UNCHANGED <<up, op, temps, body, dropped>>
           /\ \/ UNCHANGED <<files, disk>>
              \/ \E p \in DOMAIN files : /\ files' = Without(files, p)
                                         /\ disk' = disk \ {files[p].name}
  <1>1. /\ up /\ op.pc = "idle" /\ hand' = NoBatch
        /\ UNCHANGED <<up, op, temps, body, dropped>>
    BY DEF Remove
  <1>2. \/ UNCHANGED <<files, disk>>
        \/ \E i \in DOMAIN files :
              FirstPosition(i, hand.name) /\ files' = Without(files, i) /\ Unlink(hand.name)
    BY DEF Remove
  <1>3. ASSUME NEW i \in DOMAIN files, FirstPosition(i, hand.name), Unlink(hand.name)
        PROVE  disk' = disk \ {files[i].name}
    BY <1>3 DEF FirstPosition, Positions, Unlink
  <1> QED BY <1>1, <1>2, <1>3 DEF SpoolInv, TypeOK, Index, CallShape

\* The end of a split (spool.go:303-308).
LEMMA SplitDoneFacts ==
    ASSUME SpoolInv, "unlink" \notin Faults, SplitDone
    PROVE  /\ files \in Index /\ up /\ op.call = "split" /\ op.pc = "swap" /\ op.half = 1
           /\ op.name = hand.name /\ hand.name # NoName /\ op.name \in DOMAIN body /\ op.name \in Name
           /\ HalfName(op.name, 0) \in disk /\ HalfName(op.name, 1) \in disk
           /\ op' = Idle /\ hand' = NoBatch /\ disk' = disk \ {op.name}
           /\ UNCHANGED <<up, temps, body, dropped>>
           /\ \E p \in DOMAIN files, m, n \in Nat :
                 /\ files[p].name = op.name /\ ~Repeated(files, p)
                 /\ files' = Splice(files, p, [name |-> HalfName(op.name, 0), n |-> m],
                                              [name |-> HalfName(op.name, 1), n |-> n])
  <1>1. /\ up /\ op.pc = "swap" /\ op.call = "split" /\ op' = Idle /\ hand' = NoBatch
        /\ disk' = disk \ {op.name} /\ UNCHANGED <<up, temps, body, dropped>>
    BY DEF SplitDone, Return, Unlink, history, SpoolInv, CallShape
  <1>2. /\ op.half = 1 /\ op.name = hand.name /\ hand.name # NoName /\ op.name \in DOMAIN body
        /\ HalfName(op.name, 0) \in disk /\ HalfName(op.name, 1) \in disk
    BY <1>1 DEF SpoolInv, SplitProgress, HandBacked
  <1>3. files \in Index /\ op.name \in Name /\ op.docs \in Seq(Records)
    BY <1>2 DEF SpoolInv, TypeOK, Index, Call
  <1>4. \A h \in {0, 1} : Len(Half(op.docs, h)) \in Nat
    BY <1>3, HalfDocs
  <1>5. PICK p \in DOMAIN files :
           /\ FirstPosition(p, op.name)
           /\ files' = Splice(files, p, HalfEntry(0), HalfEntry(1))
    BY DEF SplitDone, Splice
  <1>6. files[p].name = op.name /\ \A j \in Positions(op.name) : p <= j
    BY <1>5 DEF FirstPosition, Positions
  <1>7. ~Repeated(files, p)
    <2> SUFFICES ASSUME NEW k \in DOMAIN files, k < p, files[k].name = files[p].name PROVE FALSE
      BY DEF Repeated
    <2>1. p <= k
      BY <1>6 DEF Positions
    <2>2. p \in Nat /\ k \in Nat
      BY <1>3 DEF Index
    <2> QED BY <2>1, <2>2
  <1>8. \E m, n \in Nat : files' = Splice(files, p, [name |-> HalfName(op.name, 0), n |-> m],
                                                   [name |-> HalfName(op.name, 1), n |-> n])
    BY <1>4, <1>5 DEF HalfEntry
  <1> QED BY <1>1, <1>2, <1>3, <1>6, <1>7, <1>8

\* A split that could not write its parts (spool.go:293-302).
LEMMA SplitFailedFacts ==
    ASSUME SpoolInv, "unlink" \notin Faults, SplitFailed
    PROVE  /\ up /\ op.call = "split" /\ op.pc \in {"write", "rename"} /\ op' = Idle
           /\ temps' = temps \ {Target} /\ UNCHANGED <<up, files, hand, body, dropped>>
           /\ disk' \subseteq disk
           /\ op.half = 1 => HalfName(op.name, 0) \notin disk'
  BY DEF SplitFailed, WriteFails, Return, Unlink, history

\* The index a new process builds (spool.go:79-104).
LEMMA OpenFacts ==
    ASSUME SpoolInv, OpenSpool
    PROVE  /\ ~up /\ up' = TRUE /\ files = <<>> /\ op = Idle /\ hand = NoBatch /\ temps' = {}
           /\ UNCHANGED <<op, hand, disk, body, dropped>>
           /\ files' \in Index /\ {files'[i].name : i \in DOMAIN files'} = disk
           /\ \A i, j \in DOMAIN files' : i < j => NameLess(files'[i].name, files'[j].name)
  <1>1. /\ ~up /\ up' = TRUE /\ files = <<>> /\ op = Idle /\ hand = NoBatch /\ temps' = {}
        /\ UNCHANGED <<op, hand, disk, body, dropped>>
    BY DEF OpenSpool, SpoolInv, history
  <1>2. files' \in Index
    BY OpenSpoolInv DEF SpoolInv, TypeOK, Index
  <1>3. PICK s \in Listings :
          files' = [i \in 1..Len(s) |-> [name |-> s[i], n |-> Len(body[s[i]])]]
    BY DEF OpenSpool
  <1>4. Cardinality(disk) \in Nat
    BY FS_CardinalityType DEF SpoolInv, TypeOK
  <1>5. /\ s \in [1..Cardinality(disk) -> disk] /\ Range(s) = disk
        /\ \A i, j \in DOMAIN s : i < j => NameLess(s[i], s[j])
    BY DEF Listings
  <1>6. DOMAIN s = 1..Len(s)
    BY <1>4, <1>5
  <1>7. DOMAIN files' = DOMAIN s /\ \A i \in DOMAIN s : files'[i].name = s[i]
    BY <1>3, <1>6
  <1> QED BY <1>1, <1>2, <1>5, <1>7 DEF Range

\* The steps that leave index, files and records alone.
Still ==
    \/ Put \/ Oldest \/ Split \/ SplitVanished \/ SampleRoom \/ PutLowDisk \/ NameBatch
    \/ WriteTemp \/ PutFailed \/ PutDone \/ OldestEmpty \/ Tick \/ Damage \/ UNCHANGED spoolVars

\* They are still.
LEMMA StillFacts ==
    ASSUME Still
    PROVE  UNCHANGED <<up, files, disk, body, dropped>> /\ (hand' = hand \/ hand' = NoBatch)
  BY DEF Still, Put, Oldest, Split, SplitVanished, SampleRoom, PutLowDisk, NameBatch, WriteTemp,
     PutFailed, PutDone, OldestEmpty, Tick, Damage, spoolVars, memory, directory, history

\* Every step is one of these.
LEMMA SpoolStepKinds ==
    ASSUME [SpoolNext]_spoolVars
    PROVE  \/ Still \/ OldestFound
           \/ (Expire \/ MakeRoom \/ Enforce \/ SkipCorrupt)
           \/ Remove \/ RenamePut \/ RenameHalf \/ SplitFailed \/ SplitDone \/ ProcessEnds \/ OpenSpool
  BY Zenon DEF SpoolNext, SpoolCall, Still, Crash

----------------------------------------------------------------------------
(* ListedInv. *)

\* They keep the directory listed.
LEMMA ListedStill ==
    ASSUME SpoolInv, ListedInv, Still
    PROVE  ListedInv'
  <1>1. UNCHANGED <<up, files, disk>>
    BY StillFacts
  <1>2. Listed' = Listed /\ op \in Call
    BY <1>1 DEF Listed, SpoolInv, TypeOK
  <1>3. CASE Put \/ Oldest \/ Split
    <2>1. /\ up /\ op.pc = "idle" /\ op.call = "none" /\ temps' = temps
          /\ op'.pc # "rename" /\ op'.pc # "swap" /\ op'.half = 0
      BY <1>3 DEF Put, PutCall, Oldest, Split, Begin, directory, SpoolInv, CallShape
    <2>2. disk \subseteq Listed /\ temps = {}
      BY <2>1 DEF ListedInv, DiskListed, TempsOwn
    <2>3. SplitListed'
      <3>1. CASE Put \/ Oldest
        BY <3>1 DEF Put, PutCall, Oldest, Begin, SplitListed
      <3>2. CASE Split
        <4>1. op'.name = hand.name /\ Positions(hand.name) # {}
          BY <3>2 DEF Split, Begin
        <4> QED BY <1>2, <4>1 DEF SplitListed, Positions, Listed
      <3> QED BY <1>3, <3>1, <3>2
    <2> QED BY <1>1, <1>2, <2>1, <2>2, <2>3 DEF ListedInv, DiskListed, TempsOwn
  <1>4. CASE SplitVanished \/ Tick \/ Damage \/ UNCHANGED spoolVars
    <2>1. op' = op /\ temps' = temps
      BY <1>4 DEF SplitVanished, Tick, Damage, spoolVars, memory, directory
    <2> QED BY <1>1, <1>2, <2>1 DEF ListedInv, DiskListed, TempsOwn, SplitListed, Target
  <1>5. CASE SampleRoom \/ NameBatch \/ PutLowDisk \/ PutDone \/ OldestEmpty \/ PutFailed
    <2>1. up /\ op.call # "split"
      BY <1>5 DEF SampleRoom, NameBatch, PutLowDisk, PutDone, OldestEmpty, PutFailed, NoneExpired,
         ShortOfRoom, WriteFails, SpoolInv, CallShape
    <2>2. temps' = {}
      <3>1. CASE PutFailed
        BY <2>1, <3>1 DEF PutFailed, WriteFails, ListedInv, TempsOwn
      <3>2. CASE ~PutFailed
        BY <1>5, <2>1, <3>2 DEF SampleRoom, NameBatch, PutLowDisk, PutDone, OldestEmpty, NoneExpired,
           ShortOfRoom, directory, ListedInv, TempsOwn
      <3> QED BY <3>1, <3>2
    <2>3. op'.call # "split"
      <3>1. CASE SampleRoom \/ NameBatch
        BY <1>2, <2>1, <3>1 DEF SampleRoom, NameBatch, Call
      <3>2. CASE PutLowDisk \/ PutDone \/ OldestEmpty \/ PutFailed
        BY <3>2, IdleCall DEF PutLowDisk, PutDone, OldestEmpty, PutFailed, Return
      <3> QED BY <1>5, <3>1, <3>2
    <2> QED BY <1>1, <1>2, <2>1, <2>2, <2>3 DEF ListedInv, DiskListed, TempsOwn, SplitListed
  <1>6. CASE WriteTemp
    <2>1. /\ up /\ op.pc = "write" /\ op' = [op EXCEPT !.pc = "rename"] /\ temps' = temps \cup {Target}
      BY <1>6 DEF WriteTemp, Goto
    <2>2. temps = {}
      BY <2>1 DEF ListedInv, TempsOwn
    <2>3. /\ op'.pc = "rename" /\ op'.call = op.call /\ op'.name = op.name /\ op'.half = op.half
      BY <1>2, <2>1 DEF Call
    <2>4. Target' = Target
      BY <2>3 DEF Target
    <2> QED BY <1>1, <1>2, <2>1, <2>2, <2>3, <2>4 DEF ListedInv, DiskListed, TempsOwn, SplitListed
  <1> QED BY <1>3, <1>4, <1>5, <1>6, Zenon DEF Still

\* So does every other step, one case each.
LEMMA ListedSteps ==
    ASSUME SpoolInv, ListedInv, "unlink" \notin Faults, [SpoolNext]_spoolVars
    PROVE  ListedInv'
  <1>0. files \in Index /\ op \in Call
    BY DEF SpoolInv, TypeOK, Index
  <1>1. CASE Still
    BY <1>1, ListedStill
  <1>2. CASE OldestFound
    <2>1. /\ up /\ op.call = "oldest" /\ op.pc = "expire" /\ op' = Idle
          /\ UNCHANGED <<up, files, disk, temps>>
      BY <1>2 DEF OldestFound, NoneExpired, Return, directory
    <2> QED BY <2>1, IdleCall DEF ListedInv, DiskListed, TempsOwn, SplitListed, Listed
  <1>3. CASE Expire \/ MakeRoom \/ Enforce \/ SkipCorrupt
    <2>1. /\ 1 \in DOMAIN files /\ files' = Without(files, 1) /\ disk' = disk \ {files[1].name}
          /\ up /\ op.call # "split" /\ op.pc # "rename" /\ op'.call = op.call
          /\ UNCHANGED <<up, temps>>
      BY <1>3, DropFacts
    <2>2. \A x \in Listed : x = files[1].name \/ x \in Listed'
      BY <1>0, <2>1, CutNames DEF Listed
    <2> QED BY <2>1, <2>2 DEF ListedInv, DiskListed, TempsOwn, SplitListed
  <1>4. CASE Remove
    <2>1. /\ up /\ op.pc = "idle" /\ op.call = "none" /\ UNCHANGED <<up, op, temps>>
          /\ \/ UNCHANGED <<files, disk>>
             \/ \E p \in DOMAIN files : files' = Without(files, p) /\ disk' = disk \ {files[p].name}
      BY <1>4, RemoveFacts
    <2>2. disk \subseteq Listed /\ temps = {}
      BY <2>1 DEF ListedInv, DiskListed, TempsOwn
    <2>3. disk' \subseteq Listed'
      <3>1. CASE UNCHANGED <<files, disk>>
        BY <2>2, <3>1 DEF Listed
      <3>2. CASE \E p \in DOMAIN files : files' = Without(files, p) /\ disk' = disk \ {files[p].name}
        <4>1. PICK p \in DOMAIN files : files' = Without(files, p) /\ disk' = disk \ {files[p].name}
          BY <3>2
        <4>2. \A x \in Listed : x = files[p].name \/ x \in Listed'
          BY <1>0, <4>1, CutNames DEF Listed
        <4> QED BY <2>2, <4>1, <4>2
      <3> QED BY <2>1, <3>1, <3>2
    <2> QED BY <2>1, <2>2, <2>3 DEF ListedInv, DiskListed, TempsOwn, SplitListed
  <1>5. CASE RenamePut
    <2>1. /\ up /\ op.call = "put" /\ op.pc = "rename" /\ Target = op.name
          /\ disk' = disk \cup {op.name} /\ temps' = temps \ {op.name}
          /\ files' = Append(files, [name |-> op.name, n |-> Len(op.docs)])
          /\ op' = [op EXCEPT !.pc = "enforce"] /\ up' = up
      BY <1>5 DEF RenamePut, Land, Goto, Target
    <2>2. op'.call = "put" /\ op'.pc = "enforce"
      BY <1>0, <2>1 DEF Call
    <2>3. Listed \subseteq Listed' /\ op.name \in Listed'
      <3>1. /\ DOMAIN files' = 1..(Len(files) + 1) /\ DOMAIN files = 1..Len(files) /\ Len(files) \in Nat
            /\ files'[Len(files) + 1].name = op.name /\ \A i \in 1..Len(files) : files'[i] = files[i]
        BY <1>0, <2>1 DEF Index
      <3>2. \A i \in 1..Len(files) : i \in 1..(Len(files) + 1)
        BY <3>1
      <3>3. Len(files) + 1 \in 1..(Len(files) + 1)
        BY <3>1
      <3> QED BY <3>1, <3>2, <3>3 DEF Listed
    <2> QED BY <2>1, <2>2, <2>3 DEF ListedInv, DiskListed, TempsOwn, SplitListed
  <1>6. CASE RenameHalf
    <2>1. /\ op.call = "split" /\ op.half \in {0, 1} /\ disk' = disk \cup {HalfName(op.name, op.half)}
          /\ temps' = temps \ {HalfName(op.name, op.half)}
          /\ UNCHANGED <<up, files>>
          /\ op'.call = "split" /\ op'.name = op.name /\ op'.half = 1
      BY <1>6, HalfLands
    <2>2. up /\ op.pc = "rename" /\ Target = HalfName(op.name, op.half)
      BY <1>6, <2>1 DEF RenameHalf, Land, Target
    <2>3. op.half = 1 => op'.pc = "swap"
      BY <1>0, <1>6 DEF RenameHalf, Call
    <2>4. temps' = {}
      BY <2>1, <2>2 DEF ListedInv, TempsOwn
    <2> QED BY <2>1, <2>2, <2>3, <2>4 DEF ListedInv, DiskListed, TempsOwn, SplitListed, Listed
  <1>7. CASE SplitFailed
    <2>1. /\ up /\ op.call = "split" /\ op.pc \in {"write", "rename"} /\ op' = Idle
          /\ temps' = temps \ {Target} /\ UNCHANGED <<up, files>>
          /\ disk' \subseteq disk
          /\ op.half = 1 => HalfName(op.name, 0) \notin disk'
      BY <1>7, SplitFailedFacts
    <2> QED BY <2>1, IdleCall DEF ListedInv, DiskListed, TempsOwn, SplitListed, Listed
  <1>8. CASE SplitDone
    <2>1. /\ up /\ op.call = "split" /\ op.pc = "swap" /\ op.name \in Name /\ op' = Idle
          /\ disk' = disk \ {op.name} /\ UNCHANGED <<up, temps>>
      BY <1>8, SplitDoneFacts
    <2>2. PICK p \in DOMAIN files, m, n \in Nat :
             /\ files[p].name = op.name /\ ~Repeated(files, p)
             /\ files' = Splice(files, p, [name |-> HalfName(op.name, 0), n |-> m],
                                          [name |-> HalfName(op.name, 1), n |-> n])
      BY <1>8, SplitDoneFacts
    <2> DEFINE A == [name |-> HalfName(op.name, 0), n |-> m]
               B == [name |-> HalfName(op.name, 1), n |-> n]
               S == [name : Name, n : Nat]
    <2>3. A \in S /\ B \in S /\ files \in Seq(S)
      BY <1>0, <2>1, HalfNames DEF Index
    <2> HIDE DEF A, B, S
    <2>4. files' = Splice(files, p, A, B)
      BY <2>2 DEF A, B
    <2>5. /\ DOMAIN Splice(files, p, A, B) = 1..(Len(files) + 1)
          /\ Splice(files, p, A, B)[p] = A /\ Splice(files, p, A, B)[p + 1] = B
          /\ \A k \in 1..(Len(files) + 1) : k # p /\ k # p + 1 =>
                Was(p, k) \in DOMAIN files /\ Was(p, k) # p /\ Splice(files, p, A, B)[k] = files[Was(p, k)]
          /\ \A q \in DOMAIN files : q # p => \E k \in 1..(Len(files) + 1) : k # p /\ k # p + 1 /\ Was(p, k) = q
      BY <2>3, SplicePositions
    <2>6. p \in 1..(Len(files) + 1) /\ p + 1 \in 1..(Len(files) + 1)
      BY <1>0 DEF Index
    <2>7. A.name \in Listed' /\ B.name \in Listed'
      BY <2>4, <2>5, <2>6 DEF Listed
    <2>8. \A x \in Listed : x = op.name \/ x \in Listed'
      <3> SUFFICES ASSUME NEW q \in DOMAIN files, q # p PROVE files[q].name \in Listed'
        BY <2>2 DEF Listed
      <3>1. PICK k \in 1..(Len(files) + 1) : k # p /\ k # p + 1 /\ Was(p, k) = q
        BY <2>5
      <3> QED BY <2>4, <2>5, <3>1 DEF Listed
    <2>9. A.name = HalfName(op.name, 0) /\ B.name = HalfName(op.name, 1)
      BY DEF A, B
    <2> QED BY <2>1, <2>7, <2>8, <2>9, IdleCall DEF ListedInv, DiskListed, TempsOwn, SplitListed
  <1>9. CASE ProcessEnds
    <2>1. up' = FALSE /\ op' = Idle
      BY <1>9 DEF ProcessEnds
    <2> QED BY <2>1, IdleCall DEF ListedInv, DiskListed, TempsOwn, SplitListed
  <1>10. CASE OpenSpool
    <2>1. /\ op' = Idle /\ temps' = {} /\ disk' = disk /\ {files'[i].name : i \in DOMAIN files'} = disk
      BY <1>10, OpenFacts
    <2> QED BY <2>1, IdleCall DEF ListedInv, DiskListed, TempsOwn, SplitListed, Listed
  <1> QED BY <1>1, <1>2, <1>3, <1>4, <1>5, <1>6, <1>7, <1>8, <1>9, <1>10, SpoolStepKinds

\* The directory stays listed.
LEMMA SpoolKeepsListed ==
    ASSUME "unlink" \notin Faults
    PROVE  SpoolSpec => []ListedInv
  <1>1. SpoolInit => ListedInv
    <2> SUFFICES ASSUME SpoolInit PROVE ListedInv
      OBVIOUS
    <2>1. disk = {} /\ temps = {} /\ op = Idle
      BY DEF SpoolInit
    <2> QED BY <2>1, IdleCall DEF ListedInv, DiskListed, TempsOwn, SplitListed
  <1>2. SpoolInv /\ ListedInv /\ [SpoolNext]_spoolVars => ListedInv'
    BY ListedSteps
  <1> QED BY <1>1, <1>2, SpoolInvariant, PTL DEF SpoolSpec

\* Between calls every batch file is in the index and no temporary file is left,
\* whatever crashed or failed to write before (spool.go:79-104, 143, 217, 250, 265-309).
THEOREM SpoolListsFiles ==
    ASSUME "unlink" \notin Faults
    PROVE  SpoolSpec => []IndexComplete
  <1>1. SpoolInv /\ ListedInv => IndexComplete
    BY DEF SpoolInv, CallShape, ListedInv, DiskListed, TempsOwn, IndexComplete
  <1> QED BY <1>1, SpoolInvariant, SpoolKeepsListed, PTL

----------------------------------------------------------------------------
(* PutInvariant. *)

\* The sizes of the entries of an index.
Sizes(f) == [i \in DOMAIN f |-> Size(f[i].n)]

\* Two sequences joined, position by position.
LEMMA JoinPositions ==
    ASSUME NEW S, NEW u \in Seq(S), NEW v \in Seq(S)
    PROVE  /\ u \o v \in Seq(S) /\ Len(u \o v) = Len(u) + Len(v)
           /\ \A i \in 1..(Len(u) + Len(v)) : (u \o v)[i] = IF i <= Len(u) THEN u[i] ELSE v[i - Len(u)]
  OBVIOUS

\* A sequence is what comes before, at and after a position.
LEMMA SeqCut ==
    ASSUME NEW S, NEW s \in Seq(S), NEW p \in DOMAIN s
    PROVE  /\ SubSeq(s, 1, p - 1) \in Seq(S) /\ SubSeq(s, p + 1, Len(s)) \in Seq(S) /\ s[p] \in S
           /\ s = SubSeq(s, 1, p - 1) \o <<s[p]>> \o SubSeq(s, p + 1, Len(s))
  <1> DEFINE u == SubSeq(s, 1, p - 1)
             v == SubSeq(s, p + 1, Len(s))
             e == <<s[p]>>
             w == u \o e
  <1>1. p \in 1..Len(s) /\ Len(s) \in Nat /\ s[p] \in S
    OBVIOUS
  <1>2. /\ u \in Seq(S) /\ Len(u) = p - 1 /\ \A k \in 1..(p - 1) : u[k] = s[k]
        /\ v \in Seq(S) /\ Len(v) = Len(s) - p /\ \A k \in 1..(Len(s) - p) : v[k] = s[k + p]
    BY <1>1
  <1>3. e \in Seq(S) /\ Len(e) = 1 /\ e[1] = s[p]
    BY <1>1
  <1> HIDE DEF u, v, e
  <1>4. /\ w \in Seq(S) /\ Len(w) = Len(u) + 1
        /\ \A i \in 1..(Len(u) + 1) : w[i] = IF i <= Len(u) THEN u[i] ELSE e[i - Len(u)]
    <2>1. /\ u \o e \in Seq(S) /\ Len(u \o e) = Len(u) + Len(e)
          /\ \A i \in 1..(Len(u) + Len(e)) : (u \o e)[i] = IF i <= Len(u) THEN u[i] ELSE e[i - Len(u)]
      BY <1>2, <1>3, JoinPositions
    <2> QED BY <1>3, <2>1, Zenon
  <1>5. Len(w) = p /\ \A i \in 1..p : w[i] = s[i]
    <2>1. Len(u) + 1 = p /\ Len(u) = p - 1
      BY <1>1, <1>2
    <2>2. ASSUME NEW i \in 1..p PROVE w[i] = s[i]
      <3>1. CASE i = p
        <4>1. ~(i <= Len(u)) /\ i - Len(u) = 1 /\ i \in 1..(Len(u) + 1)
          BY <1>1, <2>1, <3>1
        <4> QED BY <1>3, <1>4, <3>1, <4>1
      <3>2. CASE i # p
        <4>1. i <= Len(u) /\ i \in 1..(p - 1) /\ i \in 1..(Len(u) + 1)
          BY <1>1, <2>1, <3>2
        <4> QED BY <1>2, <1>4, <4>1
      <3> QED BY <3>1, <3>2
    <2> QED BY <1>4, <2>1, <2>2
  <1> HIDE DEF w
  <1>6. /\ w \o v \in Seq(S) /\ Len(w \o v) = Len(w) + Len(v)
        /\ \A i \in 1..(Len(w) + Len(v)) : (w \o v)[i] = IF i <= Len(w) THEN w[i] ELSE v[i - Len(w)]
    BY <1>2, <1>4, JoinPositions
  <1>7. Len(w \o v) = Len(s)
    <2>1. p + (Len(s) - p) = Len(s)
      BY <1>1
    <2> QED BY <1>2, <1>5, <1>6, <2>1, Zenon
  <1>8. ASSUME NEW i \in 1..Len(s) PROVE (w \o v)[i] = s[i]
    <2>0. i \in 1..(Len(w) + Len(v))
      BY <1>1, <1>2, <1>5
    <2>1. CASE i <= p
      <3>1. i \in 1..p
        BY <1>1, <2>1
      <3> QED BY <1>5, <1>6, <2>0, <2>1, <3>1
    <2>2. CASE ~(i <= p)
      <3>1. i - p \in 1..(Len(s) - p) /\ i - p + p = i
        BY <1>1, <2>2
      <3> QED BY <1>2, <1>5, <1>6, <2>0, <2>2, <3>1
    <2> QED BY <2>1, <2>2
  <1>9. w \o v = s
    BY <1>6, <1>7, <1>8, SameSequence
  <1> QED BY <1>1, <1>2, <1>9 DEF u, v, w, e

\* They are naturals, one per entry.
LEMMA SizesSeq ==
    ASSUME NEW f \in Index
    PROVE  Sizes(f) \in Seq(Nat)
  <1>1. f \in Seq([name : Name, n : Nat]) /\ Len(f) \in Nat /\ DOMAIN f = 1..Len(f)
    BY DEF Index
  <1>2. \A i \in 1..Len(f) : f[i] \in [name : Name, n : Nat]
    BY <1>1, SeqElements
  <1>3. \A i \in 1..Len(f) : Size(f[i].n) \in Nat
    BY <1>2 DEF Size
  <1> QED BY <1>1, <1>3 DEF Sizes

\* The size of two indexes joined (spool.go:303-306).
LEMMA BytesJoin ==
    ASSUME NEW f \in Index, NEW g \in Index
    PROVE  /\ f \o g \in Index /\ Bytes(f) \in Nat /\ Bytes(<<>>) = 0
           /\ Bytes(f \o g) = Bytes(f) + Bytes(g)
  <1>1. Sizes(f) \in Seq(Nat) /\ Sizes(g) \in Seq(Nat)
    BY SizesSeq
  <1>2. /\ f \o g \in Index /\ DOMAIN (f \o g) = 1..(Len(f) + Len(g))
        /\ Len(f) \in Nat /\ Len(g) \in Nat /\ DOMAIN f = 1..Len(f) /\ DOMAIN g = 1..Len(g)
        /\ \A i \in 1..(Len(f) + Len(g)) : (f \o g)[i] = IF i <= Len(f) THEN f[i] ELSE g[i - Len(f)]
    BY DEF Index
  <1>3. Sizes(f \o g) = Sizes(f) \o Sizes(g)
    <2> DEFINE u == Sizes(f)
               v == Sizes(g)
               w == f \o g
               z == Sizes(w)
    <2>1. u \in Seq(Nat) /\ v \in Seq(Nat) /\ Len(u) = Len(f) /\ Len(v) = Len(g)
      BY <1>1, <1>2 DEF Sizes
    <2>2. \A i \in 1..Len(f) : u[i] = Size(f[i].n)
      BY <1>2 DEF Sizes
    <2>3. \A i \in 1..Len(g) : v[i] = Size(g[i].n)
      BY <1>2 DEF Sizes
    <2>4. z \in Seq(Nat) /\ Len(z) = Len(f) + Len(g) /\ \A i \in 1..(Len(f) + Len(g)) : z[i] = Size(w[i].n)
      <3>1. z \in Seq(Nat)
        BY <1>2, SizesSeq
      <3>2. z = [i \in 1..(Len(f) + Len(g)) |-> Size(w[i].n)]
        BY <1>2 DEF Sizes
      <3>3. Len(f) + Len(g) \in Nat
        BY <1>2
      <3> HIDE DEF z, w
      <3> QED BY <3>1, <3>2, <3>3
    <2>5. \A i \in 1..(Len(f) + Len(g)) : w[i] = IF i <= Len(f) THEN f[i] ELSE g[i - Len(f)]
      BY <1>2
    <2> HIDE DEF u, v, w, z
    <2>6. /\ u \o v \in Seq(Nat) /\ Len(u \o v) = Len(f) + Len(g)
          /\ \A i \in 1..(Len(f) + Len(g)) : (u \o v)[i] = IF i <= Len(f) THEN u[i] ELSE v[i - Len(f)]
      <3>1. /\ u \o v \in Seq(Nat) /\ Len(u \o v) = Len(u) + Len(v)
            /\ \A i \in 1..(Len(u) + Len(v)) : (u \o v)[i] = IF i <= Len(u) THEN u[i] ELSE v[i - Len(u)]
        BY <2>1, JoinPositions
      <3> QED BY <2>1, <3>1, Zenon
    <2>7. \A i \in 1..Len(z) : z[i] = (u \o v)[i]
      <3> SUFFICES ASSUME NEW i \in 1..(Len(f) + Len(g)) PROVE z[i] = (u \o v)[i]
        BY <2>4
      <3>1. CASE i <= Len(f)
        <4>1. i \in 1..Len(f)
          BY <1>2, <3>1
        <4> QED BY <2>2, <2>4, <2>5, <2>6, <3>1, <4>1
      <3>2. CASE ~(i <= Len(f))
        <4>1. i - Len(f) \in 1..Len(g)
          BY <1>2, <3>2
        <4> QED BY <2>3, <2>4, <2>5, <2>6, <3>2, <4>1
      <3> QED BY <3>1, <3>2
    <2>8. z = u \o v
      BY <2>4, <2>6, <2>7, SameSequence
    <2> QED BY <2>8 DEF u, v, w, z
  <1>4. Bytes(f) = SumFunction(Sizes(f)) /\ Bytes(g) = SumFunction(Sizes(g))
        /\ Bytes(f \o g) = SumFunction(Sizes(f \o g))
    BY DEF Bytes, Sizes
  <1>5. Bytes(<<>>) = SumFunction(<<>>)
    <2>1. [i \in DOMAIN <<>> |-> Size(<<>>[i].n)] = <<>>
      OBVIOUS
    <2> QED BY <2>1 DEF Bytes
  <1>6. /\ SumFunction(Sizes(f)) \in Nat /\ SumFunction(<<>>) = 0
        /\ SumFunction(Sizes(f) \o Sizes(g)) = SumFunction(Sizes(f)) + SumFunction(Sizes(g))
    <2>1. 0 \in Nat
      OBVIOUS
    <2> QED BY <1>1, <2>1, SumSequences, Zenon
  <1> QED BY <1>2, <1>3, <1>4, <1>5, <1>6

\* The size of one entry.
LEMMA BytesOne ==
    ASSUME NEW e \in [name : Name, n : Nat]
    PROVE  <<e>> \in Index /\ Bytes(<<e>>) = Size(e.n)
  <1>1. <<e>> \in Index /\ Size(e.n) \in Nat
    BY DEF Index, Size
  <1>2. [i \in DOMAIN <<e>> |-> Size(<<e>>[i].n)] = <<Size(e.n)>>
    OBVIOUS
  <1>3. <<>> \in Seq(Nat)
    OBVIOUS
  <1>4. SumFunction(<<Size(e.n)>>) = Size(e.n)
    BY <1>1, <1>3, SumSequences
  <1> QED BY <1>1, <1>2, <1>4 DEF Bytes

\* An entry taken out, and two put in its place.
LEMMA BytesCut ==
    ASSUME NEW f \in Index, NEW p \in DOMAIN f
    PROVE  /\ f[p].n \in Nat /\ Without(f, p) \in Index
           /\ Bytes(Without(f, p)) = Bytes(f) - Size(f[p].n)
           /\ \A a, b \in [name : Name, n : Nat] :
                 Bytes(Splice(f, p, a, b)) = Bytes(f) - Size(f[p].n) + Size(a.n) + Size(b.n)
  <1> DEFINE u == SubSeq(f, 1, p - 1)
             v == SubSeq(f, p + 1, Len(f))
             e == f[p]
  <1>1. u \in Index /\ v \in Index /\ e \in [name : Name, n : Nat] /\ f = u \o <<e>> \o v
    BY SeqCut DEF Index
  <1>2. e.n \in Nat
    BY <1>1
  <1>3. <<e>> \in Index /\ Bytes(<<e>>) = Size(e.n) /\ Size(e.n) \in Nat
    BY <1>1, <1>2, BytesOne DEF Size
  <1>4. Without(f, p) = u \o v
    BY DEF Without
  <1>5. \A a, b : Splice(f, p, a, b) = u \o <<a, b>> \o v
    BY DEF Splice
  <1> HIDE DEF u, v, e
  <1>6. /\ Bytes(u) \in Nat /\ Bytes(v) \in Nat /\ u \o v \in Index
        /\ Bytes(u \o v) = Bytes(u) + Bytes(v)
    BY <1>1, BytesJoin
  <1>7. u \o <<e>> \in Index /\ Bytes(u \o <<e>>) = Bytes(u) + Size(e.n)
    BY <1>1, <1>3, BytesJoin
  <1>8. Bytes(f) = Bytes(u) + Size(e.n) + Bytes(v)
    BY <1>1, <1>7, BytesJoin
  <1>9. ASSUME NEW a \in [name : Name, n : Nat], NEW b \in [name : Name, n : Nat]
        PROVE  Bytes(Splice(f, p, a, b)) = Bytes(f) - Size(e.n) + Size(a.n) + Size(b.n)
    <2>0. Size(a.n) \in Nat /\ Size(b.n) \in Nat
      BY DEF Size
    <2>1. /\ <<a>> \in Index /\ Bytes(<<a>>) = Size(a.n)
          /\ <<b>> \in Index /\ Bytes(<<b>>) = Size(b.n)
      BY BytesOne
    <2>2. <<a, b>> = <<a>> \o <<b>>
      <3>1. <<a>> \in Seq({a, b}) /\ <<b>> \in Seq({a, b}) /\ <<a, b>> \in Seq({a, b})
        OBVIOUS
      <3>2. Len(<<a>> \o <<b>>) = 2 /\ (<<a>> \o <<b>>)[1] = a /\ (<<a>> \o <<b>>)[2] = b
            /\ <<a>> \o <<b>> \in Seq({a, b})
        BY <3>1, JoinPositions
      <3>3. \A i \in 1..2 : (<<a>> \o <<b>>)[i] = <<a, b>>[i]
        BY <3>2
      <3>4. Len(<<a, b>>) = 2
        OBVIOUS
      <3> QED BY <3>1, <3>2, <3>3, <3>4, SameSequence
    <2>3. <<a, b>> \in Index /\ Bytes(<<a, b>>) = Size(a.n) + Size(b.n)
      BY <2>1, <2>2, BytesJoin
    <2>4. u \o <<a, b>> \in Index /\ Bytes(u \o <<a, b>>) = Bytes(u) + Size(a.n) + Size(b.n)
      BY <1>1, <1>6, <2>0, <2>3, BytesJoin
    <2>5. Bytes(u \o <<a, b>> \o v) = Bytes(u) + Size(a.n) + Size(b.n) + Bytes(v)
      BY <1>1, <2>4, BytesJoin
    <2>6. Splice(f, p, a, b) = u \o <<a, b>> \o v
      BY <1>5
    <2>7. Bytes(f) - Size(e.n) + Size(a.n) + Size(b.n) = Bytes(u) + Size(a.n) + Size(b.n) + Bytes(v)
      BY <1>3, <1>6, <1>8, <2>0
    <2> QED BY <2>5, <2>6, <2>7, Zenon
  <1>10. Bytes(u \o v) = Bytes(f) - Size(e.n)
    BY <1>3, <1>6, <1>8
  <1> QED BY <1>1, <1>4, <1>6, <1>9, <1>10 DEF e

\* The size of an index one entry longer (spool.go:142-143).
LEMMA BytesAppend ==
    ASSUME NEW f \in Index, NEW e \in [name : Name, n : Nat]
    PROVE  Bytes(Append(f, e)) = Bytes(f) + Size(e.n)
  <1>1. Append(f, e) = f \o <<e>>
    BY DEF Index
  <1>2. <<e>> \in Index /\ Bytes(<<e>>) = Size(e.n)
    BY BytesOne
  <1>3. Bytes(f \o <<e>>) = Bytes(f) + Bytes(<<e>>)
    BY <1>2, BytesJoin
  <1> QED BY <1>1, <1>2, <1>3
\* A file gone or kept: what an unlink that may fail leaves.
LEMMA FrontGoes ==
    ASSUME SpoolInv, Expire \/ MakeRoom \/ Enforce \/ SkipCorrupt
    PROVE  /\ files \in Index /\ 1 \in DOMAIN files /\ files' = Without(files, 1)
           /\ disk \ {files[1].name} \subseteq disk' /\ total' = total - Size(files[1].n)
           /\ body' = body /\ op'.pc = op.pc /\ op'.name = op.name /\ op'.docs = op.docs
           /\ op.pc = "enforce" => Len(files) > 1
  <1>1. DropFront /\ body' = body /\ op \in Call /\ files \in Index
    BY DEF Expire, MakeRoom, Enforce, SkipCorrupt, SpoolInv, TypeOK, Index
  <1>2. op'.pc = op.pc /\ op'.name = op.name /\ op'.docs = op.docs
    <2>1. CASE Expire \/ Enforce \/ SkipCorrupt
      BY <2>1 DEF Expire, Enforce, SkipCorrupt
    <2>2. CASE MakeRoom
      BY <1>1, <2>2 DEF MakeRoom, Call
    <2> QED BY <2>1, <2>2
  <1>3. op.pc = "enforce" => Len(files) > 1
    BY DEF Expire, MakeRoom, Enforce, SkipCorrupt, ShortOfRoom, NoneExpired, OverCap
  <1>4. /\ files # <<>> /\ files' = Tail(files) /\ total' = total - Size(files[1].n)
        /\ disk \ {files[1].name} \subseteq disk'
    BY <1>1 DEF DropFront, Unlink
  <1>5. 1 \in DOMAIN files /\ Tail(files) = Without(files, 1)
    BY <1>1, <1>4, TailCuts
  <1> QED BY <1>1, <1>2, <1>3, <1>4, <1>5

\* The two parts of a split under way hold what their names say.
LEMMA PartsWritten ==
    ASSUME SpoolInv, op.call = "split", NEW h \in {0, 1}, HalfName(op.name, h) \in DOMAIN body
    PROVE  op.name \in Name /\ op.docs \in Seq(Records) /\ body[HalfName(op.name, h)] = Half(op.docs, h)
  <1>1. op.name = hand.name /\ op.docs = hand.docs /\ hand.name # NoName
    BY DEF SpoolInv, SplitProgress
  <1>2. op.name \in DOMAIN body /\ op.docs = body[op.name] /\ op.docs \in Seq(Records)
    BY <1>1 DEF SpoolInv, HandBacked, TypeOK
  <1>3. DOMAIN body \subseteq Name
    BY DEF SpoolInv, TypeOK
  <1>4. HalfName(op.name, h).sfx # <<>>
    BY <1>2, <1>3, HalfNames
  <1>5. PICK nm \in DOMAIN body, k \in {0, 1} :
           HalfName(op.name, h) = HalfName(nm, k) /\ body[HalfName(op.name, h)] = Half(body[nm], k)
    BY <1>4 DEF SpoolInv, PartsMatch
  <1>6. nm = op.name /\ k = h
    BY <1>2, <1>3, <1>5, HalfNames
  <1> QED BY <1>2, <1>3, <1>5, <1>6
\* The steps that leave the index alone leave the total alone, and start no enforcing.
LEMMA TotalStill ==
    ASSUME SpoolInv, Still \/ OldestFound \/ SplitFailed
    PROVE  total' = total /\ files' = files /\ body' = body /\ (op'.pc = "enforce" => op' = op /\ disk' = disk)
  <1>1. total' = total /\ files' = files /\ body' = body
    BY DEF Still, Put, Oldest, Split, SplitVanished, SampleRoom, PutLowDisk, NameBatch, WriteTemp,
       PutFailed, PutDone, OldestEmpty, Tick, Damage, OldestFound, SplitFailed, spoolVars, memory, directory, history
  <1>2. op \in Call
    BY DEF SpoolInv, TypeOK
  <1>3. CASE Tick \/ Damage \/ SplitVanished \/ UNCHANGED spoolVars
    BY <1>1, <1>3 DEF Tick, Damage, SplitVanished, spoolVars, memory, directory
  <1>4. CASE Put \/ Oldest \/ Split
    <2>1. op'.pc # "enforce"
      BY <1>4 DEF Put, PutCall, Oldest, Split, Begin
    <2> QED BY <1>1, <2>1
  <1>5. CASE SampleRoom \/ NameBatch \/ WriteTemp
    <2>1. op'.pc # "enforce"
      BY <1>2, <1>5 DEF SampleRoom, NameBatch, WriteTemp, Goto, Call
    <2> QED BY <1>1, <2>1
  <1>6. CASE PutLowDisk \/ PutFailed \/ PutDone \/ OldestEmpty \/ OldestFound \/ SplitFailed
    <2>1. op' = Idle
      BY <1>6 DEF PutLowDisk, PutFailed, PutDone, OldestEmpty, OldestFound, SplitFailed, Return
    <2> QED BY <1>1, <2>1, IdleCall
  <1> QED BY <1>3, <1>4, <1>5, <1>6 DEF Still

\* Every step keeps the total, the counts and the newest batch.
LEMMA TotalSteps ==
    ASSUME SpoolInv, PutInvariant, [SpoolNext]_spoolVars
    PROVE  PutInvariant'
  <1> USE DEF PutInvariant
  <1>0. /\ files \in Index /\ op \in Call /\ total = Bytes(files) /\ total \in Nat
        /\ \A i \in DOMAIN files : files[i].name \in DOMAIN body
        /\ DOMAIN files = 1..Len(files) /\ Len(files) \in Nat
    <2>1. files \in Index /\ op \in Call
      BY DEF SpoolInv, TypeOK, Index
    <2>2. total = Bytes(files) /\ total \in Nat
      BY <2>1, BytesJoin DEF TotalAgrees
    <2> QED BY <2>1, <2>2 DEF SpoolInv, IndexWritten, Index
  <1>a. files \in Seq([name : Name, n : Nat])
    BY <1>0 DEF Index
  <1>1. CASE Still \/ OldestFound \/ SplitFailed
    BY <1>1, TotalStill DEF TotalAgrees, CountsAgree, NewestLast
  <1>2. CASE Expire \/ MakeRoom \/ Enforce \/ SkipCorrupt
    <2>1. /\ 1 \in DOMAIN files /\ files' = Without(files, 1)
          /\ disk \ {files[1].name} \subseteq disk' /\ total' = total - Size(files[1].n)
          /\ body' = body /\ op'.pc = op.pc /\ op'.name = op.name /\ op'.docs = op.docs
          /\ op.pc = "enforce" => Len(files) > 1
      BY <1>2, FrontGoes
    <2>2. TotalAgrees'
      BY <1>0, <2>1, BytesCut DEF TotalAgrees
    <2>3. /\ DOMAIN files' = 1..(Len(files) - 1)
          /\ \A k \in 1..(Len(files) - 1) : k + 1 \in DOMAIN files /\ files'[k] = files[k + 1]
      <3>1. /\ DOMAIN Without(files, 1) = 1..(Len(files) - 1)
            /\ \A k \in 1..(Len(files) - 1) :
                  Old(1, k) \in DOMAIN files /\ Without(files, 1)[k] = files[Old(1, k)]
        <4>1. 1 \in DOMAIN files
          BY <2>1
        <4> QED BY <1>a, <4>1, CutPositions
      <3>2. \A k \in 1..(Len(files) - 1) : Old(1, k) = k + 1
        BY <1>0 DEF Old
      <3> QED BY <2>1, <3>1, <3>2
    <2>4. CountsAgree'
      BY <2>1, <2>3 DEF CountsAgree
    <2>5. NewestLast'
      <3> SUFFICES ASSUME op'.pc = "enforce"
                   PROVE  /\ op'.name \in disk' /\ body'[op'.name] = op'.docs
                          /\ \A i \in DOMAIN files' : files'[i].name = op'.name => i = Len(files')
        BY DEF NewestLast
      <3>1. /\ op.name \in disk /\ body[op.name] = op.docs /\ Len(files) > 1
            /\ \A i \in DOMAIN files : files[i].name = op.name => i = Len(files)
        BY <2>1 DEF NewestLast
      <3>2. files[1].name # op.name
        BY <2>1, <3>1
      <3>3. Len(files') = Len(files) - 1
        <4>1. files' \in Index
          BY <1>0, <2>1, BytesCut
        <4>2. Len(files') \in Nat /\ DOMAIN files' = 1..Len(files')
          BY <4>1 DEF Index
        <4>3. 1..Len(files') = 1..(Len(files) - 1) /\ Len(files) - 1 \in Nat /\ Len(files) - 1 >= 1
          <5>1. 1..Len(files') = 1..(Len(files) - 1)
            BY <2>3, <4>2, Zenon
          <5>2. Len(files) \in Nat /\ Len(files) > 1
            BY <1>0, <3>1
          <5>3. Len(files) - 1 \in Nat /\ Len(files) - 1 >= 1
            BY <5>2
          <5> QED BY <5>1, <5>3
        <4>4. Len(files) - 1 \in 1..(Len(files) - 1)
          BY <4>3
        <4>5. Len(files) - 1 \in 1..Len(files')
          BY <4>3, <4>4
        <4>6. Len(files') \in 1..Len(files')
          BY <4>2, <4>3, <4>5
        <4>7. Len(files') \in 1..(Len(files) - 1)
          BY <4>3, <4>6
        <4> QED BY <4>2, <4>3, <4>5, <4>7
      <3>4. \A i \in DOMAIN files' : files'[i].name = op'.name => i = Len(files')
        <4> SUFFICES ASSUME NEW i \in DOMAIN files', files'[i].name = op.name PROVE i = Len(files')
          BY <2>1
        <4>1. i \in 1..(Len(files) - 1) /\ i + 1 \in DOMAIN files /\ files[i + 1].name = op.name
          BY <2>3
        <4>2. i + 1 = Len(files)
          BY <3>1, <4>1
        <4> QED BY <1>0, <3>3, <4>1, <4>2
      <3> QED BY <2>1, <3>1, <3>2, <3>4
    <2> QED BY <2>2, <2>4, <2>5
  <1>3. CASE Remove
    <2>1. op' = op /\ op.pc = "idle" /\ body' = body
      BY <1>3 DEF Remove
    <2>2. NewestLast'
      BY <2>1 DEF NewestLast
    <2>3. CASE UNCHANGED <<files, total>>
      BY <2>1, <2>2, <2>3 DEF TotalAgrees, CountsAgree
    <2>4. CASE \E i \in DOMAIN files : files' = Without(files, i) /\ total' = total - Size(files[i].n)
      <3>1. PICK p \in DOMAIN files : files' = Without(files, p) /\ total' = total - Size(files[p].n)
        BY <2>4
      <3>2. TotalAgrees'
        BY <1>0, <3>1, BytesCut DEF TotalAgrees
      <3>3. /\ DOMAIN files' = 1..(Len(files) - 1)
            /\ \A k \in 1..(Len(files) - 1) : Old(p, k) \in DOMAIN files /\ files'[k] = files[Old(p, k)]
        <4>1. /\ DOMAIN Without(files, p) = 1..(Len(files) - 1)
              /\ \A k \in 1..(Len(files) - 1) :
                    Old(p, k) \in DOMAIN files /\ Without(files, p)[k] = files[Old(p, k)]
          BY <1>a, CutPositions
        <4> QED BY <3>1, <4>1
      <3>4. CountsAgree'
        BY <2>1, <3>3 DEF CountsAgree
      <3> QED BY <2>2, <3>2, <3>4
    <2> QED BY <1>3, <2>3, <2>4 DEF Remove
  <1>4. CASE RenamePut
    <2>1. /\ op.pc = "rename" /\ Target = op.name /\ Content = op.docs /\ op' = [op EXCEPT !.pc = "enforce"]
          /\ files' = Append(files, [name |-> op.name, n |-> Len(op.docs)])
          /\ total' = total + Size(Len(op.docs)) /\ disk' = disk \cup {Target}
          /\ body' = [nm \in DOMAIN body \cup {Target} |-> IF nm = Target THEN Content ELSE body[nm]]
      BY <1>4 DEF RenamePut, Land, Target, Content, Goto
    <2>2. op.name \notin DOMAIN body /\ op.name \in Name /\ op.docs \in Seq(Records)
      <3>1. op.name = [t |-> clock, seq |-> seq, sfx |-> <<>>] /\ op.name \notin DOMAIN body
        BY <1>4, <2>1 DEF RenamePut, SpoolInv, NamesFresh, PutNamed
      <3> QED BY <1>0, <3>1 DEF SpoolInv, TypeOK, Name, Call
    <2>3. body'[op.name] = op.docs /\ \A nm \in DOMAIN body : body'[nm] = body[nm]
      BY <2>1, <2>2
    <2>4. op'.name = op.name /\ op'.docs = op.docs
      BY <1>0, <2>1 DEF Call
    <2>5. [name |-> op.name, n |-> Len(op.docs)] \in [name : Name, n : Nat]
      BY <2>2
    <2>6. TotalAgrees'
      BY <1>0, <2>1, <2>5, BytesAppend DEF TotalAgrees
    <2>7. /\ DOMAIN files' = 1..(Len(files) + 1) /\ Len(files') = Len(files) + 1
          /\ files'[Len(files) + 1] = [name |-> op.name, n |-> Len(op.docs)]
          /\ \A i \in DOMAIN files : files'[i] = files[i]
      BY <1>0, <2>1, <2>5 DEF Index
    <2>8. \A i \in DOMAIN files' : i \in DOMAIN files \/ i = Len(files) + 1
      BY <1>0, <2>7
    <2>9. CountsAgree'
      BY <1>0, <2>3, <2>7, <2>8 DEF CountsAgree
    <2>10. NewestLast'
      BY <1>0, <2>1, <2>2, <2>3, <2>4, <2>7, <2>8 DEF NewestLast
    <2> QED BY <2>6, <2>9, <2>10
  <1>5. CASE RenameHalf
    <2>1. files' = files /\ \A nm \in DOMAIN body : body'[nm] = body[nm]
      BY <1>5, HalfLands
    <2>2. total' = total /\ op'.pc # "enforce"
      BY <1>0, <1>5 DEF RenameHalf, Call
    <2> QED BY <1>0, <2>1, <2>2 DEF TotalAgrees, CountsAgree, NewestLast
  <1>6. CASE SplitDone
    <2>1. /\ op.pc = "swap" /\ op.call = "split" /\ op' = Idle /\ body' = body
      BY <1>6 DEF SplitDone, Return, SpoolInv, CallShape
    <2>2. PICK p \in DOMAIN files :
             /\ files' = Splice(files, p, HalfEntry(0), HalfEntry(1))
             /\ total' = total - Size(files[p].n) + Size(HalfEntry(0).n) + Size(HalfEntry(1).n)
      BY <1>6 DEF SplitDone, Splice
    <2>3. HalfName(op.name, 0) \in DOMAIN body /\ HalfName(op.name, 1) \in DOMAIN body
      BY <2>1 DEF SpoolInv, SplitProgress, TypeOK
    <2>4. /\ op.name \in Name /\ op.docs \in Seq(Records)
          /\ \A h \in {0, 1} : body[HalfName(op.name, h)] = Half(op.docs, h)
      BY <2>1, <2>3, PartsWritten
    <2>5. \A h \in {0, 1} : /\ HalfEntry(h) \in [name : Name, n : Nat]
                            /\ HalfEntry(h).n = Len(body[HalfEntry(h).name])
      <3> SUFFICES ASSUME NEW h \in {0, 1} PROVE HalfEntry(h) \in [name : Name, n : Nat]
                            /\ HalfEntry(h).n = Len(body[HalfEntry(h).name])
        OBVIOUS
      <3>1. HalfName(op.name, h) \in Name /\ Half(op.docs, h) \in Seq(Records)
        BY <2>4, HalfNames, HalfDocs
      <3> QED BY <2>4, <3>1 DEF HalfEntry
    <2> DEFINE a == HalfEntry(0)
               b == HalfEntry(1)
    <2>6. a \in [name : Name, n : Nat] /\ b \in [name : Name, n : Nat]
          /\ a.n = Len(body[a.name]) /\ b.n = Len(body[b.name])
      BY <2>5
    <2> HIDE DEF a, b
    <2>7. files' = Splice(files, p, a, b) /\ total' = total - Size(files[p].n) + Size(a.n) + Size(b.n)
      BY <2>2 DEF a, b
    <2>8. TotalAgrees'
      BY <1>0, <2>6, <2>7, BytesCut DEF TotalAgrees
    <2>9. /\ DOMAIN files' = 1..(Len(files) + 1) /\ files'[p] = a /\ files'[p + 1] = b
          /\ \A k \in 1..(Len(files) + 1) : k # p /\ k # p + 1 =>
                 Was(p, k) \in DOMAIN files /\ files'[k] = files[Was(p, k)]
      <3> DEFINE g == Splice(files, p, a, b)
      <3>1. /\ DOMAIN g = 1..(Len(files) + 1) /\ g[p] = a /\ g[p + 1] = b
            /\ \A k \in 1..(Len(files) + 1) : k # p /\ k # p + 1 =>
                   Was(p, k) \in DOMAIN files /\ g[k] = files[Was(p, k)]
        <4> DEFINE S == [name : Name, n : Nat]
        <4>1. a \in S /\ b \in S /\ files \in Seq(S)
          BY <1>a, <2>6
        <4> HIDE DEF S
        <4>2. /\ DOMAIN Splice(files, p, a, b) = 1..(Len(files) + 1)
              /\ Splice(files, p, a, b)[p] = a /\ Splice(files, p, a, b)[p + 1] = b
              /\ \A k \in 1..(Len(files) + 1) : k # p /\ k # p + 1 =>
                    Was(p, k) \in DOMAIN files /\ Was(p, k) # p /\ Splice(files, p, a, b)[k] = files[Was(p, k)]
          BY <4>1, SplicePositions
        <4> QED BY <4>2
      <3> QED BY <2>7, <3>1
    <2>10. CountsAgree'
      BY <2>1, <2>6, <2>9 DEF CountsAgree
    <2>11. NewestLast'
      BY <2>1, IdleCall DEF NewestLast
    <2> QED BY <2>8, <2>10, <2>11
  <1>7. CASE ProcessEnds
    <2>1. files' = <<>> /\ total' = 0 /\ op' = Idle
      BY <1>7 DEF ProcessEnds
    <2>2. Bytes(<<>>) = 0
      BY <1>0, BytesJoin
    <2>3. TotalAgrees'
      BY <2>1, <2>2 DEF TotalAgrees
    <2>4. CountsAgree' /\ NewestLast'
      BY <2>1, IdleCall DEF CountsAgree, NewestLast
    <2> QED BY <2>3, <2>4
  <1>8. CASE OpenSpool
    <2>1. total' = Bytes(files') /\ op' = op /\ op = Idle /\ body' = body
      BY <1>8 DEF OpenSpool, SpoolInv
    <2>2. PICK s \in Listings :
            files' = [i \in 1..Len(s) |-> [name |-> s[i], n |-> Len(body[s[i]])]]
      BY <1>8 DEF OpenSpool
    <2>3. CountsAgree'
      BY <2>1, <2>2 DEF CountsAgree
    <2> QED BY <2>1, <2>3, IdleCall DEF TotalAgrees, NewestLast
  <1> QED BY <1>1, <1>2, <1>3, <1>4, <1>5, <1>6, <1>7, <1>8, SpoolStepKinds, Zenon

\* The running total, which Put, Remove, Split and the drops each adjust on their own
\* (spool.go:143, 217, 250, 302-306), is the size of what the index lists, for every
\* size of batch and whatever fails; the entries' sizes are those of their files, and
\* the cap never takes the batch just put.
THEOREM SpoolKeepsTotal == SpoolSpec => []PutInvariant
  <1>1. SpoolInit => PutInvariant
    <2> SUFFICES ASSUME SpoolInit PROVE PutInvariant
      OBVIOUS
    <2>1. files = <<>> /\ total = 0 /\ op = Idle
      BY DEF SpoolInit
    <2>2. <<>> \in Index
      BY DEF Index
    <2>3. Bytes(<<>>) = 0
      BY <2>2, BytesJoin
    <2> QED BY <2>1, <2>3, IdleCall DEF PutInvariant, TotalAgrees, CountsAgree, NewestLast
  <1>2. SpoolInv /\ PutInvariant /\ [SpoolNext]_spoolVars => PutInvariant'
    BY TotalSteps
  <1> QED BY <1>1, <1>2, SpoolInvariant, PTL DEF SpoolSpec

\* Index, total and directory agree (spool.go:143, 151-171, 217, 250, 265-309).
THEOREM SpoolIndexAgrees ==
    ASSUME "unlink" \notin Faults
    PROVE  SpoolSpec => []IndexAgrees
  <1>1. PutInvariant /\ IndexComplete => IndexAgrees
    BY DEF PutInvariant, IndexAgrees
  <1> QED BY <1>1, SpoolKeepsTotal, SpoolListsFiles, PTL

\* The files that are all listed are no larger than what the index lists.
LEMMA DiskFits ==
    ASSUME SpoolInv, PutInvariant, disk \subseteq Listed
    PROVE  SumFunction([nm \in disk |-> Size(Len(body[nm]))]) <= total
  <1> DEFINE f == [nm \in disk |-> Size(Len(body[nm]))]
             g == Sizes(files)
             e == [nm \in disk |-> CHOOSE i \in DOMAIN files : files[i].name = nm]
             E == DOMAIN files
  <1>1. /\ IsFiniteSet(disk) /\ files \in Index /\ E = 1..Len(files) /\ Len(files) \in Nat
        /\ \A nm \in disk : Len(body[nm]) \in Nat
    <2>1. IsFiniteSet(disk) /\ files \in Index
      BY DEF SpoolInv, TypeOK, Index
    <2>2. \A nm \in disk : body[nm] \in Seq(Records)
      BY DEF SpoolInv, TypeOK
    <2>3. \A nm \in disk : Len(body[nm]) \in Nat
      BY <2>2
    <2> QED BY <2>1, <2>3 DEF Index
  <1>2. IsFiniteSet(E)
    BY <1>1, FS_Interval
  <1>3. \A nm \in disk : e[nm] \in E /\ files[e[nm]].name = nm
    <2> SUFFICES ASSUME NEW nm \in disk PROVE e[nm] \in E /\ files[e[nm]].name = nm
      OBVIOUS
    <2>1. \E i \in DOMAIN files : files[i].name = nm
      BY DEF Listed
    <2>2. e[nm] = CHOOSE i \in DOMAIN files : files[i].name = nm
      OBVIOUS
    <2> HIDE DEF e
    <2> QED BY <2>1, <2>2
  <1>4. g \in Seq(Nat) /\ DOMAIN g = E /\ \A i \in E : g[i] = Size(files[i].n)
    BY <1>1, SizesSeq DEF Sizes
  <1>5. \A i \in E : g[i] \in Nat /\ g[i] = Size(Len(body[files[i].name]))
    <2>1. \A i \in E : g[i] \in Nat
      BY <1>4
    <2> QED BY <1>4, <2>1 DEF PutInvariant, CountsAgree
  <1>6. \A nm \in disk : f[nm] = Size(Len(body[nm])) /\ f[nm] \in Nat
    BY <1>1 DEF Size
  <1>7. DOMAIN f = disk
    OBVIOUS
  <1>8. total = SumFunctionOnSet(g, E)
    BY <1>4 DEF PutInvariant, TotalAgrees, Bytes, Sizes, SumFunction
  <1> HIDE DEF f, g, e, E
  <1>9. \A nm \in disk : f[nm] \in Nat /\ f[nm] <= g[e[nm]]
    <2> SUFFICES ASSUME NEW nm \in disk PROVE f[nm] \in Nat /\ f[nm] <= g[e[nm]]
      OBVIOUS
    <2>1. g[e[nm]] = Size(Len(body[nm]))
      BY <1>3, <1>5
    <2>2. f[nm] = g[e[nm]] /\ f[nm] \in Nat
      BY <1>6, <2>1
    <2> QED BY <2>2
  <1>10. \A x, y \in disk : e[x] = e[y] => x = y
    BY <1>3, Zenon
  <1>11. \A x \in disk : e[x] \in E
    BY <1>3
  <1>12. SumFunctionOnSet(f, disk) <= SumFunctionOnSet(g, E)
    BY <1>1, <1>2, <1>5, <1>9, <1>10, <1>11, SumInject
  <1> QED BY <1>7, <1>8, <1>12 DEF SumFunction, f

\* A Put that returns nil.
LEMMA PutReturns ==
    ASSUME SpoolInv, ListedInv, PutInvariant, PutDone
    PROVE  /\ Range(op.docs) \subseteq Held
           /\ \/ Cardinality(disk) = 1
              \/ SumFunction([nm \in disk |-> Size(Len(body[nm]))]) <= MaxBytes
  <1>1. up /\ op.pc = "enforce" /\ ~OverCap /\ op.call = "put"
    BY DEF PutDone, SpoolInv, CallShape
  <1>2. /\ op.name \in disk /\ body[op.name] = op.docs
        /\ \A i \in DOMAIN files : files[i].name = op.name => i = Len(files)
    BY <1>1 DEF PutInvariant, NewestLast
  <1>3. disk \subseteq Listed
    BY <1>1 DEF ListedInv, DiskListed
  <1>4. Range(op.docs) \subseteq Held
    BY <1>2 DEF Held, DocsOf
  <1>5. files \in Index /\ Len(files) \in Nat /\ DOMAIN files = 1..Len(files)
    BY DEF SpoolInv, TypeOK, Index
  <1>6. CASE ~(Len(files) > 1)
    <2>1. \A i \in DOMAIN files : i = Len(files)
      BY <1>5, <1>6
    <2>2. \A nm \in disk : nm = op.name
      BY <1>2, <1>3, <2>1 DEF Listed
    <2>3. disk = {op.name}
      BY <1>2, <2>2
    <2>4. Cardinality(disk) = 1
      BY <2>3, FS_Singleton
    <2> QED BY <1>4, <2>4
  <1>7. CASE ~(total > MaxBytes)
    <2> DEFINE z == SumFunction([nm \in disk |-> Size(Len(body[nm]))])
    <2>1. z <= total
      BY <1>3, DiskFits
    <2>2. total \in Nat
      BY <1>5, BytesJoin DEF PutInvariant, TotalAgrees
    <2>3. z \in Nat
      <3> DEFINE f == [nm \in disk |-> Size(Len(body[nm]))]
      <3>1. \A nm \in disk : body[nm] \in Seq(Records)
        BY DEF SpoolInv, TypeOK
      <3>2. \A nm \in disk : f[nm] \in Nat
        BY <3>1 DEF Size
      <3>3. DOMAIN f = disk
        OBVIOUS
      <3>4. IsFiniteSet(disk)
        BY DEF SpoolInv, TypeOK
      <3> HIDE DEF f
      <3>5. SumFunctionOnSet(f, disk) \in Nat
        BY <3>2, <3>4, SumNat
      <3> QED BY <3>3, <3>5 DEF SumFunction, f
    <2> HIDE DEF z
    <2>4. z <= MaxBytes
      BY <1>7, <2>1, <2>2, <2>3, SpoolAssumption
    <2> QED BY <1>4, <2>4 DEF z
  <1> QED BY <1>1, <1>6, <1>7 DEF OverCap

\* What Put's return value says holds (spool.go:128-129, 193-199): on nil its batch is
\* in the directory, and the files fit the size cap or only the newest is left; on
\* an error its records are not there.
THEOREM SpoolPutContract ==
    ASSUME "unlink" \notin Faults
    PROVE  SpoolSpec => PutContract
  <1> DEFINE A == /\ PutDone => /\ Range(op.docs) \subseteq Held
                                /\ \/ Cardinality(disk) = 1
                                   \/ SumFunction([nm \in disk |-> Size(Len(body[nm]))]) <= MaxBytes
                  /\ PutLowDisk \/ PutFailed => Range(op.docs) \cap Held' = {}
  <1>1. SpoolInv /\ ListedInv /\ PutInvariant /\ [SpoolNext]_spoolVars => [A]_spoolVars
    <2> SUFFICES ASSUME SpoolInv, ListedInv, PutInvariant PROVE A
      OBVIOUS
    <2>1. PutDone => /\ Range(op.docs) \subseteq Held
                     /\ \/ Cardinality(disk) = 1
                        \/ SumFunction([nm \in disk |-> Size(Len(body[nm]))]) <= MaxBytes
      BY PutReturns
    <2>2. ASSUME PutLowDisk \/ PutFailed PROVE Range(op.docs) \cap Held' = {}
      <3>1. PutPending
        BY <2>2 DEF PutLowDisk, PutFailed, WriteFails, ShortOfRoom, SpoolInv, CallShape, PutPending
      <3>2. disk' = disk /\ body' = body
        BY <2>2 DEF PutLowDisk, PutFailed, directory
      <3>3. Held' = Held
        BY <3>2 DEF Held, DocsOf
      <3> QED BY <3>1, <3>3 DEF SpoolInv, RecordsKnown, Known
    <2> QED BY <2>1, <2>2
  <1>2. SpoolSpec => []ListedInv
    BY SpoolKeepsListed
  <1> QED BY <1>1, <1>2, SpoolInvariant, SpoolKeepsTotal, PTL DEF SpoolSpec, PutContract

----------------------------------------------------------------------------
(* OrderInv. *)

\* What was given up stays so.
LEMMA GivenGrows ==
    ASSUME SpoolInv, BodiesAscend, "unlink" \notin Faults, [SpoolNext]_spoolVars
    PROVE  GivenUp \subseteq GivenUp'
  <1>1. dropped \subseteq dropped'
    BY StepInv, Zenon DEF DQStep, DQ!Next, DQ!Accept, DQ!Reappear, DQ!Take, DQ!Drop, DQ!vars
  <1>2. \A nm \in DOMAIN body : nm \in DOMAIN body' /\ body'[nm] = body[nm]
    BY BodySteps, PutLands, HalfLands
  <1> QED BY <1>1, <1>2 DEF GivenUp, DocsOf

\* A part of what was given up was given up.
LEMMA GivenParts ==
    ASSUME NamesTell, NEW x \in GivenUp, NEW b \in DOMAIN body, Contains(x, b)
    PROVE  b \in GivenUp
  BY DEF NamesTell, GivenUp

\* Names tell where the records stand after every step.
LEMMA TellsSteps ==
    ASSUME SpoolInv, NamesTell, BodiesAscend, [SpoolNext]_spoolVars
    PROVE  NamesTell'
  <1>1. CASE body' = body
    BY <1>1 DEF NamesTell, DocsOf
  <1> QED BY <1>1, BodySteps, PutTells, HalfTells

\* The oldest batch is no part of one that is there: that would be listed before it
\* (spool.go:229-239).
LEMMA FrontTop ==
    ASSUME SpoolInv, NamesTell, NEW f \in Index, f # <<>>, IndexOrder(f, disk, GivenUp),
           disk \subseteq {f[i].name : i \in DOMAIN f}, f[1].name \in DOMAIN body
    PROVE  ~Above(disk, f[1].name) \/ f[1].name \in GivenUp
  <1> DEFINE X == f[1].name
  <1> SUFFICES ASSUME NEW a \in disk, Contains(a, X), a # X
               PROVE  X \in GivenUp
    BY DEF Above
  <1>1. 1 \in DOMAIN f /\ X \in Name /\ a \in Name /\ disk \subseteq Name
    BY TailCuts DEF SpoolInv, TypeOK
  <1>2. PICK i \in DOMAIN f : f[i].name = a
    OBVIOUS
  <1>3. PICK q \in DOMAIN f : f[q].name = a /\ ~Repeated(f, q)
    BY <1>2, FirstEntry
  <1>4. 1 < q
    <2>1. q \in Nat \ {0} /\ q # 1
      BY <1>3 DEF Index
    <2> QED BY <2>1
  <1>5. ~NameLess(X, a)
    BY <1>1, NameOrder
  <1>6. Backed(disk, a)
    BY <1>1, ContainsOrder DEF Backed
  <1>7. a \in GivenUp
    BY <1>1, <1>3, <1>4, <1>5, <1>6 DEF IndexOrder, Sorted
  <1> QED BY <1>7, GivenParts

\* The index stays in order and the batch in hand on top, one case per kind of step.
LEMMA OrderSteps ==
    ASSUME SpoolInv, ListedInv, OrderInv, "unlink" \notin Faults, [SpoolNext]_spoolVars
    PROVE  IndexOrder(files, disk, GivenUp)' /\ HandTop'
  <1>0. /\ files \in Index /\ op \in Call /\ disk \subseteq DOMAIN body /\ DOMAIN body \subseteq Name
        /\ disk \in SUBSET Name
        /\ NamesTell /\ BodiesAscend /\ IndexOrder(files, disk, GivenUp)
    BY DEF SpoolInv, TypeOK, Index, OrderInv
  <1>g. GivenUp \subseteq GivenUp'
    BY <1>0, GivenGrows
  <1>h. ASSUME disk' \subseteq disk, hand' = hand \/ hand' = NoBatch PROVE HandTop'
    <2>1. CASE hand' = NoBatch
      BY <2>1 DEF HandTop, NoBatch
    <2>2. CASE hand' = hand
      <3>1. Above(disk', hand.name) => Above(disk, hand.name)
        BY <1>h DEF Above
      <3> QED BY <1>g, <2>2, <3>1 DEF OrderInv, HandTop
    <2> QED BY <1>h, <2>1, <2>2
  <1>n. NoBatch.name = NoName
    BY DEF NoBatch
  <1>1. CASE Still
    <2>1. UNCHANGED <<files, disk>> /\ (hand' = hand \/ hand' = NoBatch)
      BY <1>1, StillFacts
    <2>2. IndexOrder(files, disk, GivenUp')
      BY <1>0, <1>g, LessOrder
    <2> QED BY <1>h, <2>1, <2>2
  <1>2. CASE OldestFound
    <2>1. /\ up /\ op.call = "oldest" /\ files # <<>> /\ files[1].name \in disk
          /\ hand'.name = files[1].name /\ UNCHANGED <<files, disk>>
      BY <1>2 DEF OldestFound, Readable, directory
    <2>2. disk \subseteq {files[i].name : i \in DOMAIN files}
      BY <2>1 DEF ListedInv, DiskListed, Listed
    <2>3. ~Above(disk, files[1].name) \/ files[1].name \in GivenUp
      BY <1>0, <2>1, <2>2, FrontTop
    <2>4. IndexOrder(files, disk, GivenUp')
      BY <1>0, <1>g, LessOrder
    <2>5. HandTop'
      BY <1>g, <2>1, <2>3 DEF HandTop
    <2> QED BY <2>1, <2>4, <2>5
  <1>3. CASE Expire \/ MakeRoom \/ Enforce \/ SkipCorrupt
    <2>1. /\ 1 \in DOMAIN files /\ files' = Without(files, 1) /\ disk' = disk \ {files[1].name}
          /\ hand' = hand
      BY <1>3, DropFacts
    <2>2. IndexOrder(Without(files, 1), disk \ {files[1].name}, GivenUp')
      BY <1>0, <1>g, <2>1, CutOrder
    <2> QED BY <1>h, <2>1, <2>2
  <1>4. CASE Remove
    <2>1. /\ hand' = NoBatch
          /\ \/ UNCHANGED <<files, disk>>
             \/ \E p \in DOMAIN files : files' = Without(files, p) /\ disk' = disk \ {files[p].name}
      BY <1>4, RemoveFacts
    <2>2. CASE UNCHANGED <<files, disk>>
      <3>1. IndexOrder(files, disk, GivenUp')
        BY <1>0, <1>g, LessOrder
      <3> QED BY <1>h, <2>1, <2>2, <3>1
    <2>3. CASE \E p \in DOMAIN files : files' = Without(files, p) /\ disk' = disk \ {files[p].name}
      <3>1. PICK p \in DOMAIN files : files' = Without(files, p) /\ disk' = disk \ {files[p].name}
        BY <2>3
      <3>2. IndexOrder(Without(files, p), disk \ {files[p].name}, GivenUp')
        BY <1>0, <1>g, CutOrder
      <3> QED BY <1>h, <2>1, <3>1, <3>2
    <2> QED BY <2>1, <2>2, <2>3
  <1>5. CASE RenamePut
    <2> DEFINE X == op.name
    <2>1. /\ X \in Name /\ X \notin DOMAIN body /\ disk' = disk \cup {X} /\ hand' = hand
          /\ files' = Append(files, [name |-> X, n |-> Len(op.docs)])
          /\ \A nm \in DOMAIN body : nm.t < X.t \/ (nm.t = X.t /\ nm.seq < X.seq)
      BY <1>0, <1>5, PutLands
    <2>2. \A b \in DOMAIN body : b \in Name /\ NameLess(b, X) /\ ~Contains(b, X) /\ ~Contains(X, b)
      BY <1>0, <2>1, EarlierNames
    <2>3. \A b \in disk \cup {files[i].name : i \in DOMAIN files} : b \in DOMAIN body
      BY <1>0 DEF SpoolInv, IndexWritten
    <2>4. Len(op.docs) \in Nat
      BY <1>0 DEF Call
    <2> HIDE DEF X
    <2>5. \A b \in disk \cup {files[i].name : i \in DOMAIN files} :
             b \in Name /\ NameLess(b, X) /\ ~Contains(b, X) /\ ~Contains(X, b)
      BY <2>2, <2>3
    <2>6. IndexOrder(Append(files, [name |-> X, n |-> Len(op.docs)]), disk \cup {X}, GivenUp')
      BY <1>0, <1>g, <2>1, <2>4, <2>5, AppendOrder
    <2>7. HandTop'
      <3> SUFFICES ASSUME hand.name # NoName
                   PROVE  ~Above(disk \cup {X}, hand.name) \/ hand.name \in GivenUp'
        BY <2>1 DEF HandTop
      <3>1. hand.name \in DOMAIN body
        BY DEF SpoolInv, HandBacked
      <3>2. Above(disk \cup {X}, hand.name) => Above(disk, hand.name)
        BY <2>2, <3>1 DEF Above
      <3> QED BY <1>g, <3>2 DEF OrderInv, HandTop
    <2> QED BY <2>1, <2>6, <2>7
  <1>6. CASE RenameHalf
    <2> DEFINE X == op.name
               T == HalfName(op.name, op.half)
    <2>1. /\ op.half \in {0, 1} /\ X = hand.name /\ hand.name # NoName /\ X \in DOMAIN body /\ X \in Name
          /\ T \in Name /\ disk' = disk \cup {T} /\ UNCHANGED <<files, hand, dropped>>
          /\ DOMAIN body' = DOMAIN body \cup {T}
      BY <1>6, HalfLands
    <2>2. Contains(X, T) /\ ~Contains(T, X)
      BY <2>1, HalfContains
    <2>3. NamesTell'
      BY <1>0, TellsSteps
    <2>4. X \in disk \/ X \in GivenUp
      BY <2>1 DEF SpoolInv, HandBacked, GivenUp, DocsOf
    <2>5. ~Above(disk, X) \/ X \in GivenUp
      BY <2>1 DEF OrderInv, HandTop
    <2>6. CASE X \in GivenUp
      <3>1. X \in GivenUp'
        BY <1>g, <2>6
      <3>2. \A b \in disk \cup {T} \cup {files[i].name : i \in DOMAIN files} : b \in DOMAIN body'
        BY <1>0, <2>1 DEF SpoolInv, IndexWritten
      <3>3. \A b \in DOMAIN body' : Contains(X, b) => b \in GivenUp'
        BY <2>3, <3>1 DEF NamesTell, GivenUp
      <3>4. IndexOrder(files, disk \cup {T}, GivenUp')
        BY <1>0, <1>g, <2>1, <3>2, <3>3, LandOrder
      <3> QED BY <2>1, <3>1, <3>4 DEF HandTop
    <2>7. CASE X \in disk /\ ~Above(disk, X)
      <3>1. IndexOrder(files, disk \cup {T}, GivenUp')
        BY <1>0, <1>g, <2>1, <2>7, LandOrder
      <3>2. ~Above(disk \cup {T}, X)
        BY <2>2, <2>7 DEF Above
      <3> QED BY <2>1, <3>1, <3>2 DEF HandTop
    <2> QED BY <2>4, <2>5, <2>6, <2>7
  <1>7. CASE SplitFailed
    <2>1. UNCHANGED <<files, hand>> /\ disk' \subseteq disk
      BY <1>7, SplitFailedFacts
    <2>2. IndexOrder(files, disk', GivenUp')
      BY <1>0, <1>g, <2>1, LessOrder
    <2> QED BY <1>h, <2>1, <2>2
  <1>8. CASE SplitDone
    <2> DEFINE X == op.name
    <2>1. /\ X = hand.name /\ hand.name # NoName /\ X \in DOMAIN body /\ X \in Name
          /\ HalfName(X, 0) \in disk /\ HalfName(X, 1) \in disk
          /\ hand' = NoBatch /\ disk' = disk \ {X} /\ UNCHANGED <<body, dropped>>
      BY <1>8, SplitDoneFacts
    <2>2. PICK p \in DOMAIN files, m, n \in Nat :
             /\ files[p].name = X /\ ~Repeated(files, p)
             /\ files' = Splice(files, p, [name |-> HalfName(X, 0), n |-> m],
                                          [name |-> HalfName(X, 1), n |-> n])
      BY <1>8, SplitDoneFacts
    <2>3. X \in disk \/ X \in GivenUp
      BY <2>1 DEF SpoolInv, HandBacked, GivenUp, DocsOf
    <2>4. ~Above(disk, X) \/ X \in GivenUp
      BY <2>1 DEF OrderInv, HandTop
    <2>5. \A b \in disk \cup {files[i].name : i \in DOMAIN files} : b \in DOMAIN body
      BY <1>0 DEF SpoolInv, IndexWritten
    <2>6. X \in GivenUp => \A b \in disk \cup {files[i].name : i \in DOMAIN files} :
                              Contains(X, b) => b \in GivenUp'
      BY <1>0, <1>g, <2>5, GivenParts
    <2> HIDE DEF X
    <2>7. IndexOrder(Splice(files, p, [name |-> HalfName(X, 0), n |-> m], [name |-> HalfName(X, 1), n |-> n]),
                     disk \ {X}, GivenUp')
      <3>1. \/ X \in disk /\ ~Above(disk, X) /\ X \notin GivenUp
            \/ \A b \in disk \cup {files[i].name : i \in DOMAIN files} : Contains(X, b) => b \in GivenUp'
        BY <2>3, <2>4, <2>6
      <3> QED BY <1>0, <1>g, <2>1, <2>2, <3>1, SpliceOrder
    <2> QED BY <1>h, <2>1, <2>2, <2>7
  <1>9. CASE ProcessEnds
    <2>1. files' = <<>> /\ hand' = NoBatch /\ disk' = disk
      BY <1>9 DEF ProcessEnds, directory
    <2>2. IndexOrder(<<>>, disk, GivenUp')
      <3>1. DOMAIN <<>> = {}
        OBVIOUS
      <3>2. Shallow(<<>>, disk, GivenUp')
        BY <1>0, <1>g, <3>1 DEF IndexOrder, Shallow
      <3> QED BY <3>1, <3>2 DEF IndexOrder, Sorted, RepeatsSplit
    <2> QED BY <1>h, <2>1, <2>2
  <1>10. CASE OpenSpool
    <2>1. /\ files = <<>> /\ UNCHANGED <<hand, disk>>
          /\ files' \in Index /\ {files'[i].name : i \in DOMAIN files'} = disk
          /\ \A i, j \in DOMAIN files' : i < j => NameLess(files'[i].name, files'[j].name)
      BY <1>10, OpenFacts
    <2>2. IndexOrder(<<>>, disk, GivenUp')
      BY <1>0, <1>g, <2>1, LessOrder
    <2>3. IndexOrder(files', disk, GivenUp')
      BY <1>0, <2>1, <2>2, ListingOrder
    <2> QED BY <1>h, <2>1, <2>3
  <1> QED BY <1>1, <1>2, <1>3, <1>4, <1>5, <1>6, <1>7, <1>8, <1>9, <1>10, SpoolStepKinds

\* The order of the index is the order of the records.
LEMMA OrderTells ==
    ASSUME SpoolInv, OrderInv
    PROVE  PostingOrder
  <1> SUFFICES ASSUME NEW i \in Live, NEW j \in Live, i < j
               PROVE  \/ Overlap(files[i].name, files[j].name)
                      \/ \A r \in DocsOf(files[i].name), q \in DocsOf(files[j].name) : r < q \/ q \in dropped
    BY DEF PostingOrder
  <1> DEFINE a == files[i].name
             b == files[j].name
  <1>1. /\ i \in DOMAIN files /\ j \in DOMAIN files /\ a \in disk /\ b \in disk
        /\ \A k \in Positions(b) : j <= k
    BY DEF Live, FirstPosition
  <1>2. a \in DOMAIN body /\ b \in DOMAIN body /\ a \in Name /\ b \in Name
    BY <1>1 DEF SpoolInv, TypeOK
  <1>3. ~Repeated(files, j)
    <2> SUFFICES ASSUME NEW k \in DOMAIN files, k < j, files[k].name = files[j].name PROVE FALSE
      BY DEF Repeated
    <2>1. j <= k
      BY <1>1 DEF Positions
    <2>2. j \in Nat /\ k \in Nat
      BY <1>1 DEF SpoolInv, TypeOK
    <2> QED BY <2>1, <2>2
  <1>4. Backed(disk, b)
    BY <1>1, <1>2, ContainsOrder DEF Backed
  <1>5. NameLess(a, b) \/ b \in GivenUp
    BY <1>1, <1>3, <1>4 DEF OrderInv, IndexOrder, Sorted
  <1>6. CASE b \in GivenUp
    BY <1>6 DEF GivenUp
  <1>7. CASE NameLess(a, b) /\ ~Contains(a, b)
    BY <1>2, <1>7 DEF OrderInv, NamesTell, AllBefore
  <1>8. CASE Contains(a, b)
    BY <1>8 DEF Overlap
  <1> QED BY <1>5, <1>6, <1>7, <1>8

----------------------------------------------------------------------------
\* The order behind both theorems.
LEMMA OrderInvariant ==
    ASSUME ~StepBack, "unlink" \notin Faults
    PROVE  SpoolSpec => [](SpoolInv /\ ListedInv /\ OrderInv)
  <1>1. SpoolInit => ListedInv /\ OrderInv
    <2> SUFFICES ASSUME SpoolInit PROVE ListedInv /\ OrderInv
      OBVIOUS
    <2>1. /\ disk = {} /\ temps = {} /\ op = Idle /\ files = <<>> /\ hand.name = NoName
          /\ DOMAIN body = {} /\ DOMAIN files = {}
      BY DEF SpoolInit, NoBatch
    <2>2. ListedInv
      BY <2>1, IdleCall DEF ListedInv, DiskListed, TempsOwn, SplitListed
    <2>3. NamesTell /\ BodiesAscend
      BY <2>1, IdleCall DEF NamesTell, BodiesAscend, PutPending
    <2>4. IndexOrder(files, disk, GivenUp) /\ HandTop
      BY <2>1 DEF IndexOrder, Sorted, RepeatsSplit, Shallow, HandTop
    <2> QED BY <2>2, <2>3, <2>4 DEF OrderInv
  <1>2. SpoolInv /\ ListedInv /\ OrderInv /\ [SpoolNext]_spoolVars => ListedInv' /\ OrderInv'
    <2> SUFFICES ASSUME SpoolInv, ListedInv, OrderInv, [SpoolNext]_spoolVars
                 PROVE  ListedInv' /\ OrderInv'
      OBVIOUS
    <2>1. ListedInv'
      BY ListedSteps
    <2>2. NamesTell' /\ BodiesAscend'
      BY TellsSteps, AscendSteps DEF OrderInv
    <2>3. IndexOrder(files, disk, GivenUp)' /\ HandTop'
      BY OrderSteps
    <2> QED BY <2>1, <2>2, <2>3 DEF OrderInv
  <1> QED BY <1>1, <1>2, SpoolInvariant, PTL DEF SpoolSpec

\* Batches are posted in arrival order, and the order holds across splits, crashes
\* amid them and restarts that rebuild the index from the names, for every clock that
\* is not set back and as long as unlinks work (spool.go:16-20, 79-104, 265-309).
THEOREM SpoolKeepsOrder ==
    ASSUME ~StepBack, "unlink" \notin Faults
    PROVE  SpoolSpec => []PostingOrder
  <1>1. SpoolInv /\ OrderInv => PostingOrder
    BY OrderTells
  <1> QED BY <1>1, OrderInvariant, PTL

\* What dropFrontLocked gives up is older than all that stays, or stays in a part of
\* the same batch, whichever cap asked for it (spool.go:23-24, 176-227).
THEOREM SpoolDropsOldest ==
    ASSUME ~StepBack, "unlink" \notin Faults
    PROVE  SpoolSpec => DropsOldestFirst
  <1>1. ASSUME SpoolInv, ListedInv, OrderInv, [SpoolNext]_spoolVars,
               NEW d \in dropped' \ dropped, NEW r \in Held'
        PROVE  d < r \/ r \in dropped'
    <2>1. CASE Expire \/ MakeRoom \/ Enforce \/ SkipCorrupt
      <3> DEFINE X == files[1].name
      <3>1. /\ files \in Index /\ 1 \in DOMAIN files /\ disk' = disk \ {X} /\ body' = body
            /\ dropped' = dropped \cup DocsOf(X) /\ up /\ op.call # "split"
        BY <1>1, <2>1, DropFacts
      <3>2. d \in DocsOf(X)
        BY <1>1, <3>1
      <3>3. PICK b \in disk \ {X} : r \in DocsOf(b)
        BY <1>1, <3>1 DEF Held, DocsOf
      <3>4. PICK i \in DOMAIN files : files[i].name = b
        BY <1>1, <3>1 DEF ListedInv, DiskListed, Listed
      <3>5. PICK q \in DOMAIN files : files[q].name = b /\ ~Repeated(files, q)
        BY <3>1, <3>4, FirstEntry
      <3>6. 1 < q
        <4>1. q \in Nat \ {0} /\ q # 1
          BY <3>1, <3>3, <3>5 DEF Index
        <4> QED BY <4>1
      <3>7. X \in DOMAIN body /\ b \in DOMAIN body /\ b \in Name
        BY <1>1, <3>1, <3>3 DEF SpoolInv, TypeOK, IndexWritten
      <3>8. Backed(disk, b)
        BY <3>7, ContainsOrder DEF Backed
      <3>9. NameLess(X, b) \/ b \in GivenUp
        BY <1>1, <3>1, <3>5, <3>6, <3>8 DEF OrderInv, IndexOrder, Sorted
      <3>10. CASE b \in GivenUp
        BY <3>1, <3>3, <3>10 DEF GivenUp
      <3>11. CASE Contains(X, b)
        BY <1>1, <3>1, <3>3, <3>7, <3>11 DEF OrderInv, NamesTell
      <3>12. CASE NameLess(X, b) /\ ~Contains(X, b)
        BY <1>1, <3>2, <3>3, <3>7, <3>12 DEF OrderInv, NamesTell, AllBefore
      <3> QED BY <3>9, <3>10, <3>11, <3>12
    <2>2. CASE ~(Expire \/ MakeRoom \/ Enforce \/ SkipCorrupt)
      <3>1. dropped' = dropped
        BY <1>1, <2>2, SpoolStepKinds, StillFacts, RemoveFacts, HalfLands, SplitFailedFacts, SplitDoneFacts,
           OpenFacts DEF OldestFound, RenamePut, ProcessEnds, history
      <3> QED BY <1>1, <3>1
    <2> QED BY <2>1, <2>2
  <1>2. SpoolInv /\ ListedInv /\ OrderInv /\ [SpoolNext]_spoolVars =>
           [\A d \in dropped' \ dropped, r \in Held' : d < r \/ r \in dropped']_spoolVars
    BY <1>1
  <1> QED BY <1>2, OrderInvariant, PTL DEF SpoolSpec, DropsOldestFirst

=============================================================================
