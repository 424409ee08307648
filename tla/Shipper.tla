------------------------------ MODULE Shipper ------------------------------
(***************************************************************************)
(* The shipper (internal/exporters/loom/shipper.go): the batcher goroutine *)
(* closes batches and stores them, the sender goroutine posts the oldest   *)
(* one to Loom and pauses after a failure, Shutdown stops both and drains  *)
(* once more under a deadline.  The spool's calls are the steps of Spool,  *)
(* with the two goroutines as its callers; a batch it cannot take goes to  *)
(* the memory queue.                                                       *)
(*                                                                         *)
(* Loom and the network are external: a post may be accepted, accepted     *)
(* with its reply lost, refused for good, found too large, or fail in any  *)
(* way the sender retries.                                                 *)
(***************************************************************************)
EXTENDS Spool

CONSTANTS
    ChanCap,     \* channelCapacity
    BatchSize,   \* records that close a batch
    MaxBody,     \* Shipper.maxBody, in records of ordinary size
    Big,         \* records of MaxBody size, which Loom refuses even alone
    LoomMax,     \* records Loom takes in one request
    MemMax,      \* memQueueMax in Size units
    Posts,       \* how a post may end besides 2xx and 413
    Stops        \* may main call Shutdown?

ASSUME ShipperAssumption ==
    /\ ChanCap \in Nat \ {0} /\ BatchSize \in Nat \ {0}
    /\ MaxBody \in Nat \ {0} /\ LoomMax \in Nat \ {0} /\ MemMax \in Nat
    /\ Big \subseteq Nat
    /\ Posts \subseteq {"fail", "replyLost", "reject"}
    /\ Stops \in BOOLEAN

VARIABLES
    spool,      \* s.spool is not nil
    inCh,       \* records in the channel
    ev,         \* the record that waits for the flush before it, or 0
    docs,       \* the batch being filled
    batcher,    \* "loop", "put" while in store, "done"
    mem,        \* memQueue.items; a batch is identified by its records
    kick,       \* the kick channel holds a token
    retry,      \* the retry timer is set
    sender,     \* where send, or the drain of Shutdown, is
    verdict,    \* what Loom's answer lets the sender do with the batch
    main,       \* how far Shutdown is
    overflow,   \* history: records the full channel turned away
    delivered,  \* history: records Loom accepted
    resent,     \* history: records Loom accepted more than once
    refused,    \* history: records given up after a 400, 413 or 415
    memDropped, \* history: records the memory queue dropped
    lost        \* history: records only in memory when the process ended

channelVars == <<inCh, ev, docs, batcher>>
senderVars == <<sender, verdict, retry>>
fates == <<overflow, delivered, resent, refused, memDropped, lost>>
shipperVars == <<spool, channelVars, mem, kick, senderVars, main, fates>>
vars == <<spoolVars, shipperVars>>

----------------------------------------------------------------------------
(* Records by where they are. *)

InMem == UNION {Range(mem[i]) : i \in DOMAIN mem}
InMemory ==
    Range(inCh) \cup ({ev} \ {0}) \cup Range(docs) \cup InMem

----------------------------------------------------------------------------
FreshShipper ==
    /\ inCh = <<>> /\ ev = 0 /\ docs = <<>> /\ batcher = "loop"
    /\ mem = <<>> /\ kick = TRUE \* Run wakes the sender for an earlier run's batches
    /\ retry = FALSE /\ sender = "select" /\ verdict = "none" /\ main = "run"

Init ==
    /\ SpoolInit
    /\ FreshShipper
    /\ spool = TRUE
    /\ overflow = {} /\ delivered = {} /\ resent = {} /\ refused = {}
    /\ memDropped = {} /\ lost = {}

\* Mutant of Wake: no token is sent.
NoWake == UNCHANGED kick

\* wake: a token more than one would hold is not sent.
Wake == kick' = TRUE

\* LogConnection's send: it never blocks, a full channel loses the record.
\* The callers stop before Shutdown closes the channel.
Log ==
    /\ up /\ main = "run" /\ made < MaxRecords
    /\ made' = made + 1
    /\ \/ /\ Len(inCh) < ChanCap
          /\ inCh' = Append(inCh, made + 1)
          /\ UNCHANGED overflow
       \/ /\ Len(inCh) >= ChanCap
          /\ overflow' = overflow \cup {made + 1}
          /\ UNCHANGED inCh
    /\ UNCHANGED <<up, clock, memory, directory, taken, dropped>>
    /\ UNCHANGED <<spool, ev, docs, batcher, mem, kick, senderVars, main,
                   delivered, resent, refused, memDropped, lost>>

----------------------------------------------------------------------------
(* The memory queue. *)

MemBytes(s) == SumFunction([i \in DOMAIN s |-> Size(Len(s[i]))])

\* The suffix of a queue that its size cap keeps: never less than the newest.
Fits(s, k) == k = Len(s) \/ MemBytes(SubSeq(s, k, Len(s))) <= MemMax
Kept(s, k) == Fits(s, k) /\ \A j \in 1..(k - 1) : ~Fits(s, j)

MemPut(b) ==
    LET s == Append(mem, b)
    IN  \E k \in 1..Len(s) :
            /\ Kept(s, k)
            /\ mem' = SubSeq(s, k, Len(s))
            /\ memDropped' = memDropped \cup UNION {Range(s[i]) : i \in 1..(k - 1)}

\* A batch the cap removed meanwhile is not found.
MemRemove(b) ==
    \/ b \notin Range(mem) /\ UNCHANGED mem
    \/ \E i \in DOMAIN mem : mem[i] = b /\ mem' = Without(mem, i)

\* A batch the cap removed meanwhile counts as split.
MemSplit(b) ==
    \/ b \notin Range(mem) /\ UNCHANGED mem
    \/ \E i \in DOMAIN mem :
          /\ mem[i] = b
          /\ mem' = SubSeq(mem, 1, i - 1) \o <<Half(b, 0), Half(b, 1)>>
                      \o SubSeq(mem, i + 1, Len(mem))

----------------------------------------------------------------------------
(* The batcher. *)

Weight(r) == IF r \in Big THEN MaxBody ELSE 1
Weighs(b) == SumFunction([i \in DOMAIN b |-> Weight(b[i])])

\* A record that would push the body over its limit waits for a flush.
Receive ==
    /\ up /\ batcher = "loop" /\ inCh # <<>>
    /\ inCh' = Tail(inCh)
    /\ IF docs # <<>> /\ Weighs(docs) + Weight(Head(inCh)) > MaxBody
       THEN ev' = Head(inCh) /\ batcher' = "flush" /\ UNCHANGED docs
       ELSE /\ docs' = Append(docs, Head(inCh))
            /\ batcher' = IF Len(docs) + 1 >= BatchSize THEN "flush" ELSE "loop"
            /\ UNCHANGED ev
    /\ UNCHANGED <<spoolVars, spool, mem, kick, senderVars, main, fates>>

\* The ticker fires, or the channel is closed and empty.
Flush ==
    /\ up /\ batcher = "loop" /\ docs # <<>>
    /\ batcher' = "flush"
    /\ UNCHANGED <<spoolVars, spool, inCh, ev, docs, mem, kick, senderVars, main, fates>>

\* The ticker fires on an empty batch.
IdleTick == up /\ batcher = "loop" /\ docs = <<>> /\ UNCHANGED vars

BatcherEnds ==
    /\ up /\ batcher = "loop" /\ main = "closing" /\ inCh = <<>> /\ docs = <<>>
    /\ batcher' = "done"
    /\ UNCHANGED <<spoolVars, spool, inCh, ev, docs, mem, kick, senderVars, main, fates>>

\* Mutant of Stored: the record that caused the flush is not kept.
StoredForgets ==
    /\ Wake
    /\ docs' = <<>> /\ batcher' = "loop" /\ ev' = 0
    /\ UNCHANGED <<spool, inCh, senderVars, main, overflow, delivered, resent,
                   refused, lost>>

\* store returns: the sender is woken, the waiting record opens the next batch.
Stored ==
    /\ Wake
    /\ docs' = IF ev = 0 THEN <<>> ELSE <<ev>>
    /\ batcher' = IF ev # 0 /\ BatchSize = 1 THEN "flush" ELSE "loop"
    /\ ev' = 0
    /\ UNCHANGED <<spool, inCh, senderVars, main, overflow, delivered, resent,
                   refused, lost>>

StorePut ==
    /\ batcher = "flush" /\ spool
    /\ PutCall(docs)
    /\ batcher' = "put"
    /\ UNCHANGED <<up, clock, files, total, seq, hand, directory, history>>
    /\ UNCHANGED <<spool, inCh, ev, docs, mem, kick, senderVars, main, fates>>

StoreOk ==
    /\ batcher = "put"
    /\ PutDone
    /\ Stored
    /\ UNCHANGED <<mem, memDropped>>

\* Low disk or a write error: the batch waits in memory.
StoreFallback ==
    /\ batcher = "put"
    /\ PutLowDisk \/ PutFailed
    /\ MemPut(docs)
    /\ Stored

StoreNoSpool ==
    /\ up /\ batcher = "flush" /\ ~spool
    /\ MemPut(docs)
    /\ Stored
    /\ UNCHANGED spoolVars

----------------------------------------------------------------------------
(* The sender: send, next, drain and post. *)

Goes(pc) == sender' = pc

\* A kick while the retry timer is set changes nothing.
TakeKick ==
    /\ up /\ sender = "select" /\ kick
    /\ kick' = FALSE
    /\ IF retry THEN UNCHANGED sender ELSE Goes("next")
    /\ UNCHANGED <<spoolVars, spool, channelVars, mem, retry, verdict, main, fates>>

RetryFires ==
    /\ up /\ sender = "select" /\ retry
    /\ retry' = FALSE
    /\ Goes("next")
    /\ UNCHANGED <<spoolVars, spool, channelVars, mem, kick, verdict, main, fates>>

SeesStop ==
    /\ up /\ sender = "select" /\ main = "stopping"
    /\ Goes("done")
    /\ UNCHANGED <<spoolVars, spool, channelVars, mem, kick, retry, verdict, main, fates>>

AskSpool ==
    /\ sender = "next" /\ spool
    /\ Oldest
    /\ Goes("oldest")
    /\ UNCHANGED <<spool, channelVars, mem, kick, retry, verdict, main, fates>>

SpoolHas ==
    /\ sender = "oldest"
    /\ OldestFound
    /\ Goes("post")
    /\ UNCHANGED <<spool, channelVars, mem, kick, retry, verdict, main, fates>>

SpoolEmpty ==
    /\ sender = "oldest"
    /\ OldestEmpty
    /\ Goes("mem")
    /\ UNCHANGED <<spool, channelVars, mem, kick, retry, verdict, main, fates>>

SkipSpool ==
    /\ up /\ sender = "next" /\ ~spool
    /\ Goes("mem")
    /\ UNCHANGED <<spoolVars, spool, channelVars, mem, kick, retry, verdict, main, fates>>

MemHas ==
    /\ up /\ sender = "mem" /\ mem # <<>>
    /\ hand' = [name |-> NoName, docs |-> Head(mem)]
    /\ Goes("post")
    /\ UNCHANGED <<up, clock, files, total, seq, op, directory, history>>
    /\ UNCHANGED <<spool, channelVars, mem, kick, retry, verdict, main, fates>>

\* Mutant of DrainReturns: no timer is set after a failure.
DrainReturnsNoRetry(failed) ==
    IF main = "drain"
    THEN sender' = "done" /\ main' = "exit" /\ UNCHANGED retry
    ELSE sender' = "select" /\ UNCHANGED <<main, retry>>

\* Where drain returns to: the sender's loop, or the end of Shutdown.
DrainReturns(failed) ==
    IF main = "drain"
    THEN sender' = "done" /\ main' = "exit" /\ UNCHANGED retry
    ELSE sender' = "select" /\ retry' = failed /\ UNCHANGED main

Drained ==
    /\ up /\ sender = "mem" /\ mem = <<>>
    /\ DrainReturns(FALSE)
    /\ UNCHANGED <<spoolVars, spool, channelVars, mem, kick, verdict, fates>>

TooLarge(b) == Len(b) > LoomMax \/ Range(b) \cap Big # {}

LoomTakes(b) ==
    /\ ~TooLarge(b)
    /\ delivered' = delivered \cup Range(b)
    /\ resent' = resent \cup (delivered \cap Range(b))
    /\ UNCHANGED <<overflow, refused, memDropped, lost>>

\* 2xx.
PostAccepted ==
    /\ up /\ sender = "post"
    /\ LoomTakes(hand.docs)
    /\ verdict' = "shipped" /\ Goes("apply")
    /\ UNCHANGED <<spoolVars, spool, channelVars, mem, kick, retry, main>>

\* Loom took the batch, but the timeout or the deadline beat its answer.
PostReplyLost ==
    /\ up /\ sender = "post"
    /\ "replyLost" \in Posts
    /\ LoomTakes(hand.docs)
    /\ DrainReturns(TRUE)
    /\ UNCHANGED <<spoolVars, spool, channelVars, mem, kick, verdict>>

\* A transport error, a 5xx, 401, 403 or 429, or the deadline of Shutdown.
PostFails ==
    /\ up /\ sender = "post"
    /\ "fail" \in Posts \/ main = "drain"
    /\ DrainReturns(TRUE)
    /\ UNCHANGED <<spoolVars, spool, channelVars, mem, kick, verdict, fates>>

\* 400 or 415.
PostRejected ==
    /\ up /\ sender = "post"
    /\ "reject" \in Posts
    /\ verdict' = "refused" /\ Goes("apply")
    /\ UNCHANGED <<spoolVars, spool, channelVars, mem, kick, retry, main, fates>>

\* 413.
PostTooLarge ==
    /\ up /\ sender = "post"
    /\ TooLarge(hand.docs)
    /\ Goes("split")
    /\ UNCHANGED <<spoolVars, spool, channelVars, mem, kick, retry, verdict, main, fates>>

FromMem == hand.name = NoName

\* Mutant of Apply: a delivered batch stays queued.
ApplyForgets ==
    /\ up /\ sender = "apply"
    /\ refused' = IF verdict = "refused" THEN refused \cup Range(hand.docs) ELSE refused
    /\ verdict' = "none" /\ Goes("next")
    /\ UNCHANGED <<spoolVars, spool, channelVars, mem, kick, retry, main,
                   overflow, delivered, resent, memDropped, lost>>

\* q.Remove of a batch Loom took or refused for good.
Apply ==
    /\ up /\ sender = "apply"
    /\ \/ ~FromMem /\ Remove /\ UNCHANGED mem
       \/ /\ FromMem /\ MemRemove(hand.docs) /\ hand' = NoBatch
          /\ UNCHANGED <<up, clock, files, total, seq, op, directory, history>>
    /\ refused' = IF verdict = "refused" THEN refused \cup Range(hand.docs) ELSE refused
    /\ verdict' = "none" /\ Goes("next")
    /\ UNCHANGED <<spool, channelVars, kick, retry, main,
                   overflow, delivered, resent, memDropped, lost>>

\* A single record that is too large is dropped.
SplitRefused ==
    /\ up /\ sender = "split" /\ ~Splittable
    /\ verdict' = "refused" /\ Goes("apply")
    /\ UNCHANGED <<spoolVars, spool, channelVars, mem, kick, retry, main, fates>>

SplitMem ==
    /\ up /\ sender = "split" /\ Splittable /\ FromMem
    /\ MemSplit(hand.docs)
    /\ hand' = NoBatch /\ Goes("next")
    /\ UNCHANGED <<up, clock, files, total, seq, op, directory, history>>
    /\ UNCHANGED <<spool, channelVars, kick, retry, verdict, main, fates>>

SplitSpool ==
    /\ sender = "split" /\ ~FromMem
    /\ \/ Split /\ Goes("splitting")
       \/ SplitVanished /\ Goes("next")
    /\ UNCHANGED <<spool, channelVars, mem, kick, retry, verdict, main, fates>>

SplitOk ==
    /\ sender = "splitting"
    /\ SplitDone
    /\ Goes("next")
    /\ UNCHANGED <<spool, channelVars, mem, kick, retry, verdict, main, fates>>

\* A failed Split is treated like a refused single record.
SplitError ==
    /\ sender = "splitting"
    /\ SplitFailed
    /\ verdict' = "refused" /\ Goes("apply")
    /\ UNCHANGED <<spool, channelVars, mem, kick, retry, main, fates>>

----------------------------------------------------------------------------
(* Shutdown, the end of the process and the next start. *)

Shutdown ==
    /\ up /\ Stops /\ main = "run" /\ MayRestart
    /\ main' = "closing"
    /\ UNCHANGED <<spoolVars, spool, channelVars, mem, kick, senderVars, fates>>

\* Mutants of CloseStop: it does not wait for the batcher; it waits for the
\* sender before stopping it.
CloseStopEarly ==
    /\ up /\ main = "closing"
    /\ main' = "stopping"
    /\ UNCHANGED <<spoolVars, spool, channelVars, mem, kick, senderVars, fates>>

CloseStopSwapped ==
    /\ up /\ main = "closing" /\ batcher = "done" /\ sender = "done"
    /\ main' = "stopping"
    /\ UNCHANGED <<spoolVars, spool, channelVars, mem, kick, senderVars, fates>>

CloseStop ==
    /\ up /\ main = "closing" /\ batcher = "done"
    /\ main' = "stopping"
    /\ UNCHANGED <<spoolVars, spool, channelVars, mem, kick, senderVars, fates>>

LastDrain ==
    /\ up /\ main = "stopping" /\ sender = "done"
    /\ main' = "drain" /\ Goes("next")
    /\ UNCHANGED <<spoolVars, spool, channelVars, mem, kick, retry, verdict, fates>>

ResetShipper ==
    /\ inCh' = <<>> /\ ev' = 0 /\ docs' = <<>> /\ batcher' = "loop"
    /\ mem' = <<>> /\ kick' = TRUE
    /\ retry' = FALSE /\ sender' = "select" /\ verdict' = "none" /\ main' = "run"
    /\ lost' = lost \cup (InMemory \ (Held \cup delivered))
    /\ UNCHANGED <<spool, overflow, delivered, resent, refused, memDropped>>

Exit == main = "exit" /\ ProcessEnds /\ ResetShipper

Dies == Crash /\ ResetShipper

\* NewShipper and Run of the next process.  There is one directory: a start that finds
\* it unusable and goes on with the second one is not followed.
Start ==
    /\ OpenSpool
    /\ spool' = TRUE
    /\ UNCHANGED <<channelVars, mem, kick, senderVars, main, fates>>

\* Neither directory could be used: batches wait in memory only.
StartNoSpool ==
    /\ "nospool" \in Faults /\ ~up
    /\ \E c \in Times : Reading(c) /\ clock' = c
    /\ up' = TRUE /\ spool' = FALSE
    /\ UNCHANGED <<memory, directory, history>>
    /\ UNCHANGED <<channelVars, mem, kick, senderVars, main, fates>>

InsideSpool ==
    /\ \/ Expire \/ SampleRoom \/ MakeRoom \/ NameBatch \/ WriteTemp
       \/ RenamePut \/ Enforce \/ SkipCorrupt \/ RenameHalf
    /\ UNCHANGED shipperVars

Surroundings == (Tick \/ Damage) /\ UNCHANGED shipperVars

Batcher == Receive \/ Flush \/ BatcherEnds \/ StoreOk \/ StoreFallback \/ StoreNoSpool

Sender ==
    \/ TakeKick \/ RetryFires \/ SeesStop \/ SpoolHas \/ SpoolEmpty \/ SkipSpool
    \/ MemHas \/ Drained \/ SplitRefused \/ SplitMem \/ SplitOk \/ SplitError

Locks == AskSpool \/ Apply \/ SplitSpool

Loom == PostAccepted \/ PostReplyLost \/ PostFails \/ PostRejected \/ PostTooLarge

Main == Shutdown \/ CloseStop \/ LastDrain \/ Exit

Next ==
    \/ Log \/ IdleTick \/ Batcher \/ StorePut \/ Sender \/ Locks \/ Loom \/ Main
    \/ InsideSpool \/ Surroundings \/ Dies \/ Start \/ StartNoSpool

Spec == Init /\ [][Next]_vars

\* The goroutines run, Go's mutex starves nobody, the client's timeout ends
\* every post, a stopped agent is started again.
ProcessFairness ==
    /\ WF_vars(Batcher) /\ SF_vars(StorePut)
    /\ WF_vars(Sender) /\ SF_vars(Locks) /\ WF_vars(InsideSpool)
    /\ WF_vars(Loom)
    /\ WF_vars(CloseStop \/ LastDrain \/ Exit)
    /\ WF_vars(Start)

\* Loom, asked again and again, at some point answers.
LoomFairness == SF_vars(PostAccepted \/ PostTooLarge)

FairSpec == Spec /\ ProcessFairness /\ LoomFairness

----------------------------------------------------------------------------
(* Properties. *)

\* Types of the shipper's state, and the two limits of a batch (shipper.go:237-245);
\* the spool's is TypeOK.
ShipperTypeOK ==
    /\ spool \in BOOLEAN /\ kick \in BOOLEAN /\ retry \in BOOLEAN
    /\ inCh \in Seq(Records) /\ Len(inCh) <= ChanCap
    /\ ev \in Records \cup {0}
    /\ docs \in Seq(Records) /\ Len(docs) <= BatchSize /\ Weighs(docs) <= MaxBody
    /\ batcher \in {"loop", "flush", "put", "done"}
    /\ mem \in Seq(Seq(Records))
    /\ sender \in {"select", "next", "oldest", "mem", "post", "apply", "split",
                   "splitting", "done"}
    /\ verdict \in {"none", "shipped", "refused"}
    /\ main \in {"run", "closing", "stopping", "drain", "exit"}
    /\ \A S \in {overflow, delivered, resent, refused, memDropped, lost} : S \subseteq Records

\* No record is lost silently: each one logged is on its way, on disk, with
\* Loom, or was reported as turned away, refused, dropped, or gone with the
\* memory of a process that ended (shipper.go:23-51).
Accounted ==
    \A r \in 1..made :
        r \in overflow \cup InMemory \cup Held \cup delivered \cup refused
              \cup dropped \cup memDropped \cup lost

\* A waiting batch always has a waker: when the sender sleeps, the kick or the
\* retry timer is set, or a Put that will kick is under way (shipper.go:281-322).
NoLostWakeup ==
    up /\ sender = "select" /\ ~kick /\ ~retry =>
        mem = <<>> /\ (files = <<>> \/ op.call = "put")

\* "2xx: delivered: the batch is deleted and never sent again"
\* (shipper.go:44).
SentOnce == resent = {}

\* Loom receives the records in the order they were logged (spool.go:18-20).
DeliveredInOrder ==
    [][\A r \in delivered' \ delivered, q \in delivered : q < r]_vars

Settled == overflow \cup delivered \cup refused \cup dropped \cup memDropped \cup lost

\* Every logged record is in the end with Loom or reported, with no further
\* record needed to push it: kicks, retries and restarts suffice
\* (shipper.go:288-322).
EverythingSettles == \A r \in Records : (made >= r) ~> (r \in Settled)

\* Shutdown returns: it waits for batcher and sender, and neither waits for it
\* (shipper.go:433-443).
ShutdownReturns == (main = "closing") ~> ~up

\* Records are given up only alone, as too large (shipper.go:45-47, 371-375); and a
\* stop leaves nothing only in memory: the batch in hand was flushed to the spool and
\* "whatever remains in the spool is sent at the next start" (shipper.go:430-443).
GivesUpOnlyOversized ==
    [][/\ verdict' = "refused" /\ sender \in {"split", "splitting"} => Len(hand.docs) = 1
       /\ Exit => lost' = lost]_vars

\* noteDrop "counts records removed unsent" (shipper.go:170): what it counted
\* never reached Loom.
CountedUnsent == (dropped \cup memDropped) \cap delivered = {}

\* Shutdown stops the sender and gives the queue shutdownGrace under a context
\* of its own (shipper.go:430-443): once stop is closed the sender's drain, which
\* runs without a deadline, posts nothing more.
StopEndsSending ==
    [][main = "stopping" /\ sender' = "post" => sender = "post"]_vars

----------------------------------------------------------------------------
(* The invariants behind Accounted and NoLostWakeup, proved in             *)
(* ShipperProofs.                                                          *)

Upstream == Range(inCh) \cup ({ev} \ {0}) \cup Range(docs)

\* The Put under way has renamed its file.
Landed == op.call = "put" /\ op.pc = "enforce"

\* What the batcher has not stored is in one place only and was never in the
\* spool, so that a Put always brings new records.
UpstreamNew ==
    /\ Upstream \subseteq 1..made
    /\ IsInjective(inCh)
    /\ ev \notin Range(inCh) /\ ev \notin Range(docs)
    /\ Range(inCh) \cap Range(docs) = {}
    /\ (Range(inCh) \cup {ev}) \cap Known = {}
    /\ IF Landed THEN Range(docs) \subseteq Known ELSE Range(docs) \cap Known = {}

\* Only what Loom took or refused for good is removed from the spool.
TakenSettled ==
    /\ taken \subseteq delivered \cup refused
    /\ sender = "apply" => \/ verdict = "shipped" /\ Range(hand.docs) \subseteq delivered
                           \/ verdict = "refused"

\* Which of the two goroutines the spool's call is made by.
PipeShape ==
    /\ made <= MaxRecords
    /\ inCh \in Seq(Records) /\ docs \in Seq(Records) /\ mem \in Seq(Seq(Records))
    /\ ev \in Records \cup {0}
    /\ ev # 0 => batcher \in {"flush", "put"}
    /\ op.call = "put" => batcher = "put" /\ op.docs = docs
    /\ op.call = "split" => sender = "splitting"

ShipperInv == SpoolInv /\ PipeShape /\ UpstreamNew /\ TakenSettled /\ Accounted

\* The sender looks into the memory queue after it found the spool empty: a batch
\* stored since then has left a token or is about to.
WakeInv ==
    /\ ~up => kick
    /\ ~spool => files = <<>> /\ op.call = "none"
    /\ sender = "mem" => kick \/ files = <<>> \/ op.call = "put"
    /\ NoLostWakeup

----------------------------------------------------------------------------
(* The invariant behind SentOnce, proved in ShipperProofs for processes    *)
(* that do not crash, unlinks that work and a spool that opens, and, but   *)
(* for ApartInv, replies that arrive.                                      *)

\* What Shutdown waited for has ended.
MainShape ==
    /\ main \in {"stopping", "drain", "exit"} => batcher = "done"
    /\ main = "exit" => sender = "done"

\* A part the split under way has written.
PartWritten(nm) ==
    /\ op.call = "split"
    /\ \/ op.half = 1 /\ nm = HalfName(op.name, 0)
       \/ op.pc = "swap" /\ nm = HalfName(op.name, 1)

\* No batch holds a record twice, and two files share records only while one is
\* being split into the other.
FilesApart ==
    /\ IsInjective(docs) /\ \A nm \in DOMAIN body : IsInjective(body[nm])
    /\ \A a, b \in disk :
          \/ a = b \/ DocsOf(a) \cap DocsOf(b) = {}
          \/ a = op.name /\ PartWritten(b)
          \/ b = op.name /\ PartWritten(a)

\* A record in the memory queue is in one batch, and was never in the spool.
MemApart ==
    /\ \A i \in DOMAIN mem : IsInjective(mem[i])
    /\ \A i, j \in DOMAIN mem : i # j => Range(mem[i]) \cap Range(mem[j]) = {}
    /\ InMem \subseteq 1..made /\ InMem \cap (Known \cup Upstream) = {}

InHand == sender \in {"post", "apply", "split", "splitting"}

\* The batch in hand shares no record with another batch.
HandApart ==
    /\ Range(hand.docs) \subseteq 1..made /\ Range(hand.docs) \cap Upstream = {}
    /\ FromMem => /\ Range(hand.docs) \cap Known = {}
                  /\ \A i \in DOMAIN mem : mem[i] = hand.docs \/ Range(mem[i]) \cap Range(hand.docs) = {}
    /\ ~FromMem => /\ Range(hand.docs) \subseteq Known
                   /\ \A nm \in disk : \/ nm = hand.name \/ PartWritten(nm)
                                      \/ DocsOf(nm) \cap Range(hand.docs) = {}

\* What Loom took is queued nowhere, but for the batch about to be removed.
Removing == IF sender = "apply" /\ verdict = "shipped" THEN Range(hand.docs) ELSE {}
DeliveredGone ==
    /\ delivered \subseteq 1..made /\ delivered \cap Upstream = {}
    /\ delivered \cap (Held \cup InMem) \subseteq Removing

\* A batch has a sequence number, so that a name tells the spool's batches from the
\* memory queue's.
Numbered == (\A nm \in DOMAIN body : nm.seq > 0) /\ (PutNamed => seq > 0)

ApartInv == MainShape /\ Numbered /\ FilesApart /\ MemApart /\ (InHand => HandApart)

\* What is about to be posted was not taken before.
HandNew == InHand /\ sender # "apply" => Range(hand.docs) \cap delivered = {}

OnceInv == ApartInv /\ HandNew /\ DeliveredGone /\ SentOnce

----------------------------------------------------------------------------
(* The invariant behind GivesUpOnlyOversized, proved in ShipperProofs for  *)
(* writes that work, room for every batch and a spool that opens: nothing  *)
(* then waits in memory.                                                   *)

\* The batcher stops at BatchSize, and ends with nothing left.
BatcherShape ==
    /\ Len(docs) <= BatchSize /\ (batcher = "loop" => Len(docs) < BatchSize)
    /\ batcher = "done" => main # "run" /\ inCh = <<>> /\ ev = 0 /\ docs = <<>>

\* A verdict is what Apply is about to act on, and Split is asked of records only.
SenderShape ==
    /\ sender # "apply" => verdict = "none"
    /\ sender = "split" => hand.docs # <<>>

SpoolTakesAll ==
    /\ spool /\ mem = <<>>
    /\ op.pc = "room" => op.room >= Size(Len(op.docs))

GiveUpInv == MainShape /\ BatcherShape /\ SenderShape /\ SpoolTakesAll

----------------------------------------------------------------------------
(* The invariant behind DeliveredInOrder, proved in ShipperProofs for the  *)
(* conditions of ApartInv and GiveUpInv and a clock that is not set back.  *)

\* Records reach the spool in arrival order: what was stored before is older than
\* what waits, and the batch being filled than what comes after it.
ArrivalOrder ==
    /\ Ascends(docs) /\ Ascends(inCh)
    /\ AllBefore(Range(docs), {ev} \ {0}) /\ AllBefore(Range(docs), Range(inCh))
    /\ AllBefore({ev} \ {0}, Range(inCh))
    /\ AllBefore(Known, {ev} \ {0}) /\ AllBefore(Known, Range(inCh))
    /\ ~Landed => AllBefore(Known, Range(docs))

\* The index lists older records first.
ListOrder ==
    \A i, j \in DOMAIN files : i < j => AllBefore(DocsOf(files[i].name), DocsOf(files[j].name))

\* What may still be posted.
Unposted == Held \cup Upstream \cup Range(hand.docs)

\* The batch in hand is the oldest there is, and Loom has none younger than what
\* it may still be sent.
HandFirst == InHand => AllBefore(Range(hand.docs), (Held \cup Upstream) \ Range(hand.docs))
DeliveredFirst == delivered \subseteq 1..made /\ AllBefore(delivered, Unposted \ delivered)

InOrderInv ==
    /\ NamesTell /\ BodiesAscend
    /\ ArrivalOrder /\ ListOrder /\ HandFirst /\ DeliveredFirst
=============================================================================
