------------------------------- MODULE Spool -------------------------------
(***************************************************************************)
(* The on-disk queue of batches waiting for Loom                           *)
(* (internal/exporters/loom/spool.go).                                     *)
(*                                                                         *)
(* The mutex admits one call at a time; `op` is the call that holds it and *)
(* the point it has reached.  A call takes one step per change of the      *)
(* directory, so a crash of the process can fall between any two of them.  *)
(* The two callers are the batcher (Put) and the sender (Oldest, Remove,   *)
(* Split); here the sender is any client that calls them in any order,     *)
(* the shipper's own order is in Shipper.tla.                              *)
(*                                                                         *)
(* A record is the number of its arrival, a batch a sequence of records, a *)
(* file name the triple its text encodes.  Wall-clock readings are coarse, *)
(* but two processes never write at the same nanosecond, see Reading.      *)
(***************************************************************************)
EXTENDS Integers, Sequences, FiniteSets, Functions

CONSTANTS
    MaxRecords,  \* bound: records ever handed to Put
    MaxBatch,    \* bound: records in one batch
    MaxBytes,    \* Spool.max, the size cap, in units of Size
    MaxAge,      \* Spool.maxAge in ticks; 0 disables the age cap
    Rooms,       \* free space above minFree that a Put may find, in Size units
    Times,       \* bound: wall-clock readings
    StepBack,    \* may the wall clock be set back?
    Faults       \* which of "write", "unlink", "damage", "crash", "nospool" may happen

ASSUME SpoolAssumption ==
    /\ MaxRecords \in Nat
    /\ MaxBatch \in Nat \ {0}
    /\ MaxBytes \in Nat
    /\ MaxAge \in Nat
    /\ Rooms \subseteq Int
    /\ Times \subseteq Nat
    /\ StepBack \in BOOLEAN
    /\ Faults \subseteq {"write", "unlink", "damage", "crash", "nospool"}

VARIABLES
    up,       \* the process runs and has the spool open
    clock,    \* s.now()
    files,    \* s.files, the index: entries [name, n], oldest first
    total,    \* s.total
    seq,      \* s.seq
    op,       \* the call holding s.mu
    hand,     \* the batch Oldest last gave the sender
    disk,     \* names of the batch files in the directory
    temps,    \* names whose .tmp file is in the directory
    bad,      \* files whose content was damaged from outside
    body,     \* what was last written under each name
    made,     \* history: records handed to Put so far
    taken,    \* history: records of the batches Remove was called for
    dropped   \* history: records reported through onDrop

memory == <<files, total, seq, op, hand>>
directory == <<disk, temps, bad, body>>
history == <<made, taken, dropped>>
spoolVars == <<up, clock, memory, directory, history>>

Records == 1..MaxRecords

----------------------------------------------------------------------------
(* Names, bodies and sizes. *)

Name == [t : Times, seq : Nat, sfx : Seq({0, 1})]
NoName == [t |-> 0, seq |-> 0, sfx |-> <<>>]

Prefix(x, y) == Len(x) <= Len(y) /\ SubSeq(y, 1, Len(x)) = x

\* Byte order of two suffixes: "" sorts before "a" because '-' < 'a'.
SfxLess(x, y) ==
    \/ Prefix(x, y) /\ x # y
    \/ \E k \in 1..Len(x) :
          /\ k <= Len(y)
          /\ SubSeq(x, 1, k - 1) = SubSeq(y, 1, k - 1)
          /\ x[k] < y[k]

\* sort.Slice compares the zero-padded names as strings.
NameLess(a, b) ==
    \/ a.t < b.t
    \/ a.t = b.t /\ a.seq < b.seq
    \/ a.t = b.t /\ a.seq = b.seq /\ SfxLess(a.sfx, b.sfx)

\* The name of half h (0 for 'a', 1 for 'b') of the batch named nm.
HalfName(nm, h) == [t |-> nm.t, seq |-> nm.seq, sfx |-> Append(nm.sfx, h)]

Half(docs, h) ==
    LET mid == Len(docs) \div 2
    IN  IF h = 0 THEN SubSeq(docs, 1, mid) ELSE SubSeq(docs, mid + 1, Len(docs))

\* Length of joinDocs of n documents: brackets, documents and the commas
\* between them, counted in units of one document with its comma.
Size(n) == n + 1

Bytes(fs) == SumFunction([i \in DOMAIN fs |-> Size(fs[i].n)])

DocsOf(nm) == Range(body[nm])
Held == UNION {DocsOf(nm) : nm \in disk}

Positions(nm) == {i \in DOMAIN files : files[i].name = nm}
FirstPosition(i, nm) == i \in Positions(nm) /\ \A j \in Positions(nm) : i <= j
Without(s, i) == SubSeq(s, 1, i - 1) \o SubSeq(s, i + 1, Len(s))

----------------------------------------------------------------------------
Begin(call, pc, nm, docs) ==
    [call |-> call, pc |-> pc, name |-> nm, docs |-> docs, room |-> 0, half |-> 0]
Idle == Begin("none", "idle", NoName, <<>>)
NoBatch == [name |-> NoName, docs |-> <<>>]

Goto(pc) == op' = [op EXCEPT !.pc = pc]
Return == op' = Idle

\* A clock reading no file name carries yet: names hold nanoseconds, and a
\* second process never reads the nanosecond at which an earlier one wrote.
Unwritten(c) == \A nm \in DOMAIN body : nm.t # c
Reading(c) == Unwritten(c) /\ (StepBack \/ c > clock)

\* Bound: a reading of the clock is left for the next process.
MayRestart == \E c \in Times : Reading(c)

SpoolInit ==
    /\ up = TRUE
    /\ clock \in Times
    /\ \A c \in Times : StepBack \/ clock <= c
    /\ files = <<>> /\ total = 0 /\ seq = 0
    /\ op = Idle /\ hand = NoBatch
    /\ disk = {} /\ temps = {} /\ bad = {} /\ body = [nm \in {} |-> <<>>]
    /\ made = 0 /\ taken = {} /\ dropped = {}

\* os.Remove of a batch file, which the code lets fail.
Unlink(nm) ==
    \/ disk' = disk \ {nm} /\ bad' = bad \ {nm}
    \/ "unlink" \in Faults /\ nm \in disk /\ UNCHANGED <<disk, bad>>

\* Mutant of DropFront: the newest batch goes.
DropBack ==
    /\ files # <<>>
    /\ Unlink(files[Len(files)].name)
    /\ files' = SubSeq(files, 1, Len(files) - 1)
    /\ total' = total - Size(files[Len(files)].n)
    /\ dropped' = dropped \cup DocsOf(files[Len(files)].name)

\* dropFrontLocked: the unlink error is ignored, the count is reported.
DropFront ==
    /\ files # <<>>
    /\ Unlink(files[1].name)
    /\ files' = Tail(files)
    /\ total' = total - Size(files[1].n)
    /\ dropped' = dropped \cup DocsOf(files[1].name)

----------------------------------------------------------------------------
(* expireLocked, the first thing Put and Oldest do. *)

Expired(e) == MaxAge > 0 /\ e.name.t < clock - MaxAge
FrontExpired == files # <<>> /\ Expired(files[1])

Expire ==
    /\ up /\ op.pc = "expire" /\ FrontExpired
    /\ DropFront
    /\ UNCHANGED <<up, clock, seq, op, hand, temps, body, made, taken>>

NoneExpired == op.pc = "expire" /\ ~FrontExpired

----------------------------------------------------------------------------
(* Put. *)

PutCall(docs) ==
    /\ up /\ op.pc = "idle"
    /\ op' = Begin("put", "expire", NoName, docs)

\* The client of this module hands Put the next records in arrival order.
Put ==
    \E k \in 1..MaxBatch :
        /\ made + k <= MaxRecords
        /\ PutCall([i \in 1..k |-> made + i])
        /\ made' = made + k
        /\ UNCHANGED <<up, clock, files, total, seq, hand, directory, taken, dropped>>

\* makeRoomLocked samples the free space once.
SampleRoom ==
    /\ up /\ op.call = "put" /\ NoneExpired
    /\ \E r \in Rooms : op' = [op EXCEPT !.pc = "room", !.room = r]
    /\ UNCHANGED <<up, clock, files, total, seq, hand, directory, history>>

ShortOfRoom == op.pc = "room" /\ op.room < Size(Len(op.docs))

\* ... and adds what each batch given up frees.
MakeRoom ==
    /\ up /\ ShortOfRoom
    /\ DropFront
    /\ op' = [op EXCEPT !.room = @ + Size(files[1].n)]
    /\ UNCHANGED <<up, clock, seq, hand, temps, body, made, taken>>

\* errLowDisk: the batch is not in the spool and the caller keeps it.
PutLowDisk ==
    /\ up /\ ShortOfRoom /\ files = <<>>
    /\ Return
    /\ UNCHANGED <<up, clock, files, total, seq, hand, directory, history>>

\* Mutant of NameBatch: the sequence number does not move.
NameBatchStale ==
    /\ up /\ op.pc = "room" /\ ~ShortOfRoom
    /\ op' = [op EXCEPT !.pc = "write",
                        !.name = [t |-> clock, seq |-> seq, sfx |-> <<>>]]
    /\ UNCHANGED <<up, clock, files, total, seq, hand, directory, history>>

NameBatch ==
    /\ up /\ op.pc = "room" /\ ~ShortOfRoom
    /\ seq' = seq + 1
    /\ op' = [op EXCEPT !.pc = "write",
                        !.name = [t |-> clock, seq |-> seq + 1, sfx |-> <<>>]]
    /\ UNCHANGED <<up, clock, files, total, hand, directory, history>>

\* write: the file a Put or the current half of a Split goes to.
Target == IF op.call = "put" THEN op.name ELSE HalfName(op.name, op.half)
Content == IF op.call = "put" THEN op.docs ELSE Half(op.docs, op.half)

WriteTemp ==
    /\ up /\ op.pc = "write"
    /\ temps' = temps \cup {Target}
    /\ Goto("rename")
    /\ UNCHANGED <<up, clock, files, total, seq, hand, disk, bad, body, history>>

\* The rename that makes the batch exist.
Land ==
    /\ up /\ op.pc = "rename"
    /\ temps' = temps \ {Target}
    /\ disk' = disk \cup {Target}
    /\ bad' = bad \ {Target}
    /\ body' = [nm \in DOMAIN body \cup {Target} |->
                    IF nm = Target THEN Content ELSE body[nm]]

RenamePut ==
    /\ op.call = "put"
    /\ Land
    /\ files' = Append(files, [name |-> op.name, n |-> Len(op.docs)])
    /\ total' = total + Size(Len(op.docs))
    /\ Goto("enforce")
    /\ UNCHANGED <<up, clock, seq, hand, history>>

\* A failed write or rename removes the temporary file.
WriteFails ==
    /\ up /\ op.pc \in {"write", "rename"} /\ "write" \in Faults
    /\ temps' = temps \ {Target}

PutFailed ==
    /\ op.call = "put"
    /\ WriteFails
    /\ Return
    /\ UNCHANGED <<up, clock, files, total, seq, hand, disk, bad, body, history>>

OverCap == total > MaxBytes /\ Len(files) > 1

Enforce ==
    /\ up /\ op.pc = "enforce" /\ OverCap
    /\ DropFront
    /\ UNCHANGED <<up, clock, seq, op, hand, temps, body, made, taken>>

PutDone ==
    /\ up /\ op.pc = "enforce" /\ ~OverCap
    /\ Return
    /\ UNCHANGED <<up, clock, files, total, seq, hand, directory, history>>

----------------------------------------------------------------------------
(* Oldest. *)

Oldest ==
    /\ up /\ op.pc = "idle"
    /\ op' = Begin("oldest", "expire", NoName, <<>>)
    /\ hand' = NoBatch
    /\ UNCHANGED <<up, clock, files, total, seq, directory, history>>

Readable(nm) == nm \in disk \ bad

\* A file that is missing or not a JSON array is given up.
SkipCorrupt ==
    /\ up /\ op.call = "oldest" /\ NoneExpired
    /\ files # <<>> /\ ~Readable(files[1].name)
    /\ DropFront
    /\ UNCHANGED <<up, clock, seq, op, hand, temps, body, made, taken>>

OldestFound ==
    /\ up /\ op.call = "oldest" /\ NoneExpired
    /\ files # <<>> /\ Readable(files[1].name)
    /\ hand' = [name |-> files[1].name, docs |-> body[files[1].name]]
    /\ Return
    /\ UNCHANGED <<up, clock, files, total, seq, directory, history>>

OldestEmpty ==
    /\ up /\ op.call = "oldest" /\ NoneExpired
    /\ files = <<>>
    /\ Return
    /\ UNCHANGED <<up, clock, files, total, seq, hand, directory, history>>

----------------------------------------------------------------------------
(* Remove and Split of the batch in hand, which a Put may have dropped. *)

\* One directory change, so one step; an unlink error leaves the file.
Remove ==
    /\ up /\ op.pc = "idle" /\ hand.name # NoName
    /\ taken' = taken \cup Range(hand.docs)
    /\ hand' = NoBatch
    /\ \/ /\ Positions(hand.name) = {}
          /\ UNCHANGED <<files, total, disk, bad>>
       \/ \E i \in DOMAIN files :
            /\ FirstPosition(i, hand.name)
            /\ files' = Without(files, i)
            /\ total' = total - Size(files[i].n)
            /\ Unlink(hand.name)
    /\ UNCHANGED <<up, clock, seq, op, temps, body, made, dropped>>

\* A batch of one cannot be split.
Splittable == Len(hand.docs) >= 2

Split ==
    /\ up /\ op.pc = "idle" /\ hand.name # NoName
    /\ Splittable /\ Positions(hand.name) # {}
    /\ op' = Begin("split", "write", hand.name, hand.docs)
    /\ UNCHANGED <<up, clock, files, total, seq, hand, directory, history>>

\* "a batch the caps removed meanwhile is reported as split"
SplitVanished ==
    /\ up /\ op.pc = "idle" /\ hand.name # NoName
    /\ Splittable /\ Positions(hand.name) = {}
    /\ hand' = NoBatch
    /\ UNCHANGED <<up, clock, files, total, seq, op, directory, history>>

\* Mutant of RenameHalf: the original goes after the first half.
RenameHalfFirst ==
    /\ op.call = "split"
    /\ Land
    /\ Goto("swap")
    /\ UNCHANGED <<up, clock, files, total, seq, hand, history>>

RenameHalf ==
    /\ op.call = "split"
    /\ Land
    /\ op' = IF op.half = 0 THEN [op EXCEPT !.pc = "write", !.half = 1]
                            ELSE [op EXCEPT !.pc = "swap"]
    /\ UNCHANGED <<up, clock, files, total, seq, hand, history>>

\* A write error removes the half already written and leaves the original.
SplitFailed ==
    /\ op.call = "split"
    /\ WriteFails
    /\ IF op.half = 1 THEN Unlink(HalfName(op.name, 0)) ELSE UNCHANGED <<disk, bad>>
    /\ Return
    /\ UNCHANGED <<up, clock, files, total, seq, hand, body, history>>

\* Mutant of HalfEntry: the second half is listed first.
HalfEntrySwapped(h) ==
    [name |-> HalfName(op.name, 1 - h), n |-> Len(Half(op.docs, 1 - h))]

HalfEntry(h) == [name |-> HalfName(op.name, h), n |-> Len(Half(op.docs, h))]

\* Mutants of SplitDone: the total keeps the old size; the halves queue at
\* the end.
SplitDoneNoResize ==
    /\ up /\ op.pc = "swap"
    /\ Unlink(op.name)
    /\ \E i \in DOMAIN files :
       /\ FirstPosition(i, op.name)
       /\ files' = SubSeq(files, 1, i - 1) \o <<HalfEntry(0), HalfEntry(1)>>
                     \o SubSeq(files, i + 1, Len(files))
    /\ hand' = NoBatch
    /\ Return
    /\ UNCHANGED <<up, clock, total, seq, temps, body, history>>

SplitDoneAtEnd ==
    /\ up /\ op.pc = "swap"
    /\ Unlink(op.name)
    /\ \E i \in DOMAIN files :
       /\ FirstPosition(i, op.name)
       /\ files' = Without(files, i) \o <<HalfEntry(0), HalfEntry(1)>>
       /\ total' = total - Size(files[i].n)
                     + Size(HalfEntry(0).n) + Size(HalfEntry(1).n)
    /\ hand' = NoBatch
    /\ Return
    /\ UNCHANGED <<up, clock, seq, temps, body, history>>

\* Both halves exist: the original goes and they take its place.
SplitDone ==
    /\ up /\ op.pc = "swap"
    /\ Unlink(op.name)
    /\ \E i \in DOMAIN files :
       /\ FirstPosition(i, op.name)
       /\ files' = SubSeq(files, 1, i - 1) \o <<HalfEntry(0), HalfEntry(1)>>
                     \o SubSeq(files, i + 1, Len(files))
       /\ total' = total - Size(files[i].n)
                     + Size(HalfEntry(0).n) + Size(HalfEntry(1).n)
    /\ hand' = NoBatch
    /\ Return
    /\ UNCHANGED <<up, clock, seq, temps, body, history>>

----------------------------------------------------------------------------
(* The process and its surroundings. *)

\* What is in memory is gone, what is in the directory stays.
ProcessEnds ==
    /\ up /\ up' = FALSE
    /\ files' = <<>> /\ total' = 0 /\ seq' = 0 /\ op' = Idle /\ hand' = NoBatch
    /\ UNCHANGED <<clock, directory, history>>

Crash == "crash" \in Faults /\ MayRestart /\ ProcessEnds

\* Mutant of Listings: the names are not sorted.
ListingsUnsorted == {s \in [1..Cardinality(disk) -> disk] : Range(s) = disk}

\* The batch files in the directory, sorted by name.
Listings ==
    {s \in [1..Cardinality(disk) -> disk] :
        /\ Range(s) = disk
        /\ \A i, j \in DOMAIN s : i < j => NameLess(s[i], s[j])}

\* OpenSpool of the next process: temporary files go, the caps wait.
OpenSpool ==
    /\ ~up
    /\ \E c \in Times : Reading(c) /\ clock' = c
    /\ \E s \in Listings :
          files' = [i \in 1..Len(s) |-> [name |-> s[i], n |-> Len(body[s[i]])]]
    /\ total' = Bytes(files')
    /\ temps' = {}
    /\ up' = TRUE
    /\ UNCHANGED <<seq, op, hand, disk, bad, body, history>>

\* Time passes between calls; a call is short against the age cap.  Bound: the
\* last reading is kept for a restart.
Tick ==
    /\ up /\ op.pc = "idle"
    /\ \E c \in Times : /\ Reading(c) /\ clock' = c
                       /\ \E d \in Times : d > c /\ Unwritten(d)
    /\ UNCHANGED <<up, memory, directory, history>>

\* Something outside the agent damages a file.
Damage ==
    /\ "damage" \in Faults
    /\ \E nm \in disk \ bad : bad' = bad \cup {nm}
    /\ UNCHANGED <<up, clock, memory, disk, temps, body, history>>

SpoolCall ==
    \/ Expire \/ SampleRoom \/ MakeRoom \/ PutLowDisk \/ NameBatch \/ WriteTemp
    \/ RenamePut \/ PutFailed \/ Enforce \/ PutDone
    \/ SkipCorrupt \/ OldestFound \/ OldestEmpty
    \/ RenameHalf \/ SplitFailed \/ SplitDone

SpoolNext ==
    \/ Put \/ Oldest \/ Remove \/ Split \/ SplitVanished
    \/ SpoolCall
    \/ Crash \/ OpenSpool \/ Tick \/ Damage

SpoolSpec == SpoolInit /\ [][SpoolNext]_spoolVars

----------------------------------------------------------------------------
(* Properties. *)

Call == [pc : {"idle", "expire", "room", "write", "rename", "enforce", "swap"},
         call : {"none", "put", "oldest", "split"},
         name : Name \cup {NoName}, docs : Seq(Records), room : Int, half : {0, 1}]

\* Types of the variables of spool.go's Spool and of the directory; total is
\* the subject of IndexAgrees.
TypeOK ==
    /\ up \in BOOLEAN
    /\ clock \in Times
    /\ files \in Seq([name : Name, n : Nat])
    /\ seq \in Nat
    /\ op \in Call
    /\ hand \in [name : Name \cup {NoName}, docs : Seq(Records)]
    /\ DOMAIN body \subseteq Name
    /\ \A nm \in DOMAIN body : body[nm] \in Seq(Records)
    /\ disk \subseteq DOMAIN body /\ IsFiniteSet(disk)
    /\ bad \subseteq disk
    /\ temps \subseteq Name
    /\ made \in Nat
    /\ taken \subseteq Records
    /\ dropped \subseteq Records

\* The spool implements the durable queue: crash, restart, split and partial
\* writes neither lose a held record nor invent one (spool.go:23-25, "Nothing
\* else is ever lost here").
DQ == INSTANCE DurableQueue WITH held <- Held
ImplementsDurableQueue == DQ!Spec

\* b names the batch a, or a part of it.
Contains(a, b) == a.t = b.t /\ a.seq = b.seq /\ Prefix(a.sfx, b.sfx)
Overlap(a, b) == Contains(a, b) \/ Contains(b, a)

Listed == {files[i].name : i \in DOMAIN files}

\* Splitting again what an interrupted split left lists its parts twice; the
\* second entry finds no file once the first is done with.
Live == {i \in DOMAIN files : files[i].name \in disk /\ FirstPosition(i, files[i].name)}

\* The index is in arrival order, across splits and across restarts that
\* rebuild it from the names (spool.go:16-20); only a batch and the parts an
\* interrupted split left beside it share records, and only records that were
\* reported as dropped may come late.
PostingOrder ==
    \A i, j \in Live : i < j =>
        \/ Overlap(files[i].name, files[j].name)
        \/ \A r \in DocsOf(files[i].name), q \in DocsOf(files[j].name) : r < q \/ q \in dropped

\* Index, total and directory agree: total, which every Put, Remove, Split and drop
\* adjusts on its own, is the size of what the index lists; and between calls every
\* batch file is in the index and no temporary file is left, or it would escape the
\* caps and be sent again after a restart (spool.go:143, 151-171, 217, 250, 265-309).
IndexComplete == up /\ op.pc = "idle" => disk \subseteq Listed /\ temps = {}
TotalAgrees == total = Bytes(files)
IndexAgrees == TotalAgrees /\ IndexComplete

\* What Put's return value says (spool.go:128-129, 193-199): on nil the batch is in
\* the directory, and the batch files fit the size cap or only the newest is left,
\* whatever splits and restarts came before; on an error the batch is not there and
\* the caller keeps it.
PutContract ==
    [][/\ PutDone => /\ Range(op.docs) \subseteq Held
                     /\ \/ Cardinality(disk) = 1
                        \/ SumFunction([nm \in disk |-> Size(Len(body[nm]))]) <= MaxBytes
       /\ PutLowDisk \/ PutFailed => Range(op.docs) \cap Held' = {}]_spoolVars

\* The caps give up the oldest batch: what a step drops is older than all
\* that stays, or stays in a part of the same batch (spool.go:23-24).
DropsOldestFirst ==
    [][\A d \in dropped' \ dropped, r \in Held' :
          d < r \/ r \in dropped']_spoolVars

----------------------------------------------------------------------------
(* The invariant behind ImplementsDurableQueue, proved in SpoolProofs.     *)

Known == Held \cup taken \cup dropped

PutPending == op.call = "put" /\ op.pc \in {"expire", "room", "write", "rename"}
PutNamed == op.call = "put" /\ op.pc \in {"write", "rename"}

\* Which points belong to which call.
CallShape ==
    /\ op.pc = "idle" => op.call = "none"
    /\ op.pc = "expire" => op.call \in {"put", "oldest"}
    /\ op.pc \in {"room", "enforce"} => op.call = "put"
    /\ op.pc \in {"write", "rename"} => op.call \in {"put", "split"}
    /\ op.pc = "swap" => op.call = "split"

\* Every record written is on disk, taken or dropped, and was made; the
\* records of a Put under way are new.
RecordsKnown ==
    /\ \A nm \in DOMAIN body : DocsOf(nm) \subseteq Known
    /\ Known \subseteq 1..made
    /\ PutPending => Range(op.docs) \subseteq 1..made /\ Range(op.docs) \cap Known = {}

\* A name is used for one batch: this process has not reached the sequence
\* number of its next Put, an earlier one wrote at other times.
NamesFresh ==
    /\ up => \A nm \in DOMAIN body : nm.t = clock => nm.seq <= seq
    /\ PutNamed => /\ op.name = [t |-> clock, seq |-> seq, sfx |-> <<>>]
                   /\ op.name \notin DOMAIN body

\* A part's name is used for that part of the batch it was split from, so
\* splitting again after a crash rewrites it unchanged.
PartsMatch ==
    \A x \in DOMAIN body : x.sfx # <<>> =>
        \E nm \in DOMAIN body, h \in {0, 1} :
            x = HalfName(nm, h) /\ body[x] = Half(body[nm], h)

\* The batch in hand is still on disk unless it was dropped meanwhile.
HandBacked ==
    hand.name # NoName =>
        /\ hand.name \in DOMAIN body /\ hand.docs = body[hand.name]
        /\ hand.name \in disk \/ Range(hand.docs) \subseteq dropped

\* A split works on the batch in hand and has written the parts before `half`.
SplitProgress ==
    op.call = "split" =>
        /\ op.name = hand.name /\ op.docs = hand.docs /\ hand.name # NoName
        /\ op.half = 1 => HalfName(op.name, 0) \in disk
        /\ op.pc = "swap" => op.half = 1 /\ HalfName(op.name, 1) \in disk

IndexWritten == \A i \in DOMAIN files : files[i].name \in DOMAIN body

SpoolInv ==
    /\ TypeOK
    /\ ~up => op = Idle /\ hand = NoBatch /\ files = <<>>
    /\ CallShape /\ RecordsKnown /\ NamesFresh /\ PartsMatch
    /\ HandBacked /\ SplitProgress /\ IndexWritten

----------------------------------------------------------------------------
(* The invariant behind IndexComplete, proved in SpoolProofs for unlinks   *)
(* that work.                                                              *)

\* What is in the directory is listed, but for the parts of a split under way.
DiskListed ==
    up => \A nm \in disk :
             \/ nm \in Listed
             \/ op.call = "split" /\ op.half = 1 /\ nm = HalfName(op.name, 0)
             \/ op.call = "split" /\ op.pc = "swap" /\ nm = HalfName(op.name, 1)

\* Temporary files are those of the write under way.
TempsOwn == up => temps = {} \/ (op.pc = "rename" /\ temps = {Target})

SplitListed == op.call = "split" => op.name \in Listed

ListedInv == DiskListed /\ TempsOwn /\ SplitListed

\* An entry's size is that of the batch written under its name.
CountsAgree == \A i \in DOMAIN files : files[i].n = Len(body[files[i].name])

\* While Put enforces the cap, its batch is on disk and only the last entry lists it.
NewestLast ==
    op.pc = "enforce" =>
        /\ op.name \in disk /\ body[op.name] = op.docs
        /\ \A i \in DOMAIN files : files[i].name = op.name => i = Len(files)

PutInvariant == TotalAgrees /\ CountsAgree /\ NewestLast

----------------------------------------------------------------------------
(* The invariant behind PostingOrder, proved in SpoolProofs for a clock    *)
(* that is not set back and unlinks that work.                             *)

AllBefore(S, T) == \A r \in S, q \in T : r < q
Ascends(s) == \A i, j \in DOMAIN s : i < j => s[i] < s[j]
Parent(nm, k) == [nm EXCEPT !.sfx = SubSeq(nm.sfx, 1, k)]
Child(a, b) == \E h \in {0, 1} : b = HalfName(a, h)
GivenUp == {nm \in DOMAIN body : DocsOf(nm) \subseteq dropped}

\* A name tells where a batch's records stand: those of a part are the batch's,
\* and of two batches or parts apart the one that sorts first has the earlier ones.
NamesTell ==
    \A a, b \in DOMAIN body :
        /\ Contains(a, b) => DocsOf(b) \subseteq DocsOf(a)
        /\ NameLess(a, b) /\ ~Contains(a, b) => AllBefore(DocsOf(a), DocsOf(b))

\* Batches are written in arrival order, and a part only after its batch.
BodiesAscend ==
    /\ \A nm \in DOMAIN body : Ascends(body[nm])
    /\ \A nm \in DOMAIN body : \A k \in 0..Len(nm.sfx) : Parent(nm, k) \in DOMAIN body
    /\ \A nm \in DOMAIN body : nm.t <= clock
    /\ PutPending => Ascends(op.docs) /\ \A nm \in DOMAIN body : AllBefore(DocsOf(nm), Range(op.docs))

Repeated(f, j) == \E k \in DOMAIN f : k < j /\ f[k].name = f[j].name
Backed(d, nm) == \E a \in d : Contains(a, nm)
Above(d, nm) == \E a \in d : Contains(a, nm) /\ a # nm

\* An index f of a directory with the files d is sorted by name, apart from entries
\* that have no file and will have none, or whose records were given up (in g).
Sorted(f, d, g) ==
    \A i, j \in DOMAIN f : i < j =>
        \/ NameLess(f[i].name, f[j].name)
        \/ Repeated(f, j) \/ ~Backed(d, f[j].name) \/ f[j].name \in g

\* What is listed twice was split, and the batch it is part of is gone.
RepeatsSplit(f, d, g) ==
    \A j \in DOMAIN f : Repeated(f, j) => ~Above(d, f[j].name) \/ f[j].name \in g

\* No part is split before the batch it is part of is gone.
Shallow(f, d, g) ==
    \A a \in d, b \in d \cup {f[i].name : i \in DOMAIN f} :
        Contains(a, b) => b = a \/ Child(a, b) \/ b \in g

IndexOrder(f, d, g) == Sorted(f, d, g) /\ RepeatsSplit(f, d, g) /\ Shallow(f, d, g)

\* The batch in hand is no part of one that is there.
HandTop == hand.name # NoName => ~Above(disk, hand.name) \/ hand.name \in GivenUp

OrderInv ==
    /\ NamesTell /\ BodiesAscend
    /\ IndexOrder(files, disk, GivenUp) /\ HandTop
=============================================================================
