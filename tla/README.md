# A formal model of Spip

Spip (`src/`) is a network sensor. It accepts TCP connections and UDP datagrams
on any port the firewall redirects to it, answers just enough to make a client
go on, and writes every exchange as one JSON record. With Loom configured each
record also goes to a remote ingest endpoint through a batching shipper with an
on-disk spool.

This directory holds TLA+ modules that model the parts of Spip where order,
failure and limits matter, the TLC configurations that check them on small
instances, and proofs checked by TLAPS. `PROJECT.json` lists the components,
every run, the source lines behind every definition, the hazards the properties
are for, the findings and the theorems.

## 1. The system

| component | source | state | operations |
|---|---|---|---|
| Spool | `internal/exporters/loom/spool.go` | directory of batch files, the index `files`, `total`, `seq`, a mutex | OpenSpool, Put, Oldest, Remove, Split |
| Shipper | `internal/exporters/loom/shipper.go` | channel, batch in hand, memory queue, `kick`, retry timer, `stop` | the batcher (Run, store), the sender (send, drain, next), Shutdown |
| UDP server | `internal/udp/server.go` | datagram in hand, global limiter, counters, conntrack breaker | Serve, HandleDatagram, handleQUIC, sweep, Shutdown |
| Per-source limiter | `internal/udp/limit.go` | table of token buckets | allow, evict |
| QUIC reassembly | `internal/quic/assemble.go` | pending and completed attempts | Add, Expire, Flush |
| QUIC packets and frames | `internal/quic/initial.go`, `frames.go` | offsets into the datagram | ParseDatagram, parseLong, parseFrames |
| Conntrack client | `pkg/conntrack` | netlink socket, sequence number, a mutex | OriginalDst, Close |
| TCP handler | `internal/network/handler.go` | table of connections, per connection payload and stage | HandleConnection, Shutdown |
| Personas | `internal/network/persona.go` | stage of a scripted login | personaGreeting, bannerReply, telnetReply |
| TLS | `internal/tls/tls.go` | replayed prefix, recorded ClientHello | WrapConnection, helloRecorder, clientHelloRecord |
| Agent | `cmd/spip-agent/main.go` | how far start-up or the stop is, the accept loop, the hourly report | main |
| Configuration | `internal/config/config.go` | what the file says, with defaults | LoadConfig, Validate, ShouldIgnore |
| Logger | `internal/logging/logger.go` | the shipper's channel | LogConnection |
| QUIC hellos | `internal/quic/hello.go` | offsets into a hello | ParseHello, parseTransportParams, describeParams |
| DNS decoding | `internal/dnsinfo` | offsets into a datagram | Parse, framedLen, skipName |
| Fingerprints, sanitizing | `internal/fingerprint`, `internal/sanitize` | offsets into an SSH payload | Hassh, CommunityID, Escape |
| Sockets | `pkg/socket` | none | system calls |

**How they interact.** main starts one goroutine per TCP connection, Serve and
the sweeper for UDP, and the shipper's batcher and sender. Handlers and the UDP
server call the logger, which offers each record to the shipper's channel and
turns it away when the channel is full. The batcher closes a batch by count,
size or time, puts it into the spool (or, when that fails, into the memory
queue) and kicks the sender. The sender posts the oldest batch and removes it
after a 2xx, halves it after a 413, gives it up after a 400 or 415, and pauses
after anything else. The batcher's Put may drop, for the caps, the very batch
the sender is posting: the spool's mutex is released during the post. On a
signal main closes the listeners, waits for the table of connections, shuts the
UDP server and then the shipper down, and exits without waiting for Serve.

**What is hard.** A crash between two directory changes; the two callers of the
spool; kicks and retries that cross; a stop in the middle of anything; the
sweeper between two packets of one datagram; tables and buckets at their limit;
netlink replies that arrive after their caller gave up; clients that wait while
the sensor waits; lengths taken from a stranger's bytes; two connections that
meet a new source of the drop list at once; a limit of the configuration that
overflows. `hazards` in
`PROJECT.json` lists these at their lines.

**What makes each part correct.**

* Spool: a record once accepted stays on disk until its batch was handed over
  or reported as dropped; names are never reused; the order survives splits and
  restarts; the caps drop the oldest and count exactly.
* Shipper: no record disappears silently; a waiting batch has a waker; records
  arrive in order; a stop returns and keeps what it can.
* UDP: every datagram leaves its trace; tables are bounded; an attempt is
  recorded once, and in the end; a stuck lookup costs few timeouts.
* Limiter: a bounded table gives no source more than its budget.
* QUIC walk: it stays inside the datagram, ends, and says what it read.
* Conntrack: an answer is the answer to this call; every call returns.
* TCP: the byte stream is recorded intact; scripts end; connections end; a stop
  ends and does not panic.
* Drop list: what it lists is dropped, nothing else is, and every drop is
  counted under its source and in the total.
* Agent: UDP does not take the TCP sensor down, at start-up or at a stop; a stop
  ends; the limits every part is started with are usable.
* Decoders: none leaves its bytes, all end, and a record claims no more than was
  decoded; the hash of QUIC transport parameters is one per client, not one per
  connection.
* Document: one record per payload; a request's head and body are told apart.

## 2. The modules

```
DurableQueue   what the spool promises          <- refined by Spool
Spool          the on-disk queue                   SpoolProofs
Shipper        EXTENDS Spool: batcher,             ShipperProofs
               sender, memory queue, Shutdown, restart
SourceLimiter  the per-source limit                SourceLimiterProofs
CtBreaker      the breaker in front of conntrack
Assembler      QUIC attempts
Udp            EXTENDS SourceLimiter, CtBreaker,   UdpProofs
               Assembler: Serve, sweeper, Shutdown
Conntrack      lookups over one netlink socket     ConntrackProofs
Handler        TCP connections, personas, TLS detection, drop counters
Config         the configuration and the limits made of it
Agent          EXTENDS Handler, Config: start-up,  AgentProofs
               UDP's goroutines, reports, the stop
QuicWalk       the packets of a datagram           RecordProofs
DnsFrame       the framing and the sections of a DNS message
HelloWalk      extensions, server name and transport parameters of a hello
TransportParams  the text their hash is taken of
HasshWalk      from an SSH banner to the name lists
Document       the document made of one record
Record         EXTENDS the six above: from a       RecordProofs
               payload to its record
HelloRecord    the trimming of the recorded ClientHello
FoldProofs     sums and inductions that the other proofs use
MC*            values of the constants for TLC
```

**Spool.** `op` is the call that holds the mutex and the point it has reached;
a call takes one step per change of the directory, so `Crash` can fall between
any two. `disk`, `temps`, `body` are the directory; `files`, `total`, `seq` the
process's memory, lost by a crash and rebuilt by `OpenSpool`. A batch is a
sequence of record numbers, a name the triple (time, sequence, suffix) its text
encodes, compared as the code compares the text. Sizes are counted in documents
with their comma, plus one for the brackets. `made`, `taken`, `dropped` are
history. Faults: failed writes, failed unlinks, damaged files, crashes, and a
wall clock set back.

**DurableQueue** has only `held`, `taken`, `dropped`. Spool refines it with
`held <- Held`, the records of the batch files; splits, restarts, half-written
files and re-sent batches map to stutters or to `Reappear`.

**Shipper** runs the two goroutines over Spool's actions: `StorePut` begins a
Put, the steps inside are Spool's, `StoreOk` or `StoreFallback` ends it; the
same for Oldest, Remove and Split. A post ends as Loom and the network please.
`main` is how far Shutdown is; `Exit` or `Dies` resets the memory, and `Start`
opens the spool again. The lengths of pauses are left out: the retry timer is
set or not, whether backoff or `Retry-After` set it. There is one spool directory:
`StartNoSpool` is a start that can use neither the configured one nor the fallback
(`shipper.go:135-143`), and a spool that moves between the two is not followed.

**Udp** takes one datagram at a time through the drop list, the two limits, the
lookup, and classification; a QUIC datagram's packets are added one step each,
so that `Sweep` and Shutdown's flush fall between them. Time is kept as ages
(of a bucket, an attempt, a pause), which `Tick` raises together. What the
assembler keeps is the set of segments by offset, the completed keys and the
counters. Datagrams without a payload are read and passed over (`ReadsEmpty`), and
handling may panic wherever `recoverDatagram` stands guard, from the lookup to
`logAttempt` (`Panics`, at most `MaxPanics` times). `silent` is history: the datagrams
of which the code keeps no trace, by the reason (empty, an Initial behind another
packet, an attempt that a panic took before it was logged). A packet without frames is not an Initial or did not decrypt; which
lists of packets can occur is what QuicWalk shows.

**QuicWalk** keeps the offsets of the walk and chooses the bytes when they are
read. `reach` is the end of the bytes touched so far.

**Conntrack** has one caller at a time (the mutex), the socket's queue, and a
kernel that answers late, twice framed, or never. Sequence numbers wrap at
`SeqMod`.

**Handler** has one program counter per connection. A client's bytes are
numbered units of kinds the code tells apart: text, bytes in which `hasPrintable`
sees nothing (`blank`), a telnet option of three bytes (`iac`), a subnegotiation with
a visible byte (`sub`), SSH identification and key exchange, ClientHello. A plain read
returns all there is, a TLS read one record; the last record of a client that has
closed may come together with the error (up to TLS 1.2), and the caller that looks at
the error first throws it away (`Discards`). Deadlines are steps that may be
taken when nothing arrives; before the first deadline is set there is no such
step. A connection of the drop list takes the steps of `countDrop` one by one:
the total, the lookup of its source's counter, the store of a new one that may
lose against another's, and the count. A *scene* fixes which connections, units
and faults a behaviour has, so that one run covers several surroundings.

**Config** has the file as a record of what `Validate` looks at. Numbers are
signed and of `Width` bits, so products of seconds and days wrap as Go's do. It
gives the limits, times and ports that main, NewHandler, NewServer and Run make
of an accepted file. A network in mapped form is unmapped and keeps its bits: up to
32 they are an IPv4 network's, more make no network (`PrefixOf`).

**Agent** puts Handler's connections into the process. `main` walks through
start-up, where every step that can fail does in some behaviour; then come the
accept loop, the hourly report, and the stop in the order of `main.go:213-235`.
An error of Accept ends the loop with a line in the log or, if it is a timeout,
without one; an error of Serve is logged.
Of UDP capture it keeps what the process shares with it: Serve's and the
sweeper's program counters, the stop channel, the number of attempts held and
the shipper's channel. The report reads the counters in the two steps of
`DropStats`, while connections go on counting.

**DnsFrame**, **HelloWalk** and **HasshWalk** are written as QuicWalk is: the
state is the offsets, the bytes are chosen when they are read, and `...Reach`
is the end of the bytes touched. DnsFrame scans for the end of the message
(questions, records, names with compression pointers, the padding that may
follow) and then walks the sections the library parser returns. HelloWalk may
be given a hello cut anywhere, as logAttempt parses what an expired attempt
holds.

**TransportParams** describes a list of parameters: sorted, reserved ids as one
marker, integers by value, versions by name, other values not at all.

**Document** takes a text as the kinds of its lines and gives which objects and
fields the document has.

**Record** follows one payload: a datagram through handleQUIC, the assembler's
answer, ParseHello, Parse and the raw record; an expired attempt; or the end of
a round over TCP with Hassh. Two decoders that read the same bytes choose them
apart, which allows more than the code can do and nothing less.

**HelloRecord** reads a ClientHello in chunks of any listed size through the
recorder and trims what it kept, with the length computed bit by bit as
`tls.go:122` does.

## 3. Runs

With two workers the passing runs take from a few seconds to under three
minutes.

| run | states | what it shows |
|---|---|---|
| `spool` | 1,170,530 | the inductive invariant, an index that agrees with the directory and its sizes, order, Put's contract with the caps, oldest dropped first, and refinement of DurableQueue, with write errors, damage and crashes |
| `shipper` | 2,883,257 | both goroutines with crashes, write errors, failed unlinks, starts without a directory, lost replies and refusals: no record lost silently, a waker for every waiting batch |
| `shipper_order` | 127,026 | without local faults: in order, once, only what no halving makes small enough is given up; every record is settled, and Shutdown returns |
| `udp` | 327,839 | datagrams of all classes, empty ones too, through all limits, lookups and panics: each is accounted for; few timeouts; and the bounded table of buckets equals the ideal token bucket |
| `udp_quic` | 486,653 | reassembly at capacity with sweeper, Shutdown and a panic: accounting, bounded tables and contiguous data, one record per attempt, at most the datagram in hand lost by the exit; an attempt that never completes is recorded |
| `conntrack` | 341,293 | answers belong to their call; calls return |
| `agent` | about 174,000 | the process from its file to its exit in five scenes: the stream intact but for a TLS record read with the end, UDP not the end of the sensor, drops counted exactly under races and reports, limits usable and the drop list as listed for every accepted file, and a stop that ends |
| `handler_live` | 57,812 | without a certificate: scripts end with their lines and not before, exchanges are recorded; silent clients are greeted and every connection ends |
| `record` | 368,561 | from payload to document: no decoder leaves its bytes, the walk over packets advances and says what it read, one record per payload that claims no more than was decoded, a stable fingerprint text, and an end |

**Disagreements found.** Each of these runs checks one sentence of the
repository and TLC shows a behaviour that breaks it; the `findings` quote both.

| run | the code | the sentence |
|---|---|---|
| `handler_tls_greeting` | with a certificate the first byte is read before the greeting | the banner is sent before the client sends |
| `handler_stop` | a handler may record on the closed channel | waits for open connections |
| `hello_record_length` | `5 + b3<<8 \| b4` is short when b4 has bit 0 or 2 | exactly one record |

**Where the other properties end.** Some properties hold under conditions a
configuration sets. Outside them the code does something a reader should know;
each line gives the change to a configuration under which TLC shows it.

| change | what breaks | why |
|---|---|---|
| `Spool.cfg`, `StepBack = TRUE` | `PostingOrder` | after the clock is set back a batch sorts before older ones |
| `Spool.cfg`, `"unlink"` in `Faults` | `IndexAgrees` | the file of a batch out of the index stays until the next start |
| the same | `PostingOrder` | a part listed twice after an interrupted split, removed without its file, is found again behind its sibling |
| `Spool.cfg`, `MaxBatch = 4`, `MaxRecords = 5`, `MaxBytes = 11`, `MaxAge = 0`, `Rooms = {9}`, `Times = {1, 2}`, `Faults = {"crash"}`, `PostingOrder` without `q \in dropped` | `PostingOrder` | see below |
| `ShipperOrder.cfg`, `Faults = {"crash"}` | `SentOnce` | a crash between the 2xx and the unlink sends the batch again |
| `ShipperOrder.cfg`, `Faults = {"write"}` | `GivesUpOnlyOversized` | an I/O error while halving drops the whole batch; the memory queue is lost at a stop |
| `ShipperOrder.cfg`, `Faults = {"unlink"}` | `DeliveredInOrder` | a batch whose file a split could not remove is split again after a restart; the first of the doubly listed halves is given up, its file stays, and the second entry posts it after its sibling |
| `ShipperOrder.cfg`, `Faults = {"write"}`, or `Rooms = {2, 9}` | `DeliveredInOrder` | a batch that the spool did not take waits in memory, and younger ones on disk are posted first |
| `ShipperOrder.cfg`, `StepBack = TRUE` | `DeliveredInOrder` | after a restart the batch with the younger records has the older name |
| `ShipperOrder.cfg`, `MaxBytes = 3`, `CountedUnsent` as an invariant | `CountedUnsent` | a batch dropped while it is posted counts as removed unsent and as shipped |
| `ShipperOrder.cfg`, `StopEndsSending` as a property | `StopEndsSending` | the sender's drain goes on after stop, without a deadline |
| `Udp.tla`, `DatagramsAccounted` without `silent.empty` | `DatagramsAccounted` | an empty datagram is read and counts nowhere (`server.go:149-151`) |
| the same without `silent.unmarked` | `DatagramsAccounted` | a datagram whose Initial comes behind another packet does not count (`server.go:342`) |
| the same without `silent.unlogged` | `DatagramsAccounted` | a panic in logAttempt is one count for an attempt of several datagrams (`server.go:304-314`) |
| `UdpQuic.cfg`, `Datagrams <- ReframedDatagrams`, `WholeWhenArrived` as an invariant | `WholeWhenArrived` | a longer segment at a held offset is ignored |
| `HandlerLive.cfg`, scenes with `certificate` TRUE | `ConnectionsEnd` | no deadline covers detection and handshake |
| `HandlerLive.cfg`, scenes with `certificate` TRUE, `TLSClients = {"c1"}` | `ExchangesRecorded` | what a TLS read returns together with the end of the stream is thrown away (`handler.go:325`, `359`) |
| `Handler.tla`, `ScriptEnds` without `~Subnegotiated(c)` | `ScriptEnds` | a subnegotiation with a visible byte is taken for a login line (`persona.go:89-95`) |
| `Agent.tla`, `SensorStands` without `"timeout" \in Faults` | `SensorStands` | an Accept that fails with a timeout ends the loop without a line in the log (`main.go:196-199`) |
| `HandlerLive.cfg`, scenes with `faults` {"write"} | `ExchangesRecorded` | a payload whose response cannot be written is not recorded |
| `Agent.cfg`, `LastAccounting` as an invariant | `LastAccounting` | the last report of drops is made before the listener is closed (`main.go:216-220`); what is dropped in between is in no report |
| `MCAgent.tla`, a `spoolMB` of 4000 | `ConfigSane` | the cap in bytes overflows and is negative (at 64 bits: from 2^43 MB) |
| `Config.tla`, `Lists` without `~(e.mapped /\ e.bits > 32)` | `ConfigSane` | a network written as IPv6-mapped IPv4 with the bits of an IPv6 address (`::ffff:192.0.2.0/120`) is accepted and matches nothing; with at most 32 bits it is the IPv4 network (`config.go:111-124`) |

The `PostingOrder` row was found by the proof, not by the run, whose batches of
three are too small for it. A process crashes amid a split; the next one lists the
batch and both parts, splits it again and lists the parts twice; a Put drops the
first entry of a part while the sender holds that part; the sender's Split then
finds the second entry and writes the dropped part's halves back, behind younger
batches (`spool.go:265-309`). The records were reported as dropped before they are
sent, late, so the property is stated for the others.

Smaller things met while translating, which no run is about: the README's list
of methods (`README.md:251`) is shorter than what the logger's expression
accepts; `IsSSHClientPayload` looks for `SSH-2.0`, its comment says `SSH-2.0-`;
`dnsinfo.Parse` is said to want a message that ends at the last byte and accepts
a little zero padding; of reserved QUIC versions the offered ones become one
marker, the chosen one is kept by name; `hasPrintable` is said not to mistake
negotiation for a username (`persona.go:82-85`) and, skipping three bytes for every
IAC, meets what a subnegotiation holds.

`OneRecordPerAttempt` is stated until Shutdown's flush has returned: a datagram
handled after it begins its attempt anew, since Serve
is not waited for. `AtMostOneLost` says how much that can cost.

**Bounds.** Three or four records fill a channel, close a batch by count and by
size, split twice (a half of a half) and exceed a cap of three to five units;
two to four clock readings allow as many processes and an age cap of one tick.
Two sources, one of them with two addresses, against a table of one force
eviction and refusal. Three keys against one
pending attempt fill both tables, and a hello of three units has gaps, overlaps
and both orders, a second one a gap within one packet. Three reads cover begin,
complete and retransmit. `udp` may panic at every read, `udp_quic` once, which is
enough to take an attempt of two datagrams. Five calls
with sequence numbers modulo three make a late reply meet a reused number.
Two connections with two to five units cover a script, coalescing and the SSH
exchange.

Agent's scenes: *Hostile*, one TLS or SSH client with every fault of a
connection; *Pair*, two clients; *Audit*, three connections of one listed source
(one stores the counter, one loses the race, one finds it); *Whole*, UDP capture
beside a client, with every failure of UDP; *StartUp*, every file of
`AgentConfigs`, which changes any two values of a full one, to missing, negative,
ordinary and overflowing values. `Width` is 16 with a second of 8 and a day of
1000 units, so that the products overflow within TLC's integers as they do at 64
bits. A stop may come in all of them.

Record's sizes lie on both sides of each comparison: a datagram holds two
Initials, or a DNS message that ends at, before and after its last byte; counts
go one beyond the questions and records that are read; labels, pointers, list
and packet lengths include zero, what fits exactly and what fits nothing. Its
varints include the least length, its neighbours and one that no datagram holds.
A hello of 80 bytes has three extensions with three parameters. Numbers of
parameters stay below 2^31 (TLC's integers), which leaves `min_ack_delay` out.
HelloRecord takes record bodies of 200 to 600 bytes: both sides
of the lengths where the high byte changes, and every low byte.

**Deadlock** is checked in the spool's and the shipper's runs and in `udp`. The other systems may stop: the process exits, the calls or units
are used up, or the function returns; their configurations say so.

**Fairness.** Shipper: goroutines run (weak); Go's mutex hands over to a waiter
(strong, for the steps that take it); the HTTP client's timeout ends every
post; the service manager restarts the agent; and Loom, asked again and again,
at some point answers (`LoomFairness`), without which nothing can be delivered.
Udp: the sweeper's ticker, time, and the steps of a Shutdown under way. Agent:
every goroutine runs and Shutdown's 15 seconds pass; no datagram and no signal
has to come. Record: the goroutine that decodes runs.
Conntrack: `recvfrom` returns with a message or by `SO_RCVTIMEO`. Handler:
goroutines run and deadlines pass; no fairness is given to clients, nor to the
reads that have no deadline.

## 4. Proofs

Every theorem holds for all values of the constants that satisfy the modules'
ASSUMEs; further hypotheses are named. Each invariant below was checked by TLC
before it was proved, and each proof has one lemma or case per action.

**SpoolProofs.** For every number of records, batch size, cap, age, set of
clock readings and set of faults:

* `SpoolInvariant`: `SpoolSpec => []SpoolInv`, and `SpoolTypes` from it;
* `SpoolImplementsDurableQueue`: `SpoolSpec => ImplementsDurableQueue`;
* `SpoolKeepsTotal`: `SpoolSpec => []PutInvariant`, that `total` is the sum of the
  listed sizes, an entry's count is that of its batch, and while Put makes room its
  own batch is the last entry alone.

The refinement is not inductive alone: that a removal loses nothing needs that
what Split or Put wrote is what the name stands for. `SpoolInv` adds that a
process's next name is unused (`NamesFresh`), that a part's file holds that part
of its parent, so a split repeated after a crash rewrites the same content
(`PartsMatch`), that the batch in hand is on disk or was dropped (`HandBacked`),
how far a split has come (`SplitProgress`), and that records under any name are
known (`RecordsKnown`). `NamesFresh` rests on one assumption about the clock,
built into `Reading`: no two processes write at the same nanosecond.

If unlinks work (`"unlink" \notin Faults`):

* `SpoolListsFiles`: between calls the index lists every batch file and no
  temporary file is left. `ListedInv` says which files a split under way has
  written and not yet listed;
* `SpoolIndexAgrees`: `SpoolSpec => []IndexAgrees`, the same with the sizes;
* `SpoolPutContract`: `SpoolSpec => PutContract`. A Put that succeeds leaves its batch
  on disk and the directory within the cap, unless that batch is alone; a Put that
  fails leaves none of it.

If also the clock is not set back (`~StepBack`):

* `SpoolKeepsOrder`: `SpoolSpec => []PostingOrder`;
* `SpoolDropsOldest`: `SpoolSpec => DropsOldestFirst`.

Both come from `OrderInv`. `NamesTell` ties names to records: a part's records are
its batch's, and of two batches or parts apart the one that sorts first has the
earlier records. `IndexOrder` says that the index is sorted by name but for entries
that are listed again, have no file, or whose records were given up; that what is
listed twice is no part of a batch that is still there; and that no part of a batch
was split while the batch was there (`Shallow`). `HandTop` says as much of the batch
in hand. The lemmas follow an index through the four things that happen to it: an
entry is cut out, one is appended, two take the place of one, and it is rebuilt from
the sorted directory. Least positions come from the well-foundedness of the naturals.

**ShipperProofs.** For channels, batches and memory queues of every size, and posts,
writes, unlinks, starts and processes that fail in any combination:

* `RecordsAccounted`: `Spec => []Accounted`;
* `ShipperKeepsQueue`: the spool implements DurableQueue under the two goroutines'
  calls too;
* `NoWakeupLost`: `Spec => []NoLostWakeup`.

`ShipperInv` keeps `SpoolInv`, proved again for Shipper's steps from the lemmas of
SpoolProofs, and adds where each goroutine is and what it then holds (`PipeShape`),
that records on their way to the spool were never in it (`UpstreamNew`), and that
what was taken out of it Loom has or has refused for good (`TakenSettled`).
`WakeInv` says, for each point of batcher and sender, who will look at a waiting
batch next: the token in `kick`, the timer, or the step under way.

Three more hold under conditions; for most of them the table of section 3 has what
happens without (for order and a crash, the row of `PostingOrder`):

* `NothingSentTwice` (`[]SentOnce`), if processes end through Shutdown, unlinks
  work, the spool opens and no answer is lost. `ApartInv` says that no record is in
  two places: batch files, the memory queue and the batch in hand share none but
  what a step is just moving. `OnceInv` adds that what Loom has is nowhere but in the
  batch that is being removed.
* `GivesUpOversizedOnly` (`GivesUpOnlyOversized`), if writes work, the spool opens and
  the disk has room for a batch: `GiveUpInv` says that the memory queue is then never
  used and that a split of two or more records never fails.
* `DeliveryKeepsOrder` (`DeliveredInOrder`), if only damage to files is possible, the
  disk has room and the clock is not set back; answers may be lost and batches
  refused, split, dropped by a cap and kept over restarts. `InOrderInv` says that
  records come to the spool in the order they were logged (`ArrivalOrder`), that the
  index lists older ones first (`ListOrder`, from `NamesTell` after a restart), that
  the batch in hand is the oldest (`HandFirst`), and that Loom has nothing younger than
  what may still be posted (`DeliveredFirst`). A batch sent again after a lost answer
  is the one in hand, which is why losing an answer does not disturb the order.

**SourceLimiterProofs.** `LimiterInvariant` and `LimiterBounds`: for any
sources, table size, rate and burst with `Rate * Idle >= Burst`, the buckets and
the absence of a bucket say exactly what the ideal bucket of each source holds
(`BucketsMatch`), so no source gets more than burst and rate. The condition is
what makes eviction harmless: a bucket idle that long is full. The defaults
satisfy it (5 per second, burst 20, idle for a minute); the configuration does
not enforce it.

**UdpProofs.** For any datagrams, sources, limits, times and table sizes:

* `ServerRefinesLimiter`: the server is, for the table of sources, the limiter, so
  `ServerBucketsMatch` (`[]LimInv`, with the same condition) carries over;
* `FewTimeoutsEver` (`[]FewTimeouts`), from `BrInv`: while lookups
  go on every recent timeout is one of the streak, while they are paused none is
  younger than the pause;
* `TablesBounded`: the part of `AssemblerSound` about the two tables, from `TablesInv`;
* `AssemblerIsSound` (`[]AssemblerSound`), from `SegmentsInv`: segments overlap as they
  like, stay within the budgets, and what the code's loop joins is the longest prefix
  they cover; this follows the loop segment by segment;
* `DatagramsAreAccounted` (`[]DatagramsAccounted`), for any traffic and panics anywhere
  in the handling, from `AccountInv`, which follows the one datagram under way between
  being read and leaving its trace, and `InHand`, which ties what is in hand to the
  point that Serve has reached. What the code keeps no trace of is in `silent`, and
  only refusals, which count packets, and panics count a datagram twice;
* `RecordedOncePerAttempt` (`OneRecordPerAttempt`), from `RememberInv`: until the
  flush, what was reported within `CompletedTTL` is remembered;
* `AtMostOneAttemptLost` (`[]AtMostOneLost`), from `FlushInv`: after the flush only
  the datagram in hand can begin an attempt.

**ConntrackProofs.** `AnswersBelong` (`AnswerIsOwn`), from `CtInv`: every message in
the socket's queue that carries the number of the call under way is this call's. It
needs that numbers come round no sooner than an answer can be late, which `Conntrack`
says of the kernel (`NoneSoLate`) and 2^32 requests of at most a second each justify.

**AgentProofs.** About Handler and, where it says `AgentSpec`, the whole process:

* `StreamsIntact` (`AgentSpec`, `[]StreamIntact`), from `StreamInv`: what is sent,
  replayed and still unread makes up the client's stream, but for one record of a TLS
  client that has closed, behind which nothing comes any more (`discarded`);
* `DropsAreCounted` (`AgentSpec`, `[]DropsCounted`), from `DropInv`: the total is
  ahead by the connections between the two increments, whichever of them lost the
  race for the counter; this is a sum over connections, stated as the cardinality of
  a set and moved one connection at a time;
* `SensorAlwaysStands` (`AgentSpec`, `[]SensorStands`), from `StandsInv`: the
  shipper's channel is closed only after UDP capture has come to rest, and what ended
  Serve or the accept loop before a stop was logged, or was a timeout of Accept;
* `ConfigAlwaysSane` (`AgentSpec`, `[]ConfigSane`), from `ConfigInv`, for integers of
  any width; `ConfigAssumption` leaves out files whose spool cap in bytes overflows
  (see the table above);
* `ScriptsEnd` (`[]ScriptEnds`), from `ScriptInv`: the stage is the number of payloads
  with text, as long as no subnegotiation was read;
* `ExchangesAreRecorded` (`[]ExchangesRecorded`), over plain TCP, for scenes in which
  no write fails and no stop comes, from `InHandInv`: what was read is in the payload until it is
  recorded.

**RecordProofs.** For payloads of any size and whatever they claim:

* `WalkStaysInside` and `WalkEndsAlways`, about QuicWalk alone, from `WalkInv`:
  `Offsets` says what each read may rely on from the guard before it, `ReadSoFar` that
  no failed packet lies behind;
* `DecodersStayInside` (`[](InBounds /\ StaysInside)`) and `InitialsReadAlways`,
  from `WalkInv`, `DnsInv`, `HelloInv` and `SshInv`, each the offsets its reads rely
  on, put together in `RecInv`;
* `PayloadsRecordedOnce` (`[]RecordedOnce`), from what `RecInv` says of the stage a
  payload is at and the outcomes that lead there;
* `DocumentsKeep` (`[]DocumentKeeps`);
* `FingerprintIsStable` (`[]FingerprintStable`), for any number of parameters: the
  ranks by which they are sorted are a permutation whatever the order they came in,
  parameters that are equal in what is said of them are interchangeable, and what a
  client draws anew (reserved identifiers and versions) is not said.

**FoldProofs.** Lemmas for the sums above, which the library defines by folds. Its
induction theorems take a predicate, which the provers cannot instantiate; here the
predicate is a set (`NatSetInduction`, `SubsetInduction`), which they can. From these:
a fold over a finite set exists, and a sum changes by what is put in, removed, moved
or split (`SumPut`, `SumRemove`, `SumInject`, `SumDisjoint`, `SumSequences`).

**Only model-checked.** Liveness, which is out of the prover's reach:
`EverythingSettles`, `ShutdownReturns`, `AttemptsRecorded`, `CallsReturn`, `StopEnds`,
`ConnectionsEnd`, `GreetingComesFirst`, `DecodingEnds`. Every other property of a
passing run is stated by a theorem. HelloRecord uses bitwise operators, which exclude proofs in its module.

## 5. Not modelled

* Key derivation and ciphers, `crypto/tls`, `dnsmessage`, `tlsfingerprint`, the
  Go runtime, the kernel: external, by what they may return.
* The hashes (Hassh, JA3, JA4, community ID), `sanitize`, and names, types and
  codes as text: functions of bytes that no property tells apart.
* The values copied into the document: which fields there are is modelled.
* The wording of replies and the recognition of Redis and HTTP in personas, which
  change no state.
* The length of the shipper's pauses (backoff, `Retry-After`): each is a timer
  that is set and later fires.
* Reading TOML and making paths absolute; the version flag; sockets, whose system
  calls are inputs here.
* The fallback directory of the spool: a start that uses another directory than the
  last one finds none of its batches, and they stay where they are.
* Panics outside `recoverDatagram`, in what the sweeper and Shutdown log of an expired
  attempt. (A record on the closed channel is modelled, in Agent.)
* `test/e2e` and `quictest`: test harnesses.
* The shipper's, the spool's and the UDP server's hourly reports and `Stats`,
  which only read. (The report of drops is in Agent: what it may show is a
  property.)

## 6. Plan

Done, in this order: Spool and DurableQueue; Shipper; SpoolProofs;
SourceLimiter and its proofs; CtBreaker, Assembler and Udp; Conntrack; Handler;
HelloRecord; QuicWalk and its proofs; DnsFrame, HelloWalk, HasshWalk,
TransportParams, Document and Record; Config and Agent.

Then the proofs: RecordProofs, ConntrackProofs, AgentProofs, UdpProofs,
ShipperProofs, the index and its order in SpoolProofs; at last FoldProofs and what
needs sums, order or the absence of faults.

No safety property of a passing run is left without its theorem. Liveness stays with
TLC, and what section 5 lists stays outside.

No module of these reaches a RECURSIVE operator, and only HelloRecord uses
Bitwise.
