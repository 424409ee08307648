------------------------------- MODULE Config -------------------------------
(***************************************************************************)
(* The configuration (internal/config/config.go) and what it becomes: the  *)
(* checks of LoadConfig and Validate, and the limits, times and ports that *)
(* main, NewHandler, NewServer and NewShipper work with.                   *)
(*                                                                         *)
(* A string is there or not; a duration as text is a number of units, not  *)
(* positive when it does not parse.  Numbers are signed, of Width bits.  A *)
(* drop-list entry is its kind, whether it is written as IPv6-mapped IPv4, *)
(* the bits of a network, and the hosts that its address and bits name;    *)
(* at most 32 bits behind a mapped address are read as an IPv4 network's.  *)
(* Reading the file and TOML are external.                                 *)
(***************************************************************************)
EXTENDS Integers, Sequences

CONSTANTS
    Width,     \* bits of an integer: 64
    Second,    \* units of time in a second
    Day,       \* units of time in a day
    MB,        \* bytes in a megabyte
    Configs    \* what the file may hold

Wrap(x) == ((x + 2 ^ (Width - 1)) % 2 ^ Width) - 2 ^ (Width - 1)

EntryKinds == {"blank", "bad", "host", "net"}
UdpLimits == {"udpRate", "udpBurst", "sourceRate", "sourceBurst"}

\* The second line is arithmetic; the provers know nothing of exponents.
ASSUME WidthAssumption ==
    /\ Width \in Nat \ {0, 1} /\ Second \in Nat \ {0} /\ Day \in Nat \ {0} /\ MB \in Nat \ {0}
    /\ 2 ^ (Width - 1) \in Nat \ {0} /\ 2 ^ Width = 2 * 2 ^ (Width - 1)
    /\ 30 * Second < 2 ^ (Width - 1) /\ 7 * Day < 2 ^ (Width - 1) /\ 512 * MB < 2 ^ (Width - 1)

\* Ports are unsigned; a cap of the spool in bytes is no more than an integer holds.
ASSUME ConfigAssumption ==
    \A c \in Configs :
        /\ \A f \in UdpLimits \cup {"readTimeout", "writeTimeout", "rate", "burst"} :
              c[f] \in Int /\ c[f] = Wrap(c[f])
        /\ c.port \in Nat /\ c.udpPort \in Nat
        /\ \A i \in DOMAIN c.ignore : c.ignore[i].kind \in EntryKinds /\ c.ignore[i].bits \in 0..128
        /\ c.loomConfig.batch \in Int /\ c.loomConfig.flush \in Int /\ c.loomConfig.age.n \in Int
        /\ c.loomConfig.spoolMB \in Int /\ c.loomConfig.spoolMB * MB < 2 ^ (Width - 1)

----------------------------------------------------------------------------
(* LoadConfig. *)

\* parseIgnoreSources: one entry that does not parse is an error.
IgnoreParses(entries) == \A i \in DOMAIN entries : entries[i].kind # "bad"

\* PrefixFrom of an address that is unmapped and of bits as they are written: no
\* prefix if they are more than an IPv4 address has.
PrefixOf(e) == [hosts |-> e.hosts, valid |-> e.kind = "net" /\ e.mapped => e.bits <= 32]

IgnoreNets(entries) == {PrefixOf(entries[i]) : i \in {j \in DOMAIN entries : entries[j].kind # "blank"}}

\* An address and its mapped form are the same host.
ShouldIgnore(nets, a) == \E p \in nets : p.valid /\ a.host \in p.hosts

----------------------------------------------------------------------------
(* Validate. *)

\* parseAge, of n days or of a duration of n units.
ParsesAge(age) == age.n > 0
ParseAge(age) == IF age.days THEN Wrap(age.n * Day) ELSE age.n

LoomValid(l) ==
    /\ l.url /\ l.sensor /\ l.token
    /\ l.flush = 0 \/ l.flush > 0
    /\ l.spoolMB >= 0
    /\ l.age.n # 0 => ParsesAge(l.age)

Valid(c) ==
    /\ c.name /\ c.ip /\ c.port # 0
    /\ c.cert = c.key
    /\ \A f \in UdpLimits : c[f] >= 0
    /\ c.loom => LoomValid(c.loomConfig)

----------------------------------------------------------------------------
(* What the parts are given. *)

IsTLSEnabled(c) == c.cert /\ c.key
UDPListenPort(c) == IF c.udpPort # 0 THEN c.udpPort ELSE c.port

\* Nothing, or nothing sensible, becomes the default.
DefaultTo(v, d) == IF v <= 0 THEN d ELSE v

\* main and NewHandler.
HandlerLimits(c) ==
    [rate |-> DefaultTo(c.rate, 20), burst |-> DefaultTo(c.burst, 50000),
     readTimeout |-> DefaultTo(Wrap(c.readTimeout * Second), 30 * Second),
     writeTimeout |-> DefaultTo(Wrap(c.writeTimeout * Second), 10 * Second)]

\* NewServer.
ServerLimits(c) ==
    [udpRate |-> DefaultTo(c.udpRate, 50), udpBurst |-> DefaultTo(c.udpBurst, 500),
     sourceRate |-> DefaultTo(c.sourceRate, 5), sourceBurst |-> DefaultTo(c.sourceBurst, 20)]

\* Mutant of SpoolMaxAgeDuration: what was parsed, whatever it is.
SpoolMaxAgeParsed(l) == IF l.age.n = 0 THEN 7 * Day ELSE ParseAge(l.age)

SpoolMaxAgeDuration(l) == DefaultTo(IF l.age.n = 0 THEN 0 ELSE ParseAge(l.age), 7 * Day)

SpoolMaxBytes(l) == IF l.spoolMB <= 0 THEN 512 * MB ELSE Wrap(l.spoolMB * MB)

\* Run: Loom takes no more than 500 records in a batch.
RunBatchSize(n) == IF DefaultTo(n, 50) > 500 THEN 500 ELSE DefaultTo(n, 50)

\* What Validate leaves in the Loom section, what Run makes of it, and the spool's caps.
LoomLimits(l) ==
    [batch |-> RunBatchSize(l.batch), flush |-> IF l.flush = 0 THEN 10 * Second ELSE l.flush,
     bytes |-> SpoolMaxBytes(l), age |-> SpoolMaxAgeDuration(l)]

----------------------------------------------------------------------------
(* Properties. *)

Positive(r) == \A f \in DOMAIN r : r[f] > 0

\* Whatever a file that is accepted says, no limit, time or port that a part works
\* with is zero or negative, times that overflow included: a limiter of rate 0
\* would turn all away, a timeout of 0 end every read, an age of 0 empty the spool
\* (config.go:175-280, handler.go:111-134, server.go:102-124).  Caps of the spool
\* beyond 2^43 MB, whose bytes overflow, are left out.
LimitsPositive(c) ==
    /\ UDPListenPort(c) > 0
    /\ Positive(HandlerLimits(c)) /\ Positive(ServerLimits(c))
    /\ c.loom => Positive(LoomLimits(c.loomConfig))

\* "a typo here means traffic you believe is dropped is being recorded"
\* (config.go:102-103): every address listed, and every host of a network but those
\* written in mapped form with the bits of an IPv6 address, is dropped in whichever
\* form it arrives; and nothing that is not listed is.
DropsAsListed(c) ==
    LET Lists(e) == e.kind = "host" \/ (e.kind = "net" /\ ~(e.mapped /\ e.bits > 32))
        all == UNION {c.ignore[i].hosts : i \in DOMAIN c.ignore}
    IN  \A h \in all, m \in BOOLEAN :
            ShouldIgnore(IgnoreNets(c.ignore), [host |-> h, mapped |-> m])
              <=> \E i \in DOMAIN c.ignore : Lists(c.ignore[i]) /\ h \in c.ignore[i].hosts
=============================================================================
