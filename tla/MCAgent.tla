------------------------------ MODULE MCAgent ------------------------------
(* Configurations and scenes for the run of Agent. *)
EXTENDS Agent

AgentPersona == [web |-> "default", iot |-> "telnet", scrape1 |-> "telnet", scrape2 |-> "telnet",
                 scrape3 |-> "default"]

Entry(kind, hosts, mapped) == [kind |-> kind, hosts |-> hosts, mapped |-> mapped, bits |-> 0]
Net(hosts, mapped, bits) == [kind |-> "net", hosts |-> hosts, mapped |-> mapped, bits |-> bits]
Age(days, n) == [days |-> days, n |-> n]

LoomBase ==
    [url |-> TRUE, sensor |-> TRUE, token |-> TRUE, batch |-> 0, flush |-> 0, spoolMB |-> 0, age |-> Age(FALSE, 0)]

Base ==
    [name |-> TRUE, ip |-> TRUE, port |-> 8080, cert |-> TRUE, key |-> TRUE,
     readTimeout |-> 0, writeTimeout |-> 0, rate |-> 0, burst |-> 0,
     ignore |-> <<>>, udpEnabled |-> FALSE, udpPort |-> 0,
     udpRate |-> 0, udpBurst |-> 0, sourceRate |-> 0, sourceBurst |-> 0,
     loom |-> TRUE, loomConfig |-> LoomBase]

\* 5000 and 8192 seconds, and 40 days, overflow at 16 bits.
LoomSections ==
    {[LoomBase EXCEPT !.url = FALSE], [LoomBase EXCEPT !.token = FALSE], [LoomBase EXCEPT !.sensor = FALSE],
     [LoomBase EXCEPT !.batch = -1], [LoomBase EXCEPT !.batch = 700],
     [LoomBase EXCEPT !.flush = -1], [LoomBase EXCEPT !.flush = 3],
     [LoomBase EXCEPT !.spoolMB = -1], [LoomBase EXCEPT !.spoolMB = 1000],
     [LoomBase EXCEPT !.age = Age(TRUE, -2)], [LoomBase EXCEPT !.age = Age(TRUE, 3)],
     [LoomBase EXCEPT !.age = Age(TRUE, 40)], [LoomBase EXCEPT !.age = Age(FALSE, 90)]}

Lists ==
    {<<Entry("host", {"h1"}, FALSE)>>, <<Entry("host", {"h1"}, TRUE), Net({"h2", "h3"}, FALSE, 24)>>,
     <<Entry("blank", {}, FALSE), Net({"h1", "h2"}, TRUE, 120), Net({"h2", "h3"}, TRUE, 24)>>,
     <<Net({"h1"}, FALSE, 64), Net({"h2"}, TRUE, 32), Net({"h3"}, TRUE, 33)>>,
     <<Entry("host", {"h1"}, FALSE), Entry("bad", {"h2"}, FALSE)>>}

\* A file with one of its values changed.
Changed(c) ==
    {[c EXCEPT !.name = FALSE], [c EXCEPT !.ip = FALSE], [c EXCEPT !.port = 0],
     [c EXCEPT !.cert = FALSE], [c EXCEPT !.key = FALSE]}
    \cup {[c EXCEPT ![f] = v] : f \in {"readTimeout", "writeTimeout"}, v \in {-1, 5, 5000, 8192}}
    \cup {[c EXCEPT ![f] = v] : f \in UdpLimits \cup {"rate", "burst"}, v \in {-1, 5}}
    \cup {[c EXCEPT !.ignore = l] : l \in Lists}
    \cup {[c EXCEPT !.udpEnabled = TRUE], [c EXCEPT !.udpPort = 9], [c EXCEPT !.loom = FALSE]}
    \cup {[c EXCEPT !.loomConfig = l] : l \in LoomSections}

NoTLS(c) == [c EXCEPT !.cert = FALSE, !.key = FALSE]
WithList == [NoTLS(Base) EXCEPT !.ignore = <<Entry("host", {"h1"}, FALSE)>>]
WithUdp == [NoTLS(Base) EXCEPT !.udpEnabled = TRUE]

AgentConfigs ==
    {WithUdp, [WithUdp EXCEPT !.loom = FALSE], WithList, NoTLS(Base), Base}
    \cup UNION {Changed(c) : c \in Changed(Base)} \cup Changed(Base)

AgentStocks ==
    [tls |-> {Base}, any |-> AgentConfigs,
     list |-> {WithList}, udp |-> {WithUdp, [WithUdp EXCEPT !.loom = FALSE]}]

\* A TLS or SSH client, with every fault of a connection and a stop at any time.
Hostile ==
    [conns |-> {"web"}, certificate |-> TRUE, kinds |-> {"ssh", "kex"}, units |-> 3,
     faults |-> {"write", "origDst", "limit", "accept"}, stops |-> TRUE,
     files |-> "tls", start |-> {}]

\* Two clients, and a stop.
Pair ==
    [conns |-> {"web", "iot"}, certificate |-> TRUE, kinds |-> {"text"}, units |-> 1,
     faults |-> {"write"}, stops |-> TRUE, files |-> "tls", start |-> {}]

\* A source of the drop list connects three times at once.
Audit ==
    [conns |-> {"scrape1", "scrape2", "scrape3"}, certificate |-> FALSE, kinds |-> {}, units |-> 0,
     faults |-> {"accept", "timeout"}, stops |-> TRUE, files |-> "list", start |-> {}]

\* UDP capture beside a client.
Whole ==
    [conns |-> {"iot"}, certificate |-> FALSE, kinds |-> {"text"}, units |-> 2,
     faults |-> {"write", "accept"}, stops |-> TRUE, files |-> "udp", start |-> {"log", "listen", "udp", "serve"}]

\* Start-up from every file.
StartUp ==
    [conns |-> {}, certificate |-> TRUE, kinds |-> {}, units |-> 0, faults |-> {}, stops |-> TRUE,
     files |-> "any", start |-> {"file", "log", "tls", "listen", "udp"}]

AgentScenes == {Hostile, Pair, Audit, Whole, StartUp}
=============================================================================
