------------------------------- MODULE Agent -------------------------------
(***************************************************************************)
(* The process (cmd/spip-agent/main.go): start-up from the configuration   *)
(* to the accept loop, the goroutines it starts, and the order of a stop.  *)
(* It composes the TCP handler of module Handler with the goroutines of    *)
(* UDP capture (internal/udp/server.go), of which only what the process    *)
(* shares with them is kept: the socket, the stop channel, the wait for    *)
(* the sweeper and the shipper's channel.                                  *)
(***************************************************************************)
EXTENDS Handler, Config

CONSTANTS
    Stocks,       \* sets of files, by name
    MaxAttempts   \* bound on the attempts the assembler holds

\* A scene also says which files there may be and which steps of start-up may fail.
ASSUME AgentAssumption == MaxAttempts \in Nat /\
    \A s \in Scenes :
        /\ Stocks[s.files] \subseteq Configs
        /\ s.start \subseteq {"file", "log", "tls", "listen", "udp", "serve"}

StartFaults == scene.start
Files == Stocks[scene.files]

VARIABLES
    cfg,        \* the configuration while main starts
    loom,       \* was a shipper started?
    ticker,     \* is there an hourly report?
    said,       \* errors logged
    udp,        \* Serve: "off", "starting", "reading", "busy", "ended"
    sweeper,    \* "none", "idle", "expiring", "ended"
    udpStop,    \* main's stop of UDP: "open", "closed", "flushed"
    attempts,   \* attempts the assembler holds
    died,       \* the goroutine whose panic ended the process
    seen,       \* the counts by source that ReportDrops has read
    reported    \* the total of main's last report

udpVars == <<udp, sweeper, udpStop, attempts>>
repVars == <<seen, reported>>
bootVars == <<cfg, loom, ticker>>
agentVars == <<vars, bootVars, said, udpVars, repVars, died>>

NoConfig == [none |-> TRUE]
Nothing == -1

AgentInit ==
    /\ HandlerInit /\ main = "load" /\ listening = FALSE /\ channel = TRUE
    /\ cfg = NoConfig /\ loom = FALSE /\ ticker = FALSE /\ said = {}
    /\ udp = "off" /\ sweeper = "none" /\ udpStop = "open" /\ attempts = 0
    /\ died = "none" /\ seen = Nothing /\ reported = Nothing

----------------------------------------------------------------------------
(* Start-up. *)

Rest == <<pc, conn, cut, table, channel, drop, scene, udpVars, repVars, died>>

MainGoes(p) == main' = p /\ UNCHANGED <<Rest, listening>>

\* os.Exit(1), with a message.
Fails(p) == main = p /\ MainGoes("failed") /\ cfg' = NoConfig /\ UNCHANGED <<loom, ticker, said>>

\* The file cannot be read or parsed, or an entry of the drop list does not parse.
LoadFails ==
    /\ ("file" \in StartFaults \/ \E c \in Files : ~IgnoreParses(c.ignore))
    /\ Fails("load")

Loads(c) ==
    /\ main = "load" /\ IgnoreParses(c.ignore)
    /\ MainGoes("validate") /\ cfg' = c /\ UNCHANGED <<loom, ticker, said>>

ValidateFails == main = "validate" /\ ~Valid(cfg) /\ Fails("validate")

Validates ==
    /\ main = "validate" /\ Valid(cfg) /\ MainGoes("log") /\ UNCHANGED <<bootVars, said>>

LogFails == "log" \in StartFaults /\ Fails("log")

\* The log is open; the shipper is started before what may still fail.
StartsShipper ==
    /\ main = "log" /\ MainGoes("tls") /\ loom' = cfg.loom /\ UNCHANGED <<cfg, ticker, said>>

TLSFails == main = "tls" /\ "tls" \in StartFaults /\ IsTLSEnabled(cfg) /\ Fails("tls")

\* The files that agree with the scene are followed.
BuildsHandler ==
    /\ main = "tls" /\ IsTLSEnabled(cfg) = TLSHandler
    /\ MainGoes("listen") /\ UNCHANGED <<bootVars, said>>

ListenFails == "listen" \in StartFaults /\ Fails("listen")

ListensTCP == main = "listen" /\ MainGoes("udp") /\ UNCHANGED <<bootVars, said>>

\* main starts the accept loop and waits for a signal; cfg is of no more use.
Accepts ==
    /\ main = "udp" /\ main' = "accepting" /\ listening' = TRUE /\ cfg' = NoConfig
    /\ ticker' = (cfg.ignore # <<>> \/ udp' # "off")
    /\ UNCHANGED <<pc, conn, cut, table, channel, drop, scene, repVars, died, loom>>

WithoutUdp == main = "udp" /\ ~cfg.udpEnabled /\ UNCHANGED <<said, udpVars>> /\ Accepts

UdpListenFails ==
    /\ main = "udp" /\ cfg.udpEnabled /\ "udp" \in StartFaults
    /\ said' = said \cup {"udp"} /\ UNCHANGED udpVars /\ Accepts

\* The socket is there, and the goroutine of Serve; conntrack may be missing.
StartsUdp ==
    /\ main = "udp" /\ cfg.udpEnabled /\ udp' = "starting"
    /\ UNCHANGED <<said, sweeper, udpStop, attempts>> /\ Accepts

Boot ==
    \/ LoadFails \/ \E c \in Files : Loads(c)
    \/ ValidateFails \/ Validates \/ LogFails \/ StartsShipper \/ TLSFails \/ BuildsHandler
    \/ ListenFails \/ ListensTCP \/ WithoutUdp \/ UdpListenFails \/ StartsUdp

----------------------------------------------------------------------------
(* UDP capture. *)

UdpOnly == UNCHANGED <<vars, bootVars, repVars, died>>

\* Serve starts the sweeper itself.
ServeStarts ==
    /\ Runs /\ udp = "starting" /\ udp' = "reading" /\ sweeper' = "idle"
    /\ UNCHANGED <<udpStop, attempts, said>> /\ UdpOnly

ServeReads ==
    /\ Runs /\ udp = "reading" /\ udpStop = "open" /\ udp' = "busy"
    /\ UNCHANGED <<sweeper, udpStop, attempts, said>> /\ UdpOnly

\* An error other than the socket's end stops UDP capture, and is logged.
ServeFails ==
    /\ Runs /\ udp = "reading" /\ udpStop = "open" /\ "serve" \in StartFaults
    /\ udp' = "ended" /\ said' = said \cup {"serve"}
    /\ UNCHANGED <<sweeper, udpStop, attempts>> /\ UdpOnly

ServeEnds ==
    /\ Runs /\ udp = "reading" /\ udpStop # "open" /\ udp' = "ended"
    /\ UNCHANGED <<sweeper, udpStop, attempts, said>> /\ UdpOnly

\* The datagram is counted or recorded, or goes into an attempt.  Recording it once
\* the shipper's channel is closed panics, which HandleDatagram recovers from.
ServeHandles(held) ==
    /\ Runs /\ udp = "busy" /\ udp' = "reading"
    /\ attempts + held <= MaxAttempts /\ attempts' = attempts + held
    /\ UNCHANGED <<sweeper, udpStop, said>> /\ UdpOnly

\* The ticker fires, and Expire returns some attempt.  With stop closed as well the
\* select may still take the ticker.
SweepExpires(rest) ==
    /\ Runs /\ sweeper = "idle" /\ rest < attempts
    /\ sweeper' = "expiring" /\ attempts' = rest
    /\ UNCHANGED <<udp, udpStop, said>> /\ UdpOnly

\* Nothing recovers in the sweeper.
SweepLogs ==
    /\ Runs /\ sweeper = "expiring" /\ sweeper' = "idle"
    /\ IF channel THEN UNCHANGED <<main, died>> ELSE main' = "panicked" /\ died' = "udp"
    /\ UNCHANGED <<udp, udpStop, attempts, said>>
    /\ UNCHANGED <<pc, conn, cut, table, listening, channel, drop, scene, bootVars, repVars>>

SweepEnds ==
    /\ Runs /\ sweeper = "idle" /\ udpStop # "open" /\ sweeper' = "ended"
    /\ UNCHANGED <<udp, udpStop, attempts, said>> /\ UdpOnly

Udp ==
    \/ ServeStarts \/ ServeReads \/ ServeFails \/ ServeEnds
    \/ (\E held \in 0..1 : ServeHandles(held)) \/ (\E rest \in 0..MaxAttempts : SweepExpires(rest))
    \/ SweepLogs \/ SweepEnds

----------------------------------------------------------------------------
(* ReportDrops, every hour and at the stop; one report is followed at a time. *)

Reporting == (main = "accepting" /\ ticker) \/ (main = "signalled" /\ reported = Nothing)

\* DropStats reads the counts by source first.
ReadsCounts ==
    /\ Reporting /\ seen = Nothing /\ seen' = BySource
    /\ UNCHANGED <<vars, bootVars, said, udpVars, died, reported>>

\* Then the total, and both are logged.
Reports ==
    /\ Reporting /\ seen # Nothing /\ seen' = Nothing
    /\ reported' = IF main = "signalled" THEN dropped ELSE reported
    /\ UNCHANGED <<vars, bootVars, said, udpVars, died>>

----------------------------------------------------------------------------
(* The accept loop and the stop. *)

Others == <<scene, bootVars, udpVars, repVars>>

\* A step of a connection's goroutine or its client, in the process.
Tcp(step) ==
    /\ step /\ died' = (IF main' = "panicked" THEN "tcp" ELSE died)
    /\ UNCHANGED <<Others, said>>

\* Quietly if the listener was closed or the error is a timeout, as accept's ETIMEDOUT
\* is; with the error logged otherwise.
AcceptLoopEnds ==
    /\ AcceptFails
    /\ \/ Listens /\ "accept" \in Faults /\ said' = said \cup {"accept"}
       \/ (~Listens \/ "timeout" \in Faults) /\ said' = said
    /\ UNCHANGED <<drop, Others, died>>

\* udpConn.Close, and Shutdown closes the sweeper's stop channel.
StopsUdp ==
    /\ main = "closing" /\ udp # "off" /\ udpStop = "open" /\ udpStop' = "closed"
    /\ UNCHANGED <<udp, sweeper, attempts, said>> /\ UdpOnly

\* Mutant of FlushesUdp: the sweeper is not waited for.
FlushesUdpAtOnce ==
    /\ main = "closing" /\ udpStop = "closed"
    /\ udpStop' = "flushed" /\ attempts' = 0
    /\ UNCHANGED <<udp, sweeper, said>> /\ UdpOnly

\* The sweeper has ended, if it had begun; the attempts held are recorded.
FlushesUdp ==
    /\ main = "closing" /\ udpStop = "closed" /\ sweeper \in {"none", "ended"}
    /\ udpStop' = "flushed" /\ attempts' = 0
    /\ UNCHANGED <<udp, sweeper, said>> /\ UdpOnly

\* handler.Shutdown comes after UDP, the shipper's after that.
StopsTcp ==
    /\ udp = "off" \/ udpStop = "flushed"
    /\ ShutdownNil \/ ShutdownForces

EndsWithoutLoom ==
    /\ main = "stopping" /\ ~loom /\ main' = "exited"
    /\ UNCHANGED <<pc, conn, cut, table, listening, channel>>

\* A report under way is not main's.
Signalled == Signal /\ seen' = Nothing /\ UNCHANGED <<drop, scene, bootVars, udpVars, reported, said, died>>

Stop ==
    /\ \/ (reported # Nothing /\ ClosesListener) \/ StopsTcp
       \/ (loom /\ ClosesChannel) \/ Exits \/ EndsWithoutLoom
    /\ UNCHANGED <<drop, Others, said, died>>

Main == Boot \/ Signalled \/ Stop \/ StopsUdp \/ FlushesUdp

AgentNext ==
    \/ \E c \in Conns : Tcp(Connection(c))
    \/ AcceptLoopEnds \/ Main \/ Udp \/ ReadsCounts \/ Reports

\* Every goroutine runs; deadlines pass and Shutdown's time runs out.  The kernel
\* need not deliver anything, and no signal has to come.
AgentSpec ==
    /\ AgentInit /\ [][AgentNext]_agentVars
    /\ \A c \in Conns : WF_agentVars(Tcp(Proceeds(c)))
    /\ WF_agentVars((Main \/ ReadsCounts \/ Reports) /\ main # "accepting")
    /\ WF_agentVars(ServeStarts \/ ServeEnds \/ \E held \in 0..1 : ServeHandles(held))
    /\ WF_agentVars(SweepLogs \/ SweepEnds)

----------------------------------------------------------------------------
(* Properties. *)

\* "A UDP failure is logged and must not take the TCP sensor down" (main.go:126):
\* no failure of the UDP listener ends start-up, no goroutine of UDP capture ends
\* the process, also when it records while the process stops, and Serve does not end
\* unlogged; and "if the listener is closed as part of shutdown, exit quietly"
\* (main.go:191): otherwise the accept loop ends quietly only by an error that says
\* it is a timeout (main.go:196).
SensorStands ==
    /\ "udp" \in said => main # "failed"
    /\ died # "udp"
    /\ udp = "ended" /\ udpStop = "open" => "serve" \in said
    /\ ~listening /\ main = "accepting" => "accept" \in said \/ "timeout" \in Faults

\* "These counters are what makes the drop list auditable" (handler.go:37-40): two
\* connections that meet a new source at once are both counted under it, and no
\* report shows more by source than in total, whenever it is made
\* (handler.go:49-90).
DropsCounted ==
    /\ (\A c \in Ignored : pc[c] \in {"absent", "new", "gone"}) => BySource = dropped
    /\ BySource <= dropped
    /\ seen <= dropped

\* Every limit and time the parts are started with is usable, and the drop list
\* holds what the file lists, for each file that is accepted
\* (config.go:100-127, 175-280; handler.go:111-134, server.go:102-124).
ConfigSane ==
    main \in {"log", "tls", "listen", "udp"} => LimitsPositive(cfg) /\ DropsAsListed(cfg)

\* A stop comes to an end, whatever clients do, whichever goroutines are busy and
\* whatever had failed before (main.go:213-235).
StopEnds == (main = "signalled") ~> (main \in {"exited", "panicked"})

\* "One last accounting before exit, so a restart does not lose the record of what
\* this run dropped" (main.go:216-217).  It fails: the report is made before the
\* listener is closed, and what is dropped in between is in no report.
LastAccounting == main = "exited" => reported = dropped

----------------------------------------------------------------------------
(* What makes these inductive; the proofs are in AgentProofs. *)

Starting == {"load", "validate", "log", "tls", "listen", "udp"}
Late == {"stopping", "exited", "panicked"}

\* The sweeper records nothing any more once UDP is flushed: it has ended, or it found
\* nothing to expire and Serve brings nothing new.
SweeperQuiet ==
    sweeper = "ended" \/ (sweeper \in {"none", "idle"} /\ attempts = 0 /\ udp # "busy")

\* Nothing is accepted, said or captured before start-up is over, and the shipper's
\* channel is closed only after UDP capture has come to rest.
StandsInv ==
    /\ main \in Starting \cup {"failed"} => said = {} /\ ~listening /\ udp = "off"
    /\ main = "accepting" => listening \/ "accept" \in said \/ "timeout" \in Faults
    /\ udp = "ended" => udpStop # "open" \/ "serve" \in said
    /\ sweeper = "none" <=> udp \in {"off", "starting"}
    /\ ~channel => main \in Late
    /\ main \in Late => udp = "off" \/ udpStop = "flushed"
    /\ udpStop = "flushed" => SweeperQuiet
    /\ died # "udp"

\* main goes on with a file that parses, and past validation with a valid one.
ConfigInv ==
    /\ main \in Starting \ {"load"} => cfg \in Configs /\ IgnoreParses(cfg.ignore)
    /\ main \in {"log", "tls", "listen", "udp"} => Valid(cfg)
=============================================================================
