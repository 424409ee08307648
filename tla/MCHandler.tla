----------------------------- MODULE MCHandler -----------------------------
(* Logins, and one telnet client, for the runs of Handler. *)
EXTENDS Handler

OnePersona == [c1 |-> "telnet"]

MailPersona == [c1 |-> "pop3", c2 |-> "telnet", c3 |-> "smtp"]

\* Scripted logins without a certificate, and no fault.
Logins(conns, n) ==
    [conns |-> conns, certificate |-> FALSE, kinds |-> {"text", "iac"}, units |-> n,
     faults |-> {}, stops |-> FALSE]
Stopped ==
    [conns |-> {"c1"}, certificate |-> FALSE, kinds |-> {"text", "iac"}, units |-> 2,
     faults |-> {}, stops |-> TRUE]
Certified ==
    [conns |-> {"c1"}, certificate |-> TRUE, kinds |-> {"text", "iac"}, units |-> 2,
     faults |-> {}, stops |-> FALSE]

\* Telnet with all that hasPrintable tells apart.
Telnet == [Logins({"c2"}, 4) EXCEPT !.kinds = {"text", "blank", "iac", "sub"}]

LoginScenes == {Logins({"c1", "c2"}, 2), Logins({"c1"}, 5), Telnet, Logins({"c3"}, 5)}
StopScenes == {Stopped}
TLSScenes == {Certified}
=============================================================================
