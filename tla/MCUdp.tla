------------------------------- MODULE MCUdp -------------------------------
(* Senders, hellos and datagrams for the runs of Udp. *)
EXTENDS Udp

MCSourceKey == [a1 |-> "p", a2 |-> "p", b |-> "q", ign |-> "r"]
MCSourceKeys == {"p", "q", "r"}
MCAddrs == DOMAIN MCSourceKey

MCKeys == {"k1", "k2", "k3"}
\* A hello of three units, an attempt whose stream is no ClientHello, and a hello
\* of one.
MCNeed == [k1 |-> 3, k2 |-> 0, k3 |-> 1]

Seg(o, n) == [off |-> o, len |-> n]
Frames(crypto) == [frames |-> TRUE, crypto |-> crypto]
NoFrames == [frames |-> FALSE, crypto |-> <<>>]
Quic(a, k, ps) == [src |-> a, local |-> FALSE, class |-> "quic", key |-> k, packets |-> ps]
Other(a, l, c) == [src |-> a, local |-> l, class |-> c]

\* For the limits and the lookups: every class, from every source, and a datagram whose
\* first packet is no Initial.
LimitDatagrams ==
    {Other("a1", FALSE, "empty"), Other("a1", TRUE, "other"), Other("a2", FALSE, "probe"), Other("b", TRUE, "other"),
     Other("ign", FALSE, "other"), Quic("b", "k1", <<NoFrames>>),
     Quic("b", "k3", <<NoFrames, Frames(<<Seg(0, 1)>>)>>)}

\* For reassembly: pieces of k1's hello, overlapping, out of order, one or two
\* packets to a datagram; pieces of k2 with a gap; all of k3's.
QuicDatagrams ==
    {Quic("b", "k1", <<Frames(<<Seg(0, 2)>>)>>),
     Quic("b", "k1", <<Frames(<<Seg(1, 2)>>), Frames(<<Seg(0, 1)>>)>>),
     Quic("b", "k2", <<Frames(<<Seg(0, 1), Seg(1, 1), Seg(3, 1)>>)>>),
     Quic("b", "k3", <<Frames(<<Seg(0, 1)>>)>>)}

\* The hello again, cut at another place.
ReframedDatagrams ==
    {Quic("b", "k1", <<Frames(<<Seg(0, 1)>>)>>), Quic("b", "k1", <<Frames(<<Seg(0, 3)>>)>>)}
=============================================================================
