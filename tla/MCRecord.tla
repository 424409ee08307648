------------------------------ MODULE MCRecord ------------------------------
(* Payloads around the sizes at which the decoders decide, and what they may claim. *)
EXTENDS Record

\* No datagram; a QUIC header cut short, the least one, the least DNS header, DNS
\* messages that end at and around their last byte, one Initial with room for
\* frames, and a datagram for two.
MCSizes == {0, 6, 7, 9, 11, 12, 17, 34, 58}
MCConnLens == {0, 1, 20, 21, 255}

\* Zero and one, the least length of a packet and its neighbours, the rest of a
\* datagram, one that no datagram holds; in the shortest and in longer forms.
MCVarints ==
    {[v |-> n, w |-> 1] : n \in {0, 1, 19, 20, 24, 49}} \cup
    {[v |-> n, w |-> 2] : n \in {0, 257}} \cup
    {[v |-> 2 ^ 29, w |-> 4], [v |-> 2 ^ 30, w |-> 8]}

MCHelloSizes == {0, 3, 4, 38, 44, 54, 72, 81}

Param(id, idw, val, len) == [id |-> id, idw |-> idw, lnw |-> 1, val |-> val, len |-> len]

\* Integers, whole and not; connection IDs of two lengths; versions, one of them
\* reserved, and a list of no whole versions; a user agent; reserved parameters.
MCParamForms ==
    {Param(1, 1, <<7>>, 1), Param(4, 1, <<>>, 2), Param(15, 1, "cid1", 0),
     Param(17, 1, <<"1", "grease1">>, 8), Param(16741339, 4, <<>>, 3),
     Param(12585, 2, "agent", 1), Param(27, 1, "x", 0), Param(58, 1, "y", 2),
     Param(3, 1, <<>>, 300)}

\* Requests and near-requests: with and without the empty line, Host, headers, a
\* body with empty lines of its own.
MCTexts ==
    {<<"other">>, <<"legacy">>, <<"token", "host">>, <<"legacy", "host", "empty">>,
     <<"legacy", "agent", "empty", "empty">>, <<"token", "header", "empty", "host", "empty", "other">>,
     <<"legacy", "header", "empty">>, <<"legacy", "empty", "empty", "other">>,
     <<"other", "host", "empty", "other">>}
=============================================================================
