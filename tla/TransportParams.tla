-------------------------- MODULE TransportParams --------------------------
(***************************************************************************)
(* describeParams and describeVersions (internal/quic/hello.go): the text  *)
(* that the hash of a client's QUIC transport parameters is taken of.  A   *)
(* text is a sequence of parts; a part has an id and what is said of its   *)
(* value.  A value is its content and its length: one number, a list of    *)
(* versions, or bytes nobody looks at.                                     *)
(***************************************************************************)
EXTENDS Integers, SequencesExt

TpInitialSourceCID == 15
TpVersionInfos == {17, 16741339}
TpUserAgent == 12585
\* And min_ack_delay, whose number TLC's integers do not hold.
TpIntegers == {1, 3, 4, 5, 6, 7, 8, 9, 10, 11, 14, 32}

IsGreaseParam(id) == id >= 27 /\ (id - 27) % 31 = 0

\* Reserved versions, 0x?a?a?a?a.
GreaseVersions == {"grease1", "grease2"}

VersionsOf(v) == IF v.len \in {4 * k : k \in 1..16} THEN v.val ELSE <<>>

\* Mutant of DescribeVersions: reserved versions are named like the others.
DescribeVersionsAll(v) ==
    IF VersionsOf(v) = <<>> THEN <<"?", v.len>> ELSE VersionsOf(v)

\* The versions that are not reserved, in their order.
Unreserved(versions) ==
    FoldLeft(LAMBDA parts, x : IF x \in GreaseVersions THEN parts ELSE Append(parts, x), <<>>, versions)

\* The chosen version, the offered ones that are not reserved, and one marker.
DescribeVersions(v) ==
    IF VersionsOf(v) = <<>> THEN <<"?", v.len>>
    ELSE LET chosen == Head(v.val)
             grease == \E i \in DOMAIN v.val : v.val[i] \in GreaseVersions
         IN  <<chosen>> \o Unreserved(Tail(v.val)) \o (IF grease THEN <<"grease">> ELSE <<>>)

\* readVarint takes all of the value; of other bytes there is no number.
IsVarint(v) == v.len \in {1, 2, 4, 8} /\ v.val # <<>>

\* What the text says of a value.
Said(v) ==
    CASE v.id \in TpIntegers -> IF IsVarint(v) THEN <<"=", v.val>> ELSE <<"=?">>
      [] v.id \in TpVersionInfos -> <<"=", DescribeVersions(v)>>
      [] v.id = TpInitialSourceCID -> <<"/", v.len>>
      [] OTHER -> <<>>

\* The place of parameter i among those at `plain` by sort.Slice: by id, and of equal
\* ids the earlier goes first, as for a dozen items.
Rank(params, plain, i) ==
    1 + Cardinality({j \in plain : \/ params[j].id < params[i].id
                                   \/ params[j].id = params[i].id /\ j < i})

SortedById(params, plain) ==
    [r \in 1..Cardinality(plain) |-> params[CHOOSE i \in plain : Rank(params, plain, i) = r]]

\* Reserved parameters are skipped, and one marker tells that there were any.
DescribeParams(params) ==
    LET plain == {i \in DOMAIN params : ~IsGreaseParam(params[i].id)}
        items == SortedById(params, plain)
    IN  [r \in DOMAIN items |-> [id |-> items[r].id, txt |-> Said(items[r])]]
          \o (IF plain # DOMAIN params THEN <<"grease">> ELSE <<>>)

----------------------------------------------------------------------------
(* Another connection of the same client: what the text must not tell. *)

\* The connection ID and the reserved versions offered are chosen anew.
Redrawn(p) ==
    IF p.id = TpInitialSourceCID THEN {[p EXCEPT !.val = x] : x \in {"cid1", "cid2"}}
    ELSE IF p.id \in TpVersionInfos /\ VersionsOf(p) # <<>>
    THEN {[p EXCEPT !.val = [i \in DOMAIN p.val |->
             IF i > 1 /\ p.val[i] \in GreaseVersions THEN g ELSE p.val[i]]] : g \in GreaseVersions}
    ELSE {p}

\* A reserved parameter has another number.
Renumbered(p) == IF IsGreaseParam(p.id) THEN {[p EXCEPT !.id = 27], [p EXCEPT !.id = 58]} ELSE {p}

Anew(p) == UNION {Renumbered(q) : q \in Redrawn(p)}

DistinctIds(params) ==
    \A i, j \in DOMAIN params : i # j => params[i].id # params[j].id

\* The orders of n parameters, and what may be drawn for each.
Orders(n) == {f \in [1..n -> 1..n] : \A i, j \in 1..n : i # j => f[i] # f[j]}

Draws(params) ==
    {g \in [DOMAIN params -> UNION {Anew(params[i]) : i \in DOMAIN params}] :
        \A i \in DOMAIN params : g[i] \in Anew(params[i])}

\* The parameters in any order, with the random parts drawn again.
NextConnection(params) ==
    {[i \in DOMAIN params |-> g[f[i]]] : f \in Orders(Len(params)), g \in Draws(params)}
=============================================================================
