---------------------------- MODULE MCConntrack ----------------------------
(* Two flows with different destinations and one of mixed families. *)
EXTENDS Conntrack

MCOrigDst == [f |-> "d1", g |-> "d2", m |-> "d3"]
MCFlows == DOMAIN MCOrigDst
=============================================================================
