---------------------------- MODULE DurableQueue ----------------------------
(***************************************************************************)
(* What the spool promises: a record once accepted is held on stable       *)
(* storage until its batch was handed over (taken) or was reported as      *)
(* dropped, whatever the process does meanwhile.  Crashes, restarts,       *)
(* splits and half-done writes are not visible at this level; delivery is  *)
(* at least once, so a record may stay held after it was taken, or come    *)
(* back.                                                                   *)
(***************************************************************************)
EXTENDS Naturals

VARIABLES held, taken, dropped

vars == <<held, taken, dropped>>

Known == held \cup taken \cup dropped

Init == held = {} /\ taken = {} /\ dropped = {}

\* A batch of records never seen before arrives.
Accept ==
    \E B \in SUBSET (held' \ held) :
        /\ B \cap Known = {}
        /\ held' = held \cup B
        /\ UNCHANGED <<taken, dropped>>

\* Records that had left are stored again.
Reappear ==
    /\ held \subseteq held'
    /\ held' \ held \subseteq taken \cup dropped
    /\ UNCHANGED <<taken, dropped>>

\* A batch leaves for the reason `taken` records.  A batch the limits dropped
\* while it was out may still be taken.  Its records leave storage unless
\* another file holds them or the removal failed.
Take ==
    \E B \in SUBSET (held \cup dropped) :
        /\ taken' = taken \cup B
        /\ held' \subseteq held /\ held \ held' \subseteq B
        /\ UNCHANGED dropped

\* A batch is given up and reported.
Drop ==
    \E B \in SUBSET Known :
        /\ dropped' = dropped \cup B
        /\ held' \subseteq held /\ held \ held' \subseteq B
        /\ UNCHANGED taken

Next == Accept \/ Reappear \/ Take \/ Drop

Spec == Init /\ [][Next]_vars
=============================================================================
