----------------------------- MODULE CtBreaker -----------------------------
(***************************************************************************)
(* The breaker around conntrack lookups (internal/udp/server.go,           *)
(* ctBreaker): after a run of failures lookups stop for CtPause.           *)
(***************************************************************************)
EXTENDS Integers, Sequences

CONSTANTS FailuresBeforePause,   \* ctFailuresBeforePause
          CtPause                \* ctPause, in ticks

ASSUME BreakerAssumption == FailuresBeforePause \in Nat \ {0} /\ CtPause \in Nat \ {0}

VARIABLES
    streak,   \* failures since the last answer or pause
    paused,   \* time left until pausedUntil
    fails     \* history: ages, below CtPause, of the failures since the last answer

brVars == <<streak, paused, fails>>

BrInit == streak = 0 /\ paused = 0 /\ fails = <<>>

\* allow
LookupAllowed == paused = 0

\* record of an answer: a destination, or no such entry.
RecordAnswer == streak' = 0 /\ fails' = <<>> /\ UNCHANGED paused

\* Mutant of RecordFailure: one failure too many.
RecordFailureLate ==
    /\ streak' = IF streak + 1 > FailuresBeforePause THEN 0 ELSE streak + 1
    /\ paused' = IF streak + 1 > FailuresBeforePause THEN CtPause ELSE paused
    /\ fails' = Append(fails, 0)

\* record of any other error.
RecordFailure ==
    /\ streak' = IF streak + 1 >= FailuresBeforePause THEN 0 ELSE streak + 1
    /\ paused' = IF streak + 1 >= FailuresBeforePause THEN CtPause ELSE paused
    /\ fails' = Append(fails, 0)

\* The oldest failures leave the history.
BrTick ==
    /\ paused' = IF paused > 0 THEN paused - 1 ELSE 0
    /\ \E gone \in 0..Len(fails) :
          /\ \A i \in 1..Len(fails) : i <= gone <=> fails[i] + 1 >= CtPause
          /\ fails' = [i \in 1..(Len(fails) - gone) |-> fails[i + gone] + 1]
    /\ UNCHANGED streak

----------------------------------------------------------------------------
\* "a stuck netlink socket costs a few timeouts rather than one per datagram"
\* (server.go:195-197): while no lookup is answered, no period of CtPause sees
\* more than FailuresBeforePause of them fail.
FewTimeouts == Len(fails) <= FailuresBeforePause

\* While lookups go on, every failure still in the history is one of the streak; while
\* they are paused, none is younger than the pause.
BrInv ==
    /\ streak \in 0..(FailuresBeforePause - 1) /\ paused \in 0..CtPause
    /\ fails \in Seq(0..(CtPause - 1))
    /\ paused = 0 => Len(fails) <= streak
    /\ paused > 0 =>
          /\ streak = 0 /\ Len(fails) <= FailuresBeforePause
          /\ \A i \in 1..Len(fails) : fails[i] >= CtPause - paused
=============================================================================
