----------------------------- MODULE Conntrack -----------------------------
(***************************************************************************)
(* The conntrack client (pkg/conntrack): one netlink socket, one request   *)
(* at a time, replies told apart by their sequence number.  A receive that *)
(* times out or is interrupted gives up on the reply but leaves it on its  *)
(* way, so a later call may meet it.                                       *)
(*                                                                         *)
(* The kernel is external: it answers a request once, when it likes, from  *)
(* the entries it then has, and may also lose the answer or refuse.        *)
(***************************************************************************)
EXTENDS Integers, Sequences

CONSTANTS
    Flows,      \* remote and local address pairs
    Mixed,      \* flows whose two addresses are of different families
    OrigDst,    \* where the sender of a flow addressed it
    SeqMod,     \* sequence numbers wrap here, 2^32
    MaxCalls    \* bound on the calls

ASSUME ConntrackAssumption ==
    /\ Mixed \subseteq Flows /\ DOMAIN OrigDst = Flows
    /\ SeqMod \in Nat \ {0} /\ MaxCalls \in Nat

VARIABLES
    seq,      \* Client.seq
    open,     \* fd >= 0
    call,     \* the flow being looked up, or Nobody; the mutex is held
    queue,    \* the socket's receive queue: datagrams, each a sequence of messages
    asked,    \* requests the kernel has not answered
    last,     \* what the last call returned
    said,     \* history: the kernel's answer to the latest request
    calls

ctVars == <<seq, open, call, queue, asked, last, said, calls>>

Nobody == "nobody"
Answer(s, f, out, dst) == [seq |-> s, flow |-> f, out |-> out, dst |-> dst]
NoDst == "none"

Init ==
    /\ seq = 0 /\ open = TRUE /\ call = Nobody /\ queue = <<>> /\ asked = {}
    /\ last = Answer(0, Nobody, "error", NoDst) /\ said = {} /\ calls = 0

----------------------------------------------------------------------------
(* OriginalDst. *)

Returns(a) == last' = a /\ call' = Nobody

Calls(f) == call = Nobody /\ calls < MaxCalls /\ calls' = calls + 1

\* "conntrack client closed"
CallClosed(f) ==
    /\ Calls(f) /\ ~open
    /\ last' = Answer(seq, f, "error", NoDst)
    /\ UNCHANGED <<seq, open, call, queue, asked, said>>

NextSeq == (seq + 1) % SeqMod

\* getRequest refuses the flow, or the send fails; the number is used up.
CallFails(f) ==
    /\ Calls(f) /\ open
    /\ seq' = NextSeq /\ last' = Answer(NextSeq, f, "error", NoDst)
    /\ UNCHANGED <<open, call, queue, asked, said>>

\* The messages in the receive queue.
Queued == UNION {{queue[i][j] : j \in DOMAIN queue[i]} : i \in DOMAIN queue}

\* The kernel delays no answer until the numbers have gone round once: none that is
\* on its way, or in the queue, carries the number that comes next.
NoneSoLate ==
    /\ \A r \in asked : r.seq # NextSeq
    /\ \A m \in Queued : m.seq # NextSeq

CallSends(f) ==
    /\ Calls(f) /\ open /\ f \notin Mixed /\ NoneSoLate
    /\ seq' = NextSeq /\ call' = f
    /\ asked' = asked \cup {[seq |-> NextSeq, flow |-> f]}
    /\ said' = {}
    /\ UNCHANGED <<open, queue, last>>

\* Mutant of Decisive: any answer is taken for the one asked for.
DecisiveAny(m) == m.out # "ack"

\* parseReply passes over other requests' messages and over acknowledgements.
Decisive(m) == m.seq = seq /\ m.out # "ack"

\* A datagram with nothing for this request: the loop receives again.
ReceiveOther ==
    /\ call # Nobody /\ queue # <<>>
    /\ \A i \in DOMAIN Head(queue) : ~Decisive(Head(queue)[i])
    /\ queue' = Tail(queue)
    /\ UNCHANGED <<seq, open, call, asked, last, said, calls>>

FirstDecisive(d, i) == Decisive(d[i]) /\ \A j \in 1..(i - 1) : ~Decisive(d[j])

Receive ==
    /\ call # Nobody /\ queue # <<>>
    /\ \E i \in DOMAIN Head(queue) :
          /\ FirstDecisive(Head(queue), i)
          /\ Returns(Answer(seq, call, Head(queue)[i].out, Head(queue)[i].dst))
    /\ queue' = Tail(queue)
    /\ UNCHANGED <<seq, open, asked, said, calls>>

\* A signal or a lack of buffers ends the receive.
ReceiveFails ==
    /\ call # Nobody
    /\ Returns(Answer(seq, call, "error", NoDst))
    /\ UNCHANGED <<seq, open, queue, asked, said, calls>>

\* Mutant of ReceiveTimesOut: the socket has no timeout.
ReceiveWaits == FALSE /\ UNCHANGED ctVars

\* SO_RCVTIMEO
ReceiveTimesOut == queue = <<>> /\ ReceiveFails

\* Close waits for the mutex.
Close ==
    /\ call = Nobody /\ open /\ open' = FALSE
    /\ queue' = <<>> /\ asked' = {}
    /\ UNCHANGED <<seq, call, last, said, calls>>

----------------------------------------------------------------------------
(* The kernel. *)

Reply(r, out, dst) ==
    /\ asked' = asked \ {r}
    /\ said' = IF r.seq = seq THEN {Answer(seq, r.flow, out, dst)} ELSE said
    /\ LET m == [seq |-> r.seq, out |-> out, dst |-> dst]
       IN  \/ queue' = Append(queue, <<m>>)
           \/ queue' = Append(queue, <<[m EXCEPT !.out = "ack"], m>>)
           \/ queue # <<>> /\ queue' = [queue EXCEPT ![Len(queue)] = Append(@, m)]
    /\ UNCHANGED <<seq, open, call, last, calls>>

KernelAnswers ==
    \E r \in asked : \/ Reply(r, "found", OrigDst[r.flow])
                     \/ Reply(r, "notfound", NoDst)
                     \/ Reply(r, "error", NoDst)

KernelLoses ==
    \E r \in asked :
        /\ asked' = asked \ {r}
        /\ UNCHANGED <<seq, open, call, queue, last, said, calls>>

Next ==
    \/ \E f \in Flows : CallClosed(f) \/ CallFails(f) \/ CallSends(f)
    \/ ReceiveOther \/ Receive \/ ReceiveFails \/ ReceiveTimesOut \/ Close
    \/ KernelAnswers \/ KernelLoses

Spec == Init /\ [][Next]_ctVars

\* recvfrom returns: with a message, or when SO_RCVTIMEO has passed.
FairSpec == Spec /\ WF_ctVars(ReceiveOther) /\ WF_ctVars(Receive) /\ WF_ctVars(ReceiveTimesOut)

----------------------------------------------------------------------------
(* Properties. *)

\* A destination, or the word that there is none, is what the kernel answered
\* to this very request, never a late answer to an earlier one
\* (netlink_linux.go:57-86, message.go:104-105).
AnswerIsOwn ==
    [][call # Nobody /\ call' = Nobody /\ last'.out \in {"found", "notfound"} =>
          last' \in said]_ctVars

\* Every call returns, also when the kernel never answers
\* (netlink_linux.go:35-37).
CallsReturn == (call # Nobody) ~> (call = Nobody)

----------------------------------------------------------------------------
(* The invariant behind AnswerIsOwn, proved in ConntrackProofs. *)

Outcomes == {"found", "notfound", "error", "ack"}
Message == [seq : Int, out : Outcomes, dst : {OrigDst[f] : f \in Flows} \cup {NoDst}]

\* Types of the client's state and of the kernel's.
CtTypeOK ==
    /\ seq \in Int /\ queue \in Seq(Seq(Message))
    /\ asked \subseteq [seq : Int, flow : Flows]

\* What carries the number of the call under way is this call's: its request, as long
\* as the kernel has not answered, or else what the kernel said to it.
OwnNumber ==
    call # Nobody =>
        /\ \A r \in asked : r.seq = seq => r.flow = call /\ \A m \in Queued : ~Decisive(m)
        /\ \A m \in Queued : Decisive(m) => Answer(seq, call, m.out, m.dst) \in said

CtInv == CtTypeOK /\ OwnNumber
=============================================================================
