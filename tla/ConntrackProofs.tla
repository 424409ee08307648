-------------------------- MODULE ConntrackProofs --------------------------
(***************************************************************************)
(* Lookups over one netlink socket, for any flows, any number of calls and *)
(* sequence numbers that wrap anywhere: an answer belongs to its call.     *)
(***************************************************************************)
EXTENDS Conntrack, TLAPS

\* Nothing is asked and nothing queued at first.
LEMMA CtInitOK == Init => CtInv
  <1> SUFFICES ASSUME Init PROVE CtInv  OBVIOUS
  <1>1. queue \in Seq(Seq(Message))  BY DEF Init
  <1>2. CtTypeOK  BY <1>1 DEF Init, CtTypeOK
  <1>3. OwnNumber  BY DEF Init, OwnNumber
  <1> QED  BY <1>2, <1>3 DEF CtInv

\* A number wraps inside the integers.
LEMMA NextSeqOK == ASSUME seq \in Int PROVE NextSeq \in Int
  BY ConntrackAssumption DEF NextSeq

\* Taking the first datagram adds no message.
LEMMA TailQueued ==
    ASSUME queue \in Seq(Seq(Message)), queue # <<>>, queue' = Tail(queue)
    PROVE  /\ queue' \in Seq(Seq(Message))
           /\ Queued' \subseteq Queued
           /\ \A i \in DOMAIN Head(queue) : Head(queue)[i] \in Queued
  <1>1. queue' \in Seq(Seq(Message))  OBVIOUS
  <1>2. \A i \in DOMAIN queue' : i + 1 \in DOMAIN queue /\ queue'[i] = queue[i + 1]  OBVIOUS
  <1>3. Queued' \subseteq Queued
    <2> SUFFICES ASSUME NEW i \in DOMAIN queue', NEW j \in DOMAIN queue'[i]
                 PROVE  queue'[i][j] \in Queued
      BY DEF Queued
    <2>1. i + 1 \in DOMAIN queue /\ j \in DOMAIN queue[i + 1] /\ queue'[i][j] = queue[i + 1][j]
      BY <1>2
    <2> QED  BY <2>1 DEF Queued
  <1>4. 1 \in DOMAIN queue /\ Head(queue) = queue[1]  OBVIOUS
  <1>5. \A i \in DOMAIN Head(queue) : Head(queue)[i] \in Queued  BY <1>4 DEF Queued
  <1> QED  BY <1>1, <1>3, <1>5

\* An answer comes in a datagram of its own, behind an acknowledgement, or behind
\* other messages: it adds itself and at most its acknowledgement.
LEMMA ReplyQueued ==
    ASSUME queue \in Seq(Seq(Message)), NEW r, NEW out \in Outcomes, NEW dst,
           [seq |-> r.seq, out |-> out, dst |-> dst] \in Message, Reply(r, out, dst)
    PROVE  /\ queue' \in Seq(Seq(Message))
           /\ \A m \in Queued' : \/ m \in Queued \/ m.out = "ack"
                                 \/ m = [seq |-> r.seq, out |-> out, dst |-> dst]
  <1> DEFINE n == [seq |-> r.seq, out |-> out, dst |-> dst]
             k == [n EXCEPT !.out = "ack"]
  <1>k. k \in Message /\ k.out = "ack"  BY DEF Message, Outcomes
  <1>n. n \in Message  OBVIOUS
  <1>c. \/ queue' = Append(queue, <<n>>) \/ queue' = Append(queue, <<k, n>>)
        \/ queue # <<>> /\ queue' = [queue EXCEPT ![Len(queue)] = Append(queue[Len(queue)], n)]
    BY DEF Reply
  <1> HIDE DEF n, k
  <1>a. ASSUME NEW d \in Seq(Message), queue' = Append(queue, d),
               \A j \in DOMAIN d : d[j] = n \/ d[j] = k
        PROVE  /\ queue' \in Seq(Seq(Message))
               /\ \A m \in Queued' : m \in Queued \/ m.out = "ack" \/ m = n
    <2>1. queue' \in Seq(Seq(Message))  BY <1>a
    <2>2. ASSUME NEW i \in DOMAIN queue', NEW j \in DOMAIN queue'[i]
          PROVE  queue'[i][j] \in Queued \/ queue'[i][j] = n \/ queue'[i][j] = k
      <3>1. i \in DOMAIN queue \/ i = Len(queue) + 1  BY <1>a
      <3>2. CASE i \in DOMAIN queue
        <4>1. queue'[i] = queue[i]  BY <1>a, <3>2
        <4> QED  BY <3>2, <4>1, <2>2 DEF Queued
      <3>3. CASE i = Len(queue) + 1
        <4>1. queue'[i] = d  BY <1>a, <3>3
        <4> QED  BY <4>1, <2>2, <1>a
      <3> QED  BY <3>1, <3>2, <3>3
    <2>3. \A m \in Queued' : m \in Queued \/ m = n \/ m = k
      <3> SUFFICES ASSUME NEW m \in Queued' PROVE m \in Queued \/ m = n \/ m = k  OBVIOUS
      <3>1. PICK i \in DOMAIN queue' : \E j \in DOMAIN queue'[i] : m = queue'[i][j]
        BY DEF Queued
      <3> QED  BY <3>1, <2>2
    <2> QED  BY <2>1, <2>3, <1>k
  <1>1. CASE queue' = Append(queue, <<n>>)
    <2>1. <<n>> \in Seq(Message) /\ \A j \in DOMAIN <<n>> : <<n>>[j] = n  BY <1>n
    <2> QED  BY <1>1, <2>1, <1>a DEF n
  <1>2. CASE queue' = Append(queue, <<k, n>>)
    <2>1. /\ <<k, n>> \in Seq(Message)
          /\ \A j \in DOMAIN <<k, n>> : <<k, n>>[j] = n \/ <<k, n>>[j] = k
      BY <1>n, <1>k
    <2> QED  BY <1>2, <2>1, <1>a DEF n
  <1>3. CASE queue # <<>> /\ queue' = [queue EXCEPT ![Len(queue)] = Append(queue[Len(queue)], n)]
    <2> DEFINE l == Len(queue)
               d == Append(queue[l], n)
    <2>l. l \in DOMAIN queue /\ queue[l] \in Seq(Message)  BY <1>3
    <2>d. /\ d \in Seq(Message)
          /\ \A j \in DOMAIN d : (j \in DOMAIN queue[l] /\ d[j] = queue[l][j]) \/ d[j] = n
      BY <2>l, <1>n
    <2>0. queue' = [queue EXCEPT ![l] = d]  BY <1>3
    <2> HIDE DEF l, d
    <2>1. queue' \in Seq(Seq(Message))  BY <2>0, <2>l, <2>d
    <2>2. ASSUME NEW i \in DOMAIN queue', NEW j \in DOMAIN queue'[i]
          PROVE  queue'[i][j] \in Queued \/ queue'[i][j] = n
      <3>1. i \in DOMAIN queue  BY <2>0
      <3>2. CASE i = l
        <4>1. queue'[i] = d  BY <2>0, <3>1, <3>2
        <4>2. queue[l][j] \in Queued \/ d[j] = n  BY <4>1, <2>2, <2>d, <2>l DEF Queued
        <4> QED  BY <4>1, <4>2, <2>2, <2>d
      <3>3. CASE i # l
        <4>1. queue'[i] = queue[i]  BY <2>0, <3>1, <3>3
        <4> QED  BY <3>1, <4>1, <2>2 DEF Queued
      <3> QED  BY <3>2, <3>3
    <2>3. \A m \in Queued' : m \in Queued \/ m = n
      <3> SUFFICES ASSUME NEW m \in Queued' PROVE m \in Queued \/ m = n  OBVIOUS
      <3>1. PICK i \in DOMAIN queue' : \E j \in DOMAIN queue'[i] : m = queue'[i][j]
        BY DEF Queued
      <3> QED  BY <3>1, <2>2
    <2> QED  BY <2>1, <2>3 DEF n
  <1> QED  BY <1>c, <1>1, <1>2, <1>3

\* Each step keeps the invariant: a new call's number is on nothing older, and what
\* the kernel then says under it, it says to this call.
LEMMA CtNextOK == CtInv /\ [Next]_ctVars => CtInv'
  <1> SUFFICES ASSUME CtInv, [Next]_ctVars PROVE CtInv'  OBVIOUS
  <1>t. seq \in Int /\ queue \in Seq(Seq(Message)) /\ asked \subseteq [seq : Int, flow : Flows]
    BY DEF CtInv, CtTypeOK
  <1>o. OwnNumber  BY DEF CtInv
  <1>n. NextSeq \in Int  BY <1>t, NextSeqOK
  <1>1. ASSUME NEW f \in Flows, CallClosed(f) \/ CallFails(f) PROVE CtInv'
    <2>1. /\ call' = call /\ call = Nobody /\ UNCHANGED <<queue, asked>> /\ seq' \in Int
      BY <1>1, <1>t, <1>n DEF CallClosed, CallFails, Calls
    <2> QED  BY <2>1, <1>t DEF CtInv, CtTypeOK, OwnNumber
  <1>2. ASSUME NEW f \in Flows, CallSends(f) PROVE CtInv'
    <2> DEFINE q == [seq |-> NextSeq, flow |-> f]
    <2>1. /\ seq' = NextSeq /\ call' = f /\ asked' = asked \cup {q} /\ queue' = queue
          /\ NoneSoLate
      BY <1>2 DEF CallSends
    <2>q. q \in [seq : Int, flow : Flows] /\ q.seq = NextSeq /\ q.flow = f  BY <1>n
    <2> HIDE DEF q
    <2>2. Queued' = Queued  BY <2>1 DEF Queued
    <2>3. \A m \in Queued' : ~Decisive(m)'  BY <2>1, <2>2 DEF NoneSoLate, Decisive
    <2>4. \A r \in asked' : r.seq = seq' => r.flow = call'  BY <2>1, <2>q DEF NoneSoLate
    <2>5. CtTypeOK'  BY <2>1, <2>q, <1>n, <1>t DEF CtTypeOK
    <2> QED  BY <2>3, <2>4, <2>5 DEF CtInv, OwnNumber
  <1>3. CASE ReceiveOther
    <2>1. queue # <<>> /\ queue' = Tail(queue) /\ UNCHANGED <<seq, call, asked, said>>
      BY <1>3 DEF ReceiveOther
    <2>2. queue' \in Seq(Seq(Message)) /\ Queued' \subseteq Queued  BY <2>1, <1>t, TailQueued
    <2>3. OwnNumber'  BY <2>1, <2>2, <1>o DEF OwnNumber, Decisive
    <2> QED  BY <2>1, <2>2, <2>3, <1>t DEF CtInv, CtTypeOK
  <1>4. CASE Receive
    <2>1. queue # <<>> /\ queue' = Tail(queue) /\ call' = Nobody /\ UNCHANGED <<seq, asked>>
      BY <1>4 DEF Receive, Returns
    <2>2. queue' \in Seq(Seq(Message))  BY <2>1, <1>t, TailQueued
    <2> QED  BY <2>1, <2>2, <1>t DEF CtInv, CtTypeOK, OwnNumber
  <1>5. CASE ReceiveFails \/ ReceiveTimesOut
    <2>1. call' = Nobody /\ UNCHANGED <<seq, queue, asked>>
      BY <1>5 DEF ReceiveFails, ReceiveTimesOut, Returns
    <2> QED  BY <2>1, <1>t DEF CtInv, CtTypeOK, OwnNumber
  <1>6. CASE Close
    <2>1. call = Nobody /\ call' = call /\ seq' = seq /\ queue' = <<>> /\ asked' = {}
      BY <1>6 DEF Close
    <2>2. queue' \in Seq(Seq(Message))  BY <2>1
    <2> QED  BY <2>1, <2>2, <1>t DEF CtInv, CtTypeOK, OwnNumber
  <1>7. ASSUME NEW r \in asked, NEW out \in Outcomes \ {"ack"},
               NEW dst \in {OrigDst[f] : f \in Flows} \cup {NoDst}, Reply(r, out, dst)
        PROVE  CtInv'
    <2> DEFINE n == [seq |-> r.seq, out |-> out, dst |-> dst]
    <2>r. r \in [seq : Int, flow : Flows]  BY <1>t
    <2>n. n \in Message /\ n.seq = r.seq /\ n.out = out /\ n.dst = dst  BY <2>r DEF Message
    <2>0. /\ asked' = asked \ {r} /\ UNCHANGED <<seq, call>>
          /\ said' = IF r.seq = seq THEN {Answer(seq, r.flow, out, dst)} ELSE said
      BY <1>7 DEF Reply
    <2>1. /\ queue' \in Seq(Seq(Message))
          /\ \A m \in Queued' : m \in Queued \/ m.out = "ack" \/ m = n
      BY <1>7, <1>t, <2>n, ReplyQueued
    <2> HIDE DEF n
    <2>2. CtTypeOK'  BY <2>0, <2>1, <1>t DEF CtTypeOK
    <2>3. OwnNumber'
      <3> SUFFICES ASSUME call # Nobody
                   PROVE  /\ \A q \in asked' : q.seq = seq =>
                                q.flow = call /\ \A m \in Queued' : ~Decisive(m)
                          /\ \A m \in Queued' : Decisive(m) => Answer(seq, call, m.out, m.dst) \in said'
        BY <2>0 DEF OwnNumber, Decisive
      <3>1. CASE r.seq = seq
        <4>1. r.flow = call /\ \A m \in Queued : ~Decisive(m)  BY <3>1, <1>o DEF OwnNumber
        <4>2. \A q \in asked' : q.seq # seq
          <5> SUFFICES ASSUME NEW q \in asked', q.seq = seq PROVE FALSE  OBVIOUS
          <5>1. q \in asked /\ q # r /\ q \in [seq : Int, flow : Flows]  BY <2>0, <1>t
          <5>2. q.flow = call  BY <5>1, <1>o DEF OwnNumber
          <5> QED  BY <5>1, <5>2, <4>1, <3>1, <2>r
        <4>3. \A m \in Queued' : Decisive(m) => m = n  BY <2>1, <4>1 DEF Decisive
        <4>4. Answer(seq, call, n.out, n.dst) \in said'  BY <2>0, <2>n, <3>1, <4>1
        <4> QED  BY <4>2, <4>3, <4>4
      <3>2. CASE r.seq # seq
        <4>1. ~Decisive(n) /\ said' = said  BY <3>2, <2>n, <2>0 DEF Decisive
        <4>2. \A m \in Queued' : Decisive(m) => m \in Queued  BY <2>1, <4>1 DEF Decisive
        <4> QED  BY <4>1, <4>2, <2>0, <1>o DEF OwnNumber
      <3> QED  BY <3>1, <3>2
    <2> QED  BY <2>2, <2>3 DEF CtInv
  <1>8. CASE KernelAnswers
    <2>1. PICK r \in asked : \/ Reply(r, "found", OrigDst[r.flow])
                             \/ Reply(r, "notfound", NoDst) \/ Reply(r, "error", NoDst)
      BY <1>8 DEF KernelAnswers
    <2>2. r.flow \in Flows  BY <1>t
    <2> QED  BY <2>1, <2>2, <1>7 DEF Outcomes
  <1>9. CASE KernelLoses
    <2>1. asked' \subseteq asked /\ UNCHANGED <<seq, call, queue, said>>
      BY <1>9 DEF KernelLoses
    <2>2. Queued' = Queued  BY <2>1 DEF Queued
    <2>3. OwnNumber'  BY <2>1, <2>2, <1>o DEF OwnNumber, Decisive
    <2> QED  BY <2>1, <2>3, <1>t DEF CtInv, CtTypeOK
  <1>10. CASE UNCHANGED ctVars
    BY <1>10 DEF ctVars, CtInv, CtTypeOK, OwnNumber, Queued, Decisive
  <1> QED
    BY <1>1, <1>2, <1>3, <1>4, <1>5, <1>6, <1>8, <1>9, <1>10 DEF Next

\* A destination, or the word that there is none, is what the kernel answered to
\* this very request, whatever late answers to earlier ones the socket still holds.
THEOREM AnswersBelong == Spec => AnswerIsOwn
  <1>1. ASSUME CtInv, [Next]_ctVars
        PROVE  [call # Nobody /\ call' = Nobody /\ last'.out \in {"found", "notfound"} =>
                  last' \in said]_ctVars
    <2> SUFFICES ASSUME Next, call # Nobody, call' = Nobody, last'.out \in {"found", "notfound"}
                 PROVE  last' \in said
      BY <1>1
    <2>q. queue \in Seq(Seq(Message))  BY <1>1 DEF CtInv, CtTypeOK
    <2>1. Receive \/ ReceiveFails
      BY DEF Next, CallClosed, CallFails, CallSends, Calls, ReceiveOther, ReceiveTimesOut, Close,
         KernelAnswers, KernelLoses, Reply
    <2>2. CASE Receive
      <3>1. PICK i \in DOMAIN Head(queue) :
               /\ FirstDecisive(Head(queue), i)
               /\ Returns(Answer(seq, call, Head(queue)[i].out, Head(queue)[i].dst))
        BY <2>2 DEF Receive
      <3>2. queue # <<>> /\ queue' = Tail(queue)  BY <2>2 DEF Receive
      <3>3. Head(queue)[i] \in Queued  BY <3>2, <2>q, TailQueued
      <3>4. Decisive(Head(queue)[i])  BY <3>1 DEF FirstDecisive
      <3>5. Answer(seq, call, Head(queue)[i].out, Head(queue)[i].dst) \in said
        BY <1>1, <3>3, <3>4 DEF CtInv, OwnNumber
      <3> QED  BY <3>1, <3>5 DEF Returns
    <2>3. CASE ReceiveFails
      <3>1. last'.out = "error"  BY <2>3 DEF ReceiveFails, Returns, Answer
      <3> QED  BY <3>1
    <2> QED  BY <2>1, <2>2, <2>3
  <1> QED  BY <1>1, CtInitOK, CtNextOK, PTL DEF Spec, AnswerIsOwn
=============================================================================
