------------------------ MODULE SourceLimiterProofs ------------------------
(***************************************************************************)
(* The per-source limit for any number of sources, any rate and burst that *)
(* an idle period refills, and any table size.                             *)
(***************************************************************************)
EXTENDS SourceLimiter, TLAPS

\* A bucket idle past the limit is full: what eviction relies on.
LEMMA IdleIsFull ==
    ASSUME IdleRefills, NEW t \in Nat, NEW g \in Nat, g > Idle
    PROVE  t + g * Rate >= Burst
  <1>1. Rate \in Nat /\ Idle \in Nat /\ Burst \in Nat  BY LimiterAssumption
  <1>2. g * Rate >= Idle * Rate  BY <1>1
  <1>3. Idle * Rate = Rate * Idle  BY <1>1
  <1> QED  BY <1>1, <1>2, <1>3 DEF IdleRefills

\* Initially no source has a bucket and every budget is whole.
LEMMA LimInitOK == LimInit => LimInv
  <1> QED  BY LimiterAssumption DEF LimInit, LimInv, LimTypeOK, BucketsMatch, Available

\* What a call finds in a bucket is between nothing and the burst.
LEMMA AvailableType ==
    ASSUME LimInv, NEW k \in SourceKeys
    PROVE  Available(k) \in 0..Burst
  <1>1. Rate \in Nat /\ Burst \in Nat  BY LimiterAssumption
  <1>2. tokens[k] \in Nat /\ age[k] \in Nat  BY LimiterAssumption DEF LimInv, LimTypeOK
  <1>3. age[k] * Rate \in Nat  BY <1>1, <1>2
  <1> QED  BY <1>1, <1>2, <1>3 DEF Available, Refilled, Least

\* Storing k's bucket with t units leaves every other source's budget as its
\* bucket, or its absence, says: an evicted bucket was full.
LEMMA StoreOK ==
    ASSUME LimInv, IdleRefills, NEW k \in SourceKeys, NEW t \in 0..Burst, Store(k, t),
           budget' = [budget EXCEPT ![k] = t]
    PROVE  LimInv'
  <1>c. Rate \in Nat /\ Burst \in Nat /\ Idle \in Nat  BY LimiterAssumption
  <1>t. tracked \subseteq SourceKeys /\ tokens \in [SourceKeys -> 0..Burst]
        /\ age \in [SourceKeys -> 0..(Idle + 1)] /\ budget \in [SourceKeys -> Int]
    BY DEF LimInv, LimTypeOK
  <1>r. Remaining(k) \subseteq tracked  BY DEF Remaining
  <1>1. LimTypeOK'
    <2>1. tracked' \subseteq SourceKeys  BY <1>t, <1>r DEF Store
    <2>2. tokens' \in [SourceKeys -> 0..Burst]  BY <1>t, <1>c DEF Store
    <2>3. age' \in [SourceKeys -> 0..(Idle + 1)]  BY <1>t, <1>c DEF Store
    <2>4. budget' \in [SourceKeys -> Int]  BY <1>t
    <2> QED  BY <2>1, <2>2, <2>3, <2>4 DEF LimTypeOK
  <1>2. ASSUME NEW x \in SourceKeys  PROVE budget'[x] = Available(x)'
    <2>1. CASE x = k
      <3>1. x \in tracked' /\ tokens'[x] = t /\ age'[x] = 0  BY <2>1 DEF Store
      <3>2. 0 * Rate = 0  BY <1>c
      <3>3. budget'[x] = t  BY <2>1, <1>t
      <3> QED  BY <3>1, <3>2, <3>3, <1>c DEF Available, Refilled, Least
    <2>2. CASE x # k /\ x \in Remaining(k)
      <3>1. x \in tracked' /\ x \in tracked /\ tokens'[x] = tokens[x] /\ age'[x] = age[x]
        BY <2>2, <1>r DEF Store
      <3>2. budget'[x] = budget[x]  BY <2>2, <1>t
      <3>3. budget[x] = Available(x)  BY DEF LimInv, BucketsMatch
      <3> QED  BY <3>1, <3>2, <3>3 DEF Available, Refilled
    <2>3. CASE x # k /\ x \notin Remaining(k)
      <3>1. x \notin tracked'  BY <2>3 DEF Store
      <3>2. budget'[x] = Available(x)  BY <2>3, <1>t DEF LimInv, BucketsMatch
      <3>3. Available(x) = Burst
        <4>1. CASE x \in tracked
          <5>1. age[x] > Idle  BY <4>1, <2>3 DEF Remaining, Evictable
          <5>2. tokens[x] \in Nat /\ age[x] \in Nat  BY <1>t, <1>c
          <5>3. tokens[x] + age[x] * Rate >= Burst  BY <5>1, <5>2, IdleIsFull
          <5>4. age[x] * Rate \in Nat  BY <5>2, <1>c
          <5> QED  BY <4>1, <5>2, <5>3, <5>4, <1>c DEF Available, Refilled, Least
        <4>2. CASE x \notin tracked  BY <4>2 DEF Available
        <4> QED  BY <4>1, <4>2
      <3> QED  BY <3>1, <3>2, <3>3 DEF Available
    <2> QED  BY <2>1, <2>2, <2>3
  <1> QED  BY <1>1, <1>2 DEF LimInv, BucketsMatch

\* An admitted datagram takes one token from the bucket and from the budget.
LEMMA AllowedOK ==
    ASSUME LimInv, IdleRefills, NEW a \in Addrs, Allowed(a)
    PROVE  LimInv'
  <1> DEFINE k == SourceKey[a]
  <1>1. k \in SourceKeys /\ Cost \in Nat /\ Burst \in Nat  BY LimiterAssumption
  <1>2. Available(k) \in 0..Burst  BY <1>1, AvailableType
  <1>3. Available(k) >= Cost /\ Store(k, Available(k) - Cost)
        /\ budget' = [budget EXCEPT ![k] = budget[k] - Cost]
    BY DEF Allowed
  <1>4. budget[k] = Available(k)  BY <1>1 DEF LimInv, BucketsMatch
  <1>5. Available(k) - Cost \in 0..Burst  BY <1>1, <1>2, <1>3
  <1>6. budget' = [budget EXCEPT ![k] = Available(k) - Cost]  BY <1>3, <1>4
  <1> HIDE DEF k
  <1> QED  BY <1>1, <1>3, <1>5, <1>6, StoreOK

\* A refusal for want of tokens refills the bucket and takes nothing.
LEMMA OverspentOK ==
    ASSUME LimInv, IdleRefills, NEW a \in Addrs, Overspent(a)
    PROVE  LimInv'
  <1> DEFINE k == SourceKey[a]
  <1>1. k \in SourceKeys  BY LimiterAssumption
  <1>2. Available(k) \in 0..Burst  BY <1>1, AvailableType
  <1>3. Store(k, Available(k)) /\ budget' = budget  BY DEF Overspent
  <1>4. budget[k] = Available(k) /\ budget \in [SourceKeys -> Int]
    BY <1>1 DEF LimInv, BucketsMatch, LimTypeOK
  <1>5. budget' = [budget EXCEPT ![k] = Available(k)]  BY <1>1, <1>3, <1>4
  <1> HIDE DEF k
  <1> QED  BY <1>1, <1>2, <1>3, <1>5, StoreOK

\* A tick adds to the budget what the next refill will add to the bucket.
LEMMA LimTickOK ==
    ASSUME LimInv, IdleRefills, LimTick
    PROVE  LimInv'
  <1>c. Rate \in Nat /\ Burst \in Nat /\ Idle \in Nat  BY LimiterAssumption
  <1>t. tracked \subseteq SourceKeys /\ tokens \in [SourceKeys -> 0..Burst]
        /\ age \in [SourceKeys -> 0..(Idle + 1)] /\ budget \in [SourceKeys -> Int]
    BY DEF LimInv, LimTypeOK
  <1>1. LimTypeOK'
    <2>1. age' \in [SourceKeys -> 0..(Idle + 1)]  BY <1>t, <1>c DEF LimTick
    <2>2. budget' \in [SourceKeys -> Int]  BY <1>t, <1>c DEF LimTick, Least
    <2> QED  BY <2>1, <2>2, <1>t DEF LimTypeOK, LimTick
  <1>2. ASSUME NEW x \in SourceKeys  PROVE budget'[x] = Available(x)'
    <2>1. budget[x] = Available(x)  BY DEF LimInv, BucketsMatch
    <2>2. budget'[x] = Least(Burst, Available(x) + Rate)  BY <2>1 DEF LimTick
    <2>3. tokens'[x] = tokens[x] /\ tracked' = tracked  BY DEF LimTick
    <2>4. tokens[x] \in Nat /\ age[x] \in Nat  BY <1>t, <1>c
    <2>5. age[x] * Rate \in Nat  BY <2>4, <1>c
    <2>6. CASE x \notin tracked
      <3>1. Available(x) = Burst /\ Available(x)' = Burst  BY <2>6, <2>3 DEF Available
      <3> QED  BY <3>1, <2>2, <1>c DEF Least
    <2>7. CASE x \in tracked /\ age[x] <= Idle
      <3>1. age'[x] = age[x] + 1  BY <2>7 DEF LimTick
      <3>2. (age[x] + 1) * Rate = age[x] * Rate + Rate  BY <2>4, <1>c
      <3>3. Available(x)' = Least(Burst, tokens[x] + (age[x] * Rate + Rate))
        BY <2>7, <2>3, <3>1, <3>2 DEF Available, Refilled
      <3>4. Available(x) = Least(Burst, tokens[x] + age[x] * Rate)  BY <2>7 DEF Available, Refilled
      <3>5. \A B, u, r \in Nat : Least(B, Least(B, u) + r) = Least(B, u + r)  BY DEF Least
      <3>6. tokens[x] + age[x] * Rate \in Nat  BY <2>4, <2>5
      <3>7. budget'[x] = Least(Burst, (tokens[x] + age[x] * Rate) + Rate)
        BY <3>4, <3>5, <3>6, <2>2, <1>c
      <3> QED  BY <3>3, <3>7, <2>4, <2>5, <1>c
    <2>8. CASE x \in tracked /\ ~(age[x] <= Idle)
      <3>1. age'[x] = age[x]  BY <2>8 DEF LimTick
      <3>2. age[x] > Idle  BY <2>8, <2>4, <1>c
      <3>3. tokens[x] + age[x] * Rate >= Burst  BY <2>4, <3>2, IdleIsFull
      <3>4. Available(x) = Burst  BY <2>8, <2>4, <2>5, <3>3, <1>c DEF Available, Refilled, Least
      <3>5. Available(x)' = Burst  BY <3>4, <2>8, <2>3, <3>1 DEF Available, Refilled
      <3> QED  BY <3>4, <3>5, <2>2, <1>c DEF Least
    <2> QED  BY <2>6, <2>7, <2>8
  <1> QED  BY <1>1, <1>2 DEF LimInv, BucketsMatch

\* The table's buckets always equal the budgets: neither lazy refills nor
\* evictions grant or lose anything, provided an idle period refills a bucket.
THEOREM LimiterInvariant == ASSUME IdleRefills PROVE LimSpec => []LimInv
  <1>1. LimInit => LimInv  BY LimInitOK
  <1>2. ASSUME LimInv, [LimNext]_limVars  PROVE LimInv'
    <2>1. CASE LimTick  BY <2>1, <1>2, LimTickOK
    <2>2. CASE \E a \in Addrs : Allowed(a)  BY <2>2, <1>2, AllowedOK
    <2>3. CASE \E a \in Addrs : Overspent(a)  BY <2>3, <1>2, OverspentOK
    <2>4. CASE UNCHANGED limVars
      BY <2>4, <1>2 DEF limVars, LimInv, LimTypeOK, BucketsMatch, Available, Refilled
    <2>5. CASE \E a \in Addrs : TableRefuses(a)  BY <2>5, <2>4 DEF TableRefuses
    <2> QED  BY <1>2, <2>1, <2>2, <2>3, <2>4, <2>5 DEF LimNext
  <1> QED  BY <1>1, <1>2, PTL DEF LimSpec

\* No source is ever admitted beyond its burst and its rate.
THEOREM LimiterBounds == ASSUME IdleRefills PROVE LimSpec => []NeverOverBudget
  <1>1. LimSpec => []LimInv  BY LimiterInvariant
  <1>2. LimInv => NeverOverBudget
    BY AvailableType, LimiterAssumption DEF LimInv, BucketsMatch, NeverOverBudget
  <1> QED  BY <1>1, <1>2, PTL
=============================================================================
