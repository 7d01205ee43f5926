----------------------- MODULE SecureHttpGatewayProofs ----------------------
(***************************************************************************)
(* Theorems about SecureHttpGateway, for any number of downloads, origins, *)
(* permits and redirects, any spacing, and whatever times out.             *)
(***************************************************************************)
EXTENDS SecureHttpGateway, SequenceTheorems, FiniteSetTheorems, TLAPS

-----------------------------------------------------------------------------
(***************************************************************************)
(* Queues without repetition.                                              *)
(***************************************************************************)
LEMMA AppendedQueue ==
  ASSUME NEW S, NEW s \in Seq(S), NEW x \in S
  PROVE  /\ Append(s, x) \in Seq(S) /\ Len(Append(s, x)) = Len(s) + 1
         /\ Range(Append(s, x)) = Range(s) \cup {x}
         /\ IsInjective(s) /\ x \notin Range(s) => IsInjective(Append(s, x))
  <1> DEFINE t == Append(s, x)
  <1>1. /\ t \in Seq(S) /\ Len(t) = Len(s) + 1
        /\ \A i \in 1 .. Len(s) : t[i] = s[i]
        /\ t[Len(s) + 1] = x
    BY AppendProperties
  <1>2. Len(s) \in Nat /\ DOMAIN s = 1 .. Len(s) /\ DOMAIN t = 1 .. Len(s) + 1
    BY <1>1
  <1> HIDE DEF t
  <1>3. \A y : y \in Range(s) <=> \E i \in 1 .. Len(s) : s[i] = y
    BY DEF Range
  <1>4. \A y : y \in Range(t) <=> \E i \in 1 .. Len(s) + 1 : t[i] = y
    BY <1>2 DEF Range
  <1>5. Range(t) = Range(s) \cup {x}
    <2>1. ASSUME NEW y \in Range(t)
          PROVE  y \in Range(s) \cup {x}
      BY <1>1, <1>2, <1>3, <1>4, <2>1
    <2>2. ASSUME NEW y \in Range(s) \cup {x}
          PROVE  y \in Range(t)
      BY <1>1, <1>2, <1>3, <1>4, <2>2
    <2> QED
      BY <2>1, <2>2
  <1>6. IsInjective(s) /\ x \notin Range(s) => IsInjective(t)
    <2> SUFFICES ASSUME IsInjective(s), x \notin Range(s),
                        NEW a \in 1 .. Len(s) + 1, NEW b \in 1 .. Len(s) + 1, t[a] = t[b]
                 PROVE  a = b
      BY <1>2 DEF IsInjective
    <2>1. a = Len(s) + 1 \/ b = Len(s) + 1 \/ (a \in 1 .. Len(s) /\ b \in 1 .. Len(s))
      BY <1>2
    <2> QED
      BY <1>1, <1>2, <1>3, <2>1 DEF IsInjective
  <1> QED
    BY <1>1, <1>5, <1>6 DEF t

LEMMA TailOfQueue ==
  ASSUME NEW S, NEW s \in Seq(S), s # <<>>
  PROVE  /\ Head(s) \in S /\ Head(s) \in Range(s) /\ Tail(s) \in Seq(S)
         /\ Len(Tail(s)) = Len(s) - 1
         /\ Range(Tail(s)) \subseteq Range(s)
         /\ IsInjective(s) => /\ IsInjective(Tail(s))
                              /\ Range(Tail(s)) = Range(s) \ {Head(s)}
  <1> DEFINE t == Tail(s)
  <1>1. /\ Head(s) \in S /\ t \in Seq(S) /\ Len(t) = Len(s) - 1
        /\ \A i \in 1 .. Len(t) : t[i] = s[i + 1]
    BY HeadTailProperties
  <1>2. /\ Len(s) \in Nat \ {0} /\ DOMAIN s = 1 .. Len(s) /\ DOMAIN t = 1 .. Len(s) - 1
        /\ Head(s) = s[1]
    BY <1>1, EmptySeq
  <1> HIDE DEF t
  <1>3. \A y : y \in Range(s) <=> \E i \in 1 .. Len(s) : s[i] = y
    BY DEF Range
  <1>4. \A y : y \in Range(t) <=> \E i \in 1 .. Len(s) - 1 : s[i + 1] = y
    BY <1>1, <1>2 DEF Range
  <1>5. Range(t) \subseteq Range(s) /\ Head(s) \in Range(s)
    BY <1>2, <1>3, <1>4
  <1>6. ASSUME IsInjective(s)
        PROVE  IsInjective(t) /\ Range(t) = Range(s) \ {Head(s)}
    <2>1. \A a, b \in 1 .. Len(s) : s[a] = s[b] => a = b
      BY <1>2, <1>6 DEF IsInjective
    <2>2. IsInjective(t)
      BY <1>1, <1>2, <2>1 DEF IsInjective
    <2>3. ASSUME NEW y \in Range(t)
          PROVE  y \in Range(s) /\ y # Head(s)
      BY <1>2, <1>3, <1>4, <2>1
    <2>4. ASSUME NEW y \in Range(s) \ {Head(s)}
          PROVE  y \in Range(t)
      <3>1. PICK i \in 1 .. Len(s) : s[i] = y
        BY <1>3
      <3>2. i # 1 /\ i - 1 \in 1 .. Len(s) - 1 /\ s[(i - 1) + 1] = y
        BY <1>2, <3>1
      <3> QED
        BY <1>4, <3>2
    <2> QED
      BY <2>2, <2>3, <2>4
  <1> QED
    BY <1>1, <1>5, <1>6 DEF t

LEMMA RemovedFromQueue ==
  ASSUME NEW S, NEW s \in Seq(S), NEW k \in 1 .. Len(s)
  PROVE  /\ RemoveAt(s, k) \in Seq(S) /\ Len(RemoveAt(s, k)) = Len(s) - 1
         /\ Range(RemoveAt(s, k)) \subseteq Range(s)
         /\ IsInjective(s) => /\ IsInjective(RemoveAt(s, k))
                              /\ Range(RemoveAt(s, k)) = Range(s) \ {s[k]}
  <1> DEFINE before == SubSeq(s, 1, k - 1)
             after == SubSeq(s, k + 1, Len(s))
             t == RemoveAt(s, k)
  <1> HIDE DEF before, after, t
  <1>1. Len(s) \in Nat /\ k \in Nat /\ DOMAIN s = 1 .. Len(s) /\ \A i \in 1 .. Len(s) : s[i] \in S
    OBVIOUS
  <1>2. /\ before \in Seq(S) /\ Len(before) = k - 1
        /\ \A i \in 1 .. k - 1 : before[i] = s[i]
    <2>1. \A i \in 1 .. k - 1 : s[i] \in S
      BY <1>1
    <2>2. /\ before \in Seq(S) /\ Len(before) = IF 1 <= k - 1 THEN (k - 1) - 1 + 1 ELSE 0
          /\ \A i \in 1 .. (k - 1) - 1 + 1 : before[i] = s[1 + i - 1]
      BY <1>1, <2>1, SubSeqProperties DEF before
    <2>3. Len(before) = k - 1
      BY <1>1, <2>2
    <2>4. \A i \in 1 .. k - 1 : i \in 1 .. (k - 1) - 1 + 1 /\ 1 + i - 1 = i
      BY <1>1
    <2> QED
      BY <2>2, <2>3, <2>4
  <1>3. /\ after \in Seq(S) /\ Len(after) = Len(s) - k
        /\ \A i \in 1 .. Len(s) - k : after[i] = s[k + i]
    <2>1. \A i \in k + 1 .. Len(s) : s[i] \in S
      BY <1>1
    <2>2. /\ after \in Seq(S) /\ Len(after) = IF k + 1 <= Len(s) THEN Len(s) - (k + 1) + 1 ELSE 0
          /\ \A i \in 1 .. Len(s) - (k + 1) + 1 : after[i] = s[(k + 1) + i - 1]
      BY <1>1, <2>1, SubSeqProperties DEF after
    <2>3. Len(after) = Len(s) - k
      <3>1. CASE k + 1 <= Len(s)
        <4>1. Len(after) = Len(s) - (k + 1) + 1
          BY <2>2, <3>1
        <4>2. Len(s) - (k + 1) + 1 = Len(s) - k
          BY <1>1
        <4> QED
          BY <4>1, <4>2
      <3>2. CASE k = Len(s)
        <4>1. ~(k + 1 <= Len(s)) /\ Len(s) - k = 0
          BY <1>1, <3>2
        <4> QED
          BY <2>2, <4>1
      <3>3. Len(s) \in Nat /\ k \in Nat /\ k <= Len(s)
        BY <1>1
      <3>4. k + 1 <= Len(s) \/ k = Len(s)
        BY <3>3
      <3> QED
        BY <3>1, <3>2, <3>4
    <2>4. \A i \in 1 .. Len(s) - k : i \in 1 .. Len(s) - (k + 1) + 1 /\ (k + 1) + i - 1 = k + i
      BY <1>1
    <2> QED
      BY <2>2, <2>3, <2>4
  <1>4. t = before \o after
    BY DEF RemoveAt, before, after, t
  <1>5. /\ t \in Seq(S) /\ Len(t) = Len(s) - 1
        /\ \A i \in 1 .. Len(s) - 1 : t[i] = IF i < k THEN s[i] ELSE s[i + 1]
    <2>1. /\ before \o after \in Seq(S)
          /\ Len(before \o after) = Len(before) + Len(after)
          /\ \A i \in 1 .. Len(before) + Len(after) :
               (before \o after)[i] =
                 IF i <= Len(before) THEN before[i] ELSE after[i - Len(before)]
      BY <1>2, <1>3, ConcatProperties
    <2>2. ASSUME NEW i \in 1 .. Len(s) - 1
          PROVE  t[i] = IF i < k THEN s[i] ELSE s[i + 1]
      <3>1. CASE i < k
        BY <1>1, <1>2, <1>3, <1>4, <2>1, <3>1
      <3>2. CASE ~(i < k)
        <4>1. i - (k - 1) \in 1 .. Len(s) - k /\ k + (i - (k - 1)) = i + 1
          BY <1>1, <3>2
        <4>2. t[i] = after[i - (k - 1)]
          BY <1>1, <1>2, <1>3, <1>4, <2>1, <3>2
        <4> QED
          BY <1>3, <3>2, <4>1, <4>2
      <3> QED
        BY <3>1, <3>2
    <2> QED
      BY <1>1, <1>2, <1>3, <1>4, <2>1, <2>2
  <1>6. DOMAIN t = 1 .. Len(s) - 1
    BY <1>5
  <1>7. \A y : y \in Range(s) <=> \E i \in 1 .. Len(s) : s[i] = y
    BY DEF Range
  <1>8. \A y : y \in Range(t) <=> \E i \in 1 .. Len(s) : i # k /\ s[i] = y
    <2>1. ASSUME NEW y \in Range(t)
          PROVE  \E i \in 1 .. Len(s) : i # k /\ s[i] = y
      <3>1. PICK i \in 1 .. Len(s) - 1 : t[i] = y
        BY <1>6 DEF Range
      <3>2. CASE i < k
        BY <1>1, <1>5, <3>1, <3>2
      <3>3. CASE ~(i < k)
        BY <1>1, <1>5, <3>1, <3>3
      <3> QED
        BY <3>2, <3>3
    <2>2. ASSUME NEW i \in 1 .. Len(s), i # k
          PROVE  s[i] \in Range(t)
      <3>1. CASE i < k
        <4>1. i \in 1 .. Len(s) - 1 /\ t[i] = s[i]
          BY <1>1, <1>5, <3>1
        <4> QED
          BY <1>6, <4>1 DEF Range
      <3>2. CASE i > k
        <4>1. i - 1 \in 1 .. Len(s) - 1 /\ t[i - 1] = s[i]
          BY <1>1, <1>5, <3>2
        <4> QED
          BY <1>6, <4>1 DEF Range
      <3> QED
        BY <1>1, <2>2, <3>1, <3>2
    <2> QED
      BY <2>1, <2>2
  <1>9. ASSUME IsInjective(s)
        PROVE  IsInjective(t) /\ Range(t) = Range(s) \ {s[k]}
    <2>1. \A a, b \in 1 .. Len(s) : s[a] = s[b] => a = b
      BY <1>1, <1>9 DEF IsInjective
    <2>2. ASSUME NEW a \in 1 .. Len(s) - 1, NEW b \in 1 .. Len(s) - 1, t[a] = t[b]
          PROVE  a = b
      BY <1>1, <1>5, <2>1, <2>2
    <2> QED
      BY <1>6, <1>7, <1>8, <2>1, <2>2 DEF IsInjective
  <1> QED
    BY <1>5, <1>7, <1>8, <1>9 DEF t

-----------------------------------------------------------------------------
(***************************************************************************)
(* The semaphore.  It sees of a download only whether it holds a permit,   *)
(* waits for one or neither.                                               *)
(***************************************************************************)
Semaphore ==
  /\ step \in [Download -> Holding \cup {"idle", "waiting"}]
  /\ active \in Nat
  /\ waiters \in Seq(Download)
  /\ PermitsAreConserved

Holders == {p \in Download : step[p] \in Holding}
Waiting == {p \in Download : step[p] = "waiting"}

LEMMA HoldersAreFinite ==
  IsFiniteSet(Holders) /\ Cardinality(Holders) \in Nat
  BY GatewayAssumption, FS_Subset, FS_CardinalityType DEF Holders

LEMMA HoldingStep ==
  ASSUME Semaphore, NEW p \in Download, NEW x \in Holding, step[p] \in Holding,
         step' = [step EXCEPT ![p] = x], UNCHANGED semaphore
  PROVE  Semaphore'
  <1>1. Holders' = Holders /\ Waiting' = Waiting
    BY DEF Semaphore, Holders, Waiting, Holding, Calling
  <1>2. step' \in [Download -> Holding \cup {"idle", "waiting"}]
    BY DEF Semaphore
  <1> QED
    BY <1>1, <1>2 DEF Semaphore, PermitsAreConserved, semaphore, Holders, Waiting

LEMMA BeginTakesOrQueues ==
  ASSUME Semaphore, NEW p \in Download, NEW o \in Origin, NEW timeout \in Timeouts,
         Begin(p, o, timeout)
  PROVE  Semaphore'
  <1>1. step[p] = "idle" /\ p \notin Holders /\ p \notin Waiting
    BY DEF Begin, Holders, Waiting, Holding, Calling
  <1>2. CASE active < MaxConcurrency /\ active' = active + 1
             /\ step' = [step EXCEPT ![p] = "approve"] /\ UNCHANGED waiters
    <2>1. step' \in [Download -> Holding \cup {"idle", "waiting"}]
      BY <1>2 DEF Semaphore, Holding
    <2>2. Holders' = Holders \cup {p} /\ Waiting' = Waiting
      BY <1>1, <1>2 DEF Semaphore, Holders, Waiting, Holding
    <2>3. Cardinality(Holders') = Cardinality(Holders) + 1
      BY <1>1, <2>2, HoldersAreFinite, FS_AddElement
    <2>4. waiters = <<>>
      BY <1>2, GatewayAssumption DEF Semaphore, PermitsAreConserved
    <2> QED
      BY <1>2, <2>1, <2>2, <2>3, <2>4, GatewayAssumption
      DEF Semaphore, PermitsAreConserved, Holders, Waiting
  <1>3. CASE active >= MaxConcurrency /\ waiters' = Append(waiters, p)
             /\ step' = [step EXCEPT ![p] = "waiting"] /\ UNCHANGED active
    <2>1. step' \in [Download -> Holding \cup {"idle", "waiting"}]
      BY <1>3 DEF Semaphore, Holding
    <2>2. Holders' = Holders /\ Waiting' = Waiting \cup {p}
      BY <1>1, <1>3 DEF Semaphore, Holders, Waiting, Holding, Calling
    <2>3. Range(waiters) = Waiting /\ IsInjective(waiters) /\ waiters \in Seq(Download)
      BY DEF Semaphore, PermitsAreConserved, Waiting
    <2>4. waiters' \in Seq(Download) /\ Range(waiters') = Waiting' /\ IsInjective(waiters')
      BY <1>1, <1>3, <2>2, <2>3, AppendedQueue
    <2>5. active = MaxConcurrency
      BY <1>3, GatewayAssumption DEF Semaphore, PermitsAreConserved
    <2> QED
      BY <1>3, <2>1, <2>2, <2>4, <2>5 DEF Semaphore, PermitsAreConserved, Holders, Waiting
  <1> QED
    BY <1>2, <1>3 DEF Begin

LEMMA TimeoutLeavesTheQueue ==
  ASSUME Semaphore, NEW p \in Download, AcquireTimeout(p)
  PROVE  Semaphore'
  <1>1. PICK i \in DOMAIN waiters : waiters[i] = p /\ waiters' = RemoveAt(waiters, i)
    BY DEF AcquireTimeout
  <1>2. /\ step[p] = "waiting" /\ step' = [step EXCEPT ![p] = "idle"] /\ active' = active
    BY DEF AcquireTimeout
  <1>3. step' \in [Download -> Holding \cup {"idle", "waiting"}]
    BY <1>2 DEF Semaphore
  <1>4. Holders' = Holders /\ Waiting' = Waiting \ {p}
    BY <1>2 DEF Semaphore, Holders, Waiting, Holding, Calling
  <1>5. Range(waiters) = Waiting /\ IsInjective(waiters) /\ waiters \in Seq(Download)
    BY DEF Semaphore, PermitsAreConserved, Waiting
  <1>6. i \in 1 .. Len(waiters) /\ waiters # <<>>
    BY <1>1, <1>5, EmptySeq
  <1>7. waiters' \in Seq(Download) /\ Range(waiters') = Waiting' /\ IsInjective(waiters')
    BY <1>1, <1>4, <1>5, <1>6, RemovedFromQueue
  <1> QED
    BY <1>2, <1>3, <1>4, <1>6, <1>7 DEF Semaphore, PermitsAreConserved, Holders, Waiting

(* What End does to the steps of the others.                               *)
LEMMA EndWakesAtMostOne ==
  ASSUME Semaphore, NEW p \in Download, step[p] \in Holding, End(p)
  PROVE  /\ Semaphore'
         /\ step'[p] = "idle"
         /\ \A q \in Download \ {p} :
              step'[q] = step[q] \/ (step[q] = "waiting" /\ step'[q] = "approve")
  <1>1. p \in Holders /\ step \in [Download -> Holding \cup {"idle", "waiting"}]
    BY DEF Holders, Semaphore
  <1>2. CASE waiters = <<>> /\ active' = active - 1
             /\ step' = [step EXCEPT ![p] = "idle"] /\ UNCHANGED waiters
    <2>1. step' \in [Download -> Holding \cup {"idle", "waiting"}]
      BY <1>1, <1>2
    <2>2. Holders' = Holders \ {p} /\ Waiting' = Waiting
      BY <1>1, <1>2 DEF Holders, Waiting, Holding, Calling
    <2>3. Cardinality(Holders') = Cardinality(Holders) - 1 /\ Cardinality(Holders') \in Nat
      BY <1>1, <2>2, HoldersAreFinite, FS_RemoveElement, FS_CardinalityType
    <2>4. active = Cardinality(Holders)
      BY DEF Semaphore, PermitsAreConserved, Holders
    <2>5. active' \in Nat /\ active' = Cardinality(Holders') /\ active' <= MaxConcurrency
      BY <1>2, <2>3, <2>4, GatewayAssumption DEF Semaphore, PermitsAreConserved
    <2> QED
      BY <1>1, <1>2, <2>1, <2>2, <2>5 DEF Semaphore, PermitsAreConserved, Holders, Waiting
  <1>3. CASE waiters # <<>> /\ waiters' = Tail(waiters)
             /\ step' = [step EXCEPT ![p] = "idle", ![Head(waiters)] = "approve"]
             /\ UNCHANGED active
    <2> DEFINE h == Head(waiters)
    <2>1. Range(waiters) = Waiting /\ IsInjective(waiters) /\ waiters \in Seq(Download)
      BY DEF Semaphore, PermitsAreConserved, Waiting
    <2>2. /\ h \in Waiting /\ waiters' \in Seq(Download)
          /\ Range(waiters') = Waiting \ {h} /\ IsInjective(waiters')
      BY <1>3, <2>1, TailOfQueue
    <2>3. step' = [step EXCEPT ![p] = "idle", ![h] = "approve"]
      BY <1>3
    <2> HIDE DEF h
    <2>4. h \in Download /\ step[h] = "waiting" /\ h # p /\ h \notin Holders
      BY <2>2 DEF Waiting, Holding, Calling, Holders
    <2>5. /\ step' \in [Download -> Holding \cup {"idle", "waiting"}]
          /\ step'[p] = "idle" /\ step'[h] = "approve"
          /\ \A q \in Download \ {p, h} : step'[q] = step[q]
      BY <1>1, <2>3, <2>4 DEF Holding
    <2>6. Holders' = (Holders \ {p}) \cup {h} /\ Waiting' = Waiting \ {h}
      BY <1>1, <2>4, <2>5 DEF Holders, Waiting, Holding, Calling
    <2>7. Cardinality(Holders') = Cardinality(Holders)
      <3>1. /\ IsFiniteSet(Holders \ {p})
            /\ Cardinality(Holders \ {p}) = Cardinality(Holders) - 1
        BY <1>1, HoldersAreFinite, FS_RemoveElement
      <3>2. Cardinality(Holders') = Cardinality(Holders \ {p}) + 1
        BY <2>4, <2>6, <3>1, FS_AddElement
      <3> QED
        BY <3>1, <3>2, HoldersAreFinite
    <2> QED
      BY <1>3, <2>2, <2>4, <2>5, <2>6, <2>7
      DEF Semaphore, PermitsAreConserved, Holders, Waiting
  <1> QED
    BY <1>2, <1>3 DEF End

LEMMA SemaphoreStep ==
  ASSUME Semaphore, [Next]_vars
  PROVE  Semaphore'
  <1>1. CASE UNCHANGED <<step, semaphore>>
    BY <1>1 DEF Semaphore, PermitsAreConserved, semaphore
  <1>2. ASSUME NEW p \in Download, Turn(p)
        PROVE  Semaphore'
    <2>1. step[p] \in Holding /\ "request" \in Holding /\ "pausing" \in Holding
      BY <1>2 DEF Turn, Holding, Calling
    <2>2. CASE End(p)
      BY <2>1, <2>2, EndWakesAtMostOne
    <2>3. CASE step' = [step EXCEPT ![p] = "request"] /\ UNCHANGED semaphore
      BY <2>1, <2>3, HoldingStep
    <2>4. CASE step' = [step EXCEPT ![p] = "pausing"] /\ UNCHANGED semaphore
      BY <2>1, <2>4, HoldingStep
    <2> QED
      BY <1>2, <2>2, <2>3, <2>4 DEF Turn, GiveUp, Send
  <1>3. ASSUME NEW p \in Download, Pause(p) \/ Approve(p) \/ RobotsAllow(p)
        PROVE  Semaphore'
    <2>1. step[p] \in Holding
      BY <1>3 DEF Pause, Approve, RobotsAllow, Holding, Calling
    <2> QED
      BY <1>3, <2>1, HoldingStep DEF Pause, Send, Approve, RobotsAllow, Enter, Holding, Calling
  <1>4. ASSUME NEW p \in Download, QueueTimeout(p) \/ Finish(p)
        PROVE  Semaphore'
    <2>1. step[p] \in Holding /\ End(p)
      BY <1>4 DEF QueueTimeout, GiveUp, Finish, Holding, Calling
    <2> QED
      BY <2>1, EndWakesAtMostOne
  <1>5. ASSUME NEW p \in Download, NEW o \in Origin, Redirected(p, o)
        PROVE  Semaphore'
    <2>1. step[p] \in Holding /\ "approve" \in Holding
      BY <1>5 DEF Redirected, Holding
    <2> QED
      BY <1>5, <2>1, HoldingStep DEF Redirected
  <1>6. CASE Next
    BY <1>1, <1>2, <1>3, <1>4, <1>5, <1>6, BeginTakesOrQueues, TimeoutLeavesTheQueue
    DEF Next, Tick, Begins, Redirections, Advance, ReadRobots, Retry
  <1> QED
    BY <1>1, <1>6 DEF vars

LEMMA SemaphoreInit ==
  ASSUME Init
  PROVE  Semaphore
  <1>1. Holders = {} /\ Waiting = {}
    BY DEF Init, Holders, Waiting, Holding, Calling
  <1>2. Cardinality({}) = 0
    BY FS_EmptySet
  <1>3. IsInjective(<<>>) /\ Range(<<>>) = {}
    BY DEF IsInjective, Range
  <1>4. /\ active = 0 /\ waiters = <<>> /\ step = [p \in Download |-> "idle"]
        /\ 0 <= MaxConcurrency /\ waiters \in Seq(Download)
    BY GatewayAssumption DEF Init
  <1>5. step \in [Download -> Holding \cup {"idle", "waiting"}]
    BY <1>4
  <1>6. PermitsAreConserved
    BY <1>1, <1>2, <1>3, <1>4 DEF PermitsAreConserved, Holders, Waiting
  <1> QED
    BY <1>4, <1>5, <1>6 DEF Semaphore

(* Permits are conserved (acquire, release), whatever times out.           *)
THEOREM PermitsInvariant == Spec => []PermitsAreConserved
  <1>1. Semaphore /\ [Next]_vars => Semaphore'
    BY SemaphoreStep
  <1>2. Semaphore => PermitsAreConserved
    BY DEF Semaphore
  <1> QED
    BY <1>1, <1>2, SemaphoreInit, PTL DEF Spec

-----------------------------------------------------------------------------
(***************************************************************************)
(* The URL each download follows.                                          *)
(***************************************************************************)
Travels(p) ==
  /\ step[p] # "idle" => hop[p] \in Hop
  /\ step[p] # "idle" /\ hop[p].robots =>
       page[p] \in Hop /\ ~page[p].robots /\ page[p].redirects <= MaxRedirects
  /\ step[p] \in {"request"} \cup Calling => hop[p].redirects <= MaxRedirects

Path ==
  /\ now \in Time
  /\ deadline \in [Download -> Time]
  /\ hop \in [Download -> Hop \cup {NoHop}] /\ page \in [Download -> Hop \cup {NoHop}]
  /\ robotsCache \in [Download -> SUBSET Origin]
  /\ \A p \in Download : Travels(p)

LEMMA HopFields ==
  /\ \A h \in Hop : h.origin \in Origin /\ h.redirects \in 0 .. MaxRedirects + 1 /\ h.robots \in BOOLEAN
  /\ \A o \in Origin, n \in 0 .. MaxRedirects + 1, r \in BOOLEAN :
       [origin |-> o, redirects |-> n, robots |-> r] \in Hop
  /\ NoHop.origin = None /\ NoHop.redirects = 0 /\ NoHop.robots = FALSE
  BY DEF Hop, NoHop

LEMMA OthersTravel ==
  ASSUME NEW q \in Download, Travels(q), hop'[q] = hop[q], page'[q] = page[q],
         step'[q] = step[q] \/ (step[q] = "waiting" /\ step'[q] = "approve")
  PROVE  Travels(q)'
  BY DEF Travels, Calling

(* A step of p that leaves the URLs of the others alone.                   *)
LEMMA PathStep ==
  ASSUME Path, NEW p \in Download,
         now' = now, deadline' \in [Download -> Time],
         robotsCache' \in [Download -> SUBSET Origin],
         NEW h \in Hop \cup {NoHop}, hop' = [hop EXCEPT ![p] = h],
         NEW g \in Hop \cup {NoHop}, page' = [page EXCEPT ![p] = g],
         \A q \in Download \ {p} :
           step'[q] = step[q] \/ (step[q] = "waiting" /\ step'[q] = "approve"),
         Travels(p)'
  PROVE  Path'
  <1>1. /\ hop' \in [Download -> Hop \cup {NoHop}] /\ page' \in [Download -> Hop \cup {NoHop}]
        /\ \A q \in Download \ {p} : hop'[q] = hop[q] /\ page'[q] = page[q]
    BY DEF Path
  <1>2. ASSUME NEW q \in Download \ {p} PROVE Travels(q)'
    BY <1>1, OthersTravel DEF Path
  <1> QED
    BY <1>1, <1>2 DEF Path

LEMMA EndForgets ==
  ASSUME Semaphore, Path, NEW p \in Download, step[p] \in Holding, End(p), now' = now
  PROVE  Path'
  <1>1. /\ step'[p] = "idle"
        /\ \A q \in Download \ {p} :
             step'[q] = step[q] \/ (step[q] = "waiting" /\ step'[q] = "approve")
    BY EndWakesAtMostOne
  <1>2. /\ deadline' \in [Download -> Time] /\ robotsCache' \in [Download -> SUBSET Origin]
        /\ hop' = [hop EXCEPT ![p] = NoHop] /\ page' = [page EXCEPT ![p] = NoHop]
    BY GatewayAssumption DEF Path, End, Forget, Time
  <1>3. Travels(p)'
    BY <1>1 DEF Travels, Calling
  <1> QED
    BY <1>1, <1>2, <1>3, PathStep

(* A step of p that changes only the step.                                 *)
LEMMA PathKept ==
  ASSUME Semaphore, Path, NEW p \in Download, NEW x \in {"request", "pausing", "queued"},
         step[p] \in Holding, hop[p].redirects <= MaxRedirects,
         step' = [step EXCEPT ![p] = x],
         UNCHANGED <<now, deadline, hop, page, robotsCache>>
  PROVE  Path'
  <1>1. step'[p] = x /\ \A q \in Download \ {p} : step'[q] = step[q]
    BY DEF Semaphore
  <1>2. Travels(p)'
    BY <1>1 DEF Travels, Path, Holding, Calling
  <1>3. ASSUME NEW q \in Download \ {p} PROVE Travels(q)'
    BY <1>1, OthersTravel DEF Path
  <1> QED
    BY <1>2, <1>3 DEF Path

LEMMA PathInit ==
  ASSUME Init
  PROVE  Path
  <1>1. now \in Time /\ 0 \in Time /\ now = 0
    BY GatewayAssumption DEF Init, Time
  <1>2. \A p \in Download : Travels(p)
    BY DEF Init, Travels, Calling
  <1> QED
    BY <1>1, <1>2 DEF Init, Path

LEMMA PathNext ==
  ASSUME Semaphore, Path, [Next]_vars
  PROVE  Path'
  <1>1. CASE UNCHANGED <<step, deadline, hop, page, robotsCache>> /\ now' \in Time
    BY <1>1 DEF Path, Travels
  <1>2. ASSUME NEW p \in Download, NEW o \in Origin, NEW timeout \in Timeouts, Begin(p, o, timeout)
        PROVE  Path'
    <2> DEFINE h == [origin |-> o, redirects |-> 0, robots |-> FALSE]
    <2>1. /\ step'[p] # "idle" /\ step'[p] \notin {"request"} \cup Calling
          /\ \A q \in Download \ {p} : step'[q] = step[q]
      BY <1>2 DEF Begin, Semaphore, Calling
    <2>2. h \in Hop /\ ~h.robots
      <3>1. 0 \in 0 .. MaxRedirects + 1
        BY GatewayAssumption
      <3> QED
        BY <3>1, HopFields
    <2>3. now' = now /\ hop' = [hop EXCEPT ![p] = h] /\ page' = page /\ robotsCache' = robotsCache
      BY <1>2 DEF Begin
    <2>4. now + timeout \in Time
      BY <1>2, GatewayAssumption DEF Begin, Path, Time
    <2>5. deadline' \in [Download -> Time]
      BY <1>2, <2>4 DEF Begin, Path
    <2>6. hop'[p] = h /\ page' = [page EXCEPT ![p] = page[p]] /\ page[p] \in Hop \cup {NoHop}
      BY <2>3 DEF Path
    <2> HIDE DEF h
    <2>7. Travels(p)'
      BY <2>1, <2>2, <2>6 DEF Travels
    <2>8. robotsCache' \in [Download -> SUBSET Origin]
      BY <2>3 DEF Path
    <2> QED
      BY <2>1, <2>2, <2>3, <2>5, <2>6, <2>7, <2>8, PathStep
  <1>3. ASSUME NEW p \in Download, AcquireTimeout(p)
        PROVE  Path'
    <2>1. now' = now /\ step'[p] = "idle" /\ \A q \in Download \ {p} : step'[q] = step[q]
      BY <1>3 DEF AcquireTimeout, Semaphore
    <2>2. /\ deadline' \in [Download -> Time] /\ robotsCache' \in [Download -> SUBSET Origin]
          /\ hop' = [hop EXCEPT ![p] = NoHop] /\ page' = [page EXCEPT ![p] = NoHop]
      BY <1>3, GatewayAssumption DEF Path, AcquireTimeout, Forget, Time
    <2>3. Travels(p)'
      BY <2>1 DEF Travels, Calling
    <2> QED
      BY <2>1, <2>2, <2>3, PathStep
  <1>4. ASSUME NEW p \in Download, Turn(p) \/ Pause(p) \/ QueueTimeout(p)
        PROVE  Path'
    <2>1. /\ step[p] \in Calling /\ step[p] \in Holding
          /\ hop[p].redirects <= MaxRedirects
      BY <1>4 DEF Turn, Pause, QueueTimeout, Calling, Holding, Path, Travels
    <2>2. CASE GiveUp(p)
      BY <2>1, <2>2, EndForgets DEF GiveUp
    <2>3. CASE Send(p)
      BY <2>1, <2>3, PathKept DEF Send
    <2>4. CASE step' = [step EXCEPT ![p] = "pausing"]
               /\ UNCHANGED <<now, deadline, hop, page, robotsCache>>
      BY <2>1, <2>4, PathKept
    <2> QED
      BY <1>4, <2>2, <2>3, <2>4 DEF Turn, Pause, QueueTimeout
  <1>5. ASSUME NEW p \in Download, ReadRobots(p)
        PROVE  Path'
    <2> DEFINE h == [origin |-> hop[p].origin, redirects |-> 0, robots |-> TRUE]
    <2>1. step[p] = "approve" /\ step' = step /\ now' = now /\ deadline' = deadline
          /\ robotsCache' = robotsCache /\ page' = [page EXCEPT ![p] = hop[p]]
          /\ hop' = [hop EXCEPT ![p] = h] /\ hop[p].redirects <= MaxRedirects /\ ~hop[p].robots
      BY <1>5 DEF ReadRobots, NeedsRobots
    <2>2. hop[p] \in Hop
      BY <2>1 DEF Path, Travels
    <2>3. h \in Hop
      <3>1. 0 \in 0 .. MaxRedirects + 1 /\ hop[p].origin \in Origin
        BY <2>2, HopFields, GatewayAssumption
      <3> QED
        BY <3>1 DEF Hop
    <2>4. hop'[p] = h /\ page'[p] = hop[p]
      BY <2>1 DEF Path
    <2> HIDE DEF h
    <2>5. Travels(p)'
      BY <2>1, <2>2, <2>3, <2>4 DEF Travels, Calling
    <2>6. deadline' \in [Download -> Time] /\ robotsCache' \in [Download -> SUBSET Origin]
      BY <2>1 DEF Path
    <2> QED
      BY <2>1, <2>2, <2>3, <2>5, <2>6, PathStep
  <1>6. ASSUME NEW p \in Download, Approve(p)
        PROVE  Path'
    BY <1>6, PathKept DEF Approve, Enter, Holding
  <1>7. ASSUME NEW p \in Download, NEW o \in Origin, Redirected(p, o)
        PROVE  Path'
    <2> DEFINE h == [origin |-> o, redirects |-> hop[p].redirects + 1, robots |-> hop[p].robots]
    <2>1. /\ step[p] = "request" /\ step' = [step EXCEPT ![p] = "approve"]
          /\ now' = now /\ deadline' = deadline
          /\ robotsCache' = robotsCache /\ page' = page /\ hop' = [hop EXCEPT ![p] = h]
      BY <1>7 DEF Redirected
    <2>2. hop[p] \in Hop /\ hop[p].redirects <= MaxRedirects
      BY <2>1 DEF Path, Travels
    <2>3. hop[p].redirects + 1 \in 0 .. MaxRedirects + 1 /\ hop[p].robots \in BOOLEAN
      BY <2>2, HopFields, GatewayAssumption
    <2>4. h \in Hop /\ h.robots = hop[p].robots
      BY <2>3, HopFields
    <2>5. hop'[p] = h /\ page' = [page EXCEPT ![p] = page[p]] /\ page[p] \in Hop \cup {NoHop}
          /\ step'[p] = "approve" /\ \A q \in Download \ {p} : step'[q] = step[q]
      BY <2>1 DEF Path, Semaphore
    <2> HIDE DEF h
    <2>6. Travels(p)'
      BY <2>1, <2>2, <2>4, <2>5 DEF Travels, Calling, Path
    <2>7. deadline' \in [Download -> Time] /\ robotsCache' \in [Download -> SUBSET Origin]
      BY <2>1 DEF Path
    <2> QED
      BY <2>1, <2>4, <2>5, <2>6, <2>7, PathStep
  <1>8. ASSUME NEW p \in Download, RobotsAllow(p)
        PROVE  Path'
    <2>1. /\ step[p] = "request" /\ hop[p].robots /\ step' = [step EXCEPT ![p] = "queued"]
          /\ now' = now /\ deadline' = deadline
          /\ robotsCache' = [robotsCache EXCEPT ![p] = @ \cup {page[p].origin}]
          /\ hop' = [hop EXCEPT ![p] = page[p]] /\ page' = [page EXCEPT ![p] = NoHop]
      BY <1>8 DEF RobotsAllow, Enter
    <2>2. page[p] \in Hop /\ ~page[p].robots /\ page[p].redirects <= MaxRedirects
      BY <2>1 DEF Path, Travels
    <2>3. /\ hop'[p] = page[p] /\ step'[p] = "queued"
          /\ \A q \in Download \ {p} : step'[q] = step[q]
      BY <2>1 DEF Path, Semaphore
    <2>4. Travels(p)'
      BY <2>2, <2>3 DEF Travels
    <2>5. page[p].origin \in Origin
      BY <2>2, HopFields
    <2>6. deadline' \in [Download -> Time] /\ robotsCache' \in [Download -> SUBSET Origin]
      BY <2>1, <2>5 DEF Path
    <2> QED
      BY <2>1, <2>2, <2>3, <2>4, <2>6, PathStep
  <1>9. ASSUME NEW p \in Download, Finish(p)
        PROVE  Path'
    BY <1>9, EndForgets DEF Finish, Holding
  <1>10. CASE Tick
    <2>1. now' \in Time
      BY <1>10, GatewayAssumption DEF Tick, Path, Time
    <2> QED
      BY <1>1, <1>10, <2>1 DEF Tick
  <1>11. CASE UNCHANGED vars \/ \E p \in Download : Retry(p)
    BY <1>1, <1>11 DEF vars, Path, Retry
  <1> QED
    BY <1>2, <1>3, <1>4, <1>5, <1>6, <1>7, <1>8, <1>9, <1>10, <1>11
    DEF Next, Begins, Redirections, Advance

-----------------------------------------------------------------------------
(***************************************************************************)
(* The throttle's maps.                                                    *)
(***************************************************************************)
Throttle ==
  /\ tracked \in Seq(Origin) /\ Len(tracked) <= MaxTrackedOrigins
  /\ lastRequestByOrigin \in [Origin -> Time] /\ sent \in [Origin -> Time]
  /\ chain \in [Origin -> SUBSET Download]
  /\ last \in [Origin -> Download \cup {None}]
  /\ ahead \in [Download -> SUBSET Download]
  /\ wake \in [Download -> Nat]
  /\ forsaken \subseteq Origin

(* rememberOriginRequest evicts the oldest origin, and adds none but o.    *)
LEMMA RememberedIsBounded ==
  ASSUME Throttle, NEW o \in Origin
  PROVE  /\ Remembered(o) \in Seq(Origin) /\ Len(Remembered(o)) <= MaxTrackedOrigins
         /\ Range(Remembered(o)) \subseteq Range(tracked) \cup {o}
  <1>1. /\ Without(o) \in Seq(Origin) /\ Len(Without(o)) <= MaxTrackedOrigins
        /\ Range(Without(o)) \subseteq Range(tracked)
    <2>1. CASE o \in Range(tracked)
      <3> DEFINE i == CHOOSE j \in DOMAIN tracked : tracked[j] = o
      <3>1. i \in DOMAIN tracked
        BY <2>1 DEF Range
      <3>2. Without(o) = RemoveAt(tracked, i)
        BY <2>1 DEF Without
      <3> HIDE DEF i
      <3>3. tracked \in Seq(Origin) /\ i \in 1 .. Len(tracked)
        BY <3>1 DEF Throttle
      <3>4. /\ RemoveAt(tracked, i) \in Seq(Origin) /\ Len(RemoveAt(tracked, i)) = Len(tracked) - 1
            /\ Range(RemoveAt(tracked, i)) \subseteq Range(tracked)
        BY <3>3, RemovedFromQueue
      <3>5. Len(tracked) \in Nat /\ Len(tracked) <= MaxTrackedOrigins /\ MaxTrackedOrigins \in Nat
        BY <3>3, GatewayAssumption DEF Throttle
      <3> QED
        BY <3>2, <3>4, <3>5
    <2>2. CASE o \notin Range(tracked)
      BY <2>2 DEF Without, Throttle
    <2> QED
      BY <2>1, <2>2
  <1> DEFINE order == Append(Without(o), o)
  <1>2. /\ order \in Seq(Origin) /\ Len(order) = Len(Without(o)) + 1
        /\ Range(order) \subseteq Range(tracked) \cup {o}
    BY <1>1, AppendedQueue
  <1>3. /\ Len(Without(o)) \in Nat /\ MaxTrackedOrigins \in Nat
        /\ Remembered(o) = IF Len(order) > MaxTrackedOrigins THEN Tail(order) ELSE order
    BY <1>1, GatewayAssumption DEF Remembered
  <1> HIDE DEF order
  <1>4. order # <<>>
    BY <1>2, <1>3, EmptySeq
  <1>5. /\ Tail(order) \in Seq(Origin) /\ Len(Tail(order)) = Len(order) - 1
        /\ Range(Tail(order)) \subseteq Range(order)
    BY <1>2, <1>4, TailOfQueue
  <1>6. CASE Len(order) > MaxTrackedOrigins
    <2>1. Remembered(o) = Tail(order)
      BY <1>3, <1>6
    <2>2. Len(order) - 1 <= MaxTrackedOrigins
      BY <1>1, <1>2, <1>3
    <2> QED
      BY <1>2, <1>5, <2>1, <2>2
  <1>7. CASE ~(Len(order) > MaxTrackedOrigins)
    <2>1. Remembered(o) = order
      BY <1>3, <1>7
    <2>2. Len(order) <= MaxTrackedOrigins
      BY <1>1, <1>2, <1>3, <1>7
    <2> QED
      BY <1>2, <2>1, <2>2
  <1> QED
    BY <1>6, <1>7

LEMMA LeaveKeepsTypes ==
  ASSUME Throttle, NEW p \in Download, hop[p].origin \in Origin, Leave(p)
  PROVE  /\ chain' \in [Origin -> SUBSET Download]
         /\ last' \in [Origin -> Download \cup {None}]
         /\ ahead' \in [Download -> SUBSET Download]
         /\ wake' \in [Download -> Nat]
         /\ forsaken' \subseteq Origin
  BY DEF Throttle, Leave

LEMMA EnterKeepsTypes ==
  ASSUME Throttle, NEW p \in Download, NEW o \in Origin, Enter(p, o)
  PROVE  Throttle'
  BY DEF Throttle, Enter

LEMMA SendKeepsTypes ==
  ASSUME Throttle, NEW p \in Download, hop[p].origin \in Origin, now \in Time, Send(p)
  PROVE  Throttle'
  <1> DEFINE o == hop[p].origin
  <1>1. /\ tracked' = Remembered(o)
        /\ lastRequestByOrigin' =
             [x \in Origin |-> IF x = o THEN now
                               ELSE IF x \in Range(Remembered(o)) THEN lastRequestByOrigin[x] ELSE 0]
        /\ sent' = [sent EXCEPT ![o] = now] /\ Leave(p)
    BY DEF Send, Remember
  <1> HIDE DEF o
  <1>2. 0 \in Time /\ o \in Origin
    BY GatewayAssumption DEF Time, o
  <1>3. lastRequestByOrigin' \in [Origin -> Time] /\ sent' \in [Origin -> Time]
    BY <1>1, <1>2 DEF Throttle
  <1> QED
    BY <1>1, <1>2, <1>3, LeaveKeepsTypes, RememberedIsBounded DEF Throttle

(* The time a call waits for.                                              *)
LEMMA DueIsLater ==
  ASSUME Throttle, now \in Time, NEW o \in Origin
  PROVE  /\ Due(o) \in Nat /\ Due(o) >= now
         /\ o \in Range(tracked) => Due(o) >= lastRequestByOrigin[o] + MinimumDelay
  <1>1. now \in Nat /\ lastRequestByOrigin[o] \in Nat /\ MinimumDelay \in Nat
    BY GatewayAssumption DEF Throttle, Time
  <1> QED
    BY <1>1 DEF Due

LEMMA ThrottleInit ==
  ASSUME Init
  PROVE  Throttle
  <1>1. /\ 0 \in Time /\ 0 \in Nat /\ 0 <= MaxTrackedOrigins
        /\ tracked = <<>> /\ <<>> \in Seq(Origin) /\ Len(<<>>) = 0
    BY GatewayAssumption DEF Init, Time
  <1>2. /\ lastRequestByOrigin \in [Origin -> Time] /\ sent \in [Origin -> Time]
        /\ wake \in [Download -> Nat]
    BY <1>1 DEF Init
  <1> QED
    BY <1>1, <1>2 DEF Init, Throttle

LEMMA ThrottleNext ==
  ASSUME Path, Throttle, [Next]_vars
  PROVE  Throttle'
  <1>1. CASE UNCHANGED throttling
    BY <1>1 DEF throttling, Throttle
  <1>2. \A p \in Download : step[p] # "idle" => hop[p] \in Hop /\ hop[p].origin \in Origin
    BY HopFields DEF Path, Travels
  <1>3. now \in Time
    BY DEF Path
  <1>4. ASSUME NEW p \in Download, GiveUp(p), hop[p].origin \in Origin
        PROVE  Throttle'
    BY <1>4, LeaveKeepsTypes DEF GiveUp, Throttle
  <1>5. ASSUME NEW p \in Download, Turn(p) \/ Pause(p) \/ QueueTimeout(p)
        PROVE  Throttle'
    <2>1. hop[p].origin \in Origin
      BY <1>2, <1>5 DEF Turn, Pause, QueueTimeout
    <2>2. CASE GiveUp(p)
      BY <1>4, <2>1, <2>2
    <2>3. CASE Send(p)
      BY <1>3, <2>1, <2>3, SendKeepsTypes
    <2>4. CASE /\ wake' = [wake EXCEPT ![p] = Due(hop[p].origin)]
               /\ UNCHANGED <<tracked, lastRequestByOrigin, chain, last, ahead, sent, forsaken>>
      <3>1. Due(hop[p].origin) \in Nat
        BY <1>3, <2>1, DueIsLater
      <3>2. wake' \in [Download -> Nat]
        BY <2>4, <3>1 DEF Throttle
      <3> QED
        BY <2>4, <3>2 DEF Throttle
    <2> QED
      BY <1>5, <2>2, <2>3, <2>4 DEF Turn, Pause, QueueTimeout
  <1>6. ASSUME NEW p \in Download, Approve(p)
        PROVE  Throttle'
    BY <1>2, <1>6, EnterKeepsTypes DEF Approve
  <1>7. ASSUME NEW p \in Download, RobotsAllow(p)
        PROVE  Throttle'
    <2>1. page[p].origin \in Origin
      BY <1>7, HopFields DEF RobotsAllow, Path, Travels
    <2> QED
      BY <1>7, <2>1, EnterKeepsTypes DEF RobotsAllow
  <1> QED
    BY <1>1, <1>5, <1>6, <1>7
    DEF Next, Begins, Begin, Redirections, Redirected, Advance, AcquireTimeout, ReadRobots,
        Retry, Finish, Tick, vars

(* The addresses of a host: each is tried at most once.                    *)
AddressesLeft == left \in [Download -> 0 .. MaxAddresses - 1]

LEMMA AddressesNext ==
  ASSUME AddressesLeft, [Next]_vars
  PROVE  AddressesLeft'
  <1>1. /\ MaxAddresses \in Nat \ {0} /\ 0 \in 0 .. MaxAddresses - 1
        /\ \A p \in Download : left[p] \in 0 .. MaxAddresses - 1
    BY GatewayAssumption DEF AddressesLeft
  <1>2. ASSUME NEW p \in Download, TakeAddresses(p)
        PROVE  AddressesLeft'
    <2>1. PICK n \in 1 .. MaxAddresses : left' = [left EXCEPT ![p] = n - 1]
      BY <1>2 DEF TakeAddresses
    <2>2. n - 1 \in 0 .. MaxAddresses - 1
      BY <1>1
    <2> QED
      BY <2>1, <2>2 DEF AddressesLeft
  <1>3. ASSUME NEW p \in Download, Retry(p)
        PROVE  AddressesLeft'
    <2>1. left[p] - 1 \in 0 .. MaxAddresses - 1
      BY <1>1, <1>3 DEF Retry
    <2> QED
      BY <1>3, <2>1 DEF Retry, AddressesLeft
  <1>4. ASSUME NEW p \in Download, left' = [left EXCEPT ![p] = 0]
        PROVE  AddressesLeft'
    BY <1>1, <1>4 DEF AddressesLeft
  <1>5. CASE UNCHANGED left
    BY <1>5 DEF AddressesLeft
  <1> QED
    BY <1>2, <1>3, <1>4, <1>5
    DEF Next, Tick, Begins, Begin, Redirections, Redirected, Advance, AcquireTimeout, Turn, Pause,
        QueueTimeout, Send, GiveUp, End, Forget, ReadRobots, Approve, RobotsAllow, Finish, vars

(* The gateway's data is what its declarations say.                        *)
THEOREM TypeInvariant == Spec => []TypeOK
  <1>1. Init => Semaphore /\ Path /\ Throttle /\ AddressesLeft
    <2>1. Init => AddressesLeft
      BY GatewayAssumption DEF Init, AddressesLeft
    <2> QED
      BY <2>1, SemaphoreInit, PathInit, ThrottleInit
  <1>2. Semaphore /\ Path /\ Throttle /\ AddressesLeft /\ [Next]_vars
          => (Semaphore /\ Path /\ Throttle /\ AddressesLeft)'
    BY SemaphoreStep, PathNext, ThrottleNext, AddressesNext
  <1>3. Semaphore /\ Path /\ Throttle /\ AddressesLeft => TypeOK
    BY DEF Semaphore, Path, Travels, Throttle, AddressesLeft, TypeOK
  <1> QED
    BY <1>1, <1>2, <1>3, PTL DEF Spec

-----------------------------------------------------------------------------
(***************************************************************************)
(* The chains of promises.  Unless an origin is forsaken, its calls wait in*)
(* one line: of any two, one waits for the other, so that only one can be  *)
(* let through, and it waits for the time of the request before it.        *)
(***************************************************************************)
Recorded ==
  \A o \in Origin : o \in Range(tracked) => lastRequestByOrigin[o] = sent[o]
Covered ==
  \A o \in Origin : o \notin forsaken => CallsTo(o) \subseteq chain[o]
TailsWaitForAll ==
  \A o \in Origin : last[o] # None => ahead[last[o]] = chain[o] \ {last[o]}
Ordered ==
  \A o \in Origin : \A p, q \in chain[o] : p # q => p \in ahead[q] \/ q \in ahead[p]
Paused ==
  \A o \in Origin : \A p \in chain[o] :
    step[p] = "pausing" /\ o \notin forsaken /\ o \in Range(tracked) =>
      wake[p] >= lastRequestByOrigin[o] + MinimumDelay

Line == QueuesHoldOnlyCalls /\ Covered /\ TailsWaitForAll /\ Ordered
Spacing == Recorded /\ Paused

LEMMA CallsToMembers ==
  \A o : \A q : /\ q \in CallsTo(o) <=> q \in Download /\ step[q] \in Calling /\ hop[q].origin = o
                /\ q \in CallsTo(o)' <=> q \in Download /\ step'[q] \in Calling /\ hop'[q].origin = o
  BY DEF CallsTo

LEMMA WaitsForCalls ==
  ASSUME QueuesHoldOnlyCalls, NEW q \in Download, NEW r \in ahead[q]
  PROVE  /\ step[q] = "queued" /\ r # q /\ r \in Download /\ step[r] \in Calling
         /\ hop[r].origin = hop[q].origin
  BY DEF QueuesHoldOnlyCalls, CallsTo

(* Steps that neither enter nor leave a chain.                             *)
LEMMA LineKept ==
  ASSUME Line, UNCHANGED <<chain, last, ahead, forsaken>>,
         \A q \in Download :
           /\ step'[q] \in Calling <=> step[q] \in Calling
           /\ step[q] \in Calling => hop'[q] = hop[q]
           /\ step[q] = "queued" /\ ahead[q] # {} => step'[q] = "queued"
  PROVE  Line'
  <1>1. \A o : CallsTo(o)' = CallsTo(o)
    BY DEF CallsTo
  <1>2. \A q \in Download : ahead[q] # {} => step[q] = "queued" /\ "queued" \in Calling
    BY DEF Line, QueuesHoldOnlyCalls, Calling
  <1>3. \A q \in Download : ahead[q] # {} => hop'[q] = hop[q] /\ step'[q] = "queued"
    BY <1>2
  <1>4. QueuesHoldOnlyCalls'
    BY <1>1, <1>3 DEF Line, QueuesHoldOnlyCalls
  <1> QED
    BY <1>1, <1>4 DEF Line, Covered, TailsWaitForAll, Ordered

LEMMA SpacingKept ==
  ASSUME Spacing, UNCHANGED <<chain, forsaken, tracked, lastRequestByOrigin, sent, wake>>,
         \A o \in Origin : \A q \in chain[o] : step'[q] = "pausing" => step[q] = "pausing"
  PROVE  Spacing'
  BY DEF Spacing, Recorded, Paused

LEMMA EnterJoinsTheLine ==
  ASSUME Throttle, Line, NEW p \in Download, NEW o \in Origin,
         step \in [Download -> Holding \cup {"idle", "waiting"}], step[p] \notin Calling,
         Enter(p, o), hop'[p].origin = o, \A q \in Download \ {p} : hop'[q] = hop[q]
  PROVE  Line'
  <1>1. /\ ahead' = [ahead EXCEPT ![p] = chain[o]]
        /\ chain' = [chain EXCEPT ![o] = chain[o] \cup {p}]
        /\ last' = [last EXCEPT ![o] = p] /\ step'[p] = "queued" /\ forsaken' = forsaken
        /\ \A q \in Download \ {p} : step'[q] = step[q]
    BY DEF Enter
  <1>2. /\ ahead'[p] = chain[o] /\ \A q \in Download \ {p} : ahead'[q] = ahead[q]
        /\ chain'[o] = chain[o] \cup {p} /\ \A x \in Origin \ {o} : chain'[x] = chain[x]
        /\ last'[o] = p /\ \A x \in Origin \ {o} : last'[x] = last[x]
    BY <1>1 DEF Throttle
  <1>3. \A x : p \notin CallsTo(x)
    BY CallsToMembers
  <1>4. \A x \in Origin : /\ chain[x] \subseteq CallsTo(x) /\ CallsTo(x) \subseteq Download
                          /\ last[x] = None <=> chain[x] = {}
                          /\ last[x] # None => last[x] \in chain[x]
    BY DEF Line, QueuesHoldOnlyCalls, CallsTo
  <1>5. /\ CallsTo(o)' = CallsTo(o) \cup {p}
        /\ \A x : x # o => CallsTo(x)' = CallsTo(x)
    BY <1>1, <1>3 DEF CallsTo, Calling
  <1>6. p # None
    BY GatewayAssumption
  <1>7. \A q \in Download : \A r \in ahead[q] :
          /\ step[q] = "queued" /\ r # q /\ r \in Download /\ step[r] \in Calling
          /\ hop[r].origin = hop[q].origin
    BY WaitsForCalls DEF Line
  <1>8. QueuesHoldOnlyCalls'
    <2>1. ASSUME NEW x \in Origin
          PROVE  /\ chain'[x] \subseteq CallsTo(x)'
                 /\ last'[x] = None <=> chain'[x] = {}
                 /\ last'[x] # None => last'[x] \in chain'[x]
      BY <1>2, <1>4, <1>5, <1>6
    <2>2. ASSUME NEW q \in Download, NEW r \in ahead'[q]
          PROVE  /\ step'[q] = "queued" /\ r # q /\ r \in Download /\ step'[r] \in Calling
                 /\ hop'[r].origin = hop'[q].origin
      <3>1. CASE q = p
        <4>1. r \in CallsTo(o)
          BY <1>2, <1>4, <3>1
        <4>2. r \in Download /\ step[r] \in Calling /\ hop[r].origin = o /\ r # p
          BY <1>3, <4>1, CallsToMembers
        <4> QED
          BY <1>1, <3>1, <4>2
      <3>2. CASE q # p
        <4>1. ahead'[q] = ahead[q] /\ hop'[q] = hop[q] /\ step'[q] = step[q]
          BY <1>1, <1>2, <3>2
        <4>2. /\ step[q] = "queued" /\ r # q /\ r \in Download /\ step[r] \in Calling
              /\ hop[r].origin = hop[q].origin
          BY <1>7, <4>1
        <4> QED
          BY <1>1, <4>1, <4>2
      <3> QED
        BY <3>1, <3>2
    <2> QED
      BY <2>1, <2>2 DEF QueuesHoldOnlyCalls, CallsTo
  <1>9. Covered'
    BY <1>1, <1>2, <1>5 DEF Line, Covered
  <1>10. TailsWaitForAll'
    <2>1. ASSUME NEW x \in Origin, last'[x] # None
          PROVE  ahead'[last'[x]] = chain'[x] \ {last'[x]}
      <3>1. CASE x = o
        BY <1>2, <1>3, <1>4, <3>1
      <3>2. CASE x # o
        <4>1. last'[x] = last[x] /\ chain'[x] = chain[x] /\ last[x] \in Download \ {p}
          BY <1>2, <1>3, <1>4, <2>1, <3>2
        <4> QED
          BY <1>2, <2>1, <4>1 DEF Line, TailsWaitForAll
      <3> QED
        BY <3>1, <3>2
    <2> QED
      BY <2>1 DEF TailsWaitForAll
  <1>11. Ordered'
    <2>1. ASSUME NEW x \in Origin, NEW q \in chain'[x], NEW r \in chain'[x], q # r
          PROVE  q \in ahead'[r] \/ r \in ahead'[q]
      <3>1. CASE q = p \/ r = p
        <4>1. x = o
          BY <1>2, <1>3, <1>4, <3>1
        <4> QED
          BY <1>2, <2>1, <3>1, <4>1
      <3>2. CASE q # p /\ r # p
        <4>1. q \in chain[x] /\ r \in chain[x] /\ q \in Download /\ r \in Download
          BY <1>2, <1>4, <3>2
        <4> QED
          BY <1>2, <2>1, <3>2, <4>1 DEF Line, Ordered
      <3> QED
        BY <3>1, <3>2
    <2> QED
      BY <2>1 DEF Ordered
  <1> QED
    BY <1>8, <1>9, <1>10, <1>11 DEF Line

LEMMA LeaveLeavesTheLine ==
  ASSUME Throttle, Line, NEW p \in Download, step[p] \in Calling, hop[p].origin \in Origin,
         Leave(p), step'[p] \notin Calling,
         \A q \in Download \ {p} :
           /\ step'[q] \in Calling <=> step[q] \in Calling
           /\ step[q] = "queued" => step'[q] = "queued"
           /\ step[q] \in Calling => hop'[q] = hop[q]
  PROVE  /\ Line'
         /\ \A x \in Origin : chain'[x] \subseteq chain[x] \ {p}
  <1> DEFINE o == hop[p].origin
  <1>1. /\ ahead' = [q \in Download |-> IF q = p THEN {} ELSE ahead[q] \ {p}]
        /\ chain' = [chain EXCEPT ![o] = IF last[o] = p THEN {} ELSE chain[o] \ {p}]
        /\ last' = [last EXCEPT ![o] = IF last[o] = p THEN None ELSE last[o]]
        /\ forsaken' = IF last[o] = p /\ ahead[p] # {} THEN forsaken \cup {o} ELSE forsaken
    BY DEF Leave
  <1>2. o \in Origin /\ \A x : p \in CallsTo(x) <=> x = o
    BY CallsToMembers
  <1> HIDE DEF o
  <1>3. /\ ahead'[p] = {} /\ \A q \in Download \ {p} : ahead'[q] = ahead[q] \ {p}
        /\ \A x \in Origin \ {o} : chain'[x] = chain[x] /\ last'[x] = last[x]
        /\ last[o] = p => chain'[o] = {} /\ last'[o] = None
        /\ last[o] # p => chain'[o] = chain[o] \ {p} /\ last'[o] = last[o]
    BY <1>1, <1>2 DEF Throttle
  <1>4. \A x \in Origin : /\ chain[x] \subseteq CallsTo(x) /\ CallsTo(x) \subseteq Download
                          /\ last[x] = None <=> chain[x] = {}
                          /\ last[x] # None => last[x] \in chain[x]
    BY DEF Line, QueuesHoldOnlyCalls, CallsTo
  <1>5. \A x : CallsTo(x)' = CallsTo(x) \ {p}
    BY DEF CallsTo
  <1>6. \A q \in Download : \A r \in ahead[q] :
          /\ step[q] = "queued" /\ r # q /\ r \in Download /\ step[r] \in Calling
          /\ hop[r].origin = hop[q].origin
    BY WaitsForCalls DEF Line
  <1>7. \A x \in Origin : chain'[x] \subseteq chain[x] \ {p}
    BY <1>2, <1>3, <1>4
  <1>8. QueuesHoldOnlyCalls'
    <2>1. ASSUME NEW x \in Origin
          PROVE  /\ chain'[x] \subseteq CallsTo(x)'
                 /\ last'[x] = None <=> chain'[x] = {}
                 /\ last'[x] # None => last'[x] \in chain'[x]
      <3>1. chain'[x] \subseteq CallsTo(x)'
        BY <1>4, <1>5, <1>7
      <3>2. CASE x # o \/ last[o] = p
        BY <1>3, <1>4, <3>1, <3>2
      <3>3. CASE x = o /\ last[o] # p
        BY <1>3, <1>4, <3>1, <3>3
      <3> QED
        BY <3>1, <3>2, <3>3
    <2>2. ASSUME NEW q \in Download, NEW r \in ahead'[q]
          PROVE  /\ step'[q] = "queued" /\ r # q /\ r \in Download /\ step'[r] \in Calling
                 /\ hop'[r].origin = hop'[q].origin
      <3>1. q # p /\ r # p /\ r \in ahead[q]
        BY <1>3
      <3>2. /\ step[q] = "queued" /\ r # q /\ r \in Download /\ step[r] \in Calling
            /\ hop[r].origin = hop[q].origin
        BY <1>6, <3>1
      <3>3. step[q] \in Calling
        BY <3>2 DEF Calling
      <3> QED
        BY <3>1, <3>2, <3>3
    <2> QED
      BY <2>1, <2>2 DEF QueuesHoldOnlyCalls, CallsTo
  <1>9. Covered'
    <2>1. ASSUME NEW x \in Origin, x \notin forsaken'
          PROVE  CallsTo(x)' \subseteq chain'[x]
      <3>1. CallsTo(x) \subseteq chain[x]
        BY <1>1, <2>1 DEF Line, Covered
      <3>2. CASE x = o /\ last[o] = p
        <4>1. ahead[p] = {}
          BY <1>1, <2>1, <3>2
        <4>2. ahead[p] = chain[o] \ {p}
          BY <1>2, <3>2, GatewayAssumption DEF Line, TailsWaitForAll
        <4> QED
          BY <1>3, <1>5, <3>1, <3>2, <4>1, <4>2
      <3>3. CASE x # o \/ last[o] # p
        BY <1>2, <1>3, <1>5, <3>1, <3>3
      <3> QED
        BY <3>2, <3>3
    <2> QED
      BY <2>1 DEF Covered
  <1>10. TailsWaitForAll'
    <2>1. ASSUME NEW x \in Origin, last'[x] # None
          PROVE  ahead'[last'[x]] = chain'[x] \ {last'[x]}
      <3>1. last'[x] = last[x] /\ last[x] \in chain[x] /\ chain'[x] = chain[x] \ {p} /\ last[x] # p
        <4>1. CASE x = o
          BY <1>3, <1>4, <2>1, <4>1
        <4>2. CASE x # o
          BY <1>2, <1>3, <1>4, <2>1, <4>2
        <4> QED
          BY <4>1, <4>2
      <3>2. last[x] \in Download
        BY <1>4, <3>1
      <3>3. ahead'[last[x]] = ahead[last[x]] \ {p} /\ ahead[last[x]] = chain[x] \ {last[x]}
        BY <1>3, <2>1, <3>1, <3>2 DEF Line, TailsWaitForAll
      <3> QED
        BY <3>1, <3>3
    <2> QED
      BY <2>1 DEF TailsWaitForAll
  <1>11. Ordered'
    <2>1. ASSUME NEW x \in Origin, NEW q \in chain'[x], NEW r \in chain'[x], q # r
          PROVE  q \in ahead'[r] \/ r \in ahead'[q]
      <3>1. /\ q \in chain[x] /\ r \in chain[x] /\ q # p /\ r # p
            /\ q \in Download /\ r \in Download
        BY <1>4, <1>7
      <3> QED
        BY <1>3, <2>1, <3>1 DEF Line, Ordered
    <2> QED
      BY <2>1 DEF Ordered
  <1> QED
    BY <1>7, <1>8, <1>9, <1>10, <1>11 DEF Line

(* A call that is let through has nobody beside it in its chain.           *)
LEMMA AloneWhenLetThrough ==
  ASSUME Throttle, Line, NEW p \in Download, step[p] \in Calling, ahead[p] = {},
         NEW o \in Origin, hop[p].origin = o, o \notin forsaken,
         NEW q \in chain[o], step[q] = "pausing"
  PROVE  q = p /\ p \in chain[o]
  <1>1. p \in chain[o]
    BY CallsToMembers DEF Line, Covered
  <1>2. q \in Download /\ ahead[q] = {}
    BY DEF Line, QueuesHoldOnlyCalls, Throttle
  <1> QED
    BY <1>1, <1>2 DEF Line, Ordered

LEMMA SendIsRecorded ==
  ASSUME Path, Throttle, Line, Spacing, NEW p \in Download, step[p] \in Calling, ahead[p] = {},
         NEW o \in Origin, hop[p].origin = o, step \in [Download -> Holding \cup {"idle", "waiting"}],
         Send(p), \A x \in Origin : chain'[x] \subseteq chain[x] \ {p}
  PROVE  Spacing'
  <1>1. /\ tracked' = Remembered(o)
        /\ lastRequestByOrigin' =
             [x \in Origin |-> IF x = o THEN now
                               ELSE IF x \in Range(Remembered(o)) THEN lastRequestByOrigin[x] ELSE 0]
        /\ sent' = [sent EXCEPT ![o] = now]
        /\ wake' = [wake EXCEPT ![p] = 0]
        /\ forsaken \subseteq forsaken'
        /\ \A q \in Download \ {p} : step'[q] = step[q]
    BY DEF Send, Remember, Leave
  <1>2. /\ sent'[o] = now /\ \A x \in Origin \ {o} : sent'[x] = sent[x]
        /\ \A q \in Download \ {p} : wake'[q] = wake[q]
    BY <1>1 DEF Throttle
  <1>3. ASSUME NEW x \in Origin, x \in Range(tracked'), x # o
        PROVE  x \in Range(tracked) /\ lastRequestByOrigin'[x] = lastRequestByOrigin[x]
    BY <1>1, <1>3, RememberedIsBounded
  <1>4. Recorded'
    <2>1. ASSUME NEW x \in Origin, x \in Range(tracked')
          PROVE  lastRequestByOrigin'[x] = sent'[x]
      <3>1. CASE x = o
        BY <1>1, <1>2, <3>1
      <3>2. CASE x # o
        BY <1>2, <1>3, <2>1, <3>2 DEF Spacing, Recorded
      <3> QED
        BY <3>1, <3>2
    <2> QED
      BY <2>1 DEF Recorded, Range
  <1>5. Paused'
    <2>1. ASSUME NEW x \in Origin, NEW q \in chain'[x], step'[q] = "pausing",
                 x \notin forsaken', x \in Range(tracked')
          PROVE  wake'[q] >= lastRequestByOrigin'[x] + MinimumDelay
      <3>1. q \in chain[x] /\ q # p /\ q \in Download /\ x \notin forsaken
        BY <1>1, <2>1 DEF Throttle
      <3>2. step[q] = "pausing" /\ wake'[q] = wake[q]
        BY <1>1, <1>2, <2>1, <3>1
      <3>3. x # o
        BY <3>1, <3>2, AloneWhenLetThrough
      <3>4. x \in Range(tracked) /\ lastRequestByOrigin'[x] = lastRequestByOrigin[x]
        BY <1>3, <2>1, <3>3
      <3> QED
        BY <3>1, <3>2, <3>4 DEF Spacing, Paused
    <2> QED
      BY <2>1 DEF Paused, Range
  <1> QED
    BY <1>4, <1>5 DEF Spacing

LEMMA GiveUpKeepsTheTimes ==
  ASSUME Throttle, Spacing, NEW p \in Download, GiveUp(p),
         \A x \in Origin : chain'[x] \subseteq chain[x] \ {p},
         \A q \in Download \ {p} : step'[q] = "pausing" => step[q] = "pausing"
  PROVE  Spacing'
  <1>1. /\ UNCHANGED <<tracked, lastRequestByOrigin, sent>>
        /\ wake' = [wake EXCEPT ![p] = 0] /\ forsaken \subseteq forsaken'
    BY DEF GiveUp, Leave
  <1>2. \A q \in Download \ {p} : wake'[q] = wake[q]
    BY <1>1 DEF Throttle
  <1>3. ASSUME NEW x \in Origin, NEW q \in chain'[x], step'[q] = "pausing"
        PROVE  q \in chain[x] /\ step[q] = "pausing" /\ wake'[q] = wake[q]
    BY <1>2, <1>3 DEF Throttle
  <1> QED
    BY <1>1, <1>3 DEF Spacing, Recorded, Paused

LEMMA EnterKeepsTheTimes ==
  ASSUME Throttle, Spacing, NEW p \in Download, NEW o \in Origin, Enter(p, o),
         step \in [Download -> Holding \cup {"idle", "waiting"}]
  PROVE  Spacing'
  <1>1. /\ UNCHANGED <<tracked, lastRequestByOrigin, wake, sent, forsaken>>
        /\ chain' = [chain EXCEPT ![o] = chain[o] \cup {p}]
        /\ step'[p] = "queued" /\ \A q \in Download \ {p} : step'[q] = step[q]
    BY DEF Enter
  <1>2. ASSUME NEW x \in Origin, NEW q \in chain'[x], step'[q] = "pausing"
        PROVE  q \in chain[x] /\ step[q] = "pausing"
    BY <1>1, <1>2 DEF Throttle
  <1> QED
    BY <1>1, <1>2 DEF Spacing, Recorded, Paused

(* A call whose time is not come is put to sleep until it is.              *)
LEMMA PausingWaits ==
  ASSUME Semaphore, Path, Throttle, Line, Spacing, NEW p \in Download, step[p] = "queued", ahead[p] = {},
         NEW o \in Origin, hop[p].origin = o,
         wake' = [wake EXCEPT ![p] = Due(o)], step' = [step EXCEPT ![p] = "pausing"],
         UNCHANGED <<hop, tracked, lastRequestByOrigin, chain, last, ahead, sent, forsaken>>
  PROVE  Line' /\ Spacing'
  <1>1. /\ step'[p] = "pausing" /\ wake'[p] = Due(o)
        /\ \A q \in Download \ {p} : step'[q] = step[q] /\ wake'[q] = wake[q]
    BY DEF Semaphore, Throttle
  <1>2. Line'
    <2>1. \A q \in Download :
            /\ step'[q] \in Calling <=> step[q] \in Calling
            /\ step[q] \in Calling => hop'[q] = hop[q]
            /\ step[q] = "queued" /\ ahead[q] # {} => step'[q] = "queued"
      BY <1>1 DEF Calling
    <2> QED
      BY <2>1, LineKept
  <1>3. o \in Range(tracked) => Due(o) >= lastRequestByOrigin[o] + MinimumDelay
    BY DueIsLater DEF Path
  <1>4. ASSUME NEW x \in Origin, NEW q \in chain[x], step'[q] = "pausing",
               x \notin forsaken, x \in Range(tracked)
        PROVE  wake'[q] >= lastRequestByOrigin[x] + MinimumDelay
    <2>1. q \in Download /\ (q = p => x = o)
      BY CallsToMembers DEF Line, QueuesHoldOnlyCalls, CallsTo
    <2>2. CASE q = p
      BY <1>1, <1>3, <1>4, <2>1, <2>2
    <2>3. CASE q # p
      BY <1>1, <1>4, <2>1, <2>3 DEF Spacing, Paused
    <2> QED
      BY <2>2, <2>3
  <1>5. Spacing'
    BY <1>4 DEF Spacing, Recorded, Paused
  <1> QED
    BY <1>2, <1>5

(* A step of a download that is in no chain before or after.               *)
LEMMA StepsAside ==
  ASSUME Throttle, Line, Spacing, UNCHANGED throttling, NEW p \in Download,
         step[p] \notin Calling, step'[p] \notin Calling,
         \A q \in Download \ {p} :
           /\ hop'[q] = hop[q]
           /\ step'[q] = step[q] \/ (step[q] = "waiting" /\ step'[q] = "approve")
  PROVE  Line' /\ Spacing'
  <1>1. \A q \in Download :
          /\ step'[q] \in Calling <=> step[q] \in Calling
          /\ step[q] \in Calling => hop'[q] = hop[q]
          /\ step[q] = "queued" /\ ahead[q] # {} => step'[q] = "queued"
          /\ step'[q] = "pausing" => step[q] = "pausing"
    BY DEF Calling
  <1>2. Line'
    BY <1>1, LineKept DEF throttling
  <1>3. \A o \in Origin : \A q \in chain[o] : step'[q] = "pausing" => step[q] = "pausing"
    BY <1>1 DEF Throttle
  <1>4. Spacing'
    BY <1>3, SpacingKept DEF throttling
  <1> QED
    BY <1>2, <1>4

Gateway == Semaphore /\ Path /\ Throttle /\ Line /\ Spacing

LEMMA GivesUp ==
  ASSUME Gateway, NEW p \in Download, step[p] \in Calling, GiveUp(p)
  PROVE  Line' /\ Spacing'
  <1>1. step[p] \in Holding /\ step[p] # "idle" /\ End(p) /\ Leave(p)
    BY DEF GiveUp, Holding, Calling
  <1>2. /\ step'[p] = "idle"
        /\ \A q \in Download \ {p} :
             step'[q] = step[q] \/ (step[q] = "waiting" /\ step'[q] = "approve")
    BY <1>1, EndWakesAtMostOne DEF Gateway
  <1>3. \A q \in Download \ {p} : hop'[q] = hop[q]
    BY <1>1 DEF End, Forget, Gateway, Path
  <1>4. hop[p].origin \in Origin
    BY <1>1, HopFields DEF Gateway, Path, Travels
  <1>5. Line' /\ \A x \in Origin : chain'[x] \subseteq chain[x] \ {p}
    BY <1>1, <1>2, <1>3, <1>4, LeaveLeavesTheLine DEF Gateway, Calling
  <1>6. Spacing'
    BY <1>2, <1>5, GiveUpKeepsTheTimes DEF Gateway
  <1> QED
    BY <1>5, <1>6

LEMMA Sent ==
  ASSUME Gateway, NEW p \in Download, step[p] \in Calling, ahead[p] = {}, Send(p)
  PROVE  Line' /\ Spacing'
  <1>1. step[p] # "idle" /\ Leave(p) /\ step' = [step EXCEPT ![p] = "request"] /\ hop' = hop
    BY DEF Send, Calling
  <1>2. step'[p] = "request" /\ \A q \in Download \ {p} : step'[q] = step[q]
    BY <1>1 DEF Gateway, Semaphore
  <1>3. hop[p].origin \in Origin
    BY <1>1, HopFields DEF Gateway, Path, Travels
  <1>4. Line' /\ \A x \in Origin : chain'[x] \subseteq chain[x] \ {p}
    BY <1>1, <1>2, <1>3, LeaveLeavesTheLine DEF Gateway, Calling
  <1>5. Spacing'
    BY <1>3, <1>4, SendIsRecorded DEF Gateway, Semaphore
  <1> QED
    BY <1>4, <1>5

LEMMA Enters ==
  ASSUME Gateway, NEW p \in Download, NEW o \in Origin, step[p] \notin Calling, Enter(p, o),
         NEW h \in Hop, h.origin = o, hop' = [hop EXCEPT ![p] = h]
  PROVE  Line' /\ Spacing'
  <1>1. hop'[p].origin = o /\ \A q \in Download \ {p} : hop'[q] = hop[q]
    BY DEF Gateway, Path
  <1>2. Line'
    BY <1>1, EnterJoinsTheLine DEF Gateway, Semaphore
  <1>3. Spacing'
    BY EnterKeepsTheTimes DEF Gateway, Semaphore
  <1> QED
    BY <1>2, <1>3

LEMMA LineNext ==
  ASSUME Gateway, [Next]_vars
  PROVE  Line' /\ Spacing'
  <1>1. CASE UNCHANGED <<step, hop, throttling>>
    BY <1>1 DEF Gateway, Line, Spacing, QueuesHoldOnlyCalls, CallsTo, Covered, TailsWaitForAll,
                Ordered, Recorded, Paused, throttling
  <1>2. ASSUME NEW p \in Download, NEW o \in Origin, NEW timeout \in Timeouts, Begin(p, o, timeout)
        PROVE  Line' /\ Spacing'
    <2>1. /\ UNCHANGED throttling /\ step[p] \notin Calling /\ step'[p] \notin Calling
          /\ \A q \in Download \ {p} : hop'[q] = hop[q] /\ step'[q] = step[q]
      BY <1>2 DEF Begin, Gateway, Semaphore, Path, Calling
    <2> QED
      BY <2>1, StepsAside DEF Gateway
  <1>3. ASSUME NEW p \in Download, AcquireTimeout(p)
        PROVE  Line' /\ Spacing'
    <2>1. /\ UNCHANGED throttling /\ step[p] \notin Calling /\ step'[p] \notin Calling
          /\ \A q \in Download \ {p} : hop'[q] = hop[q] /\ step'[q] = step[q]
      BY <1>3 DEF AcquireTimeout, Forget, Gateway, Semaphore, Path, Calling
    <2> QED
      BY <2>1, StepsAside DEF Gateway
  <1>4. ASSUME NEW p \in Download, NEW o \in Origin, Redirected(p, o)
        PROVE  Line' /\ Spacing'
    <2>1. /\ UNCHANGED throttling /\ step[p] \notin Calling /\ step'[p] \notin Calling
          /\ \A q \in Download \ {p} : hop'[q] = hop[q] /\ step'[q] = step[q]
      BY <1>4 DEF Redirected, Gateway, Semaphore, Path, Calling
    <2> QED
      BY <2>1, StepsAside DEF Gateway
  <1>5. ASSUME NEW p \in Download, ReadRobots(p)
        PROVE  Line' /\ Spacing'
    <2>1. /\ UNCHANGED throttling /\ step[p] \notin Calling /\ step'[p] \notin Calling
          /\ \A q \in Download \ {p} : hop'[q] = hop[q] /\ step'[q] = step[q]
      BY <1>5 DEF ReadRobots, Gateway, Semaphore, Path, Calling
    <2> QED
      BY <2>1, StepsAside DEF Gateway
  <1>6. ASSUME NEW p \in Download, Finish(p)
        PROVE  Line' /\ Spacing'
    <2>1. step[p] \in Holding /\ step[p] \notin Calling /\ End(p) /\ UNCHANGED throttling
      BY <1>6 DEF Finish, Holding, Calling
    <2>2. /\ step'[p] = "idle"
          /\ \A q \in Download \ {p} :
               step'[q] = step[q] \/ (step[q] = "waiting" /\ step'[q] = "approve")
      BY <2>1, EndWakesAtMostOne DEF Gateway
    <2>3. \A q \in Download \ {p} : hop'[q] = hop[q]
      BY <2>1 DEF End, Forget, Gateway, Path
    <2> QED
      BY <2>1, <2>2, <2>3, StepsAside DEF Gateway, Calling
  <1>7. ASSUME NEW p \in Download, Turn(p)
        PROVE  Line' /\ Spacing'
    <2>1. step[p] = "queued" /\ step[p] \in Calling /\ ahead[p] = {}
      BY <1>7 DEF Turn, Calling
    <2>2. hop[p].origin \in Origin
      BY <2>1, HopFields DEF Gateway, Path, Travels
    <2>3. CASE GiveUp(p)
      BY <2>1, <2>3, GivesUp
    <2>4. CASE Send(p)
      BY <2>1, <2>4, Sent
    <2>5. CASE /\ wake' = [wake EXCEPT ![p] = Due(hop[p].origin)]
               /\ step' = [step EXCEPT ![p] = "pausing"]
               /\ UNCHANGED <<hop, tracked, lastRequestByOrigin, chain, last, ahead, sent, forsaken>>
      BY <2>1, <2>2, <2>5, PausingWaits DEF Gateway
    <2> QED
      BY <1>7, <2>3, <2>4, <2>5 DEF Turn
  <1>8. ASSUME NEW p \in Download, Pause(p)
        PROVE  Line' /\ Spacing'
    <2>1. step[p] \in Calling /\ ahead[p] = {} /\ Send(p)
      BY <1>8 DEF Pause, Calling, Gateway, Line, QueuesHoldOnlyCalls
    <2> QED
      BY <2>1, Sent
  <1>9. ASSUME NEW p \in Download, QueueTimeout(p)
        PROVE  Line' /\ Spacing'
    BY <1>9, GivesUp DEF QueueTimeout, Calling
  <1>10. ASSUME NEW p \in Download, Approve(p)
         PROVE  Line' /\ Spacing'
    <2>1. hop[p] \in Hop /\ hop[p].origin \in Origin /\ step[p] \notin Calling
      BY <1>10, HopFields DEF Approve, Gateway, Path, Travels, Calling
    <2>2. hop' = [hop EXCEPT ![p] = hop[p]] /\ Enter(p, hop[p].origin)
      BY <1>10 DEF Approve, Gateway, Path
    <2> QED
      BY <2>1, <2>2, Enters
  <1>11. ASSUME NEW p \in Download, RobotsAllow(p)
         PROVE  Line' /\ Spacing'
    <2>1. page[p] \in Hop /\ page[p].origin \in Origin /\ step[p] \notin Calling
      BY <1>11, HopFields DEF RobotsAllow, Gateway, Path, Travels, Calling
    <2>2. hop' = [hop EXCEPT ![p] = page[p]] /\ Enter(p, page[p].origin)
      BY <1>11 DEF RobotsAllow
    <2> QED
      BY <2>1, <2>2, Enters
  <1>12. CASE Tick
    BY <1>1, <1>12 DEF Tick
  <1>13. CASE UNCHANGED vars \/ \E p \in Download : Retry(p)
    BY <1>1, <1>13 DEF vars, throttling, Retry
  <1> QED
    BY <1>2, <1>3, <1>4, <1>5, <1>6, <1>7, <1>8, <1>9, <1>10, <1>11, <1>12, <1>13
    DEF Next, Begins, Redirections, Advance

LEMMA GatewayInv == Spec => []Gateway
  <1>1. Init => Gateway
    <2> SUFFICES ASSUME Init PROVE Gateway
      OBVIOUS
    <2>1. Line
      BY DEF Init, Line, QueuesHoldOnlyCalls, Covered, TailsWaitForAll, Ordered, CallsTo, Calling
    <2>2. Spacing
      BY DEF Init, Spacing, Recorded, Paused
    <2> QED
      BY <2>1, <2>2, SemaphoreInit, PathInit, ThrottleInit DEF Gateway
  <1>2. Gateway /\ [Next]_vars => Gateway'
    BY SemaphoreStep, PathNext, ThrottleNext, LineNext DEF Gateway
  <1> QED
    BY <1>1, <1>2, PTL DEF Spec

(* The throttle queues hold calls only, and what a call waits for is calls *)
(* to the same origin (throttle, its finally block).                       *)
THEOREM QueuesInvariant == Spec => []QueuesHoldOnlyCalls
  <1>1. Gateway => QueuesHoldOnlyCalls
    BY DEF Gateway, Line
  <1> QED
    BY <1>1, GatewayInv, PTL

(* Only a call whose time has come sends.                                  *)
LEMMA OnlyDueCallsSend ==
  ASSUME Gateway, [Next]_vars, NEW p \in Download, Sends(p)
  PROVE  Due(hop[p].origin) = now \/ (step[p] = "pausing" /\ now >= wake[p])
  <1>1. /\ step[p] \in Calling /\ step[p] \in Holding /\ step'[p] = "request"
        /\ step[p] \notin {"idle", "waiting", "approve", "request"} /\ step'[p] # step[p]
    BY DEF Sends, Holding, Calling
  <1>2. step \in [Download -> Holding \cup {"idle", "waiting"}]
    BY DEF Gateway, Semaphore
  <1>3. ASSUME NEW q \in Download, step[q] \in Holding, End(q)
        PROVE  FALSE
    <2>1. /\ step'[q] = "idle"
          /\ q # p => step'[p] = step[p] \/ (step[p] = "waiting" /\ step'[p] = "approve")
      BY <1>3, EndWakesAtMostOne DEF Gateway
    <2> QED
      BY <1>1, <2>1
  <1>4. ASSUME NEW q \in Download, NEW x \in {"idle", "waiting", "approve", "queued", "pausing"},
               step' = [step EXCEPT ![q] = x]
        PROVE  FALSE
    BY <1>1, <1>2, <1>4
  <1>5. ASSUME NEW q \in Download, Send(q)
        PROVE  q = p
    BY <1>1, <1>2, <1>5 DEF Send
  <1>6. ASSUME NEW q \in Download, Turn(q)
        PROVE  Due(hop[p].origin) = now
    <2>1. step[q] \in Holding
      BY <1>6 DEF Turn, Holding, Calling
    <2>2. ~GiveUp(q) /\ step' # [step EXCEPT ![q] = "pausing"]
      BY <1>3, <1>4, <2>1 DEF GiveUp
    <2> QED
      BY <1>5, <1>6, <2>2 DEF Turn
  <1>7. ASSUME NEW q \in Download, Pause(q)
        PROVE  step[p] = "pausing" /\ now >= wake[p]
    BY <1>5, <1>7 DEF Pause
  <1>8. ASSUME NEW q \in Download, QueueTimeout(q) \/ Finish(q)
        PROVE  FALSE
    <2>1. step[q] \in Holding /\ End(q)
      BY <1>8 DEF QueueTimeout, GiveUp, Finish, Holding, Calling
    <2> QED
      BY <1>3, <2>1
  <1>9. ASSUME NEW q \in Download,
               \/ AcquireTimeout(q) \/ Approve(q) \/ RobotsAllow(q)
               \/ \E o \in Origin : Redirected(q, o)
               \/ \E o \in Origin, timeout \in Timeouts : Begin(q, o, timeout)
        PROVE  FALSE
    BY <1>4, <1>9 DEF AcquireTimeout, Approve, RobotsAllow, Enter, Redirected, Begin
  <1>10. CASE UNCHANGED step
    BY <1>1, <1>10
  <1> QED
    BY <1>6, <1>7, <1>8, <1>9, <1>10
    DEF Next, Begins, Redirections, Advance, Tick, ReadRobots, Retry, vars

(* The requests that throttle calls let through to an origin that is still *)
(* tracked are MinimumDelay apart, unless a call behind a waiting one gave *)
(* up: what "unlinking" the tail costs is all that these requests lose     *)
(* (throttle, its finally block).  It says nothing of the requests that    *)
(* requestPinned makes again at the further addresses of a host.           *)
THEOREM DelayTheorem == Spec => FirstRequestsAreSpaced
  <1>1. Gateway /\ [Next]_vars =>
          \A p \in Download : Sends(p) =>
            LET o == hop[p].origin
            IN  o \in Range(tracked) /\ o \notin forsaken => now - sent[o] >= MinimumDelay
    <2> SUFFICES ASSUME Gateway, [Next]_vars, NEW p \in Download, Sends(p),
                        NEW o, o = hop[p].origin, o \in Range(tracked), o \notin forsaken
                 PROVE  now - sent[o] >= MinimumDelay
      OBVIOUS
    <2>1. step[p] \in Calling /\ step'[p] = "request" /\ step[p] # "idle"
      BY DEF Sends, Calling
    <2>2. o \in Origin
      BY <2>1, HopFields DEF Gateway, Path, Travels
    <2>3. lastRequestByOrigin[o] = sent[o] /\ p \in chain[o]
      BY <2>1, <2>2, CallsToMembers DEF Gateway, Line, Covered, Spacing, Recorded
    <2>4. now \in Nat /\ lastRequestByOrigin[o] \in Nat /\ MinimumDelay \in Nat /\ wake[p] \in Nat
      BY <2>2, GatewayAssumption DEF Gateway, Path, Throttle, Time
    <2>5. CASE Due(o) = now
      BY <2>2, <2>3, <2>4, <2>5, DueIsLater DEF Gateway, Path
    <2>6. CASE step[p] = "pausing" /\ now >= wake[p]
      <3>1. wake[p] >= lastRequestByOrigin[o] + MinimumDelay
        BY <2>2, <2>3, <2>6 DEF Gateway, Spacing, Paused
      <3> QED
        BY <2>3, <2>4, <2>6, <3>1
    <2> QED
      BY <2>5, <2>6, OnlyDueCallsSend
  <1> QED
    BY <1>1, GatewayInv, PTL DEF Spec, FirstRequestsAreSpaced
=============================================================================
