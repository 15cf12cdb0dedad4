--------------------------- MODULE RateLimitProofs ----------------------------
(***************************************************************************)
(* Theorems about RateLimit, for every set of requests and API keys and    *)
(* every limit, window and delay.                                          *)
(***************************************************************************)
EXTENDS RateLimit, FiniteSetTheorems, TLAPS

\* The type invariant of the limiter.
THEOREM TypeCorrect == Spec => []TypeOK
<1>1. Init => TypeOK
  BY DEF Init, TypeOK
<1>2. TypeOK /\ [Next]_vars => TypeOK'
  <2>0. SUFFICES ASSUME TypeOK, [Next]_vars PROVE TypeOK'
    OBVIOUS
  <2>1. ASSUME NEW r \in Requests, Stamp(r) PROVE TypeOK'
    BY <2>0, <2>1 DEF TypeOK, Stamp, Carries, Request, States
  <2>2. ASSUME NEW r \in Requests, AllowRequest(r) PROVE TypeOK'
    <3>1. request[r] \in Request
      BY <2>0, <2>2 DEF TypeOK, AllowRequest, New
    <3>2. WindowOf(r) \in SUBSET Member
      BY <2>0, <3>1 DEF TypeOK, WindowOf, Recent, Member, Request
    <3>3. now + 2 * Window \in Nat
      BY <2>0, RateLimitAssumption DEF TypeOK
    <3>4. /\ arrivals' \in [ApiKeys -> SUBSET Member]
          /\ expiry' \in [ApiKeys -> Nat]
      BY <2>0, <2>2, <3>2, <3>3 DEF TypeOK, AllowRequest, Transaction
    <3>5. request' \in [Requests -> Request \cup {New}]
      BY <2>0, <2>2, <3>1 DEF TypeOK, AllowRequest, Become, Request, States
    <3>6. burst' \in {Burst, Rps} /\ now' \in Nat /\ faults' \in Nat
      BY <2>0, <2>2 DEF TypeOK, AllowRequest
    <3>7. QED  BY <3>4, <3>5, <3>6 DEF TypeOK
  <2>3. ASSUME NEW r \in Requests, Degrade(r) PROVE TypeOK'
    <3>1. request[r] \in Request
      BY <2>0, <2>3 DEF TypeOK, Degrade, New
    <3>2. WindowOf(r) \in SUBSET Member
      BY <2>0, <3>1 DEF TypeOK, WindowOf, Recent, Member, Request
    <3>3. now + 2 * Window \in Nat
      BY <2>0, RateLimitAssumption DEF TypeOK
    <3>4. /\ arrivals' \in [ApiKeys -> SUBSET Member]
          /\ expiry' \in [ApiKeys -> Nat]
      BY <2>0, <2>3, <3>2, <3>3 DEF TypeOK, Degrade, Transaction
    <3>5. request' \in [Requests -> Request \cup {New}]
      BY <2>0, <2>3, <3>1 DEF TypeOK, Degrade, Become, Request, States
    <3>6. burst' \in {Burst, Rps} /\ now' \in Nat /\ faults' \in Nat
      BY <2>0, <2>3 DEF TypeOK, Degrade
    <3>7. QED  BY <3>4, <3>5, <3>6 DEF TypeOK
  <2>4. CASE Tick
    BY <2>0, <2>4 DEF TypeOK, Tick
  <2>5. CASE UNCHANGED vars
    BY <2>0, <2>5 DEF TypeOK, vars
  <2>6. QED  BY <2>0, <2>1, <2>2, <2>3, <2>4, <2>5 DEF Next
<1>3. QED  BY <1>1, <1>2, PTL DEF Spec

-------------------------------------------------------------------------------
(* The invariant: what the sorted sets say of the requests, and how much of  *)
(* the past they may have forgotten.                                         *)

\* Stamps are of the past, and of a past that is near while Redis is awaited.
Clocked ==
  \A r \in Requests : Arrived(r) =>
    /\ request[r].stamp <= now
    /\ request[r].state = "stamped" => now <= request[r].stamp + MaxDelay

\* A member of a sorted set is a request of that key, with its stamp.
MembersTrue ==
  \A k \in ApiKeys : \A m \in arrivals[k] :
    /\ Arrived(m.member)
    /\ request[m.member].key = k
    /\ request[m.member].stamp = m.score

\* A request that was decided by the count is in its sorted set for as long as
\* its stamp is less than a second old, whatever later stamps have dropped.
Decided(r) == Arrived(r) /\ request[r].state \in {"allowed", "limited"}
MemberOf(r) == [member |-> r, score |-> request[r].stamp]
Remembered ==
  \A r \in Requests : Decided(r) =>
    /\ expiry[request[r].key] >= request[r].stamp + 2 * Window
    /\ request[r].stamp > now - Window
         => MemberOf(r) \in arrivals[request[r].key]

BurstRight == burst \in {Burst, Limit}

IInv == TypeOK /\ Clocked /\ MembersTrue /\ Remembered /\ BurstRight

LEMMA InitIInv == Init => IInv
  BY RateLimitAssumption
     DEF Init, IInv, TypeOK, Clocked, MembersTrue, Remembered, BurstRight,
         Arrived, Decided

LEMMA StampKeeps ==
  ASSUME IInv, TypeOK', NEW r \in Requests, Stamp(r)
  PROVE  IInv'
<1>1. PICK k \in ApiKeys :
        request' = [request EXCEPT ![r] = Carries(k, now, "stamped")]
  BY DEF Stamp
<1>2. /\ request[r] = New /\ UNCHANGED <<now, arrivals, expiry, burst>>
  BY DEF Stamp
<1>3. /\ request'[r] = [state |-> "stamped", key |-> k, stamp |-> now]
      /\ \A q \in Requests \ {r} : request'[q] = request[q]
  BY <1>1 DEF IInv, TypeOK, Carries
<1>4. Clocked'
  BY <1>2, <1>3, RateLimitAssumption DEF IInv, TypeOK, Clocked, Arrived, New
<1>5. MembersTrue'
  <2>1. \A j \in ApiKeys : \A m \in arrivals[j] : m.member \in Requests \ {r}
    BY <1>2 DEF IInv, TypeOK, MembersTrue, Arrived, Member
  <2>2. QED
    BY <1>2, <1>3, <2>1 DEF IInv, MembersTrue, Arrived
<1>6. Remembered'
  BY <1>2, <1>3 DEF IInv, Remembered, Decided, Arrived, MemberOf
<1>7. QED  BY <1>2, <1>4, <1>5, <1>6 DEF IInv, BurstRight, Limit

\* What the transaction of request r leaves in the sorted sets.
LEMMA TransactionKeeps ==
  ASSUME IInv, NEW r \in Requests, Arrived(r),
         request[r].state = "stamped", Transaction(r),
         NEW s \in {"allowed", "limited", "degraded"}, Become(r, s),
         now' = now, TypeOK'
  PROVE  Clocked' /\ MembersTrue' /\ Remembered'
<1> DEFINE k == request[r].key
           stamp == request[r].stamp
<1>0. /\ request[r] \in Request /\ k \in ApiKeys /\ stamp \in Nat
      /\ stamp <= now /\ now \in Nat
  BY DEF IInv, TypeOK, Request, Arrived, Clocked
<1>1. /\ request'[r] = [request[r] EXCEPT !.state = s]
      /\ \A q \in Requests \ {r} : request'[q] = request[q]
  BY DEF Become, IInv, TypeOK
<1>2. \A q \in Requests :
        /\ Arrived(q)' <=> Arrived(q)
        /\ Arrived(q) => /\ request'[q].key = request[q].key
                         /\ request'[q].stamp = request[q].stamp
                         /\ MemberOf(q)' = MemberOf(q)
  BY <1>0, <1>1 DEF Arrived, New, Request, MemberOf
<1>3. /\ arrivals'[k] = WindowOf(r)
      /\ expiry'[k] = now + 2 * Window
      /\ \A j \in ApiKeys \ {k} :
           arrivals'[j] = arrivals[j] /\ expiry'[j] = expiry[j]
  BY <1>0 DEF Transaction, IInv, TypeOK
<1>4. Clocked'
  BY <1>0, <1>1, <1>2 DEF Clocked, IInv
<1>5. MembersTrue'
  <2>1. SUFFICES ASSUME NEW j \in ApiKeys, NEW m \in arrivals'[j]
                 PROVE  /\ Arrived(m.member)'
                        /\ request'[m.member].key = j
                        /\ request'[m.member].stamp = m.score
    BY DEF MembersTrue
  <2>2. CASE m \in arrivals[j]
    <3>1. m.member \in Requests
      BY <2>2 DEF IInv, TypeOK, Member
    <3>2. QED  BY <2>2, <3>1, <1>2 DEF IInv, MembersTrue
  <2>3. CASE m \notin arrivals[j]
    <3>1. j = k /\ m = MemberOf(r)
      BY <2>1, <2>3, <1>3 DEF WindowOf, Recent, MemberOf
    <3>2. QED  BY <3>1, <1>2 DEF MemberOf
  <2>4. QED  BY <2>2, <2>3
<1>6. Remembered'
  <2>1. SUFFICES ASSUME NEW q \in Requests, Decided(q)'
                 PROVE  /\ expiry'[request[q].key]
                             >= request[q].stamp + 2 * Window
                        /\ request[q].stamp > now - Window
                             => MemberOf(q) \in arrivals'[request[q].key]
    BY <1>2 DEF Remembered, Decided
  <2>2. /\ Arrived(q) /\ request[q] \in Request
        /\ request[q].key \in ApiKeys /\ request[q].stamp \in Nat
        /\ request[q].stamp <= now
    BY <2>1, <1>2 DEF Decided, IInv, TypeOK, Arrived, Clocked, Request
  <2>3. CASE q = r
    BY <2>3, <1>0, <1>3, RateLimitAssumption DEF WindowOf, MemberOf
  <2>4. CASE q # r
    <3>1. /\ expiry[request[q].key] >= request[q].stamp + 2 * Window
          /\ request[q].stamp > now - Window
               => MemberOf(q) \in arrivals[request[q].key]
      BY <2>1, <2>4, <1>1 DEF Decided, Arrived, IInv, Remembered
    <3>2. CASE request[q].key # k
      BY <3>1, <3>2, <2>2, <1>3
    <3>3. CASE request[q].key = k
      <4>1. ASSUME request[q].stamp > now - Window,
                   MemberOf(q) \in arrivals[k]
            PROVE  MemberOf(q) \in WindowOf(r)
        <5>1. MemberOf(q).score > stamp - Window
          BY <4>1, <2>2, <1>0, RateLimitAssumption DEF MemberOf
        <5>2. QED  BY <4>1, <5>1 DEF WindowOf, Recent
      <4>2. expiry'[k] >= request[q].stamp + 2 * Window
        BY <1>3, <1>0, <2>2, RateLimitAssumption
      <4>3. QED  BY <3>1, <3>3, <4>1, <4>2, <1>3
    <3>4. QED  BY <3>2, <3>3
  <2>5. QED  BY <2>3, <2>4
<1>7. QED  BY <1>4, <1>5, <1>6

LEMMA AllowKeeps ==
  ASSUME IInv, TypeOK', NEW r \in Requests, AllowRequest(r)
  PROVE  IInv'
<1>1. Arrived(r) /\ request[r].state = "stamped"
  BY DEF AllowRequest, Arrived, New
<1>2. PICK s \in {"allowed", "limited", "degraded"} : Become(r, s)
  BY DEF AllowRequest
<1>3. Transaction(r) /\ now' = now
  BY DEF AllowRequest
<1>4. Clocked' /\ MembersTrue' /\ Remembered'
  BY <1>1, <1>2, <1>3, TransactionKeeps
<1>5. burst' = Limit
  BY RateLimitAssumption DEF AllowRequest, IInv, BurstRight, Limit
<1>6. QED  BY <1>4, <1>5 DEF IInv, BurstRight, Limit

LEMMA DegradeKeeps ==
  ASSUME IInv, TypeOK', NEW r \in Requests, Degrade(r)
  PROVE  IInv'
<1>1. /\ Arrived(r) /\ request[r].state = "stamped"
      /\ Become(r, "degraded") /\ now' = now /\ burst' = burst
  BY DEF Degrade, Arrived, New
<1>2. CASE Transaction(r)
  BY <1>1, <1>2, TransactionKeeps DEF IInv, BurstRight, Limit
<1>3. CASE UNCHANGED <<arrivals, expiry>>
  <2>0. request[r] \in Request
    BY <1>1 DEF IInv, TypeOK, Arrived
  <2>1. /\ request'[r] = [request[r] EXCEPT !.state = "degraded"]
        /\ \A q \in Requests \ {r} : request'[q] = request[q]
    BY <1>1 DEF Become, IInv, TypeOK
  <2>2. \A q \in Requests :
          /\ Arrived(q)' <=> Arrived(q)
          /\ Arrived(q) => /\ request'[q].key = request[q].key
                           /\ request'[q].stamp = request[q].stamp
                           /\ MemberOf(q)' = MemberOf(q)
    BY <2>0, <2>1 DEF Arrived, New, Request, MemberOf
  <2>3. \A q \in Requests : Decided(q)' => Decided(q)
    BY <2>0, <2>1 DEF Decided, Arrived, New, Request
  <2>4. Clocked'
    BY <2>0, <2>1, <2>2, <1>1 DEF Clocked, IInv, Request
  <2>5. MembersTrue'
    BY <2>2, <1>3 DEF MembersTrue, IInv, TypeOK, Member
  <2>6. Remembered'
    BY <2>2, <2>3, <1>1, <1>3 DEF Remembered, Decided, IInv
  <2>7. QED  BY <2>4, <2>5, <2>6, <1>1 DEF IInv, BurstRight, Limit
<1>4. QED  BY <1>2, <1>3 DEF Degrade

LEMMA TickKeeps ==
  ASSUME IInv, TypeOK', Tick
  PROVE  IInv'
<1>1. /\ now' = now + 1 /\ UNCHANGED <<expiry, burst, request>>
      /\ \A k \in ApiKeys :
           arrivals'[k] = IF expiry[k] <= now + 1 THEN {} ELSE arrivals[k]
  BY DEF Tick
<1>2. Clocked'
  <2>1. SUFFICES ASSUME NEW r \in Requests, Arrived(r)
                 PROVE  /\ request[r].stamp <= now + 1
                        /\ request[r].state = "stamped"
                             => now + 1 <= request[r].stamp + MaxDelay
    BY <1>1 DEF Clocked, Arrived
  <2>2. request[r].stamp \in Nat /\ now \in Nat /\ MaxDelay \in Nat
    BY <2>1, RateLimitAssumption DEF IInv, TypeOK, Arrived, Request
  <2>3. QED  BY <2>1, <2>2 DEF IInv, Clocked, Tick
<1>3. MembersTrue'
  BY <1>1 DEF IInv, MembersTrue, Arrived
<1>4. Remembered'
  <2>0. now' = now + 1 /\ expiry' = expiry /\ request' = request
    BY <1>1
  <2>1. SUFFICES ASSUME NEW r \in Requests, Decided(r)
                 PROVE  /\ expiry'[request'[r].key]
                             >= request'[r].stamp + 2 * Window
                        /\ request'[r].stamp > now' - Window
                             => MemberOf(r)' \in arrivals'[request'[r].key]
    BY <2>0 DEF Remembered, Decided, Arrived
  <2>2. /\ request[r].stamp \in Nat /\ request[r].key \in ApiKeys
        /\ now \in Nat /\ Window \in Nat \ {0}
        /\ expiry[request[r].key] \in Nat
    BY <2>1, RateLimitAssumption DEF Decided, IInv, TypeOK, Arrived, Request
  <2>3. /\ expiry[request[r].key] >= request[r].stamp + 2 * Window
        /\ request[r].stamp > now - Window
             => MemberOf(r) \in arrivals[request[r].key]
    BY <2>1 DEF IInv, Remembered
  <2>4. ASSUME request[r].stamp > now + 1 - Window
        PROVE  MemberOf(r) \in arrivals'[request[r].key]
    <3>1. request[r].stamp > now - Window /\ expiry[request[r].key] > now + 1
      BY <2>2, <2>3, <2>4
    <3>2. arrivals'[request[r].key] = arrivals[request[r].key]
      BY <1>1, <2>2, <3>1
    <3>3. QED  BY <2>3, <3>1, <3>2
  <2>5. MemberOf(r)' = MemberOf(r)
    BY <2>0 DEF MemberOf
  <2>6. QED  BY <2>0, <2>2, <2>3, <2>4, <2>5
<1>5. QED  BY <1>1, <1>2, <1>3, <1>4 DEF IInv, BurstRight, Limit

LEMMA NextKeeps ==
  ASSUME IInv, TypeOK', [Next]_vars
  PROVE  IInv'
<1>1. CASE UNCHANGED vars
  BY <1>1 DEF vars, IInv, Clocked, MembersTrue, Remembered, BurstRight,
     Arrived, Decided, MemberOf, Limit
<1>2. QED
  BY <1>1, StampKeeps, AllowKeeps, DegradeKeeps, TickKeeps DEF Next

THEOREM IInvHolds == Spec => []IInv
<1>1. Spec => []TypeOK
  BY TypeCorrect
<1>2. Init => IInv
  BY InitIInv
<1>3. TypeOK' /\ IInv /\ [Next]_vars => IInv'
  BY NextKeeps
<1>4. QED  BY <1>1, <1>2, <1>3, PTL DEF Spec
-------------------------------------------------------------------------------
(* Counting: a sorted set has as many members as requests are in it.         *)

LEMMA WindowFinite ==
  ASSUME IInv, NEW r \in Requests, Arrived(r)
  PROVE  /\ IsFiniteSet(WindowOf(r)) /\ Cardinality(WindowOf(r)) \in Nat
         /\ \A m \in WindowOf(r) :
              /\ m = MemberOf(m.member) /\ m.member \in Requests
              /\ Arrived(m.member)
              /\ request[m.member].key = request[r].key
              /\ request[m.member].stamp > request[r].stamp - Window
<1>0. /\ request[r] \in Request /\ request[r].key \in ApiKeys
      /\ request[r].stamp \in Nat /\ Window \in Nat \ {0}
  BY RateLimitAssumption DEF IInv, TypeOK, Arrived, Request
<1>1. ASSUME NEW m \in WindowOf(r)
      PROVE  /\ m = MemberOf(m.member) /\ m.member \in Requests
             /\ Arrived(m.member)
             /\ request[m.member].key = request[r].key
             /\ request[m.member].stamp > request[r].stamp - Window
  <2>1. CASE m \in Recent(r, arrivals[request[r].key])
    <3>1. m \in arrivals[request[r].key] /\ m.score > request[r].stamp - Window
      BY <2>1 DEF Recent
    <3>2. m \in Member
      BY <1>0, <3>1 DEF IInv, TypeOK
    <3>3. QED  BY <1>0, <3>1, <3>2 DEF IInv, MembersTrue, MemberOf, Member
  <2>2. CASE m = MemberOf(r)
    BY <2>2, <1>0 DEF MemberOf
  <2>3. QED  BY <1>1, <2>1, <2>2 DEF WindowOf, MemberOf
<1>2. DEFINE f == [m \in WindowOf(r) |-> m.member]
<1>3. f \in Injection(WindowOf(r), Requests)
  BY <1>1 DEF Injection, IsInjective
<1>4. IsFiniteSet(WindowOf(r))
  BY <1>3, RateLimitAssumption, FS_Injection
<1>5. QED  BY <1>1, <1>4, FS_CardinalityType

\* The requests whose members a set of members has are as many as it.
LEMMA CountRequests ==
  ASSUME NEW Q \in SUBSET Requests, NEW M, IsFiniteSet(M),
         \A q \in Q : MemberOf(q) \in M
  PROVE  IsFiniteSet(Q) /\ Cardinality(Q) <= Cardinality(M)
<1>1. DEFINE f == [q \in Q |-> MemberOf(q)]
<1>2. f \in Injection(Q, M)
  BY DEF Injection, IsInjective, MemberOf
<1>3. QED  BY <1>2, FS_Injection

LEMMA CountMembers ==
  ASSUME NEW Q \in SUBSET Requests, NEW M,
         \A m \in M : m = MemberOf(m.member) /\ m.member \in Q
  PROVE  Cardinality(M) <= Cardinality(Q) /\ Cardinality(Q) \in Nat
<1>1. DEFINE f == [m \in M |-> m.member]
<1>2. f \in Injection(M, Q)
  BY DEF Injection, IsInjective
<1>3. IsFiniteSet(Q)
  BY RateLimitAssumption, FS_Subset
<1>4. QED  BY <1>2, <1>3, FS_Injection, FS_CardinalityType

-------------------------------------------------------------------------------
(* No window of a second, less the delay, lets through more than the limit.  *)

InWindow(k, t) == Passed({k}, t, Window - MaxDelay)
UnderLimit ==
  \A k \in ApiKeys, t \in Nat : Cardinality(InWindow(k, t)) <= Limit

\* A step that lets no request through leaves the windows as they are.
LEMMA SameWindows ==
  ASSUME IInv, UnderLimit,
         \A q \in Requests :
           Arrived(q)' /\ request'[q].state = "allowed"
             => request'[q] = request[q]
  PROVE  UnderLimit'
<1>1. SUFFICES ASSUME NEW k \in ApiKeys, NEW t \in Nat
               PROVE  Cardinality(InWindow(k, t)') <= Limit
  BY DEF UnderLimit, Limit, InWindow
<1>2. InWindow(k, t)' \subseteq InWindow(k, t)
  BY DEF InWindow, Passed, Arrived
<1>3. InWindow(k, t) \in SUBSET Requests
  BY DEF InWindow, Passed
<1>4. /\ IsFiniteSet(InWindow(k, t)) /\ IsFiniteSet(InWindow(k, t)')
      /\ Cardinality(InWindow(k, t)') <= Cardinality(InWindow(k, t))
  BY <1>2, <1>3, RateLimitAssumption, FS_Subset
<1>5. /\ Cardinality(InWindow(k, t)') \in Nat
      /\ Cardinality(InWindow(k, t)) \in Nat
  BY <1>4, FS_CardinalityType
<1>6. Cardinality(InWindow(k, t)) <= Limit
  BY DEF UnderLimit
<1>7. Limit \in Int
  BY RateLimitAssumption DEF Limit
<1>8. QED  BY <1>4, <1>5, <1>6, <1>7
LEMMA AllowedInWindow ==
  ASSUME IInv, TypeOK', UnderLimit, NEW r \in Requests, AllowRequest(r),
         request'[r].state = "allowed"
  PROVE  UnderLimit'
<1>0. /\ request[r] \in Request /\ Arrived(r) /\ request[r].state = "stamped"
      /\ request[r].stamp \in Nat /\ now \in Nat
      /\ now <= request[r].stamp + MaxDelay
  BY DEF AllowRequest, New, IInv, TypeOK, Clocked, Arrived, Request
<1>1. PICK s \in {"allowed", "limited"} : Become(r, s)
  BY DEF AllowRequest
<1>2. /\ request'[r] = [request[r] EXCEPT !.state = "allowed"]
      /\ \A q \in Requests \ {r} : request'[q] = request[q]
  BY <1>0, <1>1 DEF Become, IInv, TypeOK, Request
<1>3. Cardinality(WindowOf(r)) <= Limit
  <2>1. Allowed(r, IF burst <= 0 THEN Rps ELSE burst)
    BY <1>0 DEF AllowRequest, Become, IInv, TypeOK, Request
  <2>2. (IF burst <= 0 THEN Rps ELSE burst) = Limit
    BY RateLimitAssumption DEF IInv, BurstRight, Limit
  <2>3. QED  BY <2>1, <2>2 DEF Allowed
<1>4. Limit \in Int /\ Window \in Nat \ {0} /\ MaxDelay \in Nat
  BY RateLimitAssumption DEF Limit
<1>5. SUFFICES ASSUME NEW k \in ApiKeys, NEW t \in Nat
               PROVE  Cardinality(InWindow(k, t)') <= Limit
  BY DEF UnderLimit, Limit, InWindow
<1>6. InWindow(k, t)' \in SUBSET Requests /\ InWindow(k, t) \in SUBSET Requests
  BY DEF InWindow, Passed
<1>7. CASE r \notin InWindow(k, t)'
  <2>1. InWindow(k, t)' \subseteq InWindow(k, t)
    BY <1>2, <1>7 DEF InWindow, Passed, Arrived
  <2>2. IsFiniteSet(InWindow(k, t)) /\ IsFiniteSet(InWindow(k, t)')
        /\ Cardinality(InWindow(k, t)') <= Cardinality(InWindow(k, t))
    BY <1>6, <2>1, RateLimitAssumption, FS_Subset
  <2>3. /\ Cardinality(InWindow(k, t)) \in Nat
        /\ Cardinality(InWindow(k, t)') \in Nat
    BY <2>2, FS_CardinalityType
  <2>4. Cardinality(InWindow(k, t)) <= Limit
    BY DEF UnderLimit
  <2>5. QED  BY <2>2, <2>3, <2>4, <1>4
<1>8. CASE r \in InWindow(k, t)'
  <2>1. request[r].key = k /\ request[r].stamp <= t
    BY <1>0, <1>2, <1>8 DEF InWindow, Passed, Request
  <2>2. ASSUME NEW q \in InWindow(k, t)'
        PROVE  MemberOf(q) \in WindowOf(r)
    <3>1. CASE q = r
      BY <3>1 DEF WindowOf, MemberOf
    <3>2. CASE q # r
      <4>1. /\ q \in Requests /\ Arrived(q) /\ request[q].state = "allowed"
            /\ request[q].key = k
            /\ request[q].stamp > t - (Window - MaxDelay)
        BY <1>2, <3>2 DEF InWindow, Passed, Arrived
      <4>2. request[q].stamp \in Nat
        BY <4>1 DEF IInv, TypeOK, Arrived, Request
      <4>3. /\ request[q].stamp > now - Window
            /\ request[q].stamp > request[r].stamp - Window
        BY <1>0, <1>4, <2>1, <4>1, <4>2
      <4>4. MemberOf(q) \in arrivals[k]
        BY <4>1, <4>3 DEF IInv, Remembered, Decided
      <4>5. QED
        BY <2>1, <4>3, <4>4 DEF WindowOf, Recent, MemberOf
    <3>3. QED  BY <3>1, <3>2
  <2>3. IsFiniteSet(WindowOf(r)) /\ Cardinality(WindowOf(r)) \in Nat
    BY <1>0, WindowFinite
  <2>4. /\ IsFiniteSet(InWindow(k, t)')
        /\ Cardinality(InWindow(k, t)') <= Cardinality(WindowOf(r))
    BY <1>6, <2>2, <2>3, CountRequests
  <2>5. Cardinality(InWindow(k, t)') \in Nat
    BY <2>4, FS_CardinalityType
  <2>6. QED  BY <1>3, <1>4, <2>3, <2>4, <2>5
<1>9. QED  BY <1>7, <1>8

LEMMA UnderLimitKept ==
  ASSUME IInv, TypeOK', UnderLimit, [Next]_vars
  PROVE  UnderLimit'
<1>1. ASSUME NEW r \in Requests, Stamp(r) PROVE UnderLimit'
  BY <1>1, SameWindows DEF Stamp, Carries, IInv, TypeOK
<1>2. ASSUME NEW r \in Requests, AllowRequest(r) PROVE UnderLimit'
  <2>1. CASE request'[r].state = "allowed"
    BY <1>2, <2>1, AllowedInWindow
  <2>2. CASE request'[r].state # "allowed"
    BY <1>2, <2>2, SameWindows DEF AllowRequest, Become, IInv, TypeOK
  <2>3. QED  BY <2>1, <2>2
<1>3. ASSUME NEW r \in Requests, Degrade(r) PROVE UnderLimit'
  <2>1. request[r] \in Request
    BY <1>3 DEF Degrade, New, IInv, TypeOK
  <2>2. /\ request'[r].state = "degraded"
        /\ \A q \in Requests \ {r} : request'[q] = request[q]
    BY <1>3, <2>1 DEF Degrade, Become, IInv, TypeOK, Request
  <2>3. QED  BY <2>2, SameWindows
<1>4. CASE Tick
  BY <1>4, SameWindows DEF Tick
<1>5. CASE UNCHANGED vars
  BY <1>5, SameWindows DEF vars
<1>6. QED  BY <1>1, <1>2, <1>3, <1>4, <1>5 DEF Next

\* WindowLimited, unless the configured limit is negative, when no request at
\* all passes and there is nothing to limit.
THEOREM WindowLimitedHolds == Limit >= 0 => (Spec => []WindowLimited)
<1> SUFFICES ASSUME Limit >= 0 PROVE Spec => []WindowLimited
  OBVIOUS
<1>1. Spec => []TypeOK
  BY TypeCorrect
<1>2. Spec => []IInv
  BY IInvHolds
<1>3. Init => UnderLimit
  <2>1. SUFFICES ASSUME Init, NEW k \in ApiKeys, NEW t \in Nat
                 PROVE  Cardinality(InWindow(k, t)) <= Limit
    BY DEF UnderLimit
  <2>2. InWindow(k, t) = {}
    BY <2>1 DEF Init, InWindow, Passed, Arrived
  <2>3. QED  BY <2>2, FS_EmptySet
<1>4. IInv /\ TypeOK' /\ UnderLimit /\ [Next]_vars => UnderLimit'
  BY UnderLimitKept
<1>5. IInv /\ UnderLimit => WindowLimited
  BY DEF UnderLimit, InWindow, WindowLimited, IInv, TypeOK
<1>6. QED  BY <1>1, <1>2, <1>3, <1>4, <1>5, PTL DEF Spec

-------------------------------------------------------------------------------
(* Nobody is refused without a cause. *)

Came(r) ==
  {q \in Requests :
     /\ Arrived(q)
     /\ request[q].key = request[r].key
     /\ request[q].stamp > request[r].stamp - Window}

\* Who has come stays, with key and stamp.
LEMMA Stays ==
  ASSUME IInv, [Next]_vars
  PROVE  \A q \in Requests : Arrived(q) =>
           /\ Arrived(q)'
           /\ request'[q].key = request[q].key
           /\ request'[q].stamp = request[q].stamp
           /\ \/ request'[q].state = "limited" => request[q].state = "limited"
              \/ AllowRequest(q)
<1>1. ASSUME NEW r \in Requests, Become(r, "allowed") \/ Become(r, "limited")
                                   \/ Become(r, "degraded"),
             request[r] # New
      PROVE  \A q \in Requests : Arrived(q) =>
               /\ Arrived(q)'
               /\ request'[q].key = request[q].key
               /\ request'[q].stamp = request[q].stamp
               /\ q # r => request'[q].state = request[q].state
               /\ Become(r, "degraded") => request'[r].state = "degraded"
  BY <1>1 DEF Become, IInv, TypeOK, Arrived, New, Request
<1>2. ASSUME NEW r \in Requests, Stamp(r)
      PROVE  \A q \in Requests : Arrived(q) => request'[q] = request[q]
  BY <1>2 DEF Stamp, Arrived, IInv, TypeOK
<1>3. CASE \E r \in Requests : Stamp(r)
  BY <1>2, <1>3 DEF Arrived
<1>4. CASE \E r \in Requests : AllowRequest(r)
  <2>1. PICK r \in Requests : AllowRequest(r)
    BY <1>4
  <2>2. /\ request[r] # New
        /\ Become(r, "allowed") \/ Become(r, "limited")
    BY <2>1 DEF AllowRequest, New
  <2>3. QED  BY <1>1, <2>1, <2>2
<1>5. CASE \E r \in Requests : Degrade(r)
  <2>1. PICK r \in Requests : Degrade(r)
    BY <1>5
  <2>2. request[r] # New /\ Become(r, "degraded")
    BY <2>1 DEF Degrade, New
  <2>3. QED  BY <1>1, <2>2
<1>6. CASE Tick \/ UNCHANGED vars
  BY <1>6 DEF Tick, vars, Arrived
<1>7. QED  BY <1>3, <1>4, <1>5, <1>6 DEF Next

\* RefusedForCause: the members counted in the transaction are requests with
\* that key that came in the second before the stamp or after it, and these
\* only become more.
THEOREM RefusedForCauseHolds == Spec => []RefusedForCause
<1>1. Spec => []IInv
  BY IInvHolds
<1>2. Init => RefusedForCause
  BY DEF Init, RefusedForCause, Arrived
<1>3. IInv /\ IInv' /\ RefusedForCause /\ [Next]_vars => RefusedForCause'
  <2>1. SUFFICES ASSUME IInv, IInv', RefusedForCause, [Next]_vars,
                        NEW r \in Requests,
                        Arrived(r)', request'[r].state = "limited"
                 PROVE  Cardinality(Came(r)') > Limit
    BY DEF RefusedForCause, Came, Limit
  <2>2. Limit \in Int
    BY RateLimitAssumption DEF Limit
  <2>3. Arrived(r)
    BY <2>1 DEF Next, Stamp, Carries, AllowRequest, Degrade, Become, Tick,
       vars, Arrived, New, IInv, TypeOK
  <2>4. /\ request'[r].key = request[r].key
        /\ request'[r].stamp = request[r].stamp
        /\ \A q \in Requests : Arrived(q) =>
              /\ Arrived(q)'
              /\ request'[q].key = request[q].key
              /\ request'[q].stamp = request[q].stamp
    BY <2>1, <2>3, Stays
  <2>5. Came(r) \subseteq Came(r)' /\ Came(r)' \in SUBSET Requests
    BY <2>4 DEF Came
  <2>6. CASE request[r].state = "limited"
    <3>1. Cardinality(Came(r)) > Limit
      BY <2>1, <2>3, <2>6 DEF RefusedForCause, Came
    <3>2. IsFiniteSet(Came(r)')
      BY <2>5, RateLimitAssumption, FS_Subset
    <3>3. IsFiniteSet(Came(r)) /\ Cardinality(Came(r)) <= Cardinality(Came(r)')
      BY <3>2, <2>5, FS_Subset
    <3>4. Cardinality(Came(r)) \in Nat /\ Cardinality(Came(r)') \in Nat
      BY <3>2, <3>3, FS_CardinalityType
    <3>5. QED  BY <3>1, <3>3, <3>4, <2>2
  <2>7. CASE AllowRequest(r)
    <3>1. Cardinality(WindowOf(r)) > Limit
      <4>1. ~Allowed(r, IF burst <= 0 THEN Rps ELSE burst)
        <5>1. request[r] \in Request
          BY <2>1, <2>3 DEF Arrived, IInv, TypeOK
        <5>2. ~ Become(r, "allowed")
          BY <2>1, <5>1 DEF Become, IInv, TypeOK, Request
        <5>3. QED  BY <2>7, <5>2 DEF AllowRequest
      <4>2. (IF burst <= 0 THEN Rps ELSE burst) = Limit
        BY <2>1, RateLimitAssumption DEF IInv, BurstRight, Limit
      <4>3. Cardinality(WindowOf(r)) \in Nat
        BY <2>1, <2>3, WindowFinite
      <4>4. QED  BY <4>1, <4>2, <4>3, <2>2 DEF Allowed
    <3>2. \A m \in WindowOf(r) : m = MemberOf(m.member) /\ m.member \in Came(r)
      BY <2>1, <2>3, WindowFinite DEF Came
    <3>3. \A m \in WindowOf(r) :
            m = MemberOf(m.member) /\ m.member \in Came(r)'
      BY <3>2, <2>5
    <3>4. /\ Cardinality(WindowOf(r)) <= Cardinality(Came(r)')
          /\ Cardinality(Came(r)') \in Nat
      BY <3>3, <2>5, CountMembers
    <3>5. Cardinality(WindowOf(r)) \in Nat
      BY <2>1, <2>3, WindowFinite
    <3>6. QED  BY <3>1, <3>4, <3>5, <2>2
  <2>8. QED  BY <2>1, <2>3, <2>6, <2>7, Stays
<1>4. QED  BY <1>1, <1>2, <1>3, PTL DEF Spec
===============================================================================
