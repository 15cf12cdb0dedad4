------------------------------ MODULE RateLimit -------------------------------
(***************************************************************************)
(* Middleware.RateLimit: a sliding window of one second for each API key,  *)
(* kept in Redis as a sorted set of the requests that came within it.  The *)
(* server stamps a request with its own clock and then runs one MULTI/EXEC *)
(* transaction, so that concurrent requests reach Redis out of the order   *)
(* of their stamps.                                                        *)
(*                                                                         *)
(* Time is counted in ticks, Window of them to the second.  The clock of   *)
(* the server is Redis's and is never set back.  Left out: requests        *)
(* without a valid API key, which RequireAPIKey refuses before, and what   *)
(* the next handler does.                                                  *)
(*                                                                         *)
(* An operator whose name ends in _bug is a mutant of the operator after   *)
(* it.                                                                     *)
(***************************************************************************)
EXTENDS Integers, FiniteSets

CONSTANTS
  Requests,  \* the requests that arrive
  ApiKeys,   \* the rows of table api_keys
  UserOf,    \* the user each API key belongs to
  Rps,       \* cfg.RateLimitRPS
  Burst,     \* cfg.RateLimitBurst
  Window,    \* ticks in a second
  MaxDelay,  \* bound: ticks from a request's stamp to its transaction
  MaxTime,   \* bound: when the clock stops
  MaxFaults  \* bound: how often Redis may fail

ASSUME RateLimitAssumption ==
  /\ IsFiniteSet(Requests)
  /\ Rps \in Int /\ Burst \in Int
  /\ Window \in Nat \ {0}
  /\ MaxDelay \in Nat /\ MaxTime \in Nat /\ MaxFaults \in Nat

VARIABLES
  now,      \* the clock
  arrivals, \* sorted sets "ratelimit:<key>": members and their scores
  expiry,   \* when Redis drops each sorted set, unless it is touched before
  burst,    \* field burst of the Middleware
  request,  \* what became of each request
  faults    \* how often Redis has failed

vars == <<now, arrivals, expiry, burst, request, faults>>

-------------------------------------------------------------------------------
New == [state |-> "new"]
Carries_bug(k, t, s) == [state |-> s, key |-> k]
Carries(k, t, s) == [state |-> s, key |-> k, stamp |-> t]
States == {"stamped", "allowed", "limited", "degraded"}
Request == [state : States, key : ApiKeys, stamp : Nat]
Arrived(r) == request[r] # New

Member == [member : Requests, score : Nat]
Become(r, s) == request' = [request EXCEPT ![r].state = s]

\* A request passes RequireAPIKey and allowRequest reads the clock.
Stamp(r) ==
  /\ request[r] = New
  /\ \E k \in ApiKeys :
       request' = [request EXCEPT ![r] = Carries(k, now, "stamped")]
  /\ UNCHANGED <<now, arrivals, expiry, burst, faults>>

-------------------------------------------------------------------------------
(* The transaction: ZREMRANGEBYSCORE, ZADD, ZCARD, EXPIRE. *)

Recent_bug(r, set) == set
Recent(r, set) == {m \in set : m.score > request[r].stamp - Window}

WindowOf(r) ==
  Recent(r, arrivals[request[r].key])
    \cup {[member |-> r, score |-> request[r].stamp]}

Transaction(r) ==
  /\ arrivals' = [arrivals EXCEPT ![request[r].key] = WindowOf(r)]
  /\ expiry' = [expiry EXCEPT ![request[r].key] = now + 2 * Window]

-------------------------------------------------------------------------------
(* allowRequest and RateLimit *)

\* The request is counted in the window also when it is refused.
Allowed_bug(r, limit) == Cardinality(WindowOf(r)) <= limit + 1
Allowed(r, limit) == Cardinality(WindowOf(r)) <= limit

AllowRequest(r) ==
  LET limit == IF burst <= 0 THEN Rps ELSE burst
  IN  /\ request[r].state = "stamped"
      /\ Transaction(r)
      /\ burst' = limit
      /\ \/ Allowed(r, limit) /\ Become(r, "allowed")
         \/ ~Allowed(r, limit) /\ Become(r, "limited")
      /\ UNCHANGED <<now, faults>>

\* Redis fails, with or without having run the transaction: the request is
\* passed on unlimited.
Degrade(r) ==
  /\ request[r].state = "stamped"
  /\ faults < MaxFaults
  /\ faults' = faults + 1
  /\ Transaction(r) \/ UNCHANGED <<arrivals, expiry>>
  /\ Become(r, "degraded")
  /\ UNCHANGED <<now, burst>>

-------------------------------------------------------------------------------
\* Time passes, though no request waits longer than MaxDelay for Redis, and
\* Redis drops the sorted sets that expire.
Tick ==
  /\ now < MaxTime
  /\ \A r \in Requests :
       Arrived(r) /\ request[r].state = "stamped"
         => now < request[r].stamp + MaxDelay
  /\ now' = now + 1
  /\ arrivals' =
       [k \in ApiKeys |-> IF expiry[k] <= now + 1 THEN {} ELSE arrivals[k]]
  /\ UNCHANGED <<expiry, burst, request, faults>>

Init ==
  /\ now = 0
  /\ arrivals = [k \in ApiKeys |-> {}]
  /\ expiry = [k \in ApiKeys |-> 0]
  /\ burst = Burst
  /\ request = [r \in Requests |-> New]
  /\ faults = 0

Next ==
  \/ \E r \in Requests : Stamp(r) \/ AllowRequest(r) \/ Degrade(r)
  \/ Tick

Spec == Init /\ [][Next]_vars

-------------------------------------------------------------------------------
(* Properties. *)

TypeOK ==
  /\ now \in Nat
  /\ arrivals \in [ApiKeys -> SUBSET Member]
  /\ expiry \in [ApiKeys -> Nat]
  /\ burst \in {Burst, Rps}
  /\ request \in [Requests -> Request \cup {New}]
  /\ faults \in Nat

Limit == IF Burst <= 0 THEN Rps ELSE Burst

\* The requests of the given API keys that the limiter has let through and that
\* were stamped within the length ticks up to t.
Passed(keys, t, length) ==
  {r \in Requests :
     /\ Arrived(r)
     /\ request[r].state = "allowed"
     /\ request[r].key \in keys
     /\ request[r].stamp <= t
     /\ request[r].stamp > t - length}

\* No more requests of an API key than the limit are let through in any second,
\* or in a second less the delay when transactions run out of order: a later
\* stamp may have dropped from the window what an earlier one should count.
WindowLimited ==
  \A k \in ApiKeys, t \in 0..now :
    Cardinality(Passed({k}, t, Window - MaxDelay)) <= Limit

\* A request is refused only if more requests than the limit, itself included,
\* came with its key in the second before it or after it: what the window no
\* longer covers, and what other keys send, does not count against it.
RefusedForCause ==
  \A r \in Requests :
    Arrived(r) /\ request[r].state = "limited" =>
      Cardinality({q \in Requests :
        /\ Arrived(q)
        /\ request[q].key = request[r].key
        /\ request[q].stamp > request[r].stamp - Window}) > Limit

\* What the README says: the rate limiting is per user.
UserLimited ==
  \A k \in ApiKeys, t \in 0..now :
    LET keys == {j \in ApiKeys : UserOf[j] = UserOf[k]}
    IN  Cardinality(Passed(keys, t, Window - MaxDelay)) <= Limit
===============================================================================
