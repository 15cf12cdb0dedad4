-------------------------- MODULE DeliveryCountProofs --------------------------
(***************************************************************************)
(* What keeps Delivery from sending twice or too often, by counting: every *)
(* attempt that may still come, and every acceptance that was, is paid for *)
(* by the client's request, by an operator's retry or by an aborted        *)
(* handler; and until it is dead lettered a notification has one attempt   *)
(* at a time, whose number is its job's and above all numbers before,      *)
(* while afterwards every number up to max_attempts stays taken.           *)
(***************************************************************************)
EXTENDS DeliveryProofs, FiniteSetTheorems

\* The attempts at notification n that may still come: delayed jobs, jobs to be
\* taken, handlers that have not sent or may reschedule, and Submit before it
\* has enqueued the first.
EarlyPc == {"get", "increment", "sending", "bury", "reschedule"}
Waiting(n) == {job \in scheduled : job.notification = n}
Ready(n) == {job \in pending : job.notification = n}
Trying(n) == {w \in Workers : worker[w].pc \in EarlyPc /\ Subject(w) = n}
First(n) == IF submit[n] \in {"new", "appendLog", "enqueue"} THEN 1 ELSE 0

Acks(n) == tally[n]["acks"]
Credit(n) == 1 + tally[n]["manual"] + tally[n]["aborts"]

Paid(n) ==
  /\ IsFiniteSet(Waiting(n)) /\ IsFiniteSet(Ready(n)) /\ IsFiniteSet(Trying(n))
  /\ Acks(n) + Cardinality(Waiting(n)) + Cardinality(Ready(n))
       + Cardinality(Trying(n)) + First(n) <= Credit(n)
AllPaid == \A n \in Notifications : Paid(n)

-------------------------------------------------------------------------------
(* What a step does to the attempts at notification n. *)

\* Nothing comes but what was there.
Quiet(n) ==
  /\ Waiting(n)' \subseteq Waiting(n)
  /\ Ready(n)' \subseteq Ready(n)
  /\ Trying(n)' \subseteq Trying(n)
  /\ First(n)' <= First(n)
  /\ Acks(n)' = Acks(n)
  /\ Credit(n)' >= Credit(n)

\* Submit enqueues the first job.
Enqueued(n, job) ==
  /\ First(n) = 1 /\ First(n)' = 0
  /\ Ready(n)' \subseteq Ready(n) \cup {job}
  /\ Waiting(n)' = Waiting(n) /\ Trying(n)' = Trying(n)
  /\ Acks(n)' = Acks(n) /\ Credit(n)' = Credit(n)

\* A delayed job becomes due.
Due(n, job) ==
  /\ job \in Waiting(n) /\ Waiting(n)' = Waiting(n) \ {job}
  /\ Ready(n)' \subseteq Ready(n) \cup {job}
  /\ Trying(n)' = Trying(n) /\ First(n)' = First(n)
  /\ Acks(n)' = Acks(n) /\ Credit(n)' = Credit(n)

\* A worker takes a job.
Taken(n, job, w) ==
  /\ job \in Ready(n) /\ Ready(n)' = Ready(n) \ {job}
  /\ Trying(n)' \subseteq Trying(n) \cup {w}
  /\ Waiting(n)' = Waiting(n) /\ First(n)' = First(n)
  /\ Acks(n)' = Acks(n) /\ Credit(n)' = Credit(n)

\* The provider accepts.
Accepted(n, w) ==
  /\ w \in Trying(n) /\ Trying(n)' \subseteq Trying(n) \ {w}
  /\ Waiting(n)' = Waiting(n) /\ Ready(n)' = Ready(n) /\ First(n)' = First(n)
  /\ Acks(n)' = Acks(n) + 1 /\ Credit(n)' = Credit(n)

\* A handler schedules the next attempt and will make none itself.
Rescheduled(n, job, w) ==
  /\ w \in Trying(n) /\ Trying(n)' \subseteq Trying(n) \ {w}
  /\ Waiting(n)' \subseteq Waiting(n) \cup {job}
  /\ Ready(n)' = Ready(n) /\ First(n)' = First(n)
  /\ Acks(n)' = Acks(n) /\ Credit(n)' = Credit(n)

\* A job is requeued, and paid for.
Requeued(n, job) ==
  /\ Ready(n)' \subseteq Ready(n) \cup {job}
  /\ Waiting(n)' = Waiting(n) /\ Trying(n)' \subseteq Trying(n)
  /\ First(n)' = First(n)
  /\ Acks(n)' = Acks(n) /\ Credit(n)' = Credit(n) + 1

Moves(n) ==
  \/ Quiet(n)
  \/ \E job : Enqueued(n, job) \/ Due(n, job) \/ Requeued(n, job)
  \/ \E w : Accepted(n, w)
  \/ \E job, w : Taken(n, job, w) \/ Rescheduled(n, job, w)

-------------------------------------------------------------------------------
(* Counting. *)

LEMMA Shrinks ==
  ASSUME NEW S, NEW T, IsFiniteSet(S), T \subseteq S
  PROVE  /\ IsFiniteSet(T) /\ Cardinality(T) <= Cardinality(S)
         /\ Cardinality(S) \in Nat /\ Cardinality(T) \in Nat
<1>1. IsFiniteSet(T) /\ Cardinality(T) <= Cardinality(S)
  <2>1. T \in SUBSET S
    OBVIOUS
  <2>2. QED  BY <2>1, FS_Subset
<1>2. Cardinality(S) \in Nat /\ Cardinality(T) \in Nat
  BY <1>1, FS_CardinalityType
<1>3. QED  BY <1>1, <1>2

LEMMA Gains ==
  ASSUME NEW S, NEW T, NEW x, IsFiniteSet(S), T \subseteq S \cup {x}
  PROVE  /\ IsFiniteSet(T) /\ Cardinality(T) <= Cardinality(S) + 1
         /\ Cardinality(S) \in Nat /\ Cardinality(T) \in Nat
<1>0. Cardinality(S) \in Nat
  BY FS_CardinalityType
<1>1. /\ IsFiniteSet(S \cup {x})
      /\ Cardinality(S \cup {x}) <= Cardinality(S) + 1
  BY <1>0, FS_AddElement
<1>2. /\ IsFiniteSet(T) /\ Cardinality(T) <= Cardinality(S \cup {x})
      /\ Cardinality(S \cup {x}) \in Nat /\ Cardinality(T) \in Nat
  BY <1>1, Shrinks
<1>3. QED  BY <1>0, <1>1, <1>2

LEMMA Loses ==
  ASSUME NEW S, NEW T, NEW x, IsFiniteSet(S), x \in S, T \subseteq S \ {x}
  PROVE  /\ IsFiniteSet(T) /\ Cardinality(T) + 1 <= Cardinality(S)
         /\ Cardinality(S) \in Nat /\ Cardinality(T) \in Nat
<1>0. Cardinality(S) \in Nat
  BY FS_CardinalityType
<1>1. /\ IsFiniteSet(S \ {x})
      /\ Cardinality(S \ {x}) = Cardinality(S) - 1
  BY <1>0, FS_RemoveElement
<1>2. /\ IsFiniteSet(T) /\ Cardinality(T) <= Cardinality(S \ {x})
      /\ Cardinality(T) \in Nat
  BY <1>1, Shrinks
<1>3. QED  BY <1>0, <1>1, <1>2

LEMMA TalliesAreNat ==
  ASSUME TypeOK, NEW n \in Notifications
  PROVE  Acks(n) \in Nat /\ Credit(n) \in Nat /\ First(n) \in Nat
<1>1. \A kind \in TallyKinds : tally[n][kind] \in Nat
  BY DEF TypeOK
<1>2. {"acks", "manual", "aborts"} \subseteq TallyKinds
  BY DEF TallyKinds
<1>3. QED  BY <1>1, <1>2 DEF Acks, Credit, First

\* None of these moves spends more than there is.
LEMMA MovesArePaid ==
  ASSUME TypeOK, TypeOK', NEW n \in Notifications, Paid(n), Moves(n)
  PROVE  Paid(n)'
<1>1. /\ Acks(n) \in Nat /\ Credit(n) \in Nat /\ First(n) \in Nat
  BY TalliesAreNat
<1>2. /\ Acks(n)' \in Nat /\ Credit(n)' \in Nat /\ First(n)' \in Nat
  <2>1. \A kind \in TallyKinds : tally'[n][kind] \in Nat
    BY DEF TypeOK
  <2>2. {"acks", "manual", "aborts"} \subseteq TallyKinds
    BY DEF TallyKinds
  <2>3. QED  BY <2>1, <2>2 DEF Acks, Credit, First
<1>3. /\ IsFiniteSet(Waiting(n)) /\ IsFiniteSet(Ready(n)) /\ IsFiniteSet(Trying(n))
      /\ Acks(n) + Cardinality(Waiting(n)) + Cardinality(Ready(n))
           + Cardinality(Trying(n)) + First(n) <= Credit(n)
  BY DEF Paid
<1>4. /\ Cardinality(Waiting(n)) \in Nat /\ Cardinality(Ready(n)) \in Nat
      /\ Cardinality(Trying(n)) \in Nat
  BY <1>3, FS_CardinalityType
<1>5. SUFFICES
        /\ IsFiniteSet(Waiting(n)') /\ IsFiniteSet(Ready(n)')
        /\ IsFiniteSet(Trying(n)')
        /\ Acks(n)' + Cardinality(Waiting(n)') + Cardinality(Ready(n)')
             + Cardinality(Trying(n)') + First(n)' <= Credit(n)'
  BY DEF Paid
<1>6. CASE Quiet(n)
  <2>1. /\ IsFiniteSet(Waiting(n)') /\ Cardinality(Waiting(n)') <= Cardinality(Waiting(n))
        /\ IsFiniteSet(Ready(n)') /\ Cardinality(Ready(n)') <= Cardinality(Ready(n))
        /\ IsFiniteSet(Trying(n)') /\ Cardinality(Trying(n)') <= Cardinality(Trying(n))
        /\ Cardinality(Waiting(n)') \in Nat /\ Cardinality(Ready(n)') \in Nat
        /\ Cardinality(Trying(n)') \in Nat
    BY <1>3, <1>6, Shrinks DEF Quiet
  <2>2. QED  BY <1>1, <1>2, <1>3, <1>4, <1>6, <2>1 DEF Quiet
<1>7. ASSUME NEW job, Enqueued(n, job)
      PROVE  /\ IsFiniteSet(Ready(n)')
             /\ Acks(n)' + Cardinality(Waiting(n)') + Cardinality(Ready(n)')
                  + Cardinality(Trying(n)') + First(n)' <= Credit(n)'
  <2>1. /\ IsFiniteSet(Ready(n)') /\ Cardinality(Ready(n)') <= Cardinality(Ready(n)) + 1
        /\ Cardinality(Ready(n)') \in Nat
    BY <1>3, <1>7, Gains DEF Enqueued
  <2>2. QED  BY <1>1, <1>2, <1>3, <1>4, <1>7, <2>1 DEF Enqueued
<1>8. ASSUME NEW job, Due(n, job)
      PROVE  /\ IsFiniteSet(Waiting(n)') /\ IsFiniteSet(Ready(n)')
             /\ Acks(n)' + Cardinality(Waiting(n)') + Cardinality(Ready(n)')
                  + Cardinality(Trying(n)') + First(n)' <= Credit(n)'
  <2>1. /\ IsFiniteSet(Ready(n)') /\ Cardinality(Ready(n)') <= Cardinality(Ready(n)) + 1
        /\ Cardinality(Ready(n)') \in Nat
    BY <1>3, <1>8, Gains DEF Due
  <2>2. /\ IsFiniteSet(Waiting(n)')
        /\ Cardinality(Waiting(n)') + 1 <= Cardinality(Waiting(n))
        /\ Cardinality(Waiting(n)') \in Nat
    BY <1>3, <1>8, Loses DEF Due
  <2>3. QED  BY <1>1, <1>2, <1>3, <1>4, <1>8, <2>1, <2>2 DEF Due
<1>9. ASSUME NEW job, NEW w, Taken(n, job, w)
      PROVE  /\ IsFiniteSet(Ready(n)') /\ IsFiniteSet(Trying(n)')
             /\ Acks(n)' + Cardinality(Waiting(n)') + Cardinality(Ready(n)')
                  + Cardinality(Trying(n)') + First(n)' <= Credit(n)'
  <2>1. /\ IsFiniteSet(Trying(n)') /\ Cardinality(Trying(n)') <= Cardinality(Trying(n)) + 1
        /\ Cardinality(Trying(n)') \in Nat
    BY <1>3, <1>9, Gains DEF Taken
  <2>2. /\ IsFiniteSet(Ready(n)')
        /\ Cardinality(Ready(n)') + 1 <= Cardinality(Ready(n))
        /\ Cardinality(Ready(n)') \in Nat
    BY <1>3, <1>9, Loses DEF Taken
  <2>3. QED  BY <1>1, <1>2, <1>3, <1>4, <1>9, <2>1, <2>2 DEF Taken
<1>10. ASSUME NEW w, Accepted(n, w)
       PROVE  /\ IsFiniteSet(Trying(n)')
              /\ Acks(n)' + Cardinality(Waiting(n)') + Cardinality(Ready(n)')
                   + Cardinality(Trying(n)') + First(n)' <= Credit(n)'
  <2>1. /\ IsFiniteSet(Trying(n)')
        /\ Cardinality(Trying(n)') + 1 <= Cardinality(Trying(n))
        /\ Cardinality(Trying(n)') \in Nat
    BY <1>3, <1>10, Loses DEF Accepted
  <2>2. QED  BY <1>1, <1>2, <1>3, <1>4, <1>10, <2>1 DEF Accepted
<1>11. ASSUME NEW job, NEW w, Rescheduled(n, job, w)
       PROVE  /\ IsFiniteSet(Waiting(n)') /\ IsFiniteSet(Trying(n)')
              /\ Acks(n)' + Cardinality(Waiting(n)') + Cardinality(Ready(n)')
                   + Cardinality(Trying(n)') + First(n)' <= Credit(n)'
  <2>1. /\ IsFiniteSet(Waiting(n)')
        /\ Cardinality(Waiting(n)') <= Cardinality(Waiting(n)) + 1
        /\ Cardinality(Waiting(n)') \in Nat
    BY <1>3, <1>11, Gains DEF Rescheduled
  <2>2. /\ IsFiniteSet(Trying(n)')
        /\ Cardinality(Trying(n)') + 1 <= Cardinality(Trying(n))
        /\ Cardinality(Trying(n)') \in Nat
    BY <1>3, <1>11, Loses DEF Rescheduled
  <2>3. QED  BY <1>1, <1>2, <1>3, <1>4, <1>11, <2>1, <2>2 DEF Rescheduled
<1>12. ASSUME NEW job, Requeued(n, job)
       PROVE  /\ IsFiniteSet(Ready(n)') /\ IsFiniteSet(Trying(n)')
              /\ Acks(n)' + Cardinality(Waiting(n)') + Cardinality(Ready(n)')
                   + Cardinality(Trying(n)') + First(n)' <= Credit(n)'
  <2>1. /\ IsFiniteSet(Ready(n)') /\ Cardinality(Ready(n)') <= Cardinality(Ready(n)) + 1
        /\ Cardinality(Ready(n)') \in Nat
    BY <1>3, <1>12, Gains DEF Requeued
  <2>2. /\ IsFiniteSet(Trying(n)') /\ Cardinality(Trying(n)') <= Cardinality(Trying(n))
        /\ Cardinality(Trying(n)') \in Nat
    BY <1>3, <1>12, Shrinks DEF Requeued
  <2>3. QED  BY <1>1, <1>2, <1>3, <1>4, <1>12, <2>1, <2>2 DEF Requeued
<1>13. QED
  <2>1. CASE \E job : Enqueued(n, job)
    BY <1>3, <1>7, <2>1 DEF Enqueued
  <2>2. CASE \E job : Due(n, job)
    BY <1>3, <1>8, <2>2 DEF Due
  <2>3. CASE \E job : Requeued(n, job)
    BY <1>3, <1>12, <2>3 DEF Requeued
  <2>4. CASE \E w : Accepted(n, w)
    BY <1>3, <1>10, <2>4 DEF Accepted
  <2>5. CASE \E job, w : Taken(n, job, w)
    BY <1>3, <1>9, <2>5 DEF Taken
  <2>6. CASE \E job, w : Rescheduled(n, job, w)
    BY <1>3, <1>11, <2>6 DEF Rescheduled
  <2>7. QED  BY <1>6, <2>1, <2>2, <2>3, <2>4, <2>5, <2>6 DEF Moves

-------------------------------------------------------------------------------
(* Every step is such a move. *)

LEMMA CountExact ==
  ASSUME TypeOK, NEW m \in Notifications, NEW k \in TallyKinds, Count(m, k),
         NEW n \in Notifications, NEW kind \in TallyKinds
  PROVE  tally'[n][kind] = IF n = m /\ kind = k THEN tally[n][kind] + 1
                                               ELSE tally[n][kind]
<1>1. tally \in [Notifications -> [TallyKinds -> Nat]]
  BY DEF TypeOK
<1>2. tally' = [tally EXCEPT ![m] = [tally[m] EXCEPT ![k] = tally[m][k] + 1]]
  BY DEF Count
<1>3. QED  BY ONLY <1>1, <1>2, n \in Notifications, m \in Notifications,
              k \in TallyKinds, kind \in TallyKinds

\* What counting one kind does to acceptances and credit.
LEMMA Counted ==
  ASSUME TypeOK, NEW m \in Notifications, NEW n \in Notifications,
         NEW k \in TallyKinds, Count(m, k)
  PROVE  /\ Acks(n)' = IF n = m /\ k = "acks" THEN Acks(n) + 1 ELSE Acks(n)
         /\ Credit(n)' = IF n = m /\ k \in {"manual", "aborts"}
                         THEN Credit(n) + 1 ELSE Credit(n)
<1>1. \A kind \in TallyKinds :
        tally'[n][kind] = IF n = m /\ kind = k THEN tally[n][kind] + 1
                                               ELSE tally[n][kind]
  BY CountExact
<1>2. /\ "acks" \in TallyKinds /\ "manual" \in TallyKinds /\ "aborts" \in TallyKinds
  BY DEF TallyKinds
<1>3. \A kind \in TallyKinds : tally[n][kind] \in Nat
  BY DEF TypeOK
<1>4. Acks(n)' = IF n = m /\ k = "acks" THEN Acks(n) + 1 ELSE Acks(n)
  BY <1>1, <1>2 DEF Acks
<1>5. /\ tally'[n]["manual"] = IF n = m /\ "manual" = k THEN tally[n]["manual"] + 1
                                                      ELSE tally[n]["manual"]
      /\ tally'[n]["aborts"] = IF n = m /\ "aborts" = k THEN tally[n]["aborts"] + 1
                                                      ELSE tally[n]["aborts"]
  BY <1>1, <1>2
<1>6. tally[n]["manual"] \in Nat /\ tally[n]["aborts"] \in Nat
  BY <1>2, <1>3
<1>7. Credit(n)' = IF n = m /\ k \in {"manual", "aborts"}
                   THEN Credit(n) + 1 ELSE Credit(n)
  BY <1>5, <1>6 DEF Credit
<1>8. QED  BY <1>4, <1>7

\* A step of w changes nobody else's handler.
LEMMA OnlyWorker ==
  ASSUME TypeOK, NEW w \in Workers, NEW x, worker' = [worker EXCEPT ![w] = x],
         NEW n
  PROVE  /\ Trying(n)' \ {w} = Trying(n) \ {w}
         /\ w \in Trying(n)' <=> x.pc \in EarlyPc /\ x.job.notification = n
         /\ w \in Trying(n) <=> worker[w].pc \in EarlyPc /\ Subject(w) = n
<1>1. worker'[w] = x /\ \A v \in Workers \ {w} : worker'[v] = worker[v]
  BY DEF TypeOK
<1>2. QED  BY <1>1 DEF Trying, Subject

\* A handler that stays early, or was late already, leaves the attempts as they
\* were; one that ends, or becomes late, is tried no more.
LEMMA Going ==
  ASSUME TypeOK, NEW w \in Workers, Busy(w), NEW x \in Handler \cup {Idle},
         worker' = [worker EXCEPT ![w] = x],
         x \in Handler => x.job = worker[w].job,
         x.pc \in EarlyPc => worker[w].pc \in EarlyPc,
         NEW n \in Notifications
  PROVE  /\ Trying(n)' \subseteq Trying(n)
         /\ x.pc \notin EarlyPc => Trying(n)' \subseteq Trying(n) \ {w}
<1>1. x.pc \in EarlyPc => x \in Handler
  BY DEF EarlyPc, Idle
<1>2. x.pc \in EarlyPc /\ x.job.notification = n =>
        worker[w].pc \in EarlyPc /\ Subject(w) = n
  BY <1>1 DEF Subject
<1>3. w \in Trying(n)' => w \in Trying(n)
  BY <1>2, OnlyWorker
<1>4. Trying(n)' \ {w} = Trying(n) \ {w}
  BY OnlyWorker
<1>5. x.pc \notin EarlyPc => w \notin Trying(n)'
  BY OnlyWorker
<1>6. QED  BY <1>3, <1>4, <1>5

\* What keeps the queue's two waiting sets and Submit leaves their shares.
LEMMA QueueSame ==
  ASSUME UNCHANGED <<scheduled, pending>>, NEW n
  PROVE  Waiting(n)' = Waiting(n) /\ Ready(n)' = Ready(n)
BY DEF Waiting, Ready

LEMMA TallySame ==
  ASSUME UNCHANGED tally, NEW n
  PROVE  Acks(n)' = Acks(n) /\ Credit(n)' = Credit(n)
BY DEF Acks, Credit

LEMMA WorkersSame ==
  ASSUME UNCHANGED worker, NEW n
  PROVE  Trying(n)' = Trying(n)
BY DEF Trying, Subject

LEMMA SubmitSame ==
  ASSUME UNCHANGED submit, NEW n
  PROVE  First(n)' = First(n)
BY DEF First

\* What Put adds is the job, to one of the two.
LEMMA PutMoves ==
  ASSUME NEW job, NEW delayed \in BOOLEAN, Put(job, delayed), NEW n
  PROVE  /\ delayed => /\ Ready(n)' = Ready(n)
                       /\ Waiting(n)' \subseteq Waiting(n) \cup {job}
                       /\ job.notification # n => Waiting(n)' = Waiting(n)
         /\ ~delayed => /\ Waiting(n)' = Waiting(n)
                        /\ Ready(n)' \subseteq Ready(n) \cup {job}
                        /\ job.notification # n => Ready(n)' = Ready(n)
BY DEF Put, Waiting, Ready

LEMMA SubmitMoves ==
  ASSUME TypeOK, NEW m \in Notifications, Submit(m), NEW n \in Notifications
  PROVE  Moves(n)
<1>1. Trying(n)' = Trying(n) /\ Acks(n)' = Acks(n) /\ Credit(n)' = Credit(n)
  BY WorkersSame, TallySame DEF Submit, RejectUnsupported, CreateNotification,
     AppendFirstLog, EnqueueFirst
<1>2. Credit(n) \in Nat /\ First(n) \in Nat
  BY TalliesAreNat
<1>3. CASE RejectUnsupported(m) \/ CreateNotification(m) \/ AppendFirstLog(m)
  <2>1. Waiting(n)' = Waiting(n) /\ Ready(n)' = Ready(n)
    BY <1>3, QueueSame DEF RejectUnsupported, CreateNotification,
       AppendFirstLog, queueVars
  <2>2. /\ submit[m] \in {"new", "appendLog"}
        /\ \E pc \in {"appendLog", "enqueue", "rejected"} :
             submit' = [submit EXCEPT ![m] = pc]
    BY <1>3 DEF RejectUnsupported, CreateNotification, AppendFirstLog
  <2>3. First(n)' <= First(n)
    BY <2>2 DEF First, TypeOK
  <2>4. QED  BY <1>1, <1>2, <2>1, <2>3 DEF Moves, Quiet
<1>4. CASE EnqueueFirst(m)
  <2>1. submit[m] = "enqueue" /\ \E pc \in {"accepted", "rejected"} :
             submit' = [submit EXCEPT ![m] = pc]
    BY <1>4 DEF EnqueueFirst
  <2>2. CASE Put(Job(m, 1), FALSE)
    <3>1. /\ Waiting(n)' = Waiting(n) /\ Ready(n)' \subseteq Ready(n) \cup {Job(m, 1)}
          /\ n # m => Ready(n)' = Ready(n)
      <4>1. Job(m, 1).notification = m
        BY DEF Job
      <4>2. QED  BY <2>2, <4>1, PutMoves
    <3>2. CASE n = m
      <4>1. First(n) = 1 /\ First(n)' = 0
        BY <2>1, <3>2 DEF First, TypeOK
      <4>2. QED  BY <1>1, <3>1, <4>1 DEF Moves, Enqueued
    <3>3. CASE n # m
      <4>1. First(n)' = First(n)
        BY <2>1, <3>3 DEF First, TypeOK
      <4>2. QED  BY <1>1, <1>2, <3>1, <3>3, <4>1 DEF Moves, Quiet
    <3>4. QED  BY <3>2, <3>3
  <2>3. CASE Refused(Job(m, 1))
    <3>1. Waiting(n)' = Waiting(n) /\ Ready(n)' = Ready(n)
      BY <2>3, QueueSame DEF Refused
    <3>2. First(n)' <= First(n)
      BY <2>1 DEF First, TypeOK
    <3>3. QED  BY <1>1, <1>2, <3>1, <3>2 DEF Moves, Quiet
  <2>4. QED  BY <1>4, <2>2, <2>3 DEF EnqueueFirst, ReplyLost
<1>5. QED  BY <1>3, <1>4 DEF Submit

LEMMA QueueMoves ==
  ASSUME TypeOK, NEW job,
         \/ job \in scheduled /\ Forward(job)
         \/ \E w \in Workers : Dequeue(w, job)
         \/ LeaseExpired(job),
         NEW n \in Notifications
  PROVE  Moves(n)
<1>1. First(n)' = First(n) /\ Acks(n)' = Acks(n) /\ Credit(n)' = Credit(n)
  BY SubmitSame, TallySame DEF Forward, Dequeue, LeaseExpired, actorVars
<1>2. Credit(n) \in Nat /\ First(n) \in Nat
  BY TalliesAreNat
<1>3. CASE Forward(job)
  <2>1. Trying(n)' = Trying(n)
    BY <1>3, WorkersSame DEF Forward, actorVars
  <2>2. /\ Waiting(n)' = Waiting(n) \ {job} /\ Ready(n)' \subseteq Ready(n) \cup {job}
        /\ job \notin Waiting(n) => Ready(n)' = Ready(n) /\ Waiting(n)' = Waiting(n)
    BY <1>3 DEF Forward, Waiting, Ready
  <2>3. QED  BY <1>1, <1>2, <2>1, <2>2 DEF Moves, Due, Quiet
<1>4. ASSUME NEW w \in Workers, Dequeue(w, job)
      PROVE  Moves(n)
  <2> DEFINE x == [pc |-> "get", job |-> job, status |-> "pending", attempts |-> 0]
  <2>1. worker' = [worker EXCEPT ![w] = x]
    BY <1>4 DEF Dequeue
  <2>2. /\ Trying(n)' \ {w} = Trying(n) \ {w}
        /\ w \in Trying(n)' <=> x.pc \in EarlyPc /\ x.job.notification = n
    BY <2>1, OnlyWorker
  <2>3. /\ Waiting(n)' = Waiting(n) /\ Ready(n)' = Ready(n) \ {job}
        /\ job \in Ready(n) <=> job.notification = n
    BY <1>4 DEF Dequeue, Waiting, Ready
  <2>4. CASE job.notification = n
    <3>1. Trying(n)' \subseteq Trying(n) \cup {w}
      BY <2>2
    <3>2. QED  BY <1>1, <2>3, <2>4, <3>1 DEF Moves, Taken
  <2>5. CASE job.notification # n
    <3>1. Trying(n)' \subseteq Trying(n)
      BY <2>2, <2>5
    <3>2. QED  BY <1>1, <1>2, <2>3, <2>5, <3>1 DEF Moves, Quiet
  <2>6. QED  BY <2>4, <2>5
<1>5. CASE LeaseExpired(job)
  <2>1. Trying(n)' = Trying(n) /\ Waiting(n)' = Waiting(n) /\ Ready(n)' = Ready(n)
    BY <1>5, WorkersSame, QueueSame DEF LeaseExpired, actorVars
  <2>2. QED  BY <1>1, <1>2, <2>1 DEF Moves, Quiet
<1>6. QED  BY <1>3, <1>4, <1>5

\* What Goto makes of a handler.
LEMMA GotoIs ==
  ASSUME TypeOK, NEW w \in Workers, Busy(w), NEW pc \in HandlerPc, Goto(w, pc)
  PROVE  \E x \in Handler : /\ worker' = [worker EXCEPT ![w] = x]
                            /\ x.pc = pc /\ x.job = worker[w].job
<1>1. worker[w] \in Handler
  BY BusyIsHandler
<1>2. worker' = [worker EXCEPT ![w] = [worker[w] EXCEPT !.pc = pc]]
  BY DEF Goto
<1>3. /\ [worker[w] EXCEPT !.pc = pc] \in Handler
      /\ [worker[w] EXCEPT !.pc = pc].pc = pc
      /\ [worker[w] EXCEPT !.pc = pc].job = worker[w].job
  BY ONLY <1>1, pc \in HandlerPc DEF Handler
<1>4. QED  BY <1>2, <1>3

\* A handler that goes on, or returns.
LEMMA GoesOn ==
  ASSUME TypeOK, NEW w \in Workers, Busy(w), NEW n \in Notifications,
         NEW pc \in HandlerPc, Goto(w, pc), pc \in EarlyPc => worker[w].pc \in EarlyPc
  PROVE  /\ Trying(n)' \subseteq Trying(n)
         /\ pc \notin EarlyPc => Trying(n)' \subseteq Trying(n) \ {w}
<1>1. PICK x \in Handler : /\ worker' = [worker EXCEPT ![w] = x]
                           /\ x.pc = pc /\ x.job = worker[w].job
  BY GotoIs
<1>2. QED  BY <1>1, Going

LEMMA Returns ==
  ASSUME TypeOK, NEW w \in Workers, Busy(w), NEW n \in Notifications,
         NEW ok, Return(w, ok)
  PROVE  Trying(n)' \subseteq Trying(n) \ {w}
<1>1. worker' = [worker EXCEPT ![w] = Idle]
  BY DEF Return
<1>2. Idle.pc \notin EarlyPc /\ Idle \notin Handler
  BY DEF Idle, EarlyPc, Handler, HandlerPc
<1>3. QED  BY <1>1, <1>2, Going

\* A step of a handler that neither is accepted nor schedules anything.
LEMMA PlainMoves ==
  ASSUME TypeOK, NEW w \in Workers,
         \/ GetNotification(w) \/ IncrementAttempts(w) \/ CreateDeadLetter(w)
         \/ UpdateNotification(w) \/ AppendLog(w) \/ Finish(w),
         NEW n \in Notifications
  PROVE  Moves(n)
<1>1. /\ Waiting(n)' = Waiting(n) /\ Ready(n)' = Ready(n) /\ First(n)' = First(n)
  <2>1. UNCHANGED <<scheduled, pending>> /\ UNCHANGED submit
    BY DEF GetNotification, IncrementAttempts, CreateDeadLetter,
       UpdateNotification, AppendLog, Finish, queueVars
  <2>2. QED  BY <2>1, QueueSame, SubmitSame
<1>2. Acks(n)' = Acks(n) /\ Credit(n)' = Credit(n)
  <2>1. Busy(w)
    BY DEF GetNotification, IncrementAttempts, CreateDeadLetter,
       UpdateNotification, AppendLog, Finish, At, Busy
  <2>2. Subject(w) \in Notifications /\ "sends" \in TallyKinds
    BY <2>1, BusyIsHandler DEF TallyKinds
  <2>3. UNCHANGED tally \/ Count(Subject(w), "sends")
    BY DEF GetNotification, IncrementAttempts, CreateDeadLetter,
       UpdateNotification, AppendLog, Finish
  <2>4. CASE UNCHANGED tally
    BY <2>4, TallySame
  <2>5. CASE Count(Subject(w), "sends")
    BY <2>2, <2>5, Counted
  <2>6. QED  BY <2>3, <2>4, <2>5
<1>3. Trying(n)' \subseteq Trying(n)
  <2>1. Busy(w)
    BY DEF GetNotification, IncrementAttempts, CreateDeadLetter,
       UpdateNotification, AppendLog, Finish, At, Busy
  <2>2. CASE \E ok \in BOOLEAN : Return(w, ok)
    BY <2>1, <2>2, Returns
  <2>3. CASE GetNotification(w)
    <3> DEFINE copy == [worker[w] EXCEPT !.pc = "increment",
                          !.status = row[Subject(w)].status,
                          !.attempts = row[Subject(w)].attempts + 1]
    <3>1. CASE worker' = [worker EXCEPT
                   ![w].pc = "increment",
                   ![w].status = row[Subject(w)].status,
                   ![w].attempts = row[Subject(w)].attempts + 1]
      <4>1. worker' = [worker EXCEPT ![w] = copy]
        BY <3>1 DEF TypeOK
      <4>2. copy.pc = "increment" /\ copy.job = worker[w].job
        BY <2>1, BusyIsHandler DEF Handler
      <4>3. worker[w].pc \in EarlyPc
        BY <2>3 DEF GetNotification, At, EarlyPc
      <4> HIDE DEF copy
      <4>7. w \in Trying(n)' => copy.job.notification = n
        BY <4>1, OnlyWorker
      <4>8. w \in Trying(n) <=> Subject(w) = n
        BY <4>1, <4>3, OnlyWorker
      <4>4. w \in Trying(n)' => w \in Trying(n)
        BY <4>2, <4>7, <4>8 DEF Subject
      <4>5. Trying(n)' \ {w} = Trying(n) \ {w}
        BY <4>1, OnlyWorker
      <4>6. QED  BY <4>4, <4>5
    <3>2. QED  BY <2>2, <2>3, <3>1 DEF GetNotification
  <2>4. CASE IncrementAttempts(w)
    <3>1. worker[w].pc \in EarlyPc /\ "sending" \in HandlerPc
      BY <2>4 DEF IncrementAttempts, At, EarlyPc, HandlerPc
    <3>2. QED  BY <2>1, <2>2, <2>4, <3>1, GoesOn DEF IncrementAttempts
  <2>5. CASE CreateDeadLetter(w)
    <3>1. "update" \in HandlerPc /\ "update" \notin EarlyPc
      BY DEF HandlerPc, EarlyPc
    <3>2. QED  BY <2>1, <2>5, <3>1, GoesOn DEF CreateDeadLetter
  <2>6. CASE UpdateNotification(w) \/ AppendLog(w)
    <3>1. {"appendLog", "finish"} \subseteq HandlerPc /\ {"appendLog", "finish"} \cap EarlyPc = {}
      BY DEF HandlerPc, EarlyPc
    <3>2. \/ \E ok \in BOOLEAN : Return(w, ok)
          \/ \E pc \in {"appendLog", "finish"} : Goto(w, pc)
      BY <2>6 DEF UpdateNotification, AppendLog
    <3>3. QED  BY <2>1, <2>2, <3>1, <3>2, GoesOn
  <2>7. CASE Finish(w)
    <3>1. Return(w, worker[w].status = "sent")
      BY <2>7 DEF Finish
    <3>2. QED  BY <2>1, <3>1, Returns
  <2>8. QED  BY <2>3, <2>4, <2>5, <2>6, <2>7
<1>4. Credit(n) \in Nat /\ First(n) \in Nat
  BY TalliesAreNat
<1>5. QED  BY <1>1, <1>2, <1>3, <1>4 DEF Moves, Quiet

LEMMA SendMoves ==
  ASSUME TypeOK, NEW w \in Workers, SendReturns(w), NEW n \in Notifications
  PROVE  Moves(n)
<1>1. /\ Waiting(n)' = Waiting(n) /\ Ready(n)' = Ready(n) /\ First(n)' = First(n)
  BY QueueSame, SubmitSame DEF SendReturns, queueVars
<1>2. Busy(w) /\ worker[w] \in Handler /\ Subject(w) \in Notifications
  BY BusyIsHandler DEF SendReturns, At, Busy
<1>3. worker[w].pc \in EarlyPc
  BY DEF SendReturns, At, EarlyPc
<1>4. Credit(n) \in Nat /\ First(n) \in Nat
  BY TalliesAreNat
<1>5. ASSUME NEW pc \in HandlerPc, NEW s,
             worker' = [worker EXCEPT ![w].pc = pc, ![w].status = s]
      PROVE  /\ Trying(n)' \subseteq Trying(n)
             /\ pc \notin EarlyPc => Trying(n)' \subseteq Trying(n) \ {w}
             /\ Subject(w) = n <=> w \in Trying(n)
  <2> DEFINE x == [worker[w] EXCEPT !.pc = pc, !.status = s]
  <2>1. worker' = [worker EXCEPT ![w] = x]
    BY <1>5 DEF TypeOK
  <2>2. x.pc = pc /\ x.job = worker[w].job
    BY <1>2 DEF Handler
  <2> HIDE DEF x
  <2>3. w \in Trying(n)' => pc \in EarlyPc /\ Subject(w) = n
    BY <2>1, <2>2, OnlyWorker DEF Subject
  <2>4. w \in Trying(n) <=> Subject(w) = n
    BY <1>3, <2>1, OnlyWorker
  <2>5. Trying(n)' \ {w} = Trying(n) \ {w}
    BY <2>1, OnlyWorker
  <2>6. QED  BY <2>3, <2>4, <2>5
<1>6. CASE /\ worker' = [worker EXCEPT ![w].pc = "update", ![w].status = "sent"]
           /\ Count(Subject(w), "acks")
  <2>1. "update" \in HandlerPc /\ "update" \notin EarlyPc /\ "acks" \in TallyKinds
    BY DEF HandlerPc, EarlyPc, TallyKinds
  <2>2. /\ Trying(n)' \subseteq Trying(n) \ {w}
        /\ Subject(w) = n <=> w \in Trying(n)
    BY <1>5, <1>6, <2>1
  <2>3. /\ Acks(n)' = IF n = Subject(w) THEN Acks(n) + 1 ELSE Acks(n)
        /\ Credit(n)' = Credit(n)
    BY <1>2, <1>6, <2>1, Counted
  <2>4. QED  BY <1>1, <1>4, <2>2, <2>3 DEF Moves, Accepted, Quiet
<1>7. CASE /\ \E pc \in {"bury", "reschedule"}, s \in Status :
                worker' = [worker EXCEPT ![w].pc = pc, ![w].status = s]
           /\ UNCHANGED tally
  <2>1. {"bury", "reschedule"} \subseteq HandlerPc
    BY DEF HandlerPc
  <2>2. Trying(n)' \subseteq Trying(n)
    BY <1>5, <1>7, <2>1
  <2>3. Acks(n)' = Acks(n) /\ Credit(n)' = Credit(n)
    BY <1>7, TallySame
  <2>4. QED  BY <1>1, <1>4, <2>2, <2>3 DEF Moves, Quiet
<1>8. QED  BY <1>6, <1>7 DEF SendReturns, Status

LEMMA ScheduleMoves ==
  ASSUME TypeOK, NEW w \in Workers, ScheduleRetry(w), NEW n \in Notifications
  PROVE  Moves(n)
<1>1. First(n)' = First(n) /\ Acks(n)' = Acks(n) /\ Credit(n)' = Credit(n)
  BY SubmitSame, TallySame DEF ScheduleRetry
<1>2. Busy(w) /\ worker[w].pc \in EarlyPc
  BY DEF ScheduleRetry, At, Busy, EarlyPc
<1>3. Trying(n)' \subseteq Trying(n) \ {w}
  <2>1. "update" \in HandlerPc /\ "update" \notin EarlyPc
    BY DEF HandlerPc, EarlyPc
  <2>2. Return(w, FALSE) \/ Goto(w, "update")
    BY DEF ScheduleRetry
  <2>3. QED  BY <1>2, <2>1, <2>2, Returns, GoesOn
<1>4. w \in Trying(n) <=> Subject(w) = n
  BY <1>2 DEF Trying
<1>5. Credit(n) \in Nat /\ First(n) \in Nat
  BY TalliesAreNat
<1>6. CASE Put(NextJob(w), TRUE)
  <2>1. NextJob(w).notification = Subject(w)
    BY DEF Job, NextJob
  <2>2. /\ Ready(n)' = Ready(n) /\ Waiting(n)' \subseteq Waiting(n) \cup {NextJob(w)}
        /\ NextJob(w).notification # n => Waiting(n)' = Waiting(n)
    BY <1>6, PutMoves
  <2>3. CASE Subject(w) = n
    BY <1>1, <1>3, <1>4, <2>2, <2>3 DEF Moves, Rescheduled
  <2>4. CASE Subject(w) # n
    BY <1>1, <1>3, <1>5, <2>1, <2>2, <2>4 DEF Moves, Quiet
  <2>5. QED  BY <2>3, <2>4
<1>7. CASE Refused(NextJob(w))
  <2>1. Waiting(n)' = Waiting(n) /\ Ready(n)' = Ready(n)
    BY <1>7, QueueSame DEF Refused
  <2>2. QED  BY <1>1, <1>3, <1>5, <2>1 DEF Moves, Quiet
<1>8. QED  BY <1>6, <1>7 DEF ScheduleRetry, ReplyLost

LEMMA AbortMoves ==
  ASSUME TypeOK, NEW w \in Workers, Abort(w), NEW n \in Notifications
  PROVE  Moves(n)
<1>1. First(n)' = First(n)
  BY SubmitSame DEF Abort
<1>2. Busy(w) /\ Subject(w) \in Notifications /\ "aborts" \in TallyKinds
  BY BusyIsHandler DEF Abort, TallyKinds
<1>3. /\ Acks(n)' = Acks(n)
      /\ Credit(n)' = IF n = Subject(w) THEN Credit(n) + 1 ELSE Credit(n)
  BY <1>2, Counted DEF Abort
<1>4. Trying(n)' \subseteq Trying(n)
  <2>1. worker' = [worker EXCEPT ![w] = Idle]
    BY DEF Abort
  <2>2. Idle.pc \notin EarlyPc /\ Idle \notin Handler
    BY DEF Idle, EarlyPc, Handler, HandlerPc
  <2>3. QED  BY <1>2, <2>1, <2>2, Going
<1>5. /\ Waiting(n)' = Waiting(n) /\ Ready(n)' \subseteq Ready(n) \cup {worker[w].job}
      /\ Subject(w) # n => Ready(n)' = Ready(n)
  BY DEF Abort, Waiting, Ready, Subject
<1>6. Credit(n) \in Nat /\ First(n) \in Nat
  BY TalliesAreNat
<1>7. QED  BY <1>1, <1>3, <1>4, <1>5, <1>6 DEF Moves, Requeued, Quiet

LEMMA RetryMoves ==
  ASSUME TypeOK, NEW r \in Retriers,
         RetryDeadLetter(r) \/ \E m \in Notifications : RetryRead(r, m),
         NEW n \in Notifications
  PROVE  Moves(n)
<1>1. Trying(n)' = Trying(n) /\ First(n)' = First(n)
  <2>1. UNCHANGED worker /\ UNCHANGED submit
    BY DEF RetryDeadLetter, RetryRead, RetryUpdate, RetryMark, RetryEnqueue
  <2>2. QED  BY <2>1, WorkersSame, SubmitSame
<1>2. Credit(n) \in Nat /\ First(n) \in Nat
  BY TalliesAreNat
<1>3. CASE RetryUpdate(r) \/ RetryMark(r) \/ \E m \in Notifications : RetryRead(r, m)
  <2>1. UNCHANGED <<scheduled, pending>> /\ UNCHANGED tally
    BY <1>3 DEF RetryRead, RetryUpdate, RetryMark, queueVars
  <2>2. /\ Waiting(n)' = Waiting(n) /\ Ready(n)' = Ready(n)
        /\ Acks(n)' = Acks(n) /\ Credit(n)' = Credit(n)
    BY <2>1, QueueSame, TallySame
  <2>3. QED  BY <1>1, <1>2, <2>2 DEF Moves, Quiet
<1>4. CASE RetryEnqueue(r)
  <2> DEFINE m == retry[r].notification
  <2>1. m \in Notifications /\ "manual" \in TallyKinds
    BY <1>4, ActiveIsRequest DEF RetryEnqueue, RequestAt, RequestPc, TallyKinds
  <2>2. CASE Refused(RequeuedJob(r)) /\ UNCHANGED tally
    <3>1. /\ Waiting(n)' = Waiting(n) /\ Ready(n)' = Ready(n)
          /\ Acks(n)' = Acks(n) /\ Credit(n)' = Credit(n)
      BY <2>2, QueueSame, TallySame DEF Refused
    <3>2. QED  BY <1>1, <1>2, <3>1 DEF Moves, Quiet
  <2>3. CASE Put(RequeuedJob(r), FALSE) /\ Count(m, "manual")
    <3>1. RequeuedJob(r).notification = m
      BY DEF Job, RequeuedJob
    <3>2. /\ Waiting(n)' = Waiting(n) /\ Ready(n)' \subseteq Ready(n) \cup {RequeuedJob(r)}
          /\ RequeuedJob(r).notification # n => Ready(n)' = Ready(n)
      BY <2>3, PutMoves
    <3>3. /\ Acks(n)' = Acks(n)
          /\ Credit(n)' = IF n = m THEN Credit(n) + 1 ELSE Credit(n)
      BY <2>1, <2>3, Counted
    <3> HIDE DEF m
    <3>4. QED  BY <1>1, <1>2, <3>1, <3>2, <3>3 DEF Moves, Requeued, Quiet
  <2>4. QED  BY <1>4, <2>2, <2>3 DEF RetryEnqueue, ReplyLost
<1>5. QED  BY <1>3, <1>4 DEF RetryDeadLetter

LEMMA LifeMoves ==
  ASSUME TypeOK, Crash \/ Stop \/ Exit, NEW n \in Notifications
  PROVE  Moves(n)
<1>1. /\ Waiting(n)' = Waiting(n) /\ Ready(n)' = Ready(n)
      /\ Acks(n)' = Acks(n) /\ Credit(n)' = Credit(n)
  <2>1. UNCHANGED <<scheduled, pending>> /\ UNCHANGED tally
    BY DEF Crash, Stop, Exit, Restart, queueVars
  <2>2. QED  BY <2>1, QueueSame, TallySame
<1>2. Credit(n) \in Nat /\ First(n) \in Nat
  BY TalliesAreNat
<1>3. CASE Stop
  <2>1. Trying(n)' = Trying(n) /\ First(n)' = First(n)
    BY <1>3, WorkersSame, SubmitSame DEF Stop, actorVars
  <2>2. QED  BY <1>1, <1>2, <2>1 DEF Moves, Quiet
<1>4. CASE Restart
  <2>1. Trying(n)' = {}
    BY <1>4 DEF Restart, Trying, Idle, EarlyPc
  <2>2. First(n)' <= First(n)
    BY <1>4 DEF Restart, First
  <2>3. QED  BY <1>1, <1>2, <2>1, <2>2 DEF Moves, Quiet
<1>5. QED  BY <1>3, <1>4 DEF Crash, Exit

LEMMA StepMoves ==
  ASSUME TypeOK, [Next]_vars, NEW n \in Notifications
  PROVE  Moves(n)
<1>1. CASE UNCHANGED vars
  <2>1. /\ Waiting(n)' = Waiting(n) /\ Ready(n)' = Ready(n) /\ Trying(n)' = Trying(n)
        /\ First(n)' = First(n) /\ Acks(n)' = Acks(n) /\ Credit(n)' = Credit(n)
    BY <1>1, QueueSame, WorkersSame, SubmitSame, TallySame DEF vars
  <2>2. Credit(n) \in Nat /\ First(n) \in Nat
    BY TalliesAreNat
  <2>3. QED  BY <2>1, <2>2 DEF Moves, Quiet
<1>2. ASSUME NEW w \in Workers, Process(w) \/ Abort(w)
      PROVE  Moves(n)
  BY <1>2, PlainMoves, SendMoves, ScheduleMoves, AbortMoves DEF Process
<1>3. QED
  BY <1>1, <1>2, SubmitMoves, QueueMoves, RetryMoves, LifeMoves DEF Next

-------------------------------------------------------------------------------
(* Nothing is sent twice. *)

LEMMA InitPaid == Init => AllPaid
<1> SUFFICES ASSUME Init, NEW n \in Notifications PROVE Paid(n)
  BY DEF AllPaid
<1>1. Waiting(n) = {} /\ Ready(n) = {} /\ Trying(n) = {}
  BY DEF Init, Waiting, Ready, Trying, Idle, EarlyPc
<1>2. First(n) = 1 /\ Acks(n) = 0 /\ Credit(n) = 1
  BY DEF Init, First, Acks, Credit, TallyKinds
<1>3. QED  BY <1>1, <1>2, FS_EmptySet DEF Paid

\* Every acceptance, and every attempt that may still come, is paid for.
THEOREM AllPaidHolds == Spec => []AllPaid
<1>1. TypeOK /\ TypeOK' /\ AllPaid /\ [Next]_vars => AllPaid'
  BY StepMoves, MovesArePaid DEF AllPaid
<1>2. Spec => []TypeOK
  BY TypeCorrect, PTL
<1>3. QED  BY <1>1, <1>2, InitPaid, PTL DEF Spec

\* What the provider has accepted it is not handed again, but for manual
\* retries and for handlers that a shutdown aborted.
THEOREM NoResendHolds == Spec => []NoResend
<1>1. TypeOK /\ AllPaid => NoResend
  <2> SUFFICES ASSUME TypeOK, AllPaid, NEW n \in Notifications
               PROVE  Acks(n) <= Credit(n)
    BY DEF NoResend, Acks, Credit
  <2>1. /\ Cardinality(Waiting(n)) \in Nat /\ Cardinality(Ready(n)) \in Nat
        /\ Cardinality(Trying(n)) \in Nat
    BY FS_CardinalityType DEF AllPaid, Paid
  <2>2. QED  BY <2>1, TalliesAreNat DEF AllPaid, Paid
<1>2. Spec => []TypeOK
  BY TypeCorrect, PTL
<1>3. QED  BY <1>1, <1>2, AllPaidHolds, PTL

\* Two workers send for one notification at the same time only if somebody has
\* put a second job beside the first.
THEOREM NoOverlappingSendsHolds == Spec => []NoOverlappingSends
<1>1. TypeOK /\ AllPaid => NoOverlappingSends
  <2> SUFFICES ASSUME TypeOK, AllPaid, NEW v \in Workers, NEW w \in Workers, v # w,
                      At(v, "sending"), At(w, "sending"), Subject(v) = Subject(w)
               PROVE  tally[Subject(v)]["aborts"] + tally[Subject(v)]["manual"] > 0
    BY DEF NoOverlappingSends
  <2> DEFINE n == Subject(v)
  <2>1. n \in Notifications
    BY BusyIsHandler DEF At, Busy
  <2>2. {v} \subseteq Trying(n) \ {w} /\ w \in Trying(n)
    BY DEF Trying, At, EarlyPc
  <2>3. IsFiniteSet(Trying(n))
    BY <2>1 DEF AllPaid, Paid
  <2>4. Cardinality({v}) + 1 <= Cardinality(Trying(n)) /\ Cardinality({v}) = 1
    BY <2>2, <2>3, Loses, FS_Singleton
  <2>5. /\ Cardinality(Waiting(n)) \in Nat /\ Cardinality(Ready(n)) \in Nat
        /\ Cardinality(Trying(n)) \in Nat
    BY <2>1, FS_CardinalityType DEF AllPaid, Paid
  <2>6. Acks(n) \in Nat /\ First(n) \in Nat /\ Credit(n) \in Nat
    BY <2>1, TalliesAreNat
  <2>7. Credit(n) >= 2
    BY <2>1, <2>4, <2>5, <2>6 DEF AllPaid, Paid
  <2>8. tally[n]["manual"] \in Nat /\ tally[n]["aborts"] \in Nat
    BY <2>1 DEF TypeOK, TallyKinds
  <2>9. QED  BY <2>7, <2>8 DEF Credit
<1>2. Spec => []TypeOK
  BY TypeCorrect, PTL
<1>3. QED  BY <1>1, <1>2, AllPaidHolds, PTL

-------------------------------------------------------------------------------
(* The order of the attempts. *)

\* Abbreviations, expanded from here on.
USE DEF StoreAttempts, Store, AddLog, AddLetter, MarkLetter, NextJob,
        RequeuedJob, Outcome, Exhausted

On(w, n) == Busy(w) /\ Subject(w) = n

Sends(n) == tally[n]["sends"]
Manual(n) == tally[n]["manual"]
Aborts(n) == tally[n]["aborts"]

\* No copy of the attempt count of n is above k.
UpTo(n, k) ==
  /\ row[n].attempts <= k
  /\ \A w \in Workers : On(w, n) => worker[w].attempts <= k

\* The task ids of the first k attempts at n are taken.
IdsTaken(n, k) == \A i \in 1..k : Job(n, i) \in Known

\* A step is about notification n, or leaves all that belongs to it alone.
Elsewhere(n) ==
  /\ row'[n] = row[n] /\ letters'[n] = letters[n]
  /\ tally'[n] = tally[n] /\ submit'[n] = submit[n]
  /\ \A job : job.notification = n =>
       /\ job \in scheduled' <=> job \in scheduled
       /\ job \in pending' <=> job \in pending
       /\ job \in active' <=> job \in active
       /\ job \in archived' <=> job \in archived
  /\ \A w \in Workers : \/ worker'[w] = worker[w]
                        \/ ~On(w, n) /\ ~On(w, n)'

\* What a step about n does.
About(n) ==
  \/ Submit(n)
  \/ \E job \in JobPayload :
       /\ job.notification = n
       /\ \/ Forward(job) \/ LeaseExpired(job)
          \/ \E w \in Workers : Dequeue(w, job)
  \/ \E w \in Workers : On(w, n) /\ (Process(w) \/ Abort(w))
  \/ \E r \in Retriers :
       /\ retry[r].pc \in RequestPc /\ retry[r].notification = n
       /\ RetryDeadLetter(r)
  \/ Restart /\ (Crash \/ Exit)

\* A handler's step is about its own job.
LEMMA HandlerOnly ==
  ASSUME TypeOK, NEW w \in Workers, Process(w) \/ Abort(w)
  PROVE  /\ Busy(w) /\ worker[w] \in Handler /\ Subject(w) \in Notifications
         /\ \A v \in Workers \ {w} : worker'[v] = worker[v]
         /\ Busy(w)' => worker'[w].job = worker[w].job
<1>1. Busy(w) /\ worker[w] \in Handler /\ Subject(w) \in Notifications
  BY BusyIsHandler DEF Process, Abort, GetNotification, IncrementAttempts,
     SendReturns, CreateDeadLetter, ScheduleRetry, UpdateNotification,
     AppendLog, Finish, At, Busy
<1>2. \A v \in Workers \ {w} : worker'[v] = worker[v]
  BY DEF Process, Abort, GetNotification, IncrementAttempts, SendReturns,
     CreateDeadLetter, ScheduleRetry, UpdateNotification, AppendLog, Finish,
     Return, Goto, TypeOK
<1>3. ASSUME Busy(w)' PROVE worker'[w].job = worker[w].job
  <2>1. worker \in [Workers -> Handler \cup {Idle}]
    BY DEF TypeOK
  <2>2. CASE Abort(w) \/ \E ok \in BOOLEAN : Return(w, ok)
    BY <1>3, <2>1, <2>2 DEF Abort, Return, Busy, Idle
  <2>3. CASE \E pc \in HandlerPc : Goto(w, pc)
    BY <1>1, <2>1, <2>3 DEF Goto, Handler
  <2>4. CASE GetNotification(w)
    <3>1. CASE worker' = [worker EXCEPT
                 ![w].pc = "increment",
                 ![w].status = row[Subject(w)].status,
                 ![w].attempts = row[Subject(w)].attempts + 1]
      BY ONLY <1>1, <2>1, <3>1 DEF Handler
    <3>2. QED  BY <2>2, <2>4, <3>1 DEF GetNotification
  <2>5. CASE SendReturns(w)
    BY <1>1, <2>1, <2>5 DEF SendReturns, Handler
  <2>6. QED
    BY <2>2, <2>3, <2>4, <2>5 DEF Process, IncrementAttempts, CreateDeadLetter,
       ScheduleRetry, UpdateNotification, AppendLog, Finish, HandlerPc
<1>4. QED  BY <1>1, <1>2, <1>3

LEMMA CountElsewhere ==
  ASSUME TypeOK, NEW m, NEW kind, Count(m, kind) \/ UNCHANGED tally,
         NEW n \in Notifications, m # n
  PROVE  tally'[n] = tally[n]
BY DEF Count, TypeOK

LEMMA PutElsewhere ==
  ASSUME NEW job, NEW delayed \in BOOLEAN,
         Put(job, delayed) \/ Refused(job) \/ ReplyLost(job, delayed),
         NEW other, other # job
  PROVE  /\ other \in scheduled' <=> other \in scheduled
         /\ other \in pending' <=> other \in pending
BY DEF Put, Refused, ReplyLost

LEMMA SubmitElsewhere ==
  ASSUME TypeOK, NEW m \in Notifications, Submit(m),
         NEW n \in Notifications, m # n
  PROVE  Elsewhere(n)
<1>1. row'[n] = row[n] /\ submit'[n] = submit[n]
  BY DEF Submit, RejectUnsupported, CreateNotification, AppendFirstLog,
     EnqueueFirst, DbError, Insert, TypeOK, storeVars
<1>2. UNCHANGED <<letters, tally, active, archived, worker>>
  BY DEF Submit, RejectUnsupported, CreateNotification, AppendFirstLog,
     EnqueueFirst, storeVars, queueVars
<1>3. ASSUME NEW job, job.notification = n
      PROVE  /\ job \in scheduled' <=> job \in scheduled
             /\ job \in pending' <=> job \in pending
  <2>1. CASE EnqueueFirst(m)
    <3>1. job # Job(m, 1)
      BY <1>3 DEF Job
    <3>2. QED  BY <2>1, <3>1, PutElsewhere DEF EnqueueFirst
  <2>2. CASE ~EnqueueFirst(m)
    BY <2>2 DEF Submit, RejectUnsupported, CreateNotification, AppendFirstLog,
       queueVars
  <2>3. QED  BY <2>1, <2>2
<1>4. QED  BY <1>1, <1>2, <1>3 DEF Elsewhere

LEMMA HandlerElsewhere ==
  ASSUME TypeOK, NEW w \in Workers, Process(w) \/ Abort(w),
         NEW n \in Notifications, ~On(w, n)
  PROVE  Elsewhere(n)
<1>1. /\ Busy(w) /\ Subject(w) # n /\ worker[w] \in Handler
      /\ \A v \in Workers \ {w} : worker'[v] = worker[v]
      /\ Busy(w)' => worker'[w].job = worker[w].job
  BY HandlerOnly DEF On
<1>2. \A v \in Workers : worker'[v] = worker[v] \/ (~On(v, n) /\ ~On(v, n)')
  BY <1>1 DEF On, Subject
<1>3. row'[n] = row[n] /\ letters'[n] = letters[n] /\ submit' = submit
  BY <1>1 DEF Process, Abort, GetNotification, IncrementAttempts, SendReturns,
     CreateDeadLetter, ScheduleRetry, UpdateNotification, AppendLog, Finish,
     DbError, TypeOK, storeVars
<1>4. tally'[n] = tally[n]
  BY <1>1, CountElsewhere DEF Process, Abort, GetNotification,
     IncrementAttempts, SendReturns, CreateDeadLetter, ScheduleRetry,
     UpdateNotification, AppendLog, Finish
<1>5. ASSUME NEW job, job.notification = n
      PROVE  /\ job \in scheduled' <=> job \in scheduled
             /\ job \in pending' <=> job \in pending
             /\ job \in active' <=> job \in active
             /\ job \in archived' <=> job \in archived
  <2>1. job # worker[w].job /\ job # NextJob(w)
    BY <1>1, <1>5 DEF Subject, Job
  <2>2. /\ job \in active' <=> job \in active
        /\ job \in archived' <=> job \in archived
    BY <2>1 DEF Process, Abort, GetNotification, IncrementAttempts, SendReturns,
       CreateDeadLetter, ScheduleRetry, UpdateNotification, AppendLog, Finish,
       Return, queueVars
  <2>3. CASE ScheduleRetry(w)
    <3>1. Put(NextJob(w), TRUE) \/ Refused(NextJob(w)) \/ ReplyLost(NextJob(w), TRUE)
      BY <2>3 DEF ScheduleRetry
    <3> HIDE DEF NextJob
    <3>2. QED  BY <2>1, <2>2, <3>1, PutElsewhere
  <2>4. CASE ~ScheduleRetry(w)
    BY <2>1, <2>2, <2>4 DEF Process, Abort, GetNotification, IncrementAttempts,
       SendReturns, CreateDeadLetter, UpdateNotification, AppendLog, Finish,
       queueVars
  <2>5. QED  BY <2>3, <2>4
<1>6. QED  BY <1>2, <1>3, <1>4, <1>5 DEF Elsewhere

LEMMA RetryElsewhere ==
  ASSUME TypeOK, NEW r \in Retriers, NEW n \in Notifications,
         \/ \E m \in Notifications : RetryRead(r, m)
         \/ RetryDeadLetter(r) /\ retry[r].notification # n
  PROVE  Elsewhere(n)
<1>1. UNCHANGED <<submit, worker, active, archived>>
  BY DEF RetryRead, RetryDeadLetter, RetryUpdate, RetryMark, RetryEnqueue,
     queueVars
<1>2. row'[n] = row[n] /\ letters'[n] = letters[n]
  BY DEF RetryRead, RetryDeadLetter, RetryUpdate, RetryMark, RetryEnqueue,
     DbError, storeVars, TypeOK
<1>3. tally'[n] = tally[n]
  <2>1. \/ UNCHANGED tally
        \/ retry[r].notification # n /\ Count(retry[r].notification, "manual")
    BY DEF RetryRead, RetryDeadLetter, RetryUpdate, RetryMark, RetryEnqueue
  <2>2. QED  BY <2>1, CountElsewhere
<1>4. ASSUME NEW job, job.notification = n
      PROVE  /\ job \in scheduled' <=> job \in scheduled
             /\ job \in pending' <=> job \in pending
  <2>1. CASE RetryEnqueue(r) /\ retry[r].notification # n
    <3>1. job # RequeuedJob(r)
      BY <1>4, <2>1 DEF Job
    <3>2. Put(RequeuedJob(r), FALSE) \/ Refused(RequeuedJob(r))
            \/ ReplyLost(RequeuedJob(r), FALSE)
      BY <2>1 DEF RetryEnqueue
    <3> HIDE DEF RequeuedJob
    <3>3. QED  BY <3>1, <3>2, PutElsewhere
  <2>2. CASE UNCHANGED <<scheduled, pending>>
    BY <2>2
  <2>3. QED
    BY <2>1, <2>2 DEF RetryRead, RetryDeadLetter, RetryUpdate, RetryMark, queueVars
<1>5. QED  BY <1>1, <1>2, <1>3, <1>4 DEF Elsewhere

LEMMA StepCases ==
  ASSUME TypeOK, [Next]_vars, NEW n \in Notifications
  PROVE  Elsewhere(n) \/ About(n)
<1>1. CASE UNCHANGED vars \/ Stop
  BY <1>1 DEF vars, Stop, Elsewhere, storeVars, queueVars, actorVars
<1>2. ASSUME NEW m \in Notifications, Submit(m)
      PROVE  Elsewhere(n) \/ About(n)
  BY <1>2, SubmitElsewhere DEF About
<1>3. ASSUME NEW job \in JobPayload,
             \/ Forward(job) \/ LeaseExpired(job)
             \/ \E w \in Workers : Dequeue(w, job)
      PROVE  Elsewhere(n) \/ About(n)
  <2>1. CASE job.notification # n
    <3>1. /\ row' = row /\ letters' = letters /\ tally' = tally /\ submit' = submit
          /\ \A other : other # job =>
               /\ other \in scheduled' <=> other \in scheduled
               /\ other \in pending' <=> other \in pending
               /\ other \in active' <=> other \in active
               /\ other \in archived' <=> other \in archived
      BY <1>3 DEF Forward, Dequeue, LeaseExpired, storeVars, actorVars
    <3>2. \A v \in Workers : worker'[v] = worker[v] \/ (~On(v, n) /\ ~On(v, n)')
      <4>1. CASE UNCHANGED worker
        BY <4>1
      <4>2. CASE \E w \in Workers : Dequeue(w, job)
        BY <2>1, <4>2 DEF Dequeue, TypeOK, On, Subject, Busy
      <4>3. QED  BY <1>3, <4>1, <4>2 DEF Forward, LeaseExpired, actorVars
    <3>3. QED  BY <2>1, <3>1, <3>2 DEF Elsewhere
  <2>2. QED  BY <1>3, <2>1 DEF About
<1>4. ASSUME NEW w \in Workers, Process(w) \/ Abort(w)
      PROVE  Elsewhere(n) \/ About(n)
  BY <1>4, HandlerElsewhere DEF About
<1>5. ASSUME NEW r \in Retriers,
             RetryDeadLetter(r) \/ \E m \in Notifications : RetryRead(r, m)
      PROVE  Elsewhere(n) \/ About(n)
  <2>1. RetryDeadLetter(r) => retry[r].pc \in RequestPc
    BY DEF RetryDeadLetter, RetryUpdate, RetryMark, RetryEnqueue, RequestAt, RequestPc
  <2>2. QED  BY <1>5, <2>1, RetryElsewhere DEF About
<1>6. CASE Crash \/ Exit
  BY <1>6 DEF Crash, Exit, About
<1>7. \A job \in scheduled \cup pending \cup active : job \in JobPayload
  BY DEF TypeOK
<1>8. QED  BY <1>1, <1>2, <1>3, <1>4, <1>5, <1>6, <1>7 DEF Next

-------------------------------------------------------------------------------
(* What is known of a notification before its dead letter, and after. *)

\* The attempt that job stands for, or that w is making, is the next one.
Chain(n) ==
  /\ Manual(n) = 0
  /\ Sends(n) <= MaxAttempts
  /\ First(n) = 1 => Sends(n) = 0 /\ UpTo(n, 0)
  /\ \A job \in Waiting(n) \cup Ready(n) :
       /\ IdsTaken(n, job.attempt) /\ UpTo(n, job.attempt - 1)
       /\ Sends(n) < job.attempt
  /\ \A w \in Trying(n) :
       LET k == worker[w].job.attempt
       IN  /\ IdsTaken(n, k) /\ UpTo(n, k) /\ Sends(n) <= k
           /\ worker[w].pc \in {"get", "increment"} => Sends(n) < k
           /\ At(w, "get") => UpTo(n, k - 1)

\* No job below the limit can come again: all their ids are taken, and whoever
\* still works on one will end with an error, which archives it.
Low(n) == {Job(n, i) : i \in 1..MaxAttempts}
Closed(n) ==
  /\ Low(n) \subseteq active \cup archived
  /\ Low(n) \cap (scheduled \cup pending) = {}
  /\ \A w \in Workers :
       Busy(w) /\ worker[w].job \in Low(n) =>
         worker[w].pc \notin EarlyPc /\ worker[w].status # "sent"

\* Every call of the provider that may still come is within the budget.
Unsent(n) == {w \in Workers : worker[w].pc \in {"get", "increment"} /\ Subject(w) = n}
Budget(n) ==
  /\ IsFiniteSet(Waiting(n)) /\ IsFiniteSet(Ready(n)) /\ IsFiniteSet(Unsent(n))
  /\ Sends(n) + Cardinality(Waiting(n)) + Cardinality(Ready(n))
       + Cardinality(Unsent(n)) <= MaxAttempts + Manual(n)

Ordered(n) ==
  Aborts(n) = 0 => IF Buried(n) THEN Closed(n) /\ Budget(n) ELSE Chain(n)

BuriedIsExhausted ==
  \A w \in Workers : At(w, "bury") => worker[w].attempts >= MaxAttempts

OrderInv == BuriedIsExhausted /\ \A n \in Notifications : Ordered(n)

\* What the order rests on.
Base == TypeInv /\ LimitInv /\ Evidence /\ AllPaid

LEMMA NoneIfZero ==
  ASSUME NEW S, IsFiniteSet(S), Cardinality(S) <= 0
  PROVE  S = {}
<1>1. Cardinality(S) \in Nat
  BY FS_CardinalityType
<1>2. Cardinality(S) = 0
  BY <1>1
<1>3. QED  BY <1>2, FS_EmptySet

LEMMA OneIfOne ==
  ASSUME NEW S, IsFiniteSet(S), Cardinality(S) <= 1, NEW x \in S
  PROVE  S = {x}
<1>1. SUFFICES ASSUME NEW y \in S, y # x PROVE FALSE
  OBVIOUS
<1>2. Cardinality(S) \in Nat
  BY FS_CardinalityType
<1>3. /\ IsFiniteSet(S \ {x}) /\ Cardinality(S \ {x}) = Cardinality(S) - 1
  BY FS_RemoveElement
<1>4. S \ {x} = {}
  BY <1>2, <1>3, NoneIfZero
<1>5. QED  BY <1>1, <1>4

\* Where nobody has requeued and nothing was aborted, there is one attempt.
LEMMA OneAttempt ==
  ASSUME TypeOK, NEW n \in Notifications, Paid(n), Manual(n) = 0, Aborts(n) = 0
  PROVE  /\ \A w \in Trying(n) :
              /\ Trying(n) = {w} /\ Waiting(n) = {} /\ Ready(n) = {}
              /\ First(n) = 0 /\ Acks(n) = 0
         /\ \A job \in Waiting(n) :
              /\ Waiting(n) = {job} /\ Ready(n) = {} /\ Trying(n) = {}
              /\ First(n) = 0 /\ Acks(n) = 0
         /\ \A job \in Ready(n) :
              /\ Ready(n) = {job} /\ Waiting(n) = {} /\ Trying(n) = {}
              /\ First(n) = 0 /\ Acks(n) = 0
         /\ First(n) = 1 =>
              Waiting(n) = {} /\ Ready(n) = {} /\ Trying(n) = {} /\ Acks(n) = 0
         /\ Acks(n) > 0 =>
              /\ Waiting(n) = {} /\ Ready(n) = {} /\ Trying(n) = {}
              /\ First(n) = 0 /\ Acks(n) = 1
<1> DEFINE W == Cardinality(Waiting(n))
           R == Cardinality(Ready(n))
           T == Cardinality(Trying(n))
<1>1. /\ IsFiniteSet(Waiting(n)) /\ IsFiniteSet(Ready(n)) /\ IsFiniteSet(Trying(n))
      /\ Acks(n) + W + R + T + First(n) <= 1
  BY DEF Paid, Credit, Manual, Aborts
<1>2. W \in Nat /\ R \in Nat /\ T \in Nat /\ Acks(n) \in Nat /\ First(n) \in Nat
  BY <1>1, FS_CardinalityType, TalliesAreNat
<1>3. ASSUME NEW S, NEW x \in S, IsFiniteSet(S)
      PROVE  Cardinality(S) >= 1
  <2>1. Cardinality(S) \in Nat
    BY <1>3, FS_CardinalityType
  <2>2. Cardinality(S) # 0
    BY <1>3, <2>1, NoneIfZero
  <2>3. QED  BY <2>1, <2>2
<1>4. /\ W <= 0 => Waiting(n) = {}
      /\ R <= 0 => Ready(n) = {}
      /\ T <= 0 => Trying(n) = {}
  BY <1>1, NoneIfZero
<1>5. ASSUME NEW w \in Trying(n)
      PROVE  /\ Trying(n) = {w} /\ Waiting(n) = {} /\ Ready(n) = {}
             /\ First(n) = 0 /\ Acks(n) = 0
  <2>1. T >= 1
    BY <1>1, <1>3
  <2>2. T <= 1 /\ W <= 0 /\ R <= 0 /\ First(n) = 0 /\ Acks(n) = 0
    BY <1>1, <1>2, <2>1
  <2>3. QED  BY <1>1, <1>4, <2>2, OneIfOne
<1>6. ASSUME NEW job \in Waiting(n)
      PROVE  /\ Waiting(n) = {job} /\ Ready(n) = {} /\ Trying(n) = {}
             /\ First(n) = 0 /\ Acks(n) = 0
  <2>1. W >= 1
    BY <1>1, <1>3
  <2>2. W <= 1 /\ T <= 0 /\ R <= 0 /\ First(n) = 0 /\ Acks(n) = 0
    BY <1>1, <1>2, <2>1
  <2>3. QED  BY <1>1, <1>4, <2>2, OneIfOne
<1>7. ASSUME NEW job \in Ready(n)
      PROVE  /\ Ready(n) = {job} /\ Waiting(n) = {} /\ Trying(n) = {}
             /\ First(n) = 0 /\ Acks(n) = 0
  <2>1. R >= 1
    BY <1>1, <1>3
  <2>2. R <= 1 /\ T <= 0 /\ W <= 0 /\ First(n) = 0 /\ Acks(n) = 0
    BY <1>1, <1>2, <2>1
  <2>3. QED  BY <1>1, <1>4, <2>2, OneIfOne
<1>8. ASSUME First(n) = 1
      PROVE  Waiting(n) = {} /\ Ready(n) = {} /\ Trying(n) = {} /\ Acks(n) = 0
  <2>1. W <= 0 /\ T <= 0 /\ R <= 0 /\ Acks(n) = 0
    BY <1>1, <1>2, <1>8
  <2>2. QED  BY <1>4, <2>1
<1>9. ASSUME Acks(n) > 0
      PROVE  /\ Waiting(n) = {} /\ Ready(n) = {} /\ Trying(n) = {}
             /\ First(n) = 0 /\ Acks(n) = 1
  <2>1. W <= 0 /\ T <= 0 /\ R <= 0 /\ First(n) = 0 /\ Acks(n) = 1
    BY <1>1, <1>2, <1>9
  <2>2. QED  BY <1>4, <2>1
<1>10. QED
  <2> HIDE DEF W, R, T
  <2>1. QED  BY <1>5, <1>6, <1>7, <1>8, <1>9

\* Elsewhere, everything said of n stays as it is.
LEMMA ElsewhereSame ==
  ASSUME TypeOK, TypeOK', NEW n \in Notifications, Elsewhere(n)
  PROVE  /\ Waiting(n)' = Waiting(n) /\ Ready(n)' = Ready(n)
         /\ Trying(n)' = Trying(n) /\ Unsent(n)' = Unsent(n)
         /\ First(n)' = First(n)
         /\ Buried(n)' <=> Buried(n)
         /\ \A kind : tally'[n][kind] = tally[n][kind]
         /\ \A w \in Workers : On(w, n)' <=> On(w, n)
         /\ \A w \in Workers : On(w, n) => worker'[w] = worker[w]
         /\ \A k : UpTo(n, k)' <=> UpTo(n, k)
         /\ \A i : Job(n, i) \in Known' <=> Job(n, i) \in Known
<1>1. Waiting(n)' = Waiting(n) /\ Ready(n)' = Ready(n)
  BY DEF Elsewhere, Waiting, Ready
<1>2. \A w \in Workers : /\ On(w, n)' <=> On(w, n)
                         /\ On(w, n) => worker'[w] = worker[w]
  BY DEF Elsewhere, On, Busy, Subject
<1>3. /\ Trying(n) = {w \in Workers : On(w, n) /\ worker[w].pc \in EarlyPc}
      /\ Trying(n)' = {w \in Workers : On(w, n)' /\ worker'[w].pc \in EarlyPc}
      /\ Unsent(n) = {w \in Workers : On(w, n) /\ worker[w].pc \in {"get", "increment"}}
      /\ Unsent(n)' = {w \in Workers : On(w, n)' /\ worker'[w].pc \in {"get", "increment"}}
  BY DEF Trying, Unsent, On, Busy, EarlyPc, Subject
<1>4. Trying(n)' = Trying(n) /\ Unsent(n)' = Unsent(n)
  BY <1>2, <1>3
<1>5. \A i : Job(n, i) \in Known' <=> Job(n, i) \in Known
  BY DEF Elsewhere, Job, Known, Live
<1>6. \A k : UpTo(n, k)' <=> UpTo(n, k)
  BY <1>2 DEF UpTo, Elsewhere
<1>7. First(n)' = First(n) /\ (Buried(n)' <=> Buried(n))
  BY DEF Elsewhere, First, Buried
<1>8. QED  BY <1>1, <1>2, <1>4, <1>5, <1>6, <1>7 DEF Elsewhere

\* Chain of the next state, stage by stage.
LEMMA ChainNext ==
  ASSUME NEW n \in Notifications,
         Manual(n)' = 0, Sends(n)' <= MaxAttempts,
         First(n)' = 1 => Sends(n)' = 0 /\ UpTo(n, 0)',
         \A job \in Waiting(n)' \cup Ready(n)' :
           /\ IdsTaken(n, job.attempt)' /\ UpTo(n, job.attempt - 1)'
           /\ Sends(n)' < job.attempt,
         \A w \in Trying(n)' : \A k : k = worker'[w].job.attempt =>
           /\ IdsTaken(n, k)' /\ UpTo(n, k)' /\ Sends(n)' <= k
           /\ worker'[w].pc \in {"get", "increment"} => Sends(n)' < k
           /\ worker'[w].pc = "get" => UpTo(n, k - 1)'
  PROVE  Chain(n)'
BY DEF Chain, UpTo, IdsTaken, At, On, Busy, Subject, Known, Live

LEMMA ChainElsewhere ==
  ASSUME TypeOK, TypeOK', NEW n \in Notifications, Elsewhere(n), Chain(n)
  PROVE  Chain(n)'
<1>1. /\ Waiting(n)' = Waiting(n) /\ Ready(n)' = Ready(n)
      /\ Trying(n)' = Trying(n) /\ First(n)' = First(n)
      /\ \A k : UpTo(n, k)' <=> UpTo(n, k)
  BY ElsewhereSame
<1>2. Manual(n)' = Manual(n) /\ Sends(n)' = Sends(n)
  BY DEF Elsewhere, Manual, Sends
<1>3. \A k : IdsTaken(n, k) => IdsTaken(n, k)'
  BY ElsewhereSame DEF IdsTaken
<1>4. \A w \in Trying(n) : worker'[w] = worker[w]
  BY ElsewhereSame DEF Trying, On, Busy, EarlyPc
<1>5. QED
  BY <1>1, <1>2, <1>3, <1>4, ChainNext DEF Chain, At

\* Submit enqueues the first job as the only one.
LEMMA ChainSubmit ==
  ASSUME Base, NEW n \in Notifications, Chain(n), Aborts(n) = 0, Submit(n)
  PROVE  Chain(n)'
<1>1. TypeOK /\ Manual(n) = 0 /\ Sends(n) \in Nat
  BY DEF Base, TypeInv, TypeOK, Chain, Sends, TallyKinds
<1>2. /\ First(n) = 1 /\ Sends(n) = 0 /\ UpTo(n, 0)
      /\ Waiting(n) = {} /\ Ready(n) = {} /\ Trying(n) = {}
  <2>1. First(n) = 1
    BY DEF Submit, RejectUnsupported, CreateNotification, AppendFirstLog,
       EnqueueFirst, First
  <2>2. QED  BY <1>1, <2>1, OneAttempt DEF Chain, Base, AllPaid
<1>3. UNCHANGED <<tally, worker, active, archived>>
  BY DEF Submit, RejectUnsupported, CreateNotification, AppendFirstLog,
     EnqueueFirst, queueVars
<1>4. Manual(n)' = 0 /\ Sends(n)' = 0 /\ Trying(n)' = {}
  BY <1>1, <1>2, <1>3, WorkersSame DEF Manual, Sends
<1>5. UpTo(n, 0)'
  <2>1. row'[n] = row[n] \/ row'[n].attempts = 0
    <3>1. row' = row \/ Insert(n)
      BY DEF Submit, RejectUnsupported, CreateNotification, AppendFirstLog,
         EnqueueFirst, storeVars, DbError
    <3>2. QED  BY <1>1, <3>1 DEF Insert, TypeOK
  <2>2. QED  BY <1>2, <1>3, <2>1 DEF UpTo, On, Busy, Subject
<1>6. 0 <= MaxAttempts
  BY DeliveryAssumption DEF MaxAttempts
<1>7. CASE EnqueueFirst(n) /\ Put(Job(n, 1), FALSE)
  <2>1. Waiting(n)' = {} /\ Ready(n)' \subseteq {Job(n, 1)}
    BY <1>2, <1>7, PutMoves
  <2>2. First(n)' = 0
    BY <1>1, <1>7 DEF EnqueueFirst, First, TypeOK
  <2>3. IdsTaken(n, 1)' /\ Job(n, 1).attempt = 1
    <3>1. Job(n, 1) \in Known'
      BY <1>7 DEF Put, Known, Live
    <3>2. Job(n, 1).attempt = 1 /\ \A i \in 1..1 : i = 1
      BY DEF Job
    <3>3. QED  BY <3>1, <3>2 DEF IdsTaken
  <2>4. UpTo(n, 1 - 1)'
    BY <1>5
  <2>5. \A job \in Waiting(n)' \cup Ready(n)' :
          /\ IdsTaken(n, job.attempt)' /\ UpTo(n, job.attempt - 1)'
          /\ Sends(n)' < job.attempt
    <3>1. ASSUME NEW job \in Waiting(n)' \cup Ready(n)'
          PROVE  job = Job(n, 1)
      BY <2>1
    <3>2. \A job : job = Job(n, 1) => job.attempt = 1
      BY <2>3
    <3>3. QED  BY <1>4, <2>3, <2>4, <3>1, <3>2
  <2>6. QED  BY <1>4, <1>6, <2>2, <2>5, ChainNext
<1>8. CASE ~(EnqueueFirst(n) /\ Put(Job(n, 1), FALSE))
  <2>1. UNCHANGED <<scheduled, pending>>
    BY <1>8 DEF Submit, RejectUnsupported, CreateNotification, AppendFirstLog,
       EnqueueFirst, Refused, ReplyLost, queueVars
  <2>2. Waiting(n)' = {} /\ Ready(n)' = {}
    BY <1>2, <2>1, QueueSame
  <2>3. QED  BY <1>4, <1>5, <1>6, <2>2, ChainNext
<1>9. QED  BY <1>7, <1>8

\* The one job becomes due, is taken, or is archived.
LEMMA ChainQueue ==
  ASSUME Base, NEW n \in Notifications, Chain(n), Aborts(n) = 0,
         NEW job \in JobPayload, job.notification = n,
         \/ Forward(job) \/ LeaseExpired(job)
         \/ \E w \in Workers : Dequeue(w, job)
  PROVE  Chain(n)'
<1>1. TypeOK /\ Manual(n) = 0 /\ Paid(n)
  BY DEF Base, TypeInv, Chain, AllPaid
<1>2. Manual(n)' = 0 /\ Sends(n)' = Sends(n) /\ First(n)' = First(n)
  BY <1>1 DEF Forward, LeaseExpired, Dequeue, actorVars, Manual, Sends, First
<1>3. Known' = Known
  BY DEF Forward, LeaseExpired, Dequeue, Known, Live
<1>4. \A k : IdsTaken(n, k) => IdsTaken(n, k)'
  BY <1>3 DEF IdsTaken
<1>5. CASE Forward(job)
  <2>1. job \in Waiting(n)
    BY <1>5 DEF Forward, Waiting
  <2>2. /\ Waiting(n) = {job} /\ Ready(n) = {} /\ Trying(n) = {} /\ First(n) = 0
    BY <1>1, <2>1, OneAttempt
  <2>3. Waiting(n)' = {} /\ Ready(n)' \subseteq {job} /\ Trying(n)' = {}
    BY <1>5, <2>2, WorkersSame DEF Forward, Waiting, Ready, actorVars
  <2>4. \A k : UpTo(n, k) => UpTo(n, k)'
    BY <1>5 DEF Forward, UpTo, storeVars, actorVars, On, Busy, Subject
  <2>5. QED  BY <1>2, <1>4, <2>1, <2>2, <2>3, <2>4, ChainNext DEF Chain
<1>6. CASE LeaseExpired(job)
  <2>1. Waiting(n)' = Waiting(n) /\ Ready(n)' = Ready(n) /\ Trying(n)' = Trying(n)
    BY <1>6, WorkersSame, QueueSame DEF LeaseExpired, actorVars
  <2>2. \A k : UpTo(n, k)' <=> UpTo(n, k)
    BY <1>6 DEF LeaseExpired, UpTo, storeVars, actorVars, On, Busy, Subject
  <2>3. worker' = worker
    BY <1>6 DEF LeaseExpired, actorVars
  <2>4. QED  BY <1>2, <1>4, <2>1, <2>2, <2>3, ChainNext DEF Chain, At
<1>7. ASSUME NEW w \in Workers, Dequeue(w, job)
      PROVE  Chain(n)'
  <2>1. job \in Ready(n)
    BY <1>7 DEF Dequeue, Ready
  <2>2. /\ Ready(n) = {job} /\ Waiting(n) = {} /\ Trying(n) = {} /\ First(n) = 0
    BY <1>1, <2>1, OneAttempt
  <2>3. /\ \A v \in Workers \ {w} : worker'[v] = worker[v]
        /\ worker'[w].pc = "get" /\ worker'[w].job = job /\ worker'[w].attempts = 0
    BY <1>1, <1>7 DEF Dequeue, TypeOK
  <2>4. Waiting(n)' = {} /\ Ready(n)' = {} /\ Trying(n)' \subseteq {w}
    BY <1>7, <2>2, <2>3 DEF Dequeue, Waiting, Ready, Trying, Subject
  <2>5. /\ IdsTaken(n, job.attempt) /\ UpTo(n, job.attempt - 1)
        /\ Sends(n) < job.attempt /\ Sends(n) \in Nat /\ job.attempt \in Nat
    BY <1>1, <2>1 DEF Chain, TypeOK, Sends, TallyKinds, JobPayload
  <2>6. UpTo(n, job.attempt - 1)' /\ UpTo(n, job.attempt)'
    <3>1. row' = row /\ row[n].attempts \in Nat
      BY <1>1, <1>7 DEF Dequeue, storeVars, TypeOK, Row
    <3>2. \A v \in Workers \ {w} : On(v, n)' => On(v, n)
      BY <2>3 DEF On, Busy, Subject
    <3>3. \A v \in Workers : On(v, n) => worker[v].attempts \in Nat
      BY <1>1, BusyIsHandler DEF On, Handler
    <3>4. QED  BY <2>3, <2>5, <3>1, <3>2, <3>3 DEF UpTo
  <2>7. QED  BY <1>2, <1>4, <2>2, <2>3, <2>4, <2>5, <2>6, ChainNext DEF Chain
<1>8. QED  BY <1>5, <1>6, <1>7

\* What a step of Process makes of its handler.
LEMMA HandlerGoes ==
  ASSUME TypeOK, NEW w \in Workers, Process(w), Busy(w)'
  PROVE  /\ At(w, "get") => /\ worker'[w].pc = "increment"
                            /\ worker'[w].attempts = row[Subject(w)].attempts + 1
         /\ At(w, "increment") => worker'[w].pc = "sending"
         /\ At(w, "sending") =>
              \/ worker'[w].pc = "update" /\ worker'[w].status = "sent"
              \/ worker'[w].pc = "bury" /\ Exhausted(w)
              \/ worker'[w].pc = "reschedule" /\ ~Exhausted(w)
         /\ worker[w].pc \in {"bury", "reschedule"} => worker'[w].pc = "update"
         /\ worker[w].pc \notin EarlyPc => worker'[w].pc \notin EarlyPc
         /\ ~At(w, "get") => worker'[w].attempts = worker[w].attempts
         /\ ~At(w, "get") /\ ~At(w, "sending") => worker'[w].status = worker[w].status
<1>1. /\ worker \in [Workers -> Handler \cup {Idle}]
      /\ worker[w] \in Handler /\ Busy(w)
  BY HandlerOnly DEF TypeOK
<1>2. ASSUME NEW ok, Return(w, ok) PROVE FALSE
  BY <1>1, <1>2 DEF Return, Busy, Idle
<1>3. ASSUME NEW pc \in HandlerPc, Goto(w, pc)
      PROVE  /\ worker'[w].pc = pc /\ worker'[w].attempts = worker[w].attempts
             /\ worker'[w].status = worker[w].status
  BY <1>1, <1>3 DEF Goto, Handler
<1>4. CASE GetNotification(w)
  <2>1. CASE worker' = [worker EXCEPT
               ![w].pc = "increment",
               ![w].status = row[Subject(w)].status,
               ![w].attempts = row[Subject(w)].attempts + 1]
    <3>1. /\ worker'[w].pc = "increment"
          /\ worker'[w].attempts = row[Subject(w)].attempts + 1
      BY ONLY <1>1, <2>1 DEF Handler
    <3>2. QED  BY <1>4, <3>1 DEF GetNotification, At, EarlyPc
  <2>2. QED  BY <1>2, <1>4, <2>1 DEF GetNotification
<1>5. CASE SendReturns(w)
  <2>1. worker'[w].attempts = worker[w].attempts
    BY <1>1, <1>5 DEF SendReturns, Handler
  <2>2. \/ worker'[w].pc = "update" /\ worker'[w].status = "sent"
        \/ worker'[w].pc = "bury" /\ Exhausted(w)
        \/ worker'[w].pc = "reschedule" /\ ~Exhausted(w)
    BY <1>1, <1>5 DEF SendReturns, Handler
  <2>3. QED  BY <1>5, <2>1, <2>2 DEF SendReturns, At, EarlyPc
<1>6. CASE IncrementAttempts(w)
  BY <1>2, <1>3, <1>6 DEF IncrementAttempts, At, EarlyPc, HandlerPc
<1>7. CASE CreateDeadLetter(w) \/ ScheduleRetry(w)
  BY <1>2, <1>3, <1>7 DEF CreateDeadLetter, ScheduleRetry, At, EarlyPc, HandlerPc
<1>8. CASE UpdateNotification(w) \/ AppendLog(w) \/ Finish(w)
  <2>1. worker[w].pc \in {"update", "appendLog", "finish"}
    BY <1>8 DEF UpdateNotification, AppendLog, Finish, At
  <2>2. \E pc \in {"appendLog", "finish"} : Goto(w, pc)
    <3>1. CASE Finish(w)
      <4>1. Return(w, worker[w].status = "sent")
        BY <3>1 DEF Finish
      <4>2. QED  BY <1>2, <4>1
    <3>2. QED  BY <1>2, <1>8, <3>1 DEF UpdateNotification, AppendLog
  <2>3. QED  BY <1>3, <2>1, <2>2 DEF At, EarlyPc, HandlerPc
<1>9. QED  BY <1>4, <1>5, <1>6, <1>7, <1>8 DEF Process

\* A handler that ends with an error leaves its job's id taken; without one it
\* ends only when it finds the row settled or has sent.
LEMMA HandlerEnds ==
  ASSUME TypeOK, NEW w \in Workers, Process(w), ~Busy(w)'
  PROVE  \/ Return(w, FALSE)
         \/ Return(w, TRUE) /\ At(w, "get")
         \/ Return(w, TRUE) /\ At(w, "finish") /\ worker[w].status = "sent"
<1>1. worker \in [Workers -> Handler \cup {Idle}] /\ worker[w] \in Handler
  BY HandlerOnly DEF TypeOK
<1>2. ASSUME NEW pc \in HandlerPc PROVE ~Goto(w, pc)
  BY <1>1, <1>2 DEF Goto, Handler, Busy, HandlerPc
<1>3. ~SendReturns(w)
  BY <1>1 DEF SendReturns, Handler, Busy
<1>4. CASE GetNotification(w)
  <2>1. worker' # [worker EXCEPT ![w].pc = "increment",
                                 ![w].status = row[Subject(w)].status,
                                 ![w].attempts = row[Subject(w)].attempts + 1]
    BY <1>1 DEF Handler, Busy
  <2>2. QED  BY <1>4, <2>1 DEF GetNotification
<1>5. CASE Finish(w)
  <2>1. (worker[w].status = "sent") \in BOOLEAN
    OBVIOUS
  <2>2. QED  BY <1>5, <2>1 DEF Finish
<1>6. QED
  BY <1>2, <1>3, <1>4, <1>5 DEF Process, IncrementAttempts, CreateDeadLetter,
     ScheduleRetry, UpdateNotification, AppendLog, HandlerPc

LEMMA KnownKept ==
  ASSUME TypeOK, NEW w \in Workers, Process(w), Busy(w)' \/ Return(w, FALSE)
  PROVE  Known \subseteq Known'
<1>1. scheduled \subseteq scheduled' /\ pending \subseteq pending'
  BY DEF Process, GetNotification, IncrementAttempts, SendReturns,
     CreateDeadLetter, ScheduleRetry, UpdateNotification, AppendLog, Finish,
     Put, Refused, ReplyLost, queueVars
<1>2. active \cup archived \subseteq active' \cup archived'
  <2>1. CASE Return(w, FALSE)
    BY <2>1 DEF Return
  <2>2. CASE UNCHANGED <<active, archived>>
    BY <2>2
  <2>3. ASSUME Busy(w)', NEW ok \in BOOLEAN, Return(w, ok)
        PROVE  FALSE
    BY <2>3 DEF Return, Busy, Idle, TypeOK
  <2>4. CASE Finish(w)
    <3>1. Return(w, worker[w].status = "sent")
      BY <2>4 DEF Finish
    <3>2. QED  BY <2>1, <2>3, <3>1
  <2>5. QED
    BY <2>1, <2>2, <2>3, <2>4 DEF Process, GetNotification, IncrementAttempts,
       SendReturns, CreateDeadLetter, ScheduleRetry, UpdateNotification,
       AppendLog, queueVars
<1>3. QED  BY <1>1, <1>2 DEF Known, Live

\* Nothing is left of n that Chain speaks of, or nothing but what was there.
LEMMA ChainSpent ==
  ASSUME NEW n \in Notifications, Manual(n)' = 0, Sends(n)' <= MaxAttempts,
         First(n)' = 0, Waiting(n)' = {}, Ready(n)' = {}, Trying(n)' = {}
  PROVE  Chain(n)'
BY ChainNext

LEMMA ChainKept ==
  ASSUME NEW n \in Notifications, Chain(n),
         Manual(n)' = Manual(n), Sends(n)' = Sends(n),
         First(n)' = 1 => First(n) = 1,
         Waiting(n)' \subseteq Waiting(n), Ready(n)' \subseteq Ready(n),
         Trying(n)' \subseteq Trying(n),
         \A w \in Trying(n)' : worker'[w] = worker[w],
         \A k : UpTo(n, k) => UpTo(n, k)',
         \A k : IdsTaken(n, k) => IdsTaken(n, k)'
  PROVE  Chain(n)'
BY ChainNext DEF Chain, At

\* Counting sends leaves the other tallies.
LEMMA HandlerTally ==
  ASSUME TypeOK, NEW w \in Workers, Process(w), NEW n \in Notifications, On(w, n)
  PROVE  /\ Manual(n)' = Manual(n) /\ Aborts(n)' = Aborts(n)
         /\ Sends(n)' = IF At(w, "increment") /\ Busy(w)' THEN Sends(n) + 1
                                                          ELSE Sends(n)
<1>1. Subject(w) = n
  BY DEF On
<1>2. ASSUME NEW k \in TallyKinds, Count(n, k)
      PROVE  \A kind \in TallyKinds : tally'[n][kind] =
               IF kind = k THEN tally[n][kind] + 1 ELSE tally[n][kind]
  BY <1>2, CountExact
<1>3. {"sends", "acks", "manual", "aborts"} = TallyKinds
  BY DEF TallyKinds
<1>4. CASE UNCHANGED tally /\ ~(At(w, "increment") /\ Busy(w)')
  BY <1>4 DEF Manual, Aborts, Sends
<1>5. CASE SendReturns(w)
  <2>1. UNCHANGED tally \/ Count(n, "acks")
    BY <1>1, <1>5 DEF SendReturns
  <2>2. ~At(w, "increment")
    BY <1>5 DEF SendReturns, At
  <2>3. QED  BY <1>2, <1>3, <2>1, <2>2 DEF Manual, Aborts, Sends
<1>6. CASE IncrementAttempts(w)
  <2>1. CASE Return(w, FALSE) /\ UNCHANGED tally
    <3>1. ~Busy(w)'
      BY <2>1 DEF Return, Busy, Idle, TypeOK
    <3>2. QED  BY <1>4, <2>1, <3>1
  <2>2. CASE Goto(w, "sending") /\ Count(n, "sends")
    <3>1. At(w, "increment") /\ Busy(w)'
      BY <1>6, <2>2, HandlerOnly DEF IncrementAttempts, Goto, Busy, TypeOK, Handler
    <3>2. QED  BY <1>2, <1>3, <2>2, <3>1 DEF Manual, Aborts, Sends
  <2>3. QED  BY <1>1, <1>6, <2>1, <2>2 DEF IncrementAttempts
<1>7. CASE \/ GetNotification(w) \/ CreateDeadLetter(w) \/ ScheduleRetry(w)
           \/ UpdateNotification(w) \/ AppendLog(w) \/ Finish(w)
  <2>1. ~At(w, "increment") /\ UNCHANGED tally
    BY <1>7 DEF GetNotification, CreateDeadLetter, ScheduleRetry,
       UpdateNotification, AppendLog, Finish, At
  <2>2. QED  BY <1>4, <2>1
<1>8. QED  BY <1>5, <1>6, <1>7 DEF Process

\* What a handler leaves alone, and what it writes to the row.
LEMMA HandlerFrame ==
  ASSUME TypeOK, NEW w \in Workers, Process(w), NEW n \in Notifications, On(w, n)
  PROVE  /\ First(n)' = First(n) /\ Ready(n)' = Ready(n)
         /\ ~At(w, "reschedule") => Waiting(n)' = Waiting(n)
         /\ \/ row'[n].attempts = row[n].attempts
            \/ /\ row'[n].attempts = worker[w].attempts
               /\ worker[w].pc \in {"increment", "update"}
         /\ Trying(n)' \ {w} = Trying(n) \ {w}
         /\ w \in Trying(n)' => w \in Trying(n) /\ worker'[w].pc \in EarlyPc
<1>1. Subject(w) = n /\ Busy(w) /\ worker[w] \in Handler
  BY HandlerOnly DEF On
<1>2. UNCHANGED <<submit, pending>>
  BY DEF Process, GetNotification, IncrementAttempts, SendReturns,
     CreateDeadLetter, ScheduleRetry, UpdateNotification, AppendLog, Finish,
     Put, Refused, ReplyLost, queueVars
<1>3. First(n)' = First(n) /\ Ready(n)' = Ready(n)
  BY <1>2 DEF First, Ready
<1>4. ~At(w, "reschedule") => Waiting(n)' = Waiting(n)
  <2>1. ~At(w, "reschedule") => UNCHANGED scheduled
    BY DEF Process, GetNotification, IncrementAttempts, SendReturns,
       CreateDeadLetter, ScheduleRetry, UpdateNotification, AppendLog, Finish,
       queueVars, At
  <2>2. QED  BY <2>1 DEF Waiting
<1>5. \/ row'[n].attempts = row[n].attempts
      \/ /\ row'[n].attempts = worker[w].attempts
         /\ worker[w].pc \in {"increment", "update"}
  <2>1. row \in [Notifications -> Row]
    BY DEF TypeOK
  <2>2. CASE IncrementAttempts(w)
    <3>1. \/ row' = row
          \/ row' = [row EXCEPT ![n].attempts = worker[w].attempts]
      BY <1>1, <2>2 DEF IncrementAttempts, DbError
    <3>2. QED  BY <2>1, <2>2, <3>1 DEF Row, IncrementAttempts, At
  <2>3. CASE UpdateNotification(w)
    <3>1. \/ row' = row
          \/ row' = [row EXCEPT ![n] = [status |-> worker[w].status,
                                        attempts |-> worker[w].attempts]]
      BY <1>1, <2>3 DEF UpdateNotification, DbError
    <3>2. QED  BY <2>1, <2>3, <3>1 DEF UpdateNotification, At
  <2>4. CASE UNCHANGED row
    BY <2>4
  <2>5. QED
    BY <2>2, <2>3, <2>4 DEF Process, GetNotification, SendReturns,
       CreateDeadLetter, ScheduleRetry, AppendLog, Finish, storeVars
<1>6. Trying(n)' \ {w} = Trying(n) \ {w}
  BY HandlerOnly DEF Trying, Subject
<1>7. w \in Trying(n)' => w \in Trying(n) /\ worker'[w].pc \in EarlyPc
  <2>1. ASSUME w \in Trying(n)'
        PROVE  Busy(w)' /\ worker'[w].pc \in EarlyPc
    BY <2>1 DEF Trying, Busy, EarlyPc
  <2>2. QED  BY <1>1, <2>1, HandlerGoes DEF Trying
<1>8. QED  BY <1>3, <1>4, <1>5, <1>6, <1>7

LEMMA UpToKept ==
  ASSUME TypeOK, NEW w \in Workers, Process(w), ~At(w, "get"),
         NEW n \in Notifications, On(w, n), NEW k, UpTo(n, k)
  PROVE  UpTo(n, k)'
<1>1. row'[n].attempts <= k
  <2>1. row[n].attempts <= k /\ worker[w].attempts <= k
    BY DEF UpTo
  <2>2. QED  BY <2>1, HandlerFrame
<1>2. ASSUME NEW v \in Workers, On(v, n)'
      PROVE  worker'[v].attempts <= k
  <2>1. CASE v = w
    <3>1. worker'[w].attempts = worker[w].attempts
      BY <1>2, <2>1, HandlerGoes DEF On
    <3>2. QED  BY <2>1, <3>1 DEF UpTo
  <2>2. CASE v # w
    <3>1. worker'[v] = worker[v]
      BY <2>2, HandlerOnly
    <3>2. QED  BY <1>2, <3>1 DEF UpTo, On, Busy, Subject
  <2>3. QED  BY <2>1, <2>2
<1>3. QED  BY <1>1, <1>2 DEF UpTo

\* The attempt goes on, the next one is scheduled, or nothing is left of it.
LEMMA ChainHandler ==
  ASSUME Base, Base', NEW n \in Notifications, Chain(n), Aborts(n) = 0,
         ~Buried(n), ~Buried(n)',
         NEW w \in Workers, On(w, n), Process(w)
  PROVE  Chain(n)'
<1>0. PICK k : k = worker[w].job.attempt
  OBVIOUS
<1>1. /\ TypeOK /\ TypeOK' /\ Paid(n) /\ Manual(n) = 0 /\ Manual(n)' = 0
      /\ Sends(n) \in Nat /\ row[n].attempts \in Nat
      /\ MaxAttempts \in Nat
  <2>1. TypeOK /\ TypeOK' /\ Paid(n) /\ Manual(n) = 0
    BY DEF Base, TypeInv, AllPaid, Chain
  <2>2. Manual(n)' = 0
    BY <2>1, HandlerTally
  <2>3. /\ Sends(n) \in Nat /\ row[n].attempts \in Nat /\ MaxAttempts \in Nat
    BY <2>1, DeliveryAssumption DEF TypeOK, Sends, TallyKinds, Row, MaxAttempts
  <2>4. QED  BY <2>1, <2>2, <2>3
<1>2. /\ Subject(w) = n /\ Busy(w) /\ worker[w].attempts \in Nat
      /\ k \in Nat /\ k <= MaxAttempts /\ worker[w].job = Job(n, k)
  <2>1. Subject(w) = n /\ Busy(w) /\ worker[w] \in Handler
    BY <1>1, HandlerOnly DEF On
  <2>2. k <= MaxAttempts
    BY <1>0, <1>1, <2>1 DEF Base, LimitInv, LimitKept, Handler, JobPayload
  <2>3. QED  BY <1>0, <2>1, <2>2 DEF Handler, JobPayload, Job, Subject
<1>3. CASE worker[w].pc \notin EarlyPc /\ (Busy(w)' \/ Return(w, FALSE))
  <2>1. ~At(w, "get") /\ ~At(w, "increment") /\ ~At(w, "reschedule")
    BY <1>3 DEF At, EarlyPc
  <2>2. Trying(n)' \subseteq Trying(n) /\ w \notin Trying(n)'
    BY <1>1, <1>3, HandlerFrame DEF Trying
  <2>3. \A v \in Trying(n)' : worker'[v] = worker[v]
    BY <1>1, <2>2, HandlerOnly DEF Trying
  <2>4. \A i : UpTo(n, i) => UpTo(n, i)'
    BY <1>1, <2>1, UpToKept
  <2>5. \A i : IdsTaken(n, i) => IdsTaken(n, i)'
    BY <1>1, <1>3, KnownKept DEF IdsTaken
  <2>6. Sends(n)' = Sends(n)
    BY <1>1, <2>1, HandlerTally
  <2>7. QED
    BY <1>1, <2>1, <2>2, <2>3, <2>4, <2>5, <2>6, HandlerFrame, ChainKept
<1>4. CASE Return(w, TRUE) /\ At(w, "finish") /\ worker[w].status = "sent"
  <2>1. Acks(n) > 0
    BY <1>2, <1>4 DEF Base, Evidence, HandlersJustified, Justified, Acks, At
  <2>2. Waiting(n) = {} /\ Ready(n) = {} /\ Trying(n) = {} /\ First(n) = 0
    BY <1>1, <2>1, OneAttempt
  <2>3. Waiting(n)' = {} /\ Ready(n)' = {} /\ Trying(n)' = {} /\ First(n)' = 0
    BY <1>1, <1>4, <2>2, HandlerFrame DEF At
  <2>4. Sends(n)' = Sends(n)
    BY <1>1, <1>4, HandlerTally DEF At
  <2>5. QED  BY <1>1, <2>3, <2>4, ChainSpent DEF Chain
<1>5. ASSUME worker[w].pc \in EarlyPc
      PROVE  Chain(n)'
  <2>1. w \in Trying(n)
    BY <1>2, <1>5 DEF Trying
  <2>2. Trying(n) = {w} /\ Waiting(n) = {} /\ Ready(n) = {} /\ First(n) = 0
    BY <1>1, <2>1, OneAttempt
  <2>3. Ready(n)' = {} /\ First(n)' = 0 /\ Trying(n)' \subseteq {w}
    BY <1>1, <2>2, HandlerFrame
  <2>4. /\ IdsTaken(n, k) /\ UpTo(n, k) /\ Sends(n) <= k
        /\ worker[w].pc \in {"get", "increment"} => Sends(n) < k
        /\ At(w, "get") => UpTo(n, k - 1)
    BY <1>0, <2>1 DEF Chain
  <2>5. Sends(n)' <= k /\ Sends(n)' <= MaxAttempts
    BY <1>1, <1>2, <2>4, HandlerTally DEF At, Chain
  <2>6. CASE w \notin Trying(n)' /\ ~At(w, "reschedule")
    <3>1. Waiting(n)' = {} /\ Trying(n)' = {}
      BY <1>1, <2>2, <2>3, <2>6, HandlerFrame
    <3>2. QED  BY <1>1, <2>3, <2>5, <3>1, ChainSpent
  <2>7. CASE w \in Trying(n)'
    <3>1. Busy(w)' /\ worker'[w].pc \in EarlyPc /\ worker'[w].job = worker[w].job
      BY <1>1, <2>7, HandlerOnly DEF Trying, Busy, EarlyPc
    <3>2. ~At(w, "reschedule") /\ worker'[w].pc # "get"
      BY <1>1, <1>5, <3>1, HandlerGoes DEF EarlyPc, At
    <3>3. IdsTaken(n, k)'
      BY <1>1, <2>4, <3>1, KnownKept DEF IdsTaken
    <3>4. UpTo(n, k)'
      <4>1. CASE At(w, "get")
        <5>1. row[n].attempts <= k - 1
          BY <2>4, <4>1 DEF UpTo
        <5>2. worker'[w].attempts <= k /\ row'[n].attempts <= k
          <6>1. worker'[w].attempts = row[n].attempts + 1
            BY <1>1, <1>2, <3>1, <4>1, HandlerGoes
          <6>2. row'[n].attempts = row[n].attempts
            BY <1>1, <4>1, HandlerFrame DEF At
          <6>3. QED  BY <1>1, <1>2, <5>1, <6>1, <6>2
        <5>3. ASSUME NEW v \in Workers \ {w}, On(v, n)'
              PROVE  worker'[v].attempts <= k
          BY <1>1, <2>4, <5>3, HandlerOnly DEF UpTo, On, Busy, Subject
        <5>4. QED  BY <5>2, <5>3 DEF UpTo
      <4>2. CASE ~At(w, "get")
        BY <1>1, <2>4, <4>2, UpToKept
      <4>3. QED  BY <4>1, <4>2
    <3>5. worker'[w].pc \in {"get", "increment"} => Sends(n)' < k
      <4>1. worker'[w].pc \in {"get", "increment"} => At(w, "get")
        BY <1>1, <1>5, <3>1, HandlerGoes DEF EarlyPc, At
      <4>2. At(w, "get") => Sends(n)' = Sends(n)
        BY <1>1, HandlerTally DEF At
      <4>3. QED  BY <2>4, <4>1, <4>2 DEF At
    <3>6. Waiting(n)' = {}
      BY <1>1, <2>2, <3>2, HandlerFrame
    <3>7. worker'[w].job.attempt = k
      BY <1>0, <3>1
    <3>8. QED
      BY <1>1, <2>3, <2>5, <3>2, <3>3, <3>4, <3>5, <3>6, <3>7, ChainNext
  <2>8. CASE At(w, "reschedule")
    <3> DEFINE a == worker[w].attempts
    <3>1. ScheduleRetry(w) /\ NextJob(w) = Job(n, a + 1)
      BY <1>2, <2>8 DEF Process, GetNotification, IncrementAttempts,
         SendReturns, CreateDeadLetter, ScheduleRetry, UpdateNotification,
         AppendLog, Finish, At
    <3>2. Trying(n)' = {}
      <4>1. w \in Trying(n)' => Busy(w)' /\ worker'[w].pc \in EarlyPc
        BY DEF Trying, Busy, EarlyPc
      <4>2. worker'[w].pc = "update" \/ ~Busy(w)'
        BY <1>1, <2>8, HandlerGoes DEF At
      <4>3. QED  BY <2>3, <4>1, <4>2 DEF EarlyPc
    <3>3. CASE Put(Job(n, a + 1), TRUE)
      <4>1. Waiting(n)' \subseteq {Job(n, a + 1)}
        BY <2>2, <3>3, PutMoves
      <4>2. Job(n, a + 1) \notin Known /\ Job(n, a + 1) \in Known'
        BY <3>3 DEF Put, Known, Live
      <4>3. a = k
        <5>1. a <= k
          BY <1>2, <2>4 DEF UpTo, On
        <5>2. ~(a + 1 \in 1..k)
          BY <2>4, <4>2 DEF IdsTaken
        <5>3. QED  BY <1>2, <5>1, <5>2
      <4>4. IdsTaken(n, k + 1)'
        <5>1. Busy(w)' \/ Return(w, FALSE)
          BY <1>1, <2>8, HandlerEnds DEF At
        <5>2. \A i \in 1..k : Job(n, i) \in Known'
          BY <1>1, <2>4, <5>1, KnownKept DEF IdsTaken
        <5>3. \A i \in 1..(k + 1) : i \in 1..k \/ i = k + 1
          BY <1>2
        <5>4. QED  BY <4>2, <4>3, <5>2, <5>3 DEF IdsTaken
      <4>5. UpTo(n, (k + 1) - 1)'
        <5>1. UpTo(n, k)'
          BY <1>1, <2>4, <2>8, UpToKept DEF At
        <5>2. (k + 1) - 1 = k
          BY <1>2
        <5>3. QED  BY <5>1, <5>2
      <4>6. Sends(n)' < k + 1
        <5>1. Sends(n)' \in Nat
          BY <1>1 DEF Sends, TypeOK, TallyKinds
        <5>2. QED  BY <1>2, <2>5, <5>1
      <4>7. \A job \in Waiting(n)' \cup Ready(n)' : job.attempt = k + 1
        BY <2>3, <4>1, <4>3 DEF Job
      <4>8. QED
        BY <1>1, <2>3, <2>5, <3>2, <4>4, <4>5, <4>6, <4>7, ChainNext
    <3>4. CASE Refused(Job(n, a + 1))
      <4>1. Waiting(n)' = {}
        BY <2>2, <3>4, QueueSame DEF Refused
      <4>2. QED  BY <1>1, <2>3, <2>5, <3>2, <4>1, ChainSpent
    <3>5. QED  BY <3>1, <3>3, <3>4 DEF ScheduleRetry, ReplyLost
  <2>9. QED  BY <2>6, <2>7, <2>8
<1>6. QED
  <2>1. Return(w, TRUE) /\ At(w, "get") => worker[w].pc \in EarlyPc
    BY DEF At, EarlyPc
  <2>2. QED  BY <1>1, <1>3, <1>4, <1>5, <2>1, HandlerEnds

\* A restart takes the handlers away, and what Submit was about to enqueue.
LEMMA ChainRestart ==
  ASSUME TypeOK, NEW n \in Notifications, Chain(n), Restart
  PROVE  Chain(n)'
<1>1. /\ Waiting(n)' = Waiting(n) /\ Ready(n)' = Ready(n)
      /\ Manual(n)' = Manual(n) /\ Sends(n)' = Sends(n)
  BY QueueSame DEF Restart, queueVars, Manual, Sends
<1>2. Trying(n)' = {} /\ \A w \in Workers : ~On(w, n)'
  BY DEF Restart, Trying, On, Busy, Idle, EarlyPc
<1>3. First(n)' = 1 => First(n) = 1
  BY DEF Restart, First
<1>4. \A k : UpTo(n, k) => UpTo(n, k)'
  BY <1>2 DEF UpTo, Restart, storeVars
<1>5. \A k : IdsTaken(n, k) => IdsTaken(n, k)'
  BY DEF IdsTaken, Known, Live, Restart, queueVars
<1>6. QED  BY <1>1, <1>2, <1>3, <1>4, <1>5, ChainKept

\* A notification without a dead letter has no request for its retry, and an
\* abort of its handler is counted.
LEMMA ChainStep ==
  ASSUME Base, Base', [Next]_vars, NEW n \in Notifications, Ordered(n),
         ~Buried(n), ~Buried(n)', Aborts(n)' = 0
  PROVE  Chain(n)'
<1>1. /\ TypeOK /\ TypeOK' /\ Aborts(n) = 0 /\ Chain(n)
  <2>1. TypeOK /\ TypeOK'
    BY DEF Base, TypeInv
  <2>2. Aborts(n) \in Nat /\ Aborts(n)' >= Aborts(n)
    BY <2>1, TallyGrows DEF Aborts, TypeOK, TallyKinds
  <2>3. Aborts(n) = 0
    BY <2>2
  <2>4. QED  BY <2>1, <2>3 DEF Ordered
<1>2. CASE Elsewhere(n)
  BY <1>1, <1>2, ChainElsewhere
<1>3. CASE Submit(n)
  BY <1>1, <1>3, ChainSubmit
<1>4. ASSUME NEW job \in JobPayload, job.notification = n,
             \/ Forward(job) \/ LeaseExpired(job)
             \/ \E w \in Workers : Dequeue(w, job)
      PROVE  Chain(n)'
  BY <1>1, <1>4, ChainQueue
<1>5. ASSUME NEW w \in Workers, On(w, n), Process(w)
      PROVE  Chain(n)'
  BY <1>1, <1>5, ChainHandler
<1>6. ASSUME NEW w \in Workers, On(w, n), Abort(w)
      PROVE  FALSE
  <2>1. Count(n, "aborts") /\ "aborts" \in TallyKinds
    BY <1>6 DEF Abort, On, TallyKinds
  <2>2. Aborts(n)' = Aborts(n) + 1
    BY <1>1, <2>1, CountExact DEF Aborts
  <2>3. QED  BY <1>1, <2>2
<1>7. ASSUME NEW r \in Retriers, retry[r].pc \in RequestPc, retry[r].notification = n
      PROVE  FALSE
  BY <1>7 DEF Base, LimitInv, LimitKept
<1>8. CASE Restart
  BY <1>1, <1>8, ChainRestart
<1>9. QED
  BY <1>1, <1>2, <1>3, <1>4, <1>5, <1>6, <1>7, <1>8, StepCases DEF About

-------------------------------------------------------------------------------
(* The dead letter. *)

LEMMA WorkerStep ==
  ASSUME TypeOK, [Next]_vars, NEW w \in Workers
  PROVE  \/ worker'[w] = worker[w] \/ worker'[w] = Idle
         \/ Process(w)
         \/ \E job \in pending : Dequeue(w, job)
<1>1. ASSUME NEW v \in Workers, v # w,
             Process(v) \/ Abort(v) \/ \E job \in pending : Dequeue(v, job)
      PROVE  worker'[w] = worker[w]
  BY <1>1, HandlerOnly DEF Dequeue, TypeOK
<1>2. Abort(w) \/ Restart => worker'[w] = Idle
  BY DEF Abort, Restart, TypeOK
<1>3. QED
  BY <1>1, <1>2 DEF Next, vars, Submit, RejectUnsupported, CreateNotification,
     AppendFirstLog, EnqueueFirst, Forward, LeaseExpired, actorVars, RetryRead,
     RetryDeadLetter, RetryUpdate, RetryMark, RetryEnqueue, Crash, Stop, Exit

LEMMA BuriedIsExhaustedStep ==
  ASSUME TypeOK, BuriedIsExhausted, [Next]_vars
  PROVE  BuriedIsExhausted'
<1> SUFFICES ASSUME NEW w \in Workers, At(w, "bury")'
             PROVE  worker'[w].attempts >= MaxAttempts
  BY DEF BuriedIsExhausted, MaxAttempts, At
<1>1. CASE worker'[w] = worker[w]
  BY <1>1 DEF BuriedIsExhausted, At
<1>2. CASE worker'[w] = Idle \/ \E job \in pending : Dequeue(w, job)
  BY <1>2 DEF Idle, At, Dequeue, TypeOK
<1>3. CASE Process(w)
  <2>1. Busy(w)' /\ Busy(w) /\ worker[w] \in Handler
    BY <1>3, HandlerOnly DEF At, Busy
  <2>2. /\ At(w, "sending") /\ Exhausted(w)
        /\ worker'[w].attempts = worker[w].attempts
    BY <1>3, <2>1, HandlerGoes DEF At, EarlyPc, Handler, HandlerPc, Busy
  <2>3. QED  BY <2>2
<1>4. QED  BY <1>1, <1>2, <1>3, WorkerStep

\* The first letter of a notification is its handler's.
LEMMA FirstLetter ==
  ASSUME TypeOK, LimitInv, [Next]_vars, NEW n \in Notifications,
         ~Buried(n), Buried(n)'
  PROVE  \E w \in Workers : CreateDeadLetter(w) /\ Subject(w) = n
<1>1. ~Elsewhere(n)
  BY DEF Elsewhere, Buried
<1>2. letters' # letters
  BY DEF Buried
<1>3. ASSUME NEW r \in Retriers, retry[r].pc \in RequestPc, retry[r].notification = n
      PROVE  FALSE
  BY <1>3 DEF LimitInv, LimitKept
<1>4. PICK w \in Workers : On(w, n) /\ Process(w)
  BY <1>1, <1>2, <1>3, StepCases DEF About, Submit, RejectUnsupported,
     CreateNotification, AppendFirstLog, EnqueueFirst, Forward, LeaseExpired,
     Dequeue, Abort, Restart, storeVars
<1>5. CreateDeadLetter(w)
  BY <1>2, <1>4 DEF Process, GetNotification, IncrementAttempts, SendReturns,
     ScheduleRetry, UpdateNotification, AppendLog, Finish, storeVars
<1>6. QED  BY <1>4, <1>5 DEF On

\* The attempt that exhausts a notification is the last below the limit.
LEMMA Burial ==
  ASSUME Base, Base', BuriedIsExhausted, [Next]_vars, NEW n \in Notifications,
         Ordered(n), ~Buried(n), Buried(n)', Aborts(n)' = 0
  PROVE  Closed(n)' /\ Budget(n)'
<1>1. /\ TypeOK /\ TypeOK' /\ Paid(n) /\ Aborts(n) = 0 /\ Chain(n)
  <2>1. TypeOK /\ TypeOK' /\ Paid(n)
    BY DEF Base, TypeInv, AllPaid
  <2>2. Aborts(n) \in Nat /\ Aborts(n)' >= Aborts(n)
    BY <2>1, TallyGrows DEF Aborts, TypeOK, TallyKinds
  <2>3. Aborts(n) = 0
    BY <2>2
  <2>4. QED  BY <2>1, <2>3 DEF Ordered
<1>2. PICK w \in Workers : CreateDeadLetter(w) /\ Subject(w) = n
  BY <1>1, FirstLetter DEF Base
<1>3. /\ Process(w) /\ At(w, "bury") /\ Busy(w) /\ On(w, n)
      /\ worker[w] \in Handler /\ Busy(w)'
  <2>1. Process(w) /\ At(w, "bury") /\ worker[w] \in Handler /\ Busy(w)
    BY <1>1, <1>2, HandlerOnly DEF Process, CreateDeadLetter
  <2>2. Busy(w)'
    BY <1>1, <1>2, <2>1 DEF CreateDeadLetter, Goto, TypeOK, Handler, Busy
  <2>3. QED  BY <1>2, <2>1, <2>2 DEF On
<1>4. PICK k : k = worker[w].job.attempt
  OBVIOUS
<1>5. /\ w \in Trying(n) /\ Trying(n) = {w} /\ Waiting(n) = {} /\ Ready(n) = {}
      /\ Acks(n) = 0 /\ Manual(n) = 0 /\ Sends(n) <= MaxAttempts
      /\ IdsTaken(n, k) /\ worker[w].attempts <= k
  <2>1. w \in Trying(n)
    BY <1>2, <1>3 DEF Trying, At, EarlyPc
  <2>2. QED  BY <1>1, <1>3, <1>4, <2>1, OneAttempt DEF Chain, UpTo
<1>6. k = MaxAttempts
  <2>1. worker[w].attempts >= MaxAttempts
    BY <1>3 DEF BuriedIsExhausted
  <2>2. MaxAttempts \in Nat
    BY DeliveryAssumption DEF MaxAttempts
  <2>3. k \in Nat /\ worker[w].attempts \in Nat
    BY <1>3, <1>4 DEF Handler, JobPayload
  <2>4. k <= MaxAttempts
    BY <1>2, <1>3, <1>4, <2>2, <2>3 DEF Base, LimitInv, LimitKept
  <2>5. QED  BY <1>5, <2>1, <2>2, <2>3, <2>4
<1>7. /\ worker'[w].pc = "update" /\ worker'[w].status = "failed"
      /\ \A v \in Workers \ {w} : worker'[v] = worker[v]
  <2>1. worker[w].status = "failed"
    BY <1>3 DEF Base, Evidence, HandlersJustified
  <2>2. worker'[w].pc = "update" /\ worker'[w].status = worker[w].status
    BY <1>1, <1>3, HandlerGoes DEF At
  <2>3. QED  BY <1>1, <1>3, <2>1, <2>2, HandlerOnly
<1>8. UNCHANGED queueVars
  BY <1>2 DEF CreateDeadLetter
<1>9. Closed(n)'
  <2>1. Low(n) \subseteq Known /\ Low(n) \cap (scheduled \cup pending) = {}
    BY <1>5, <1>6 DEF Low, IdsTaken, Waiting, Ready, Job
  <2>2. Low(n) \subseteq active \cup archived
    BY <2>1 DEF Known, Live
  <2>3. ASSUME NEW v \in Workers, Busy(v)', worker'[v].job \in Low(n)
        PROVE  worker'[v].pc \notin EarlyPc /\ worker'[v].status # "sent"
    <3>1. CASE v = w
      BY <1>7, <3>1 DEF EarlyPc
    <3>2. CASE v # w
      <4>1. worker'[v] = worker[v] /\ Busy(v) /\ Subject(v) = n
        BY <1>7, <2>3, <3>2 DEF Busy, Subject, Low, Job
      <4>2. v \notin Trying(n)
        BY <1>5, <3>2
      <4>3. ~At(v, "bury")
        BY <4>1, <4>2 DEF Trying, At, EarlyPc
      <4>4. worker[v].status # "sent"
        BY <1>5, <4>1, <4>3 DEF Base, Evidence, HandlersJustified, Justified, Acks
      <4>5. QED  BY <4>1, <4>2, <4>4 DEF Trying
    <3>3. QED  BY <3>1, <3>2
  <2>4. QED  BY <1>8, <2>1, <2>2, <2>3 DEF Closed, Low, MaxAttempts, Busy, queueVars
<1>10. Budget(n)'
  <2>1. Waiting(n)' = {} /\ Ready(n)' = {}
    BY <1>5, <1>8, QueueSame DEF queueVars
  <2>2. Unsent(n)' = {}
    <3>1. Unsent(n) \subseteq Trying(n)
      BY DEF Unsent, Trying, EarlyPc
    <3>2. QED  BY <1>5, <1>7, <3>1 DEF Unsent, Subject
  <2>3. Sends(n)' = Sends(n) /\ Manual(n)' = 0 /\ Sends(n) \in Nat
    BY <1>1, <1>3, <1>5, HandlerTally DEF At, Sends, TypeOK, TallyKinds
  <2>4. /\ IsFiniteSet({}) /\ Cardinality({}) = 0
        /\ MaxAttempts \in Nat /\ MaxAttempts' = MaxAttempts
    BY FS_EmptySet, DeliveryAssumption DEF MaxAttempts
  <2>5. Sends(n)' + 0 + 0 + 0 <= MaxAttempts + 0
    BY <1>5, <2>3, <2>4
  <2>6. QED  BY <2>1, <2>2, <2>3, <2>4, <2>5 DEF Budget
<1>11. QED  BY <1>9, <1>10

-------------------------------------------------------------------------------
(* After the dead letter. *)

LEMMA ClosedNext ==
  ASSUME NEW n \in Notifications,
         Low(n) \subseteq active' \cup archived',
         Low(n) \cap (scheduled' \cup pending') = {},
         \A w \in Workers :
           Busy(w)' /\ worker'[w].job \in Low(n) =>
             worker'[w].pc \notin EarlyPc /\ worker'[w].status # "sent"
  PROVE  Closed(n)'
BY DEF Closed, Low, Busy, MaxAttempts

LEMMA BudgetIsNat ==
  ASSUME TypeOK, NEW n \in Notifications
  PROVE  Sends(n) \in Nat /\ Manual(n) \in Nat /\ MaxAttempts \in Nat
BY DeliveryAssumption DEF TypeOK, TallyKinds, Sends, Manual, MaxAttempts

LEMMA BudgetNext ==
  ASSUME NEW n \in Notifications,
         IsFiniteSet(Waiting(n)'), IsFiniteSet(Ready(n)'), IsFiniteSet(Unsent(n)'),
         Sends(n)' + Cardinality(Waiting(n)') + Cardinality(Ready(n)')
           + Cardinality(Unsent(n)') <= MaxAttempts + Manual(n)'
  PROVE  Budget(n)'
BY DEF Budget, MaxAttempts

\* No call is added.
LEMMA BudgetKept ==
  ASSUME TypeOK, NEW n \in Notifications, Budget(n),
         Waiting(n)' \subseteq Waiting(n), Ready(n)' \subseteq Ready(n),
         Unsent(n)' \subseteq Unsent(n),
         Sends(n)' = Sends(n), Manual(n)' = Manual(n)
  PROVE  Budget(n)'
<1>1. /\ Sends(n) \in Nat /\ Manual(n) \in Nat /\ MaxAttempts \in Nat
  BY BudgetIsNat
<1>2. /\ IsFiniteSet(Waiting(n)') /\ Cardinality(Waiting(n)') <= Cardinality(Waiting(n))
      /\ Cardinality(Waiting(n)) \in Nat /\ Cardinality(Waiting(n)') \in Nat
  BY Shrinks DEF Budget
<1>3. /\ IsFiniteSet(Ready(n)') /\ Cardinality(Ready(n)') <= Cardinality(Ready(n))
      /\ Cardinality(Ready(n)) \in Nat /\ Cardinality(Ready(n)') \in Nat
  BY Shrinks DEF Budget
<1>4. /\ IsFiniteSet(Unsent(n)') /\ Cardinality(Unsent(n)') <= Cardinality(Unsent(n))
      /\ Cardinality(Unsent(n)) \in Nat /\ Cardinality(Unsent(n)') \in Nat
  BY Shrinks DEF Budget
<1>5. Sends(n)' + Cardinality(Waiting(n)') + Cardinality(Ready(n)')
           + Cardinality(Unsent(n)') <= MaxAttempts + Manual(n)'
  BY <1>1, <1>2, <1>3, <1>4 DEF Budget
<1>6. QED  BY <1>2, <1>3, <1>4, <1>5, BudgetNext

LEMMA ClosedElsewhere ==
  ASSUME TypeOK, TypeOK', NEW n \in Notifications, Closed(n), Budget(n), Elsewhere(n)
  PROVE  Closed(n)' /\ Budget(n)'
<1>1. \A job \in Low(n) :
        /\ job \in scheduled' <=> job \in scheduled
        /\ job \in pending' <=> job \in pending
        /\ job \in active' <=> job \in active
        /\ job \in archived' <=> job \in archived
  BY DEF Elsewhere, Low, Job
<1>2. ASSUME NEW w \in Workers, Busy(w)', worker'[w].job \in Low(n)
      PROVE  worker'[w] = worker[w]
  BY <1>2 DEF Elsewhere, On, Subject, Low, Job
<1>3. Closed(n)'
  BY <1>1, <1>2, ClosedNext DEF Closed, Busy
<1>4. Sends(n)' = Sends(n) /\ Manual(n)' = Manual(n)
  BY DEF Elsewhere, Sends, Manual
<1>5. Budget(n)'
  BY <1>4, ElsewhereSame, BudgetKept
<1>6. QED  BY <1>3, <1>5

\* Steps that touch neither the queue nor a handler.
LEMMA ClosedQuiet ==
  ASSUME TypeOK, NEW n \in Notifications, Closed(n), Budget(n),
         UNCHANGED queueVars, UNCHANGED <<worker, tally>>
  PROVE  Closed(n)' /\ Budget(n)'
<1>1. Closed(n)'
  BY ClosedNext DEF Closed, queueVars, Busy
<1>2. /\ Waiting(n)' = Waiting(n) /\ Ready(n)' = Ready(n)
      /\ Unsent(n)' = Unsent(n) /\ Sends(n)' = Sends(n) /\ Manual(n)' = Manual(n)
  BY DEF Waiting, Ready, Unsent, Sends, Manual, queueVars, Subject
<1>3. QED  BY <1>1, <1>2, BudgetKept

LEMMA ClosedSubmit ==
  ASSUME TypeOK, NEW n \in Notifications, Closed(n), Budget(n), Submit(n)
  PROVE  Closed(n)' /\ Budget(n)'
<1>1. Job(n, 1) \in Known
  <2>1. 1 \in 1..MaxAttempts
    BY DeliveryAssumption DEF MaxAttempts
  <2>2. QED  BY <2>1 DEF Closed, Low, Known, Live
<1>2. UNCHANGED queueVars /\ UNCHANGED <<worker, tally>>
  BY <1>1 DEF Submit, RejectUnsupported, CreateNotification, AppendFirstLog,
     EnqueueFirst, Put, ReplyLost, Refused, queueVars
<1>3. QED  BY <1>2, ClosedQuiet

LEMMA ClosedRestart ==
  ASSUME TypeOK, NEW n \in Notifications, Closed(n), Budget(n), Restart
  PROVE  Closed(n)' /\ Budget(n)'
<1>1. \A w \in Workers : ~Busy(w)' /\ worker'[w].pc = "idle"
  BY DEF Restart, Busy, Idle
<1>2. Closed(n)'
  BY <1>1, ClosedNext DEF Closed, Restart, queueVars
<1>3. /\ Waiting(n)' = Waiting(n) /\ Ready(n)' = Ready(n)
      /\ Unsent(n)' = {} /\ Sends(n)' = Sends(n) /\ Manual(n)' = Manual(n)
  BY <1>1 DEF Waiting, Ready, Unsent, Sends, Manual, Restart, queueVars
<1>4. QED  BY <1>2, <1>3, BudgetKept

\* A job is forwarded, taken or archived: it is not below the limit.
LEMMA ClosedQueue ==
  ASSUME TypeOK, NEW n \in Notifications, Closed(n), Budget(n),
         NEW job \in JobPayload, job.notification = n,
         \/ Forward(job) \/ LeaseExpired(job)
         \/ \E w \in Workers : Dequeue(w, job)
  PROVE  Closed(n)' /\ Budget(n)'
<1>1. /\ Sends(n) \in Nat /\ Manual(n) \in Nat /\ MaxAttempts \in Nat
      /\ Sends(n)' = Sends(n) /\ Manual(n)' = Manual(n)
  BY BudgetIsNat DEF Sends, Manual, Forward, LeaseExpired, Dequeue
<1>2. /\ Cardinality(Waiting(n)) \in Nat /\ Cardinality(Ready(n)) \in Nat
      /\ Cardinality(Unsent(n)) \in Nat
  BY FS_CardinalityType DEF Budget
<1>3. CASE Forward(job)
  <2>1. job \notin Low(n)
    BY <1>3 DEF Forward, Closed
  <2>2. Closed(n)'
    BY <1>3, <2>1, ClosedNext DEF Forward, Closed, actorVars, Busy
  <2>3. /\ job \in Waiting(n) /\ Waiting(n)' \subseteq Waiting(n) \ {job}
        /\ Ready(n)' \subseteq Ready(n) \cup {job} /\ Unsent(n)' = Unsent(n)
    BY <1>3 DEF Forward, Waiting, Ready, Unsent, actorVars, Subject
  <2>4. /\ IsFiniteSet(Waiting(n)') /\ Cardinality(Waiting(n)') \in Nat
        /\ Cardinality(Waiting(n)') + 1 <= Cardinality(Waiting(n))
    BY <2>3, Loses DEF Budget
  <2>5. /\ IsFiniteSet(Ready(n)') /\ Cardinality(Ready(n)') \in Nat
        /\ Cardinality(Ready(n)') <= Cardinality(Ready(n)) + 1
    BY <2>3, Gains DEF Budget
  <2>6. Sends(n)' + Cardinality(Waiting(n)') + Cardinality(Ready(n)')
          + Cardinality(Unsent(n)') <= MaxAttempts + Manual(n)'
    BY <1>1, <1>2, <2>3, <2>4, <2>5 DEF Budget
  <2>7. Budget(n)'
    BY <2>3, <2>4, <2>5, <2>6, BudgetNext DEF Budget
  <2>8. QED  BY <2>2, <2>7
<1>4. CASE LeaseExpired(job)
  <2>1. Closed(n)'
    BY <1>4, ClosedNext DEF LeaseExpired, Closed, actorVars, Busy
  <2>2. /\ Waiting(n)' = Waiting(n) /\ Ready(n)' = Ready(n)
        /\ Unsent(n)' = Unsent(n)
    BY <1>4 DEF LeaseExpired, Waiting, Ready, Unsent, actorVars, Subject
  <2>3. QED  BY <1>1, <2>1, <2>2, BudgetKept
<1>5. ASSUME NEW w \in Workers, Dequeue(w, job)
      PROVE  Closed(n)' /\ Budget(n)'
  <2>1. job \notin Low(n)
    BY <1>5 DEF Dequeue, Closed
  <2>2. /\ worker'[w].job = job
        /\ \A v \in Workers \ {w} : worker'[v] = worker[v]
    BY <1>5 DEF Dequeue, TypeOK
  <2>3. Closed(n)'
    BY <1>5, <2>1, <2>2, ClosedNext DEF Dequeue, Closed, Busy
  <2>4. /\ job \in Ready(n) /\ Ready(n)' \subseteq Ready(n) \ {job}
        /\ Waiting(n)' = Waiting(n) /\ Unsent(n)' \subseteq Unsent(n) \cup {w}
    BY <1>5, <2>2 DEF Dequeue, Waiting, Ready, Unsent, Subject
  <2>5. /\ IsFiniteSet(Ready(n)') /\ Cardinality(Ready(n)') \in Nat
        /\ Cardinality(Ready(n)') + 1 <= Cardinality(Ready(n))
    BY <2>4, Loses DEF Budget
  <2>6. /\ IsFiniteSet(Unsent(n)') /\ Cardinality(Unsent(n)') \in Nat
        /\ Cardinality(Unsent(n)') <= Cardinality(Unsent(n)) + 1
    BY <2>4, Gains DEF Budget
  <2>7. Sends(n)' + Cardinality(Waiting(n)') + Cardinality(Ready(n)')
          + Cardinality(Unsent(n)') <= MaxAttempts + Manual(n)'
    BY <1>1, <1>2, <2>4, <2>5, <2>6 DEF Budget
  <2>8. Budget(n)'
    BY <2>4, <2>5, <2>6, <2>7, BudgetNext DEF Budget
  <2>9. QED  BY <2>3, <2>8
<1>6. QED  BY <1>3, <1>4, <1>5

\* An operator brings a new job, and is counted.
LEMMA ClosedRetry ==
  ASSUME TypeOK, NEW n \in Notifications, Closed(n), Budget(n),
         NEW r \in Retriers, retry[r].notification = n, RetryDeadLetter(r)
  PROVE  Closed(n)' /\ Budget(n)'
<1>1. CASE UNCHANGED queueVars /\ UNCHANGED <<worker, tally>>
  BY <1>1, ClosedQuiet
<1>2. CASE RetryEnqueue(r) /\ Put(RequeuedJob(r), FALSE) /\ Count(n, "manual")
  <2>1. RequeuedJob(r) \notin Low(n)
    BY <1>2 DEF Put, Closed, Known, Live
  <2>2. Closed(n)'
    BY <1>2, <2>1, ClosedNext DEF RetryEnqueue, Put, Closed, Busy
  <2>3. \A kind \in TallyKinds : tally'[n][kind] =
          IF kind = "manual" THEN tally[n][kind] + 1 ELSE tally[n][kind]
    BY <1>2, CountExact DEF TallyKinds
  <2>4. /\ Sends(n)' = Sends(n) /\ Manual(n)' = Manual(n) + 1
        /\ Sends(n) \in Nat /\ Manual(n) \in Nat /\ MaxAttempts \in Nat
    BY <2>3, BudgetIsNat DEF Sends, Manual, TallyKinds
  <2>5. /\ Waiting(n)' = Waiting(n) /\ Unsent(n)' = Unsent(n)
        /\ Ready(n)' \subseteq Ready(n) \cup {RequeuedJob(r)}
    BY <1>2, PutMoves DEF RetryEnqueue, Unsent, Subject
  <2>6. /\ IsFiniteSet(Ready(n)') /\ Cardinality(Ready(n)') \in Nat
        /\ Cardinality(Ready(n)') <= Cardinality(Ready(n)) + 1
    BY <2>5, Gains DEF Budget
  <2>7. /\ Cardinality(Waiting(n)) \in Nat /\ Cardinality(Ready(n)) \in Nat
        /\ Cardinality(Unsent(n)) \in Nat
    BY FS_CardinalityType DEF Budget
  <2>8. Sends(n)' + Cardinality(Waiting(n)') + Cardinality(Ready(n)')
          + Cardinality(Unsent(n)') <= MaxAttempts + Manual(n)'
    BY <2>4, <2>5, <2>6, <2>7 DEF Budget
  <2>9. Budget(n)'
    BY <2>5, <2>6, <2>8, BudgetNext DEF Budget
  <2>10. QED  BY <2>2, <2>9
<1>3. QED
  BY <1>1, <1>2 DEF RetryDeadLetter, RetryUpdate, RetryMark, RetryEnqueue,
     Refused, ReplyLost, queueVars

\* A handler sends within the budget, and adds no attempt below the limit.
LEMMA ClosedHandler ==
  ASSUME TypeOK, LimitInv, NEW n \in Notifications, Closed(n), Budget(n),
         NEW w \in Workers, On(w, n), Process(w)
  PROVE  Closed(n)' /\ Budget(n)'
<1>1. /\ Subject(w) = n /\ Busy(w) /\ worker[w] \in Handler
      /\ \A v \in Workers \ {w} : worker'[v] = worker[v]
      /\ Busy(w)' => worker'[w].job = worker[w].job
  BY HandlerOnly DEF On
<1>2. UNCHANGED <<scheduled, pending>>
  <2>1. CASE ScheduleRetry(w)
    <3>1. worker[w].attempts + 1 \in 1..MaxAttempts
      <4>1. worker[w].attempts < MaxAttempts /\ worker[w].attempts \in Nat
        BY <1>1, <2>1 DEF LimitInv, LimitKept, ScheduleRetry, Handler
      <4>2. MaxAttempts \in Nat
        BY DeliveryAssumption DEF MaxAttempts
      <4>3. QED  BY <4>1, <4>2
    <3>2. NextJob(w) \in Known
      BY <1>1, <3>1 DEF Closed, Low, Known, Live
    <3>3. QED  BY <2>1, <3>2 DEF ScheduleRetry, Put, ReplyLost, Refused
  <2>2. QED
    BY <2>1 DEF Process, GetNotification, IncrementAttempts, SendReturns,
       CreateDeadLetter, UpdateNotification, AppendLog, Finish, queueVars
<1>3. Low(n) \subseteq active' \cup archived'
  <2>1. CASE Busy(w)' \/ Return(w, FALSE)
    <3>1. Known \subseteq Known'
      BY <2>1, KnownKept
    <3>2. QED  BY <1>2, <3>1 DEF Closed, Known, Live
  <2>2. CASE Return(w, TRUE) /\ (At(w, "get") \/ worker[w].status = "sent")
    <3>1. worker[w].job \notin Low(n)
      BY <1>1, <2>2 DEF Closed, At, EarlyPc
    <3>2. QED  BY <2>2, <3>1 DEF Closed, Return
  <2>3. QED  BY <2>1, <2>2, HandlerEnds
<1>4. ASSUME NEW v \in Workers, Busy(v)', worker'[v].job \in Low(n)
      PROVE  worker'[v].pc \notin EarlyPc /\ worker'[v].status # "sent"
  <2>1. CASE v = w
    <3>1. worker[w].pc \notin EarlyPc /\ worker[w].status # "sent"
      BY <1>1, <1>4, <2>1 DEF Closed
    <3>2. ~At(w, "get") /\ ~At(w, "sending")
      BY <3>1 DEF At, EarlyPc
    <3>3. QED  BY <1>4, <2>1, <3>1, <3>2, HandlerGoes
  <2>2. CASE v # w
    BY <1>1, <1>4, <2>2 DEF Closed, Busy
  <2>3. QED  BY <2>1, <2>2
<1>5. Closed(n)'
  BY <1>2, <1>3, <1>4, ClosedNext DEF Closed
<1>6. Waiting(n)' = Waiting(n) /\ Ready(n)' = Ready(n) /\ Manual(n)' = Manual(n)
  BY <1>2, QueueSame, HandlerTally
<1>7. Unsent(n)' \ {w} = Unsent(n) \ {w}
  BY <1>1 DEF Unsent, Subject
<1>8. CASE At(w, "increment") /\ Busy(w)'
  <2>1. w \in Unsent(n) /\ Unsent(n)' \subseteq Unsent(n) \ {w}
    <3>1. worker'[w].pc = "sending"
      BY <1>8, HandlerGoes
    <3>2. QED  BY <1>1, <1>7, <1>8, <3>1 DEF Unsent, At
  <2>2. /\ IsFiniteSet(Unsent(n)') /\ Cardinality(Unsent(n)') \in Nat
        /\ Cardinality(Unsent(n)') + 1 <= Cardinality(Unsent(n))
    BY <2>1, Loses DEF Budget
  <2>3. /\ Sends(n)' = Sends(n) + 1
        /\ Sends(n) \in Nat /\ Manual(n) \in Nat /\ MaxAttempts \in Nat
    BY <1>8, HandlerTally, BudgetIsNat
  <2>4. /\ Cardinality(Waiting(n)) \in Nat /\ Cardinality(Ready(n)) \in Nat
        /\ Cardinality(Unsent(n)) \in Nat
    BY FS_CardinalityType DEF Budget
  <2>5. Sends(n)' + Cardinality(Waiting(n)') + Cardinality(Ready(n)')
          + Cardinality(Unsent(n)') <= MaxAttempts + Manual(n)'
    BY <1>6, <2>2, <2>3, <2>4 DEF Budget
  <2>6. Budget(n)'
    BY <1>6, <2>2, <2>5, BudgetNext DEF Budget
  <2>7. QED  BY <1>5, <2>6
<1>9. CASE ~(At(w, "increment") /\ Busy(w)')
  <2>1. w \in Unsent(n)' => w \in Unsent(n)
    <3>1. ASSUME w \in Unsent(n)'
          PROVE  At(w, "get")
      <4>1. Busy(w)' /\ worker'[w].pc \in {"get", "increment"}
        BY <3>1 DEF Unsent, Busy
      <4>2. QED
        BY <1>1, <4>1, HandlerGoes DEF Handler, HandlerPc, EarlyPc, At
    <3>2. QED  BY <1>1, <3>1 DEF Unsent, At
  <2>2. Unsent(n)' \subseteq Unsent(n)
    BY <1>7, <2>1
  <2>3. Sends(n)' = Sends(n)
    BY <1>9, HandlerTally
  <2>4. Budget(n)'
    BY <1>6, <2>2, <2>3, BudgetKept
  <2>5. QED  BY <1>5, <2>4
<1>10. QED  BY <1>8, <1>9

LEMMA ClosedStep ==
  ASSUME Base, Base', [Next]_vars, NEW n \in Notifications, Ordered(n),
         Buried(n), Aborts(n)' = 0
  PROVE  Closed(n)' /\ Budget(n)'
<1>1. /\ TypeOK /\ TypeOK' /\ LimitInv /\ Aborts(n) = 0 /\ Closed(n) /\ Budget(n)
  <2>1. TypeOK /\ TypeOK' /\ LimitInv
    BY DEF Base, TypeInv
  <2>2. Aborts(n) \in Nat /\ Aborts(n)' >= Aborts(n)
    BY <2>1, TallyGrows DEF Aborts, TypeOK, TallyKinds
  <2>3. Aborts(n) = 0
    BY <2>2
  <2>4. QED  BY <2>1, <2>3 DEF Ordered
<1>2. ASSUME NEW w \in Workers, On(w, n), Abort(w)
      PROVE  FALSE
  <2>1. Count(n, "aborts") /\ "aborts" \in TallyKinds
    BY <1>2 DEF Abort, On, TallyKinds
  <2>2. Aborts(n)' = Aborts(n) + 1
    BY <1>1, <2>1, CountExact DEF Aborts
  <2>3. QED  BY <1>1, <2>2
<1>3. QED
  BY <1>1, <1>2, StepCases, ClosedElsewhere, ClosedSubmit, ClosedQueue,
     ClosedHandler, ClosedRetry, ClosedRestart DEF About

-------------------------------------------------------------------------------
(* The theorems. *)

LEMMA OrderStep ==
  ASSUME Base, Base', OrderInv, [Next]_vars
  PROVE  OrderInv'
<1>1. TypeOK /\ TypeOK'
  BY DEF Base, TypeInv
<1>2. BuriedIsExhausted'
  BY <1>1, BuriedIsExhaustedStep DEF OrderInv
<1>3. ASSUME NEW n \in Notifications, Aborts(n)' = 0
      PROVE  IF Buried(n)' THEN Closed(n)' /\ Budget(n)' ELSE Chain(n)'
  <2>1. Ordered(n) /\ BuriedIsExhausted
    BY DEF OrderInv
  <2>2. Buried(n) => Buried(n)'
    BY <1>1, LettersStay
  <2>3. QED  BY <1>3, <2>1, <2>2, ClosedStep, Burial, ChainStep
<1>4. \A n \in Notifications : Ordered(n)'
  BY <1>3 DEF Ordered
<1>5. QED  BY <1>2, <1>4 DEF OrderInv

LEMMA InitOrder == Init => OrderInv
<1> SUFFICES ASSUME Init PROVE OrderInv
  OBVIOUS
<1>1. BuriedIsExhausted
  BY DEF Init, BuriedIsExhausted, At, Idle
<1>2. ASSUME NEW n \in Notifications
      PROVE  ~Buried(n) /\ Chain(n)
  <2>1. Waiting(n) = {} /\ Ready(n) = {} /\ Trying(n) = {}
    BY DEF Init, Waiting, Ready, Trying, Idle, EarlyPc
  <2>2. Manual(n) = 0 /\ Sends(n) = 0 /\ 0 <= MaxAttempts
    BY DeliveryAssumption DEF Init, Manual, Sends, TallyKinds, MaxAttempts
  <2>3. UpTo(n, 0)
    BY DEF Init, UpTo, On, Busy, Idle, Absent
  <2>4. ~Buried(n)
    BY DEF Init, Buried
  <2>5. QED  BY <2>1, <2>2, <2>3, <2>4 DEF Chain
<1>3. QED  BY <1>1, <1>2 DEF OrderInv, Ordered

LEMMA BaseHolds == Spec => []Base
BY TypeCorrect, LimitAlways, EvidenceHolds, AllPaidHolds, PTL DEF Base, TypeInv

\* Until its dead letter a notification has one attempt at a time, numbered
\* above all before it; after it every number up to max_attempts stays taken.
THEOREM OrderHolds == Spec => []OrderInv
<1>1. Base /\ Base' /\ OrderInv /\ [Next]_vars => OrderInv'
  BY OrderStep
<1>2. QED  BY <1>1, BaseHolds, InitOrder, PTL DEF Spec

\* Process calls the provider at most max_attempts times, plus once for each
\* manual retry, unless a shutdown put a job back.
THEOREM SendBudgetHolds == Spec => []SendBudget
<1>1. TypeOK /\ OrderInv => SendBudget
  <2> SUFFICES ASSUME TypeOK, OrderInv, NEW n \in Notifications, ~(Aborts(n) > 0)
               PROVE  Sends(n) <= MaxAttempts + Manual(n)
    BY DEF SendBudget, Sends, Manual, Aborts
  <2>0. Aborts(n) = 0
    <3>1. Aborts(n) \in Nat
      BY DEF TypeOK, TallyKinds, Aborts
    <3>2. QED  BY <3>1
  <2>1. Sends(n) \in Nat /\ Manual(n) \in Nat /\ MaxAttempts \in Nat
    BY BudgetIsNat
  <2>2. CASE Chain(n)
    BY <2>1, <2>2 DEF Chain
  <2>3. CASE Budget(n)
    <3>1. /\ Cardinality(Waiting(n)) \in Nat /\ Cardinality(Ready(n)) \in Nat
          /\ Cardinality(Unsent(n)) \in Nat
      BY <2>3, FS_CardinalityType DEF Budget
    <3>2. QED  BY <2>1, <2>3, <3>1 DEF Budget
  <2>4. QED  BY <2>0, <2>2, <2>3 DEF OrderInv, Ordered
<1>2. Spec => []TypeOK
  BY TypeCorrect, PTL
<1>3. QED  BY <1>1, <1>2, OrderHolds, PTL
===============================================================================
