-------------------------- MODULE DeliveryLifeProofs ---------------------------
(***************************************************************************)
(* What becomes of a notification in Delivery.  Until an operator asks for *)
(* its retry its handlers come one after the other and agree with its row, *)
(* which therefore moves along NotificationLifecycle; without a fault each *)
(* leaves it settled or leaves it the next job.  After the one request for *)
(* its retry every attempt is exhausting, so that whoever ends settles it  *)
(* or leaves it the job the request enqueued.                              *)
(***************************************************************************)
EXTENDS DeliveryCountProofs

\* Abbreviations, expanded throughout.
USE DEF StoreAttempts, Store, AddLog, AddLetter, MarkLetter, NextJob,
        RequeuedJob, Outcome, Exhausted

-------------------------------------------------------------------------------
(* Before a request for its retry a notification has one handler at a time,  *)
(* whose copy agrees with the row.                                           *)

Asked(n) ==
  \E r \in Retriers : retry[r].pc \in RequestPc /\ retry[r].notification = n
Fresh(n) == Manual(n) = 0 /\ Aborts(n) = 0 /\ ~Asked(n)

\* What the record of handler w says of the row of n, and of the next attempt.
Place(w, n) ==
  /\ At(w, "increment") =>
       /\ row[n].status \notin Terminal
       /\ worker[w].attempts = row[n].attempts + 1
  /\ worker[w].pc \in {"sending", "bury", "reschedule", "update"} =>
       /\ row[n].status \notin Terminal
       /\ worker[w].attempts = row[n].attempts /\ row[n].attempts > 0
  /\ At(w, "reschedule") => worker[w].status = "retrying"
  /\ worker[w].pc \notin EarlyPc =>
       \/ worker[w].status = "sent"
       \/ worker[w].status = "failed" /\ worker[w].attempts = MaxAttempts
       \/ /\ worker[w].status = "retrying" /\ worker[w].attempts < MaxAttempts
          /\ NextJob(w) \in scheduled
  /\ worker[w].pc \in {"appendLog", "finish"} /\ worker[w].status \in Terminal =>
       row[n].status \in Terminal

\* No attempt at n is left.
Spent(n) == First(n) = 0 /\ Waiting(n) = {} /\ Ready(n) = {} /\ Trying(n) = {}

Cursor(n) ==
  /\ submit[n] = "new" => row[n] = Absent
  /\ First(n) = 1 => row[n].attempts = 0 /\ \A w \in Workers : ~On(w, n)
  /\ \A v, w \in Workers : On(v, n) /\ On(w, n) => v = w
  /\ \A w \in Workers : On(w, n) => Place(w, n)
  /\ \A w \in Workers :
       On(w, n) /\ worker[w].pc \notin EarlyPc /\ worker[w].status = "failed" =>
         Spent(n)
  /\ Buried(n) =>
       /\ Spent(n) /\ row[n].attempts = MaxAttempts
       /\ \A w \in Workers : On(w, n) =>
            worker[w].attempts = MaxAttempts /\ worker[w].status = "failed"

LEMMA CursorElsewhere ==
  ASSUME TypeOK, TypeOK', NEW n \in Notifications, Elsewhere(n), Cursor(n)
  PROVE  Cursor(n)'
<1>1. /\ Spent(n)' <=> Spent(n)
      /\ First(n)' = First(n) /\ (Buried(n)' <=> Buried(n))
      /\ \A w \in Workers : On(w, n)' <=> On(w, n)
      /\ \A w \in Workers : On(w, n) => worker'[w] = worker[w]
  BY ElsewhereSame DEF Spent
<1>2. row'[n] = row[n] /\ submit'[n] = submit[n]
  BY DEF Elsewhere
<1>3. ASSUME NEW w \in Workers, On(w, n)
      PROVE  Place(w, n)'
  <2>1. Place(w, n) /\ worker'[w] = worker[w]
    BY <1>1, <1>3 DEF Cursor
  <2>2. NextJob(w)' = NextJob(w) /\ NextJob(w).notification = n
    BY <1>3, <2>1 DEF Subject, Job, On
  <2>3. NextJob(w) \in scheduled => NextJob(w) \in scheduled'
    BY <2>2 DEF Elsewhere
  <2>4. QED  BY <1>2, <2>1, <2>2, <2>3 DEF Place, At
<1>4. QED  BY <1>1, <1>2, <1>3 DEF Cursor

\* While an attempt is left, n is not dead lettered and no handler gives it up.
LEMMA NotSpent ==
  ASSUME NEW n \in Notifications, Cursor(n), ~Spent(n)
  PROVE  /\ ~Buried(n)
         /\ \A w \in Workers : On(w, n) /\ worker[w].pc \notin EarlyPc =>
              worker[w].status # "failed"
BY DEF Cursor

LEMMA CursorSubmit ==
  ASSUME Base, NEW n \in Notifications, Cursor(n), Submit(n)
  PROVE  Cursor(n)'
<1>1. TypeOK /\ First(n) = 1 /\ ~Spent(n)
  <2>1. TypeOK
    BY DEF Base, TypeInv
  <2>2. First(n) = 1
    BY DEF Submit, RejectUnsupported, CreateNotification, AppendFirstLog,
       EnqueueFirst, First
  <2>3. QED  BY <2>1, <2>2 DEF Spent
<1>2. UNCHANGED <<worker, letters>> /\ submit'[n] # "new"
  BY <1>1 DEF Submit, RejectUnsupported, CreateNotification, AppendFirstLog,
     EnqueueFirst, storeVars, TypeOK
<1>3. ~Buried(n)' /\ \A w \in Workers : ~On(w, n)'
  BY <1>1, <1>2, NotSpent DEF Cursor, On, Busy, Subject, Buried
<1>4. row'[n].attempts = 0
  <2>1. row[n].attempts = 0
    BY <1>1 DEF Cursor
  <2>2. row' = row \/ Insert(n)
    BY DEF Submit, RejectUnsupported, CreateNotification, AppendFirstLog,
       EnqueueFirst, storeVars, DbError
  <2>3. QED  BY <1>1, <2>1, <2>2 DEF Insert, TypeOK
<1>5. QED  BY <1>2, <1>3, <1>4 DEF Cursor

LEMMA CursorRestart ==
  ASSUME NEW n \in Notifications, Cursor(n), Restart
  PROVE  Cursor(n)'
<1>1. \A w \in Workers : ~On(w, n)'
  BY DEF Restart, On, Busy, Idle
<1>2. row' = row /\ letters' = letters
  BY DEF Restart, storeVars
<1>3. /\ submit'[n] = "new" => submit[n] = "new"
      /\ First(n)' = 1 => First(n) = 1
      /\ First(n) = 0 => First(n)' = 0
  BY DEF Restart, First
<1>4. Spent(n) => Spent(n)'
  <2>1. Waiting(n)' = Waiting(n) /\ Ready(n)' = Ready(n) /\ Trying(n)' = {}
    BY QueueSame DEF Restart, queueVars, Trying, Idle, EarlyPc
  <2>2. QED  BY <1>3, <2>1 DEF Spent
<1>5. QED  BY <1>1, <1>2, <1>3, <1>4 DEF Cursor, Buried

LEMMA CursorQueue ==
  ASSUME LongBackoff, Base, NEW n \in Notifications, Cursor(n),
         Manual(n) = 0, Aborts(n) = 0,
         NEW job \in JobPayload, job.notification = n,
         \/ Forward(job) \/ LeaseExpired(job)
         \/ \E w \in Workers : Dequeue(w, job)
  PROVE  Cursor(n)'
<1>1. TypeOK /\ Paid(n)
  BY DEF Base, TypeInv, AllPaid
<1>2. /\ row' = row /\ letters' = letters /\ submit' = submit
      /\ First(n)' = First(n) /\ Buried(n)' = Buried(n)
  BY DEF Forward, LeaseExpired, Dequeue, storeVars, actorVars, First, Buried
<1>3. CASE LeaseExpired(job)
  <2>1. UNCHANGED <<worker, scheduled, pending>>
    BY <1>3 DEF LeaseExpired, actorVars
  <2>2. Spent(n)' = Spent(n)
    BY <1>2, <2>1, QueueSame, WorkersSame DEF Spent
  <2>3. \A w \in Workers : (On(w, n)' <=> On(w, n)) /\ (Place(w, n)' <=> Place(w, n))
    BY <1>2, <2>1 DEF On, Busy, Place, At, Subject
  <2>4. QED  BY <1>2, <2>1, <2>2, <2>3 DEF Cursor
<1>4. CASE Forward(job)
  <2>1. job \in Waiting(n) /\ UNCHANGED worker
    BY <1>4 DEF Forward, Waiting, actorVars
  <2>2. ~Spent(n) /\ \A w \in Workers : On(w, n)' <=> On(w, n)
    BY <2>1 DEF Spent, On, Busy, Subject
  <2>3. ASSUME NEW w \in Workers, On(w, n)
        PROVE  Place(w, n)'
    <3>1. /\ Place(w, n)
          /\ worker[w].pc \notin EarlyPc => worker[w].status # "failed"
      BY <1>3, <2>2, <2>3, NotSpent DEF Cursor
    <3>2. worker[w].pc \notin EarlyPc /\ worker[w].status = "retrying" =>
            NextJob(w) # job
      <4>1. worker[w].pc \notin EarlyPc => worker[w].pc \in {"update", "appendLog", "finish"}
        BY <1>1, <2>3, BusyIsHandler DEF On, Handler, HandlerPc, EarlyPc
      <4>2. QED  BY <1>4, <4>1 DEF Forward
    <3>3. scheduled' = scheduled \ {job}
      BY <1>4 DEF Forward
    <3>4. NextJob(w)' = NextJob(w)
      BY <2>1 DEF Subject
    <3>5. QED
      BY <1>2, <2>1, <3>1, <3>2, <3>3, <3>4 DEF Place, At
  <2>4. QED  BY <1>2, <2>1, <2>2, <2>3, NotSpent DEF Cursor
<1>5. ASSUME NEW w \in Workers, Dequeue(w, job)
      PROVE  Cursor(n)'
  <2>1. job \in Ready(n) /\ ~Spent(n) /\ ~Buried(n)
    <3>1. job \in Ready(n)
      BY <1>5 DEF Dequeue, Ready
    <3>2. QED  BY <3>1, NotSpent DEF Spent
  <2>2. Waiting(n) = {} /\ Trying(n) = {} /\ First(n) = 0 /\ Acks(n) = 0
    BY <1>1, <2>1, OneAttempt
  <2>3. ASSUME NEW v \in Workers, On(v, n)
        PROVE  FALSE
    <3>1. worker[v].pc \notin EarlyPc /\ Place(v, n)
      BY <2>2, <2>3 DEF Trying, On, Cursor
    <3>2. worker[v].status # "failed"
      BY <2>1, <2>3, <3>1, NotSpent
    <3>3. worker[v].status # "sent"
      BY <2>2, <2>3, <3>1 DEF Base, Evidence, HandlersJustified, Justified,
         Acks, On, At, EarlyPc
    <3>4. NextJob(v) \in Waiting(n)
      BY <2>3, <3>1, <3>2, <3>3 DEF Place, Waiting, On, Job, Subject
    <3>5. QED  BY <2>2, <3>4
  <2>4. /\ \A v \in Workers \ {w} : worker'[v] = worker[v]
        /\ worker'[w].pc = "get"
    BY <1>1, <1>5 DEF Dequeue, TypeOK
  <2>5. \A v \in Workers : On(v, n)' => v = w
    BY <2>3, <2>4 DEF On, Busy, Subject
  <2>6. Place(w, n)'
    BY <2>4 DEF Place, At, EarlyPc
  <2>7. First(n)' = 0 /\ ~Buried(n)' /\ worker'[w].pc \in EarlyPc
    BY <1>2, <2>1, <2>2, <2>4 DEF EarlyPc
  <2>8. submit'[n] = "new" => row'[n] = Absent
    BY <1>2 DEF Cursor
  <2>9. QED  BY <2>5, <2>6, <2>7, <2>8 DEF Cursor
<1>6. QED  BY <1>3, <1>4, <1>5

\* The step of a handler is the one its pc names; one that stays busy has not
\* returned.
LEMMA HandlerAt ==
  ASSUME TypeOK, NEW w \in Workers, Process(w)
  PROVE  /\ At(w, "get") => GetNotification(w)
         /\ At(w, "increment") => IncrementAttempts(w)
         /\ At(w, "sending") => SendReturns(w)
         /\ At(w, "bury") => CreateDeadLetter(w)
         /\ At(w, "reschedule") => ScheduleRetry(w)
         /\ At(w, "update") => UpdateNotification(w)
         /\ At(w, "appendLog") => AppendLog(w)
         /\ At(w, "finish") => Finish(w)
         /\ worker[w].pc \in HandlerPc
         /\ Busy(w)' => \A ok : ~Return(w, ok)
         /\ Busy(w)' => ~At(w, "finish")
<1>1. worker[w].pc \in HandlerPc
  BY HandlerOnly DEF Handler
<1>2. Busy(w)' => \A ok : ~Return(w, ok)
  BY DEF Return, Busy, Idle, TypeOK
<1>3. /\ At(w, "get") => GetNotification(w)
      /\ At(w, "increment") => IncrementAttempts(w)
      /\ At(w, "sending") => SendReturns(w)
      /\ At(w, "bury") => CreateDeadLetter(w)
      /\ At(w, "reschedule") => ScheduleRetry(w)
      /\ At(w, "update") => UpdateNotification(w)
      /\ At(w, "appendLog") => AppendLog(w)
      /\ At(w, "finish") => Finish(w)
  BY DEF Process, GetNotification, IncrementAttempts, SendReturns,
     CreateDeadLetter, ScheduleRetry, UpdateNotification, AppendLog, Finish, At
<1>4. Finish(w) => Return(w, worker[w].status = "sent")
  BY DEF Finish
<1>5. QED  BY <1>1, <1>2, <1>3, <1>4

\* What a step of Process writes to the row of its notification.
LEMMA HandlerWrites ==
  ASSUME TypeOK, NEW w \in Workers, Process(w), NEW n \in Notifications, On(w, n)
  PROVE  /\ \/ row'[n] = row[n] /\ (Busy(w)' => worker[w].pc \notin {"increment", "update"})
            \/ /\ At(w, "increment")
               /\ row'[n] = row[n] \/ row'[n] = [row[n] EXCEPT !.attempts = worker[w].attempts]
               /\ Busy(w)' => row'[n] = [row[n] EXCEPT !.attempts = worker[w].attempts]
            \/ /\ At(w, "update")
               /\ \/ row'[n] = row[n]
                  \/ row'[n] = [status |-> worker[w].status, attempts |-> worker[w].attempts]
               /\ Busy(w)' => row'[n] =
                    [status |-> worker[w].status, attempts |-> worker[w].attempts]
         /\ row'[n].attempts \in Nat /\ row[n].attempts \in Nat
<1>1. Subject(w) = n /\ Busy(w) /\ worker[w] \in Handler
  BY HandlerOnly DEF On
<1>2. /\ row \in [Notifications -> Row] /\ worker[w].attempts \in Nat
      /\ row[n].attempts \in Nat
  BY <1>1 DEF TypeOK, Row, Handler
<1>3. ASSUME NEW ok, Return(w, ok), Busy(w)' PROVE FALSE
  BY <1>3 DEF Return, Busy, Idle, TypeOK
<1>4. CASE IncrementAttempts(w)
  <2>1. \/ row' = row
        \/ row' = [row EXCEPT ![n].attempts = worker[w].attempts]
    BY <1>1, <1>4 DEF IncrementAttempts, DbError
  <2>2. Busy(w)' => row' = [row EXCEPT ![n].attempts = worker[w].attempts]
    BY <1>1, <1>3, <1>4 DEF IncrementAttempts
  <2>3. At(w, "increment")
    BY <1>4 DEF IncrementAttempts
  <2>4. QED  BY <1>2, <2>1, <2>2, <2>3 DEF Row
<1>5. CASE UpdateNotification(w)
  <2> DEFINE saved == [status |-> worker[w].status, attempts |-> worker[w].attempts]
  <2>1. row' = row \/ row' = [row EXCEPT ![n] = saved]
    BY <1>1, <1>5 DEF UpdateNotification, DbError
  <2>2. Busy(w)' => row' = [row EXCEPT ![n] = saved]
    BY <1>1, <1>3, <1>5 DEF UpdateNotification
  <2>3. At(w, "update")
    BY <1>5 DEF UpdateNotification
  <2>4. QED  BY <1>2, <2>1, <2>2, <2>3
<1>6. CASE UNCHANGED row /\ worker[w].pc \notin {"increment", "update"}
  BY <1>2, <1>6
<1>7. QED
  BY <1>4, <1>5, <1>6 DEF Process, GetNotification, SendReturns,
     CreateDeadLetter, ScheduleRetry, AppendLog, Finish, storeVars, At

\* Where no dead letter is, the attempt under way is within the limit.
LEMMA WithinLimit ==
  ASSUME Base, OrderInv, NEW n \in Notifications, Aborts(n) = 0, ~Buried(n),
         NEW w \in Trying(n)
  PROVE  /\ worker[w].attempts \in Nat /\ worker[w].attempts <= MaxAttempts
         /\ row[n].attempts <= MaxAttempts /\ MaxAttempts \in Nat
         /\ At(w, "increment") => worker[w].attempts <= MaxAttempts
<1>1. /\ TypeOK /\ Chain(n) /\ MaxAttempts \in Nat
      /\ w \in Workers /\ Busy(w) /\ Subject(w) = n
  BY DeliveryAssumption DEF Base, TypeInv, OrderInv, Ordered, MaxAttempts,
     Trying, Busy, EarlyPc
<1>2. worker[w] \in Handler /\ row[n].attempts \in Nat
  BY <1>1, BusyIsHandler DEF TypeOK, Row
<1>3. PICK k : k = worker[w].job.attempt
  OBVIOUS
<1>4. k \in Nat /\ k <= MaxAttempts
  BY <1>1, <1>2, <1>3 DEF Base, LimitInv, LimitKept, Handler, JobPayload
<1>5. worker[w].attempts <= k /\ row[n].attempts <= k
  BY <1>1, <1>3 DEF Chain, UpTo, On
<1>6. QED  BY <1>1, <1>2, <1>4, <1>5 DEF Handler

\* A handler's step leaves its record in place, or ends it.
LEMMA PlaceHandler ==
  ASSUME Base, Base', OrderInv, [Next]_vars, NEW n \in Notifications, Cursor(n),
         Manual(n) = 0, Aborts(n) = 0,
         NEW w \in Workers, On(w, n), Process(w), Busy(w)'
  PROVE  Place(w, n)'
<1>1. /\ TypeOK /\ TypeOK' /\ Place(w, n)
      /\ Subject(w) = n /\ Busy(w) /\ worker[w] \in Handler
  BY HandlerOnly DEF Base, TypeInv, Cursor, On
<1>2. /\ worker'[w] \in Handler /\ Subject(w)' = n
      /\ row[n].attempts \in Nat /\ worker[w].attempts \in Nat
  <2>1. worker'[w] \in Handler /\ worker'[w].job = worker[w].job
    BY <1>1, HandlerOnly DEF TypeOK, Busy, Idle
  <2>2. QED  BY <1>1, <2>1 DEF TypeOK, Row, Handler, Subject
<1>3. CASE At(w, "get")
  <2>1. /\ worker'[w].pc = "increment" /\ row'[n] = row[n]
        /\ worker'[w].attempts = row[n].attempts + 1
    BY <1>1, <1>3, HandlerGoes, HandlerWrites DEF At
  <2>2. row[n].status \notin Terminal
    <3>1. GetNotification(w) /\ ~Return(w, TRUE) /\ ~Return(w, FALSE)
      BY <1>1, <1>3, HandlerAt
    <3>2. QED  BY <1>1, <3>1 DEF GetNotification
  <2>3. QED  BY <2>1, <2>2 DEF Place, At, EarlyPc
<1>4. CASE At(w, "increment")
  <2>1. /\ worker'[w].pc = "sending" /\ worker'[w].attempts = worker[w].attempts
        /\ row'[n] = [row[n] EXCEPT !.attempts = worker[w].attempts]
    BY <1>1, <1>4, HandlerGoes, HandlerWrites DEF At
  <2>2. row'[n].attempts = worker[w].attempts /\ row'[n].status = row[n].status
    BY <1>1, <2>1 DEF TypeOK, Row
  <2>3. QED  BY <1>1, <1>2, <1>4, <2>1, <2>2 DEF Place, At, EarlyPc
<1>5. CASE At(w, "sending")
  <2>1. /\ worker'[w].attempts = worker[w].attempts /\ row'[n] = row[n]
        /\ \/ worker'[w].pc = "update" /\ worker'[w].status = "sent"
           \/ worker'[w].pc = "bury"
           \/ worker'[w].pc = "reschedule"
    BY <1>1, <1>5, HandlerGoes, HandlerWrites DEF At
  <2>2. worker'[w].pc = "reschedule" => worker'[w].status = "retrying"
    <3>1. SendReturns(w)
      BY <1>1, <1>5, HandlerAt
    <3>2. QED  BY <1>1, <3>1 DEF SendReturns, TypeOK, Handler
  <2>3. QED  BY <1>1, <1>5, <2>1, <2>2 DEF Place, At, EarlyPc
<1>6. CASE At(w, "bury")
  <2>1. /\ worker'[w].attempts = worker[w].attempts /\ row'[n] = row[n]
        /\ worker'[w].pc = "update" /\ worker'[w].status = worker[w].status
    BY <1>1, <1>6, HandlerGoes, HandlerWrites DEF At
  <2>2. worker[w].status = "failed"
    BY <1>1, <1>6 DEF Base, Evidence, HandlersJustified
  <2>3. worker[w].attempts = MaxAttempts
    <3>1. w \in Trying(n) /\ ~Spent(n)
      BY <1>1, <1>6 DEF Trying, At, EarlyPc, Spent
    <3>2. ~Buried(n)
      BY <3>1, NotSpent
    <3>3. worker[w].attempts >= MaxAttempts
      BY <1>6 DEF OrderInv, BuriedIsExhausted
    <3>4. QED  BY <3>1, <3>2, <3>3, WithinLimit
  <2>4. QED  BY <1>1, <1>6, <2>1, <2>2, <2>3 DEF Place, At, EarlyPc
<1>7. CASE At(w, "reschedule")
  <2>1. /\ worker'[w].attempts = worker[w].attempts /\ row'[n] = row[n]
        /\ worker'[w].pc = "update" /\ worker'[w].status = worker[w].status
    BY <1>1, <1>7, HandlerGoes, HandlerWrites DEF At
  <2>2. NextJob(w)' \in scheduled'
    <3>1. Put(NextJob(w), TRUE)
      <4>1. ScheduleRetry(w) /\ ~Return(w, FALSE)
        BY <1>1, <1>7, HandlerAt
      <4>2. QED  BY <4>1 DEF ScheduleRetry
    <3>2. NextJob(w)' = NextJob(w)
      BY <1>1, <1>2, <2>1
    <3>3. QED  BY <3>1, <3>2 DEF Put
  <2>3. worker[w].attempts < MaxAttempts /\ worker[w].status = "retrying"
    BY <1>1, <1>7 DEF Base, LimitInv, LimitKept, Place
  <2>4. QED  BY <1>1, <1>7, <2>1, <2>2, <2>3 DEF Place, At, EarlyPc
<1>8. CASE worker[w].pc \notin EarlyPc
  <2>1. /\ worker'[w].pc \notin EarlyPc
        /\ worker'[w].attempts = worker[w].attempts
        /\ worker'[w].status = worker[w].status
    BY <1>1, <1>8, HandlerGoes DEF At, EarlyPc
  <2>2. scheduled' = scheduled /\ NextJob(w)' = NextJob(w)
    BY <1>1, <1>2, <1>8, <2>1 DEF Process, GetNotification, IncrementAttempts,
       SendReturns, CreateDeadLetter, ScheduleRetry, UpdateNotification,
       AppendLog, Finish, At, EarlyPc
  <2>3. /\ worker'[w].pc # "update"
        /\ worker[w].status \in Terminal => row'[n].status \in Terminal
    <3>1. CASE At(w, "update")
      <4>1. UpdateNotification(w) /\ ~Return(w, FALSE)
        BY <1>1, <3>1, HandlerAt
      <4>2. Goto(w, "appendLog")
        BY <4>1 DEF UpdateNotification
      <4>3. worker'[w].pc = "appendLog"
        BY <1>1, <4>2 DEF Goto, TypeOK, Handler
      <4>4. row'[n] = [status |-> worker[w].status, attempts |-> worker[w].attempts]
        BY <1>1, <3>1, HandlerWrites DEF At
      <4>5. QED  BY <4>3, <4>4
    <3>2. CASE ~At(w, "update")
      <4>1. AppendLog(w) /\ ~Return(w, FALSE) /\ At(w, "appendLog")
        BY <1>1, <1>8, <3>2, HandlerAt DEF EarlyPc, At, HandlerPc
      <4>2. Goto(w, "finish") /\ row' = row
        BY <4>1 DEF AppendLog
      <4>3. worker'[w].pc = "finish" /\ row' = row /\ At(w, "appendLog")
        BY <1>1, <4>1, <4>2 DEF Goto, TypeOK, Handler
      <4>4. QED  BY <1>1, <4>3 DEF Place, At
    <3>3. QED  BY <3>1, <3>2
  <2>4. QED  BY <1>1, <1>8, <2>1, <2>2, <2>3 DEF Place, At, EarlyPc
<1>9. QED
  BY <1>3, <1>4, <1>5, <1>6, <1>7, <1>8 DEF At, EarlyPc

LEMMA CursorHandler ==
  ASSUME Base, Base', OrderInv, [Next]_vars, NEW n \in Notifications, Cursor(n),
         Manual(n) = 0, Aborts(n) = 0,
         NEW w \in Workers, On(w, n), Process(w)
  PROVE  Cursor(n)'
<1>1. /\ TypeOK /\ TypeOK' /\ Place(w, n) /\ Paid(n)
      /\ Subject(w) = n /\ Busy(w) /\ worker[w] \in Handler
  BY HandlerOnly DEF Base, TypeInv, AllPaid, Cursor, On
<1>2. \A v \in Workers : On(v, n)' => v = w /\ Busy(w)'
  BY <1>1, HandlerOnly DEF Cursor, On, Busy, Subject
<1>3. /\ First(n) = 0 /\ First(n)' = 0 /\ submit'[n] # "new"
      /\ Ready(n)' = Ready(n) /\ Trying(n)' \subseteq Trying(n)
      /\ ~At(w, "reschedule") => Waiting(n)' = Waiting(n)
  <2>1. First(n) = 0
    BY DEF Cursor, First
  <2>2. First(n)' = First(n) /\ Ready(n)' = Ready(n) /\ Trying(n)' \subseteq Trying(n)
        /\ (~At(w, "reschedule") => Waiting(n)' = Waiting(n))
    BY <1>1, HandlerFrame
  <2>3. submit'[n] # "new"
    BY <2>1, <2>2 DEF First
  <2>4. QED  BY <2>1, <2>2, <2>3
<1>4. worker[w].pc \notin EarlyPc /\ Spent(n) => Spent(n)'
  BY <1>3 DEF Spent, At, EarlyPc
<1>5. ASSUME At(w, "bury")
      PROVE  /\ ~Buried(n) /\ Spent(n)' /\ row'[n] = row[n]
             /\ worker'[w].attempts = MaxAttempts /\ worker'[w].status = "failed"
             /\ row[n].attempts = MaxAttempts
  <2>1. w \in Trying(n)
    BY <1>1, <1>5 DEF Trying, At, EarlyPc
  <2>2. Trying(n) = {w} /\ Waiting(n) = {} /\ Ready(n) = {} /\ ~Spent(n)
    BY <1>1, <2>1, OneAttempt DEF Spent
  <2>3. CreateDeadLetter(w) /\ Goto(w, "update") /\ row' = row
    BY <1>1, <1>5, HandlerAt DEF CreateDeadLetter
  <2>4. /\ worker'[w].pc = "update" /\ Busy(w)'
        /\ worker'[w].attempts = worker[w].attempts
        /\ worker'[w].status = worker[w].status
    BY <1>1, <2>3 DEF Goto, TypeOK, Handler, Busy
  <2>5. Spent(n)'
    BY <1>3, <1>5, <2>2, <2>4 DEF Spent, Trying, EarlyPc, At
  <2>6. Place(w, n)'
    BY <2>4, PlaceHandler
  <2>7. worker[w].status = "failed"
    BY <1>1, <1>5 DEF Base, Evidence, HandlersJustified
  <2>8. worker[w].attempts = MaxAttempts /\ row[n].attempts = worker[w].attempts
    BY <1>1, <1>5, <2>3, <2>4, <2>6, <2>7 DEF Place, At, EarlyPc
  <2>9. QED  BY <2>2, <2>3, <2>4, <2>5, <2>7, <2>8, NotSpent
<1>6. ASSUME Busy(w)', worker'[w].pc \notin EarlyPc, worker'[w].status = "failed"
      PROVE  Spent(n)'
  <2>1. CASE worker[w].pc \notin EarlyPc
    <3>1. worker[w].status = "failed"
      BY <1>1, <1>6, <2>1, HandlerGoes DEF At, EarlyPc
    <3>2. QED  BY <1>4, <2>1, <3>1 DEF Cursor
  <2>2. CASE worker[w].pc \in EarlyPc
    <3>1. ~At(w, "get") /\ ~At(w, "increment") /\ ~At(w, "sending")
      BY <1>1, <1>6, HandlerGoes DEF At, EarlyPc
    <3>2. ~At(w, "reschedule")
      BY <1>1, <1>6, HandlerGoes DEF Place, At
    <3>3. QED  BY <1>5, <2>2, <3>1, <3>2 DEF At, EarlyPc
  <2>3. QED  BY <2>1, <2>2
<1>7. ASSUME Buried(n)'
      PROVE  /\ Spent(n)' /\ row'[n].attempts = MaxAttempts
             /\ Busy(w)' => /\ worker'[w].attempts = MaxAttempts
                            /\ worker'[w].status = "failed"
  <2>1. CASE Buried(n)
    <3>1. /\ Spent(n) /\ row[n].attempts = MaxAttempts
          /\ worker[w].attempts = MaxAttempts /\ worker[w].status = "failed"
      BY <2>1 DEF Cursor
    <3>2. worker[w].pc \notin EarlyPc
      BY <1>1, <3>1 DEF Spent, Trying
    <3>3. row'[n].attempts = MaxAttempts
      BY <1>1, <3>1, HandlerFrame
    <3>4. Busy(w)' => /\ worker'[w].attempts = worker[w].attempts
                      /\ worker'[w].status = worker[w].status
      BY <1>1, <3>2, HandlerGoes DEF At, EarlyPc
    <3>5. QED  BY <1>4, <3>1, <3>2, <3>3, <3>4
  <2>2. CASE ~Buried(n)
    <3>1. PICK v \in Workers : CreateDeadLetter(v) /\ Subject(v) = n
      BY <1>1, <1>7, <2>2, FirstLetter DEF Base
    <3>2. v = w
      <4>1. On(v, n)
        BY <3>1 DEF CreateDeadLetter, At, On, Busy
      <4>2. QED  BY <4>1 DEF Cursor
    <3>3. At(w, "bury")
      BY <3>1, <3>2 DEF CreateDeadLetter
    <3>4. QED  BY <1>5, <3>3
  <2>3. QED  BY <2>1, <2>2
<1>8. Busy(w)' => Place(w, n)'
  BY PlaceHandler
<1>9. QED  BY <1>2, <1>3, <1>6, <1>7, <1>8 DEF Cursor

LEMMA CursorStep ==
  ASSUME LongBackoff, Base, Base', OrderInv, [Next]_vars,
         NEW n \in Notifications, Cursor(n), Fresh(n), Aborts(n)' = 0
  PROVE  Cursor(n)'
<1>1. /\ TypeOK /\ TypeOK' /\ Manual(n) = 0 /\ Aborts(n) = 0
  BY DEF Base, TypeInv, Fresh
<1>2. CASE Elsewhere(n)
  BY <1>1, <1>2, CursorElsewhere
<1>3. CASE Submit(n)
  BY <1>3, CursorSubmit
<1>4. ASSUME NEW job \in JobPayload, job.notification = n,
             \/ Forward(job) \/ LeaseExpired(job)
             \/ \E w \in Workers : Dequeue(w, job)
      PROVE  Cursor(n)'
  BY <1>1, <1>4, CursorQueue
<1>5. ASSUME NEW w \in Workers, On(w, n), Process(w) \/ Abort(w)
      PROVE  Cursor(n)'
  <2>1. ~Abort(w)
    <3>1. Abort(w) => Count(n, "aborts")
      BY <1>5 DEF Abort, On
    <3>2. Count(n, "aborts") => Aborts(n)' = Aborts(n) + 1
      BY <1>1, CountExact DEF Aborts, TallyKinds
    <3>3. QED  BY <1>1, <3>1, <3>2
  <2>2. QED  BY <1>1, <1>5, <2>1, CursorHandler
<1>6. ASSUME NEW r \in Retriers, retry[r].pc \in RequestPc, retry[r].notification = n
      PROVE  FALSE
  BY <1>6 DEF Fresh, Asked
<1>7. CASE Restart
  BY <1>7, CursorRestart
<1>8. QED
  BY <1>1, <1>2, <1>3, <1>4, <1>5, <1>6, <1>7, StepCases DEF About

-------------------------------------------------------------------------------
(* Until an operator asks for its retry, and while no shutdown puts a job of *)
(* it back, the row of a notification moves along the life cycle.            *)

\* Who counts a requeue, and who an aborted handler.
LEMMA TallyStep ==
  ASSUME TypeOK, [Next]_vars, NEW n \in Notifications
  PROVE  /\ ~Asked(n) => Manual(n)' = Manual(n)
         /\ ~stopping => Aborts(n)' = Aborts(n)
<1>1. CASE UNCHANGED tally \/ Elsewhere(n)
  BY <1>1 DEF Manual, Aborts, Elsewhere
<1>2. ASSUME NEW k \in {"manual", "aborts"}, Count(n, k)
      PROVE  /\ k = "aborts" => Manual(n)' = Manual(n)
             /\ k = "manual" => Aborts(n)' = Aborts(n)
  BY <1>2, CountExact DEF Manual, Aborts, TallyKinds
<1>3. ASSUME NEW w \in Workers, On(w, n), Process(w) \/ Abort(w)
      PROVE  /\ Manual(n)' = Manual(n)
             /\ ~stopping => Aborts(n)' = Aborts(n)
  <2>1. Abort(w) => stopping /\ Count(n, "aborts")
    BY <1>3 DEF Abort, On
  <2>2. QED  BY <1>2, <1>3, <2>1, HandlerTally
<1>4. ASSUME NEW r \in Retriers, retry[r].notification = n, RetryDeadLetter(r)
      PROVE  UNCHANGED tally \/ Count(n, "manual")
  BY <1>4 DEF RetryDeadLetter, RetryUpdate, RetryMark, RetryEnqueue
<1>5. ASSUME NEW job, \/ Forward(job) \/ LeaseExpired(job)
                      \/ \E w \in Workers : Dequeue(w, job)
      PROVE  UNCHANGED tally
  BY <1>5 DEF Forward, LeaseExpired, Dequeue
<1>6. Submit(n) \/ Restart => UNCHANGED tally
  BY DEF Submit, RejectUnsupported, CreateNotification, AppendFirstLog,
     EnqueueFirst, Restart
<1>7. QED
  BY <1>1, <1>2, <1>3, <1>4, <1>5, <1>6, StepCases DEF About, Asked

\* A request once made is never unmade, nor its notification another.
LEMMA AsksStay ==
  ASSUME TypeOK, [Next]_vars, NEW r \in Retriers, NEW n \in Notifications,
         Asks(r, n)
  PROVE  Asks(r, n)'
<1>1. ~RequestAt(r, "new") /\ retry[r].notification = n
  BY DEF Asks
<1>2. CASE UNCHANGED retry
  BY <1>1, <1>2 DEF RequestAt, Asks
<1>3. ASSUME NEW q \in Retriers, NEW m \in Notifications, RetryRead(q, m)
      PROVE  Asks(r, n)'
  <2>1. retry'[r] = retry[r]
    BY <1>1, <1>3 DEF RetryRead, RequestAt, TypeOK
  <2>2. QED  BY <1>1, <2>1 DEF RequestAt, Asks
<1>4. ASSUME NEW q \in Retriers, RetryDeadLetter(q)
      PROVE  Asks(r, n)'
  <2>1. retry[q].pc \in RequestPc /\ retry[q] \in Request
    BY <1>4, ActiveIsRequest DEF RetryDeadLetter, RetryUpdate, RetryMark,
       RetryEnqueue, RequestAt, RequestPc
  <2>2. /\ \A p \in Retriers \ {q} : retry'[p] = retry[p]
        /\ retry'[q].pc \in {"mark", "enqueue", "requeued", "failed"}
        /\ retry'[q].notification = retry[q].notification
    <3>1. ASSUME NEW pc, EndRequest(q, pc)
          PROVE  /\ \A p \in Retriers \ {q} : retry'[p] = retry[p]
                 /\ retry'[q].pc = pc
                 /\ retry'[q].notification = retry[q].notification
      BY <3>1 DEF EndRequest, Ended, TypeOK
    <3>2. ASSUME NEW pc, retry' = [retry EXCEPT ![q].pc = pc]
          PROVE  /\ \A p \in Retriers \ {q} : retry'[p] = retry[p]
                 /\ retry'[q].pc = pc
                 /\ retry'[q].notification = retry[q].notification
      BY <2>1, <3>2 DEF TypeOK, Request
    <3>3. \/ \E pc \in {"requeued", "failed"} : EndRequest(q, pc)
          \/ \E pc \in {"mark", "enqueue"} : retry' = [retry EXCEPT ![q].pc = pc]
      BY <1>4 DEF RetryDeadLetter, RetryUpdate, RetryMark, RetryEnqueue
    <3>4. QED  BY <3>1, <3>2, <3>3
  <2>3. QED  BY <1>1, <2>2 DEF RequestAt, Asks
<1>5. CASE Restart
  BY <1>1, <1>5 DEF Restart, Ended, RequestAt, RequestPc, Asks
<1>6. QED
  BY <1>2, <1>3, <1>4, <1>5 DEF Next, vars, Submit, RejectUnsupported,
     CreateNotification, AppendFirstLog, EnqueueFirst, Forward, Dequeue,
     LeaseExpired, actorVars, Process, GetNotification, IncrementAttempts,
     SendReturns, CreateDeadLetter, ScheduleRetry, UpdateNotification,
     AppendLog, Finish, Abort, Crash, Stop, Exit

LEMMA UntouchedBack ==
  ASSUME TypeOK, [Next]_vars, NEW n \in Notifications, Untouched(n)'
  PROVE  Untouched(n) /\ ~Asked(n) /\ Aborts(n) = 0 /\ Aborts(n)' = 0
<1>1. \A r \in Retriers : ~Asks(r, n)
  BY AsksStay DEF Untouched
<1>2. ~Asked(n)
  BY <1>1 DEF Asks, RequestAt, RequestPc, Asked
<1>3. Aborts(n)' = 0 /\ Aborts(n)' >= Aborts(n) /\ Aborts(n) \in Nat
  BY TallyGrows DEF Untouched, Aborts, TypeOK, TallyKinds
<1>4. Aborts(n) = 0
  BY <1>3
<1>5. QED  BY <1>1, <1>2, <1>3, <1>4 DEF Untouched, Aborts

Undisturbed ==
  \A n \in Notifications : Untouched(n) => Manual(n) = 0 /\ Cursor(n)

LEMMA UndisturbedStep ==
  ASSUME LongBackoff, Base, Base', OrderInv, Undisturbed, [Next]_vars
  PROVE  Undisturbed'
<1> SUFFICES ASSUME NEW n \in Notifications, Untouched(n)'
             PROVE  Manual(n)' = 0 /\ Cursor(n)'
  BY DEF Undisturbed, Manual
<1>1. TypeOK
  BY DEF Base, TypeInv
<1>2. Untouched(n) /\ ~Asked(n) /\ Aborts(n) = 0 /\ Aborts(n)' = 0
  BY <1>1, UntouchedBack
<1>3. Manual(n) = 0 /\ Cursor(n) /\ Fresh(n)
  BY <1>2 DEF Undisturbed, Fresh
<1>4. QED  BY <1>1, <1>2, <1>3, TallyStep, CursorStep

LEMMA InitCursor ==
  ASSUME Init, NEW n \in Notifications
  PROVE  Cursor(n) /\ Fresh(n)
BY DEF Init, Cursor, Fresh, Asked, On, Busy, Idle, Buried, Absent, Manual, Aborts,
       TallyKinds, RequestPc, Unmade

LEMMA InitUndisturbed == Init => Undisturbed
BY InitCursor DEF Undisturbed, Fresh

\* The writes of a row.
LEMMA RowMoves ==
  ASSUME [Next]_vars
  PROVE  \/ row' = row
         \/ \E n \in Notifications : submit[n] = "new" /\ Insert(n)
         \/ \E w \in Workers : IncrementAttempts(w) /\ StoreAttempts(w)
         \/ \E w \in Workers : UpdateNotification(w)
              /\ Store(Subject(w), worker[w].status, worker[w].attempts)
         \/ \E r \in Retriers : RequestAt(r, "update")
              /\ Store(retry[r].notification, "pending", retry[r].attempts)
BY DEF Next, vars, Submit, RejectUnsupported, CreateNotification,
   AppendFirstLog, EnqueueFirst, Forward, Dequeue, LeaseExpired, storeVars,
   Process, GetNotification, IncrementAttempts, SendReturns, CreateDeadLetter,
   ScheduleRetry, UpdateNotification, AppendLog, Finish, Abort, RetryRead,
   RetryDeadLetter, RetryUpdate, RetryMark, RetryEnqueue, Crash, Stop, Exit,
   Restart, DbError

\* A step of the pipeline is a step of the life cycle of n or leaves its row.
LEMMA LifecycleStep ==
  ASSUME Base, OrderInv, [Next]_vars, NEW n \in Notifications, Cursor(n),
         Untouched(n)
  PROVE  [Life(n)!Next]_(Life(n)!vars)
<1>1. /\ TypeOK /\ row \in [Notifications -> Row] /\ row[n] \in Row
      /\ row[n].attempts \in Nat /\ Aborts(n) = 0
  BY DEF Base, TypeInv, TypeOK, Row, Untouched, Aborts
<1>2. CASE row'[n] = row[n]
  BY <1>2 DEF Life!vars
<1>3. ASSUME submit[n] = "new", Insert(n)
      PROVE  Life(n)!Next
  <2>1. row[n].status = "absent" /\ row[n].attempts = 0
    BY <1>3 DEF Cursor, Absent
  <2>2. row'[n].status = "pending" /\ row'[n].attempts = 0
    BY <1>1, <1>3 DEF Insert
  <2>3. QED  BY <2>1, <2>2 DEF Life!Accept, Life!Next
<1>4. ASSUME NEW w \in Workers, worker[w].pc \in HandlerPc, Subject(w) = n
      PROVE  /\ On(w, n) /\ worker[w] \in Handler
             /\ Place(w, n) /\ Exists(n)
  BY <1>1, <1>4, BusyIsHandler DEF On, Busy, HandlerPc, Cursor, Base, TypeInv,
     References
<1>5. ASSUME NEW w \in Workers, IncrementAttempts(w), StoreAttempts(w),
             Subject(w) = n
      PROVE  Life(n)!Next
  <2>1. At(w, "increment") /\ On(w, n) /\ Place(w, n) /\ Exists(n)
    BY <1>4, <1>5 DEF IncrementAttempts, At, HandlerPc
  <2>2. /\ row[n].status \in {"pending", "retrying"}
        /\ worker[w].attempts = row[n].attempts + 1
    BY <1>1, <2>1 DEF Place, Exists, Row, Status, Terminal
  <2>3. row[n].attempts < MaxAttempts
    <3>1. w \in Trying(n) /\ ~Buried(n)
      BY <1>1, <2>1, NotSpent DEF Trying, On, At, EarlyPc, Spent
    <3>2. worker[w].attempts <= MaxAttempts /\ MaxAttempts \in Nat
      BY <1>1, <2>1, <3>1, WithinLimit
    <3>3. QED  BY <1>1, <2>1, <2>2, <3>2
  <2>4. /\ row'[n].status = row[n].status
        /\ row'[n].attempts = row[n].attempts + 1
    BY <1>1, <1>5, <2>2 DEF Row
  <2>5. QED
    BY <2>2, <2>3, <2>4 DEF Life!BeginAttempt, Life!Unsettled, Life!Next
<1>6. ASSUME NEW w \in Workers, UpdateNotification(w),
             Store(Subject(w), worker[w].status, worker[w].attempts),
             Subject(w) = n
      PROVE  Life(n)!Next
  <2>1. At(w, "update") /\ On(w, n) /\ Place(w, n) /\ Exists(n)
    BY <1>4, <1>6 DEF UpdateNotification, At, HandlerPc
  <2>2. PICK s : s = worker[w].status
    OBVIOUS
  <2>3. /\ row[n].status \in {"pending", "retrying"} /\ row[n].attempts > 0
        /\ \/ s = "sent"
           \/ s = "failed" /\ row[n].attempts = MaxAttempts
           \/ s = "retrying" /\ row[n].attempts < MaxAttempts
    BY <1>1, <2>1, <2>2 DEF Place, Exists, Row, Status, Terminal, At, EarlyPc
  <2>4. row'[n] = [status |-> s, attempts |-> row[n].attempts]
    BY <1>1, <1>6, <2>1, <2>2 DEF Place, At
  <2>5. row'[n].status = s /\ row'[n].attempts = row[n].attempts
    BY <2>4
  <2>6. QED
    BY <2>3, <2>5 DEF Life!Deliver, Life!Postpone, Life!GiveUp, Life!End,
       Life!Unsettled, Life!Next
<1>7. ASSUME NEW r \in Retriers, RequestAt(r, "update")
      PROVE  retry[r].notification # n
  BY <1>7 DEF Untouched, Asks, RequestAt
<1>8. ASSUME NEW m, m # n, \/ Insert(m)
                           \/ \E s, k : Store(m, s, k)
                           \/ \E k : row' = [row EXCEPT ![m].attempts = k]
      PROVE  row'[n] = row[n]
  BY <1>1, <1>8 DEF Insert
<1>9. QED
  BY <1>2, <1>3, <1>5, <1>6, <1>7, <1>8, RowMoves

\* Until an operator asks for its retry or a shutdown aborts a handler of it,
\* the row of every notification moves along the life cycle that
\* domain.NotificationStatus names, whatever crashes and fails and whatever
\* becomes of the others, when delays outlast handlers.
THEOREM RefinesLifecycle ==
  ASSUME LongBackoff
  PROVE  Spec => ImplementsLifecycle
<1>1. Base /\ Base' /\ OrderInv /\ Undisturbed /\ [Next]_vars => Undisturbed'
  BY UndisturbedStep
<1>2. Spec => []Undisturbed
  BY <1>1, BaseHolds, OrderHolds, InitUndisturbed, PTL DEF Spec
<1>3. Init => \A n \in Notifications : Life(n)!Init
  <2>1. ASSUME Init, NEW n \in Notifications
        PROVE  row[n].status = "absent" /\ row[n].attempts = 0
    BY <2>1 DEF Init, Absent
  <2>2. QED  BY <2>1 DEF Life!Init
<1>4. Base /\ OrderInv /\ Undisturbed /\ [Next]_vars =>
        [\A n \in Notifications :
           Untouched(n)' => [Life(n)!Next]_(Life(n)!vars)]_row
  <2> SUFFICES ASSUME Base, OrderInv, Undisturbed, [Next]_vars,
                      NEW n \in Notifications, Untouched(n)'
               PROVE  [Life(n)!Next]_(Life(n)!vars)
    OBVIOUS
  <2>1. Untouched(n) /\ Cursor(n)
    BY UntouchedBack DEF Undisturbed, Base, TypeInv
  <2>2. QED  BY <2>1, LifecycleStep
<1>5. QED
  BY <1>2, <1>3, <1>4, BaseHolds, OrderHolds, PTL DEF Spec, ImplementsLifecycle

-------------------------------------------------------------------------------
(* A task id is in one state and on one worker.                              *)

Apart ==
  /\ scheduled \cap (pending \cup active \cup archived) = {}
  /\ pending \cap (active \cup archived) = {}
  /\ active \cap archived = {}
  /\ \A w \in Workers : Busy(w) => worker[w].job \in active
  /\ \A v, w \in Workers :
       Busy(v) /\ Busy(w) /\ worker[v].job = worker[w].job => v = w

LEMMA ApartPut ==
  ASSUME Apart, NEW job, NEW delayed \in BOOLEAN,
         Put(job, delayed) \/ Refused(job) \/ ReplyLost(job, delayed),
         UNCHANGED <<active, archived, worker>>
  PROVE  Apart'
<1>1. CASE UNCHANGED <<scheduled, pending>>
  BY <1>1 DEF Apart, Busy
<1>2. CASE Put(job, delayed)
  BY <1>2 DEF Put, Known, Live, Apart, Busy
<1>3. QED  BY <1>1, <1>2 DEF Refused, ReplyLost

LEMMA ApartHandler ==
  ASSUME TypeOK, Apart, NEW w \in Workers, Process(w) \/ Abort(w)
  PROVE  Apart'
<1>1. /\ Busy(w) /\ worker[w].job \in active
      /\ \A v \in Workers \ {w} : worker'[v] = worker[v]
      /\ Busy(w)' => worker'[w].job = worker[w].job
  BY HandlerOnly DEF Apart
<1>2. \A v \in Workers : Busy(v)' => Busy(v) /\ worker'[v].job = worker[v].job
  BY <1>1 DEF Busy
<1>3. ASSUME NEW ok, Return(w, ok) \/ Abort(w)
      PROVE  ~Busy(w)' /\ active' = active \ {worker[w].job}
  BY <1>3 DEF Return, Abort, Busy, Idle, TypeOK
<1>4. CASE Abort(w)
  BY <1>1, <1>2, <1>3, <1>4 DEF Abort, Apart
<1>5. ASSUME NEW ok, Return(w, ok), UNCHANGED <<scheduled, pending>>
      PROVE  Apart'
  BY <1>1, <1>2, <1>3, <1>5 DEF Return, Apart
<1>6. CASE ScheduleRetry(w)
  <2>1. ASSUME NEW s, NEW p, s \cap (p \cup active \cup archived) = {},
               p \cap (active \cup archived) = {}, scheduled' = s, pending' = p
        PROVE  Apart'
    <3>1. CASE UNCHANGED <<active, archived>>
      BY <1>2, <2>1, <3>1 DEF Apart
    <3>2. CASE Return(w, FALSE)
      BY <1>1, <1>2, <1>3, <2>1, <3>2 DEF Return, Apart
    <3>3. QED  BY <1>6, <3>1, <3>2 DEF ScheduleRetry
  <2>2. CASE UNCHANGED <<scheduled, pending>>
    BY <2>1, <2>2 DEF Apart
  <2>3. CASE Put(NextJob(w), TRUE)
    <3>1. /\ scheduled' = scheduled \cup {NextJob(w)} /\ pending' = pending
          /\ NextJob(w) \notin pending \cup active \cup archived
      BY <2>3 DEF Put, Known, Live
    <3> HIDE DEF NextJob
    <3>2. QED  BY <2>1, <3>1 DEF Apart
  <2>4. QED  BY <1>6, <2>2, <2>3 DEF ScheduleRetry, Refused, ReplyLost
<1>7. CASE UNCHANGED queueVars
  BY <1>2, <1>7 DEF queueVars, Apart
<1>8. (worker[w].status = "sent") \in BOOLEAN
  OBVIOUS
<1>9. QED
  BY <1>4, <1>5, <1>6, <1>7, <1>8 DEF Process, GetNotification, IncrementAttempts,
     SendReturns, CreateDeadLetter, UpdateNotification, AppendLog, Finish,
     queueVars

LEMMA ApartStep ==
  ASSUME TypeOK, Apart, [Next]_vars
  PROVE  Apart'
<1>1. CASE UNCHANGED <<queueVars, worker>>
  BY <1>1 DEF queueVars, Apart, Busy
<1>2. CASE Restart
  BY <1>2 DEF Restart, queueVars, Apart, Busy, Idle
<1>3. ASSUME NEW n \in Notifications, EnqueueFirst(n)
      PROVE  Apart'
  BY <1>3, ApartPut DEF EnqueueFirst
<1>4. ASSUME NEW r \in Retriers, RetryEnqueue(r)
      PROVE  Apart'
  <2>1. /\ \/ Put(RequeuedJob(r), FALSE) \/ Refused(RequeuedJob(r))
           \/ ReplyLost(RequeuedJob(r), FALSE)
        /\ UNCHANGED <<active, archived, worker>>
    BY <1>4 DEF RetryEnqueue
  <2> HIDE DEF RequeuedJob
  <2>2. QED  BY <2>1, ApartPut
<1>5. ASSUME NEW job, Forward(job) \/ LeaseExpired(job)
      PROVE  Apart'
  BY <1>5 DEF Forward, LeaseExpired, actorVars, Apart, Busy
<1>6. ASSUME NEW w \in Workers, NEW job, Dequeue(w, job)
      PROVE  Apart'
  <2>1. /\ \A v \in Workers \ {w} : worker'[v] = worker[v]
        /\ worker'[w].job = job /\ job \in pending /\ job \notin active
    BY <1>6 DEF Dequeue, TypeOK, Apart
  <2>2. QED  BY <1>6, <2>1 DEF Dequeue, Apart, Busy
<1>7. ASSUME NEW w \in Workers, Process(w) \/ Abort(w)
      PROVE  Apart'
  BY <1>7, ApartHandler
<1>8. QED
  BY <1>1, <1>2, <1>3, <1>4, <1>5, <1>6, <1>7 DEF Next, vars, queueVars, Submit,
     RejectUnsupported, CreateNotification, AppendFirstLog, RetryRead,
     RetryDeadLetter, RetryUpdate, RetryMark, Crash, Stop, Exit, actorVars

\* The task ids of asynq keep a job in one place: it is delayed, waiting, taken
\* or archived, and two workers never run it at once, whatever happens.
THEOREM JobsApart == Spec => []Apart
<1>1. Init => Apart
  BY DEF Init, Apart, Busy, Idle
<1>2. TypeOK /\ Apart /\ [Next]_vars => Apart'
  BY ApartStep
<1>3. Spec => []TypeOK
  BY TypeCorrect, PTL
<1>4. QED  BY <1>1, <1>2, <1>3, PTL DEF Spec

-------------------------------------------------------------------------------
(* Without a fault no step loses anything.                                   *)

LEMMA FaultlessBack ==
  ASSUME TypeOK, [Next]_vars, Faultless'
  PROVE  Faultless /\ \A kind \in FaultKinds : ~Fault(kind)
<1>1. ASSUME NEW kind \in FaultKinds, Fault(kind) PROVE FALSE
  <2>1. faults'[kind] = faults[kind] + 1 /\ faults[kind] \in Nat
    BY <1>1 DEF Fault, TypeOK
  <2>2. faults'[kind] = 0
    BY DEF Faultless
  <2>3. QED  BY <2>1, <2>2
<1>2. UNCHANGED faults
  BY <1>1 DEF Next, vars, Submit, RejectUnsupported, FaultKinds,
     CreateNotification, AppendFirstLog, EnqueueFirst, Forward, Dequeue,
     LeaseExpired, Process, GetNotification, IncrementAttempts, SendReturns,
     CreateDeadLetter, ScheduleRetry, UpdateNotification, AppendLog, Finish,
     Abort, RetryRead, RetryDeadLetter, RetryUpdate, RetryMark, RetryEnqueue,
     Crash, Stop, Exit, Restart, DbError, Refused, ReplyLost
<1>3. QED  BY <1>1, <1>2 DEF Faultless

\* No process stops, so that every job taken has its worker.
Leased ==
  Faultless =>
    /\ ~stopping /\ \A n \in Notifications : Aborts(n) = 0
    /\ \A job \in active : \E w \in Workers : Busy(w) /\ worker[w].job = job

LEMMA LeasedStep ==
  ASSUME TypeOK, Apart, Leased, [Next]_vars
  PROVE  Leased'
<1> SUFFICES ASSUME Faultless'
             PROVE  Leased'
  BY DEF Leased
<1>1. /\ Faultless /\ \A kind \in FaultKinds : ~Fault(kind)
      /\ ~stopping /\ \A n \in Notifications : Aborts(n) = 0
      /\ \A job \in active : \E w \in Workers : Busy(w) /\ worker[w].job = job
  BY FaultlessBack DEF Leased
<1>2. ~Crash /\ ~Stop /\ ~Exit /\ \A w \in Workers : ~Abort(w)
  BY <1>1 DEF Crash, Stop, Exit, Abort, FaultKinds
<1>3. ~stopping'
  BY <1>1, <1>2 DEF Next, vars, Submit, RejectUnsupported,
     CreateNotification, AppendFirstLog, EnqueueFirst, Forward, Dequeue,
     LeaseExpired, Process, GetNotification, IncrementAttempts, SendReturns,
     CreateDeadLetter, ScheduleRetry, UpdateNotification, AppendLog, Finish,
     RetryRead, RetryDeadLetter, RetryUpdate, RetryMark, RetryEnqueue
<1>4. \A n \in Notifications : Aborts(n)' = 0
  BY <1>1, TallyStep
<1>5. ASSUME NEW job \in active'
      PROVE  \E w \in Workers : Busy(w)' /\ worker'[w].job = job
  <2>1. CASE \E w \in Workers : Dequeue(w, job)
    BY <2>1 DEF Dequeue, TypeOK, Busy
  <2>2. CASE UNCHANGED <<active, worker>>
    BY <1>1, <2>2 DEF Busy
  <2>3. ASSUME NEW other, LeaseExpired(other)
        PROVE  FALSE
    BY <1>1, <2>3 DEF LeaseExpired
  <2>4. ASSUME NEW w \in Workers, NEW other, other # job, Dequeue(w, other)
        PROVE  \E v \in Workers : Busy(v)' /\ worker'[v].job = job
    <3>1. job \in active
      BY <2>4 DEF Dequeue
    <3>2. PICK v \in Workers : Busy(v) /\ worker[v].job = job
      BY <1>1, <3>1
    <3>3. v # w /\ worker'[v] = worker[v]
      BY <2>4, <3>2 DEF Dequeue, TypeOK
    <3>4. QED  BY <3>2, <3>3 DEF Busy
  <2>5. ASSUME NEW w \in Workers, Process(w)
        PROVE  \E v \in Workers : Busy(v)' /\ worker'[v].job = job
    <3>1. active' \subseteq active
      BY <2>5 DEF Process, GetNotification, IncrementAttempts, SendReturns,
         CreateDeadLetter, ScheduleRetry, UpdateNotification, AppendLog, Finish,
         Return, queueVars
    <3>2. PICK v \in Workers : Busy(v) /\ worker[v].job = job
      BY <1>1, <3>1
    <3>3. CASE v # w
      BY <2>5, <3>2, <3>3, HandlerOnly DEF Busy
    <3>4. CASE v = w
      <4>1. \A ok : ~Return(w, ok)
        BY <3>2, <3>4 DEF Return
      <4>2. Busy(w)'
        BY <2>5, <4>1, HandlerEnds
      <4>3. QED  BY <2>5, <3>2, <3>4, <4>2, HandlerOnly
    <3>5. QED  BY <3>3, <3>4
  <2>6. QED
    BY <1>2, <2>1, <2>2, <2>3, <2>4, <2>5 DEF Next, vars, Submit,
       RejectUnsupported, CreateNotification, AppendFirstLog, EnqueueFirst,
       Forward, actorVars, queueVars, RetryRead, RetryDeadLetter, RetryUpdate,
       RetryMark, RetryEnqueue
<1>6. QED  BY <1>3, <1>4, <1>5 DEF Leased

\* No job of n has a number above k.
Top(n, k) == \A job \in Known : job.notification = n => job.attempt <= k

\* Only an operator's request makes a job above the limit.
HighOnly ==
  \A n \in Notifications : Manual(n) = 0 => Top(n, MaxAttempts)

\* A handler adds no job but the one of its retry.
LEMMA HandlerAdds ==
  ASSUME Apart, NEW w \in Workers, Process(w) \/ Abort(w),
         NEW job \in Known', job \notin Known
  PROVE  ScheduleRetry(w) /\ job = NextJob(w)
<1> USE DEF Known, Live
<1>1. worker[w].job \in active
  BY DEF Apart, Process, Abort, GetNotification, IncrementAttempts,
     SendReturns, CreateDeadLetter, ScheduleRetry, UpdateNotification,
     AppendLog, Finish, At, Busy
<1>2. ASSUME NEW ok, Return(w, ok) \/ UNCHANGED <<active, archived>>
      PROVE  active' \cup archived' \subseteq active \cup archived
  BY <1>1, <1>2 DEF Return
<1>3. CASE ScheduleRetry(w)
  <2>1. scheduled' \cup pending' \subseteq scheduled \cup pending \cup {NextJob(w)}
    BY <1>3, PutAdds DEF ScheduleRetry
  <2>2. QED  BY <1>2, <1>3, <2>1 DEF ScheduleRetry
<1>4. CASE Abort(w)
  BY <1>1, <1>4 DEF Abort
<1>5. (worker[w].status = "sent") \in BOOLEAN
  OBVIOUS
<1>6. CASE \/ GetNotification(w) \/ IncrementAttempts(w)
           \/ UpdateNotification(w) \/ AppendLog(w) \/ Finish(w)
  BY <1>2, <1>5, <1>6 DEF GetNotification, IncrementAttempts,
     UpdateNotification, AppendLog, Finish
<1>7. QED
  BY <1>3, <1>4, <1>6 DEF Process, SendReturns, CreateDeadLetter, queueVars

\* Who enqueues a job.
LEMMA NewJobBy ==
  ASSUME Apart, [Next]_vars, NEW job \in Known', job \notin Known
  PROVE  \/ \E n \in Notifications : EnqueueFirst(n) /\ job = Job(n, 1)
         \/ \E w \in Workers : ScheduleRetry(w) /\ job = NextJob(w)
         \/ \E r \in Retriers : /\ RetryEnqueue(r) /\ job = RequeuedJob(r)
                                /\ Count(retry[r].notification, "manual")
<1> USE DEF Known, Live
<1>1. ~UNCHANGED queueVars
  BY DEF queueVars
<1>2. ASSUME NEW n \in Notifications, EnqueueFirst(n)
      PROVE  job = Job(n, 1)
  <2>1. scheduled' \cup pending' \subseteq scheduled \cup pending \cup {Job(n, 1)}
    BY <1>2, PutAdds DEF EnqueueFirst
  <2>2. QED  BY <1>2, <2>1 DEF EnqueueFirst
<1>3. ASSUME NEW other, \/ Forward(other) \/ LeaseExpired(other)
                        \/ \E w \in Workers : Dequeue(w, other)
      PROVE  FALSE
  BY <1>3 DEF Forward, LeaseExpired, Dequeue
<1>4. ASSUME NEW w \in Workers, Process(w) \/ Abort(w)
      PROVE  ScheduleRetry(w) /\ job = NextJob(w)
  BY <1>4, HandlerAdds
<1>5. ASSUME NEW r \in Retriers, RetryEnqueue(r)
      PROVE  job = RequeuedJob(r) /\ Count(retry[r].notification, "manual")
  <2>1. scheduled' \cup pending' \subseteq scheduled \cup pending \cup {RequeuedJob(r)}
    BY <1>5, PutAdds DEF RetryEnqueue
  <2>2. UNCHANGED <<active, archived>>
    BY <1>5 DEF RetryEnqueue
  <2>3. ~Refused(RequeuedJob(r))
    BY <2>2 DEF Refused
  <2>4. QED  BY <1>5, <2>1, <2>2, <2>3 DEF RetryEnqueue
<1>6. QED
  BY <1>1, <1>2, <1>3, <1>4, <1>5 DEF Next, vars, queueVars, Submit,
     RejectUnsupported, CreateNotification, AppendFirstLog, RetryRead,
     RetryDeadLetter, RetryUpdate, RetryMark, Crash, Stop, Exit, Restart

LEMMA HighOnlyStep ==
  ASSUME TypeOK, TypeOK', LimitInv, Apart, HighOnly, [Next]_vars
  PROVE  HighOnly'
<1> SUFFICES ASSUME NEW n \in Notifications, Manual(n)' = 0,
                    NEW job \in Known', job.notification = n
             PROVE  job.attempt <= MaxAttempts
  BY DEF HighOnly, Top, MaxAttempts, Known, Live
<1>1. MaxAttempts \in Nat /\ MaxAttempts >= 1
  BY DeliveryAssumption DEF MaxAttempts
<1>2. Manual(n) \in Nat /\ Manual(n) = 0
  <2>1. Manual(n) \in Nat /\ Manual(n)' >= Manual(n)
    BY TallyGrows DEF Manual, TypeOK, TallyKinds
  <2>2. QED  BY <2>1
<1>3. CASE job \in Known
  BY <1>2, <1>3 DEF HighOnly, Top
<1>4. ASSUME NEW w \in Workers, ScheduleRetry(w), job = NextJob(w)
      PROVE  job.attempt <= MaxAttempts
  <2>1. worker[w].attempts < MaxAttempts /\ worker[w].attempts \in Nat
    BY <1>4, BusyIsHandler DEF ScheduleRetry, LimitInv, LimitKept, At, Busy, Handler
  <2>2. QED  BY <1>1, <1>4, <2>1 DEF Job
<1>5. ASSUME NEW m \in Notifications, job = Job(m, 1)
      PROVE  job.attempt <= MaxAttempts
  BY <1>1, <1>5 DEF Job
<1>6. ASSUME NEW r \in Retriers, job = RequeuedJob(r),
             Count(retry[r].notification, "manual")
      PROVE  FALSE
  <2>1. retry[r].notification = n
    BY <1>6 DEF Job
  <2>2. Manual(n)' = Manual(n) + 1
    BY <1>6, <2>1, CountExact DEF Manual, TallyKinds
  <2>3. QED  BY <1>2, <2>2
<1>7. QED  BY <1>3, <1>4, <1>5, <1>6, NewJobBy

\* What the following lemmas take for granted of a state.
Ground == Base /\ OrderInv /\ Apart /\ Leased /\ HighOnly

\* Without a fault only these steps are about n.
LEMMA FaultlessCases ==
  ASSUME Ground, [Next]_vars, Faultless', NEW n \in Notifications
  PROVE  /\ Faultless /\ ~stopping /\ Aborts(n) = 0
         /\ \A kind \in FaultKinds : ~Fault(kind)
         /\ \/ Elsewhere(n)
            \/ Submit(n)
            \/ \E job \in JobPayload :
                 /\ job.notification = n
                 /\ Forward(job) \/ \E w \in Workers : Dequeue(w, job)
            \/ \E w \in Workers : On(w, n) /\ Process(w)
            \/ \E r \in Retriers :
                 /\ retry[r].pc \in RequestPc /\ retry[r].notification = n
                 /\ RetryDeadLetter(r)
         /\ ~Crash /\ ~Exit
<1>1. TypeOK
  BY DEF Ground, Base, TypeInv
<1>2. Faultless /\ \A kind \in FaultKinds : ~Fault(kind)
  BY <1>1, FaultlessBack
<1>3. /\ ~stopping /\ Aborts(n) = 0
      /\ \A job \in active : \E w \in Workers : Busy(w) /\ worker[w].job = job
  BY <1>2 DEF Ground, Leased
<1>4. ~Crash /\ ~Exit /\ \A w \in Workers : ~Abort(w)
  BY <1>2, <1>3 DEF Crash, Exit, Abort, FaultKinds
<1>5. \A job : ~LeaseExpired(job)
  BY <1>3 DEF LeaseExpired
<1>6. QED  BY <1>1, <1>2, <1>3, <1>4, <1>5, StepCases DEF About

\* Every attempt counts one, and its job's number is the count it makes.
Exact(n) ==
  /\ First(n) = 1 => Top(n, 0)
  /\ \A job \in Waiting(n) \cup Ready(n) :
       Top(n, job.attempt) /\ row[n].attempts = job.attempt - 1
  /\ \A w \in Trying(n) :
       /\ Top(n, worker[w].job.attempt)
       /\ row[n].attempts = IF worker[w].pc \in {"get", "increment"}
                            THEN worker[w].job.attempt - 1
                            ELSE worker[w].job.attempt

LEMMA ExactElsewhere ==
  ASSUME TypeOK, TypeOK', NEW n \in Notifications, Elsewhere(n), Exact(n)
  PROVE  Exact(n)'
<1>1. /\ Waiting(n)' = Waiting(n) /\ Ready(n)' = Ready(n)
      /\ Trying(n)' = Trying(n) /\ First(n)' = First(n) /\ row'[n] = row[n]
  BY ElsewhereSame DEF Elsewhere
<1>2. \A w \in Trying(n) : worker'[w] = worker[w]
  BY ElsewhereSame DEF Trying, On, Busy, EarlyPc
<1>3. \A job : job.notification = n => (job \in Known' <=> job \in Known)
  BY DEF Elsewhere, Known, Live
<1>4. \A k : Top(n, k) => Top(n, k)'
  BY <1>3 DEF Top
<1>5. QED  BY <1>1, <1>2, <1>4 DEF Exact

\* Until a step adds a job, or while it adds one numbered k.
LEMMA TopKept ==
  ASSUME NEW n \in Notifications, NEW k, Top(n, k),
         \A job \in Known' : job.notification = n => job \in Known \/ job.attempt <= k
  PROVE  Top(n, k)'
BY DEF Top, Known, Live

LEMMA ExactSubmit ==
  ASSUME Ground, [Next]_vars, NEW n \in Notifications, Exact(n), Cursor(n),
         Fresh(n), Submit(n)
  PROVE  Exact(n)'
<1>1. TypeOK /\ Paid(n) /\ Manual(n) = 0 /\ Aborts(n) = 0
  BY DEF Ground, Base, TypeInv, AllPaid, Fresh
<1>2. /\ First(n) = 1 /\ Waiting(n) = {} /\ Ready(n) = {} /\ Trying(n) = {}
      /\ row[n].attempts = 0 /\ Top(n, 0)
  <2>1. First(n) = 1
    BY DEF Submit, RejectUnsupported, CreateNotification, AppendFirstLog,
       EnqueueFirst, First
  <2>2. QED  BY <1>1, <2>1, OneAttempt DEF Cursor, Exact
<1>3. UNCHANGED <<worker, active, archived>> /\ Trying(n)' = {}
  BY <1>2, WorkersSame DEF Submit, RejectUnsupported, CreateNotification,
     AppendFirstLog, EnqueueFirst, queueVars
<1>4. row'[n].attempts = 0
  <2>1. row' = row \/ Insert(n)
    BY DEF Submit, RejectUnsupported, CreateNotification, AppendFirstLog,
       EnqueueFirst, storeVars, DbError
  <2>2. QED  BY <1>1, <1>2, <2>1 DEF Insert, TypeOK
<1>5. CASE EnqueueFirst(n) /\ Put(Job(n, 1), FALSE)
  <2>1. Waiting(n)' = {} /\ Ready(n)' \subseteq {Job(n, 1)}
    BY <1>2, <1>5, PutMoves
  <2>2. First(n)' = 0
    BY <1>1, <1>5 DEF EnqueueFirst, First, TypeOK
  <2>3. Job(n, 1).attempt = 1 /\ Known' = Known \cup {Job(n, 1)}
    BY <1>3, <1>5 DEF Put, Known, Live, Job
  <2>4. Top(n, 1)'
    <3>1. \A job \in Known : job \in JobPayload
      BY <1>1 DEF TypeOK, Known, Live
    <3>2. Top(n, 1)
      BY <1>2, <3>1 DEF Top, JobPayload
    <3>3. QED  BY <2>3, <3>2, TopKept
  <2>5. \A job \in Waiting(n)' \cup Ready(n)' : job.attempt = 1
    BY <2>1, <2>3
  <2>6. QED  BY <1>3, <1>4, <2>2, <2>4, <2>5 DEF Exact
<1>6. CASE ~(EnqueueFirst(n) /\ Put(Job(n, 1), FALSE))
  <2>1. UNCHANGED <<scheduled, pending>>
    BY <1>6 DEF Submit, RejectUnsupported, CreateNotification, AppendFirstLog,
       EnqueueFirst, Refused, ReplyLost, queueVars
  <2>2. Waiting(n)' = {} /\ Ready(n)' = {} /\ Top(n, 0)'
    BY <1>2, <1>3, <2>1, QueueSame, TopKept DEF Known, Live
  <2>3. QED  BY <1>3, <2>2 DEF Exact
<1>7. QED  BY <1>5, <1>6

LEMMA ExactQueue ==
  ASSUME Ground, NEW n \in Notifications, Exact(n), Cursor(n), Fresh(n),
         NEW job \in JobPayload, job.notification = n,
         Forward(job) \/ \E w \in Workers : Dequeue(w, job)
  PROVE  Exact(n)'
<1>1. TypeOK /\ Paid(n) /\ Manual(n) = 0 /\ Aborts(n) = 0
  BY DEF Ground, Base, TypeInv, AllPaid, Fresh
<1>2. row' = row /\ First(n)' = First(n) /\ Known' = Known
  BY DEF Forward, Dequeue, storeVars, actorVars, First, Known, Live
<1>3. \A k : Top(n, k) => Top(n, k)'
  BY <1>2 DEF Top
<1>4. CASE Forward(job)
  <2>1. Waiting(n)' \cup Ready(n)' = Waiting(n) \cup Ready(n)
    BY <1>4 DEF Forward, Waiting, Ready
  <2>2. worker' = worker /\ Trying(n)' = Trying(n)
    BY <1>4, WorkersSame DEF Forward, actorVars
  <2>3. QED  BY <1>2, <1>3, <2>1, <2>2 DEF Exact
<1>5. ASSUME NEW w \in Workers, Dequeue(w, job)
      PROVE  Exact(n)'
  <2>1. job \in Ready(n)
    BY <1>5 DEF Dequeue, Ready
  <2>2. /\ Ready(n) = {job} /\ Waiting(n) = {} /\ Trying(n) = {}
    BY <1>1, <2>1, OneAttempt
  <2>3. /\ \A v \in Workers \ {w} : worker'[v] = worker[v]
        /\ worker'[w].pc = "get" /\ worker'[w].job = job
    BY <1>1, <1>5 DEF Dequeue, TypeOK
  <2>4. Waiting(n)' = {} /\ Ready(n)' = {} /\ Trying(n)' \subseteq {w}
    BY <1>5, <2>2, <2>3 DEF Dequeue, Waiting, Ready, Trying, Subject
  <2>5. Top(n, job.attempt)' /\ row'[n].attempts = job.attempt - 1
    BY <1>2, <1>3, <2>1 DEF Exact
  <2>6. QED  BY <1>2, <1>3, <2>3, <2>4, <2>5 DEF Exact
<1>6. QED  BY <1>4, <1>5

LEMMA ExactHandler ==
  ASSUME Ground, Base', [Next]_vars, NEW n \in Notifications, Exact(n),
         Cursor(n), Fresh(n),
         NEW w \in Workers, On(w, n), Process(w)
  PROVE  Exact(n)'
<1>0. PICK k : k = worker[w].job.attempt
  OBVIOUS
<1>1. /\ TypeOK /\ TypeOK' /\ Paid(n) /\ Manual(n) = 0 /\ Aborts(n) = 0
      /\ Place(w, n) /\ Subject(w) = n /\ Busy(w) /\ worker[w] \in Handler
      /\ Ground /\ Base
  BY HandlerOnly DEF Ground, Base, TypeInv, AllPaid, Cursor, Fresh, On
<1>2. /\ k \in Nat /\ worker[w].attempts \in Nat /\ row[n].attempts \in Nat
      /\ \A v \in Workers \ {w} : worker'[v] = worker[v]
      /\ \A v \in Workers : On(v, n) => v = w
  BY <1>0, <1>1, HandlerOnly DEF Handler, JobPayload, TypeOK, Row, Cursor
<1>3. /\ First(n) = 0 /\ First(n)' = 0 /\ Ready(n)' = Ready(n)
      /\ ~At(w, "reschedule") => Waiting(n)' = Waiting(n)
      /\ Trying(n)' \subseteq {w}
      /\ w \in Trying(n)' => w \in Trying(n) /\ Busy(w)' /\ worker'[w].pc \in EarlyPc
  <2>1. First(n) = 0 /\ Trying(n) \subseteq {w}
    BY <1>2 DEF Cursor, First, Trying, On, Busy, EarlyPc
  <2>2. w \in Trying(n)' => Busy(w)'
    BY DEF Trying, Busy, EarlyPc
  <2>3. QED  BY <1>1, <2>1, <2>2, HandlerFrame
<1>4. ~At(w, "reschedule") => \A i : Top(n, i) => Top(n, i)'
  <2>1. ~At(w, "reschedule") => Known' \subseteq Known
    BY <1>1, HandlerAdds DEF ScheduleRetry, Ground
  <2>2. QED  BY <2>1, TopKept
<1>5. CASE worker[w].pc \notin EarlyPc
  <2>1. ~At(w, "reschedule") /\ ~At(w, "increment") /\ w \notin Trying(n)
    BY <1>5 DEF At, EarlyPc, Trying
  <2>2. Waiting(n)' = Waiting(n) /\ Ready(n)' = Ready(n) /\ Trying(n)' = {}
    BY <1>3, <2>1
  <2>3. row'[n].attempts = row[n].attempts
    BY <1>1, <2>1, HandlerFrame DEF Place, At
  <2>4. QED  BY <1>3, <1>4, <2>1, <2>2, <2>3 DEF Exact
<1>6. CASE worker[w].pc \in EarlyPc
  <2>1. w \in Trying(n)
    BY <1>1, <1>6 DEF Trying
  <2>2. Waiting(n) = {} /\ Ready(n) = {}
    BY <1>1, <2>1, OneAttempt
  <2>3. /\ Top(n, k)
        /\ row[n].attempts = IF worker[w].pc \in {"get", "increment"} THEN k - 1 ELSE k
    BY <1>0, <2>1 DEF Exact
  <2>4. CASE At(w, "reschedule")
    <3>1. ScheduleRetry(w) /\ NextJob(w) = Job(n, k + 1) /\ row' = row
      <4>1. worker[w].attempts = k
        BY <1>1, <2>3, <2>4 DEF Place, At
      <4>2. ScheduleRetry(w)
        BY <1>1, <2>4, HandlerAt
      <4>3. QED  BY <1>1, <4>1, <4>2 DEF ScheduleRetry, storeVars
    <3>2. Trying(n)' = {}
      BY <1>1, <1>3, <2>4, HandlerGoes DEF At, EarlyPc
    <3>3. Waiting(n)' \subseteq {Job(n, k + 1)}
      <4>1. \/ Put(Job(n, k + 1), TRUE) \/ Refused(Job(n, k + 1))
            \/ ReplyLost(Job(n, k + 1), TRUE)
        BY <3>1 DEF ScheduleRetry
      <4>2. CASE Put(Job(n, k + 1), TRUE)
        BY <2>2, <4>2, PutMoves
      <4>3. CASE Refused(Job(n, k + 1))
        BY <2>2, <4>3, QueueSame DEF Refused
      <4>4. QED  BY <4>1, <4>2, <4>3 DEF ReplyLost
    <3>4. Job(n, k + 1).attempt = k + 1
      BY DEF Job
    <3>5. Top(n, k + 1)'
      <4>1. Top(n, k + 1)
        BY <1>1, <1>2, <2>3 DEF Top, TypeOK, Known, Live, JobPayload
      <4>2. \A job \in Known' : job \in Known \/ job = Job(n, k + 1)
        BY <1>1, <3>1, HandlerAdds DEF Ground
      <4>3. QED  BY <1>2, <3>4, <4>1, <4>2, TopKept
    <3>6. \A job \in Waiting(n)' \cup Ready(n)' : job.attempt = k + 1
      BY <1>3, <2>2, <3>3, <3>4
    <3>7. row'[n].attempts = (k + 1) - 1
      BY <1>2, <2>3, <2>4, <3>1 DEF At
    <3>8. QED  BY <1>3, <3>2, <3>5, <3>6, <3>7 DEF Exact
  <2>5. CASE ~At(w, "reschedule")
    <3>1. Waiting(n)' = {} /\ Ready(n)' = {} /\ Top(n, k)'
      BY <1>3, <1>4, <2>2, <2>3, <2>5
    <3>2. ASSUME w \in Trying(n)'
          PROVE  row'[n].attempts = IF worker'[w].pc \in {"get", "increment"}
                                    THEN k - 1 ELSE k
      <4>1. Busy(w)' /\ worker'[w].pc \in EarlyPc
        BY <1>3, <3>2
      <4>2. CASE At(w, "get")
        BY <1>1, <2>3, <4>1, <4>2, HandlerGoes, HandlerFrame DEF At
      <4>3. CASE At(w, "increment")
        <5>1. row'[n] = [row[n] EXCEPT !.attempts = worker[w].attempts]
          BY <1>1, <4>1, <4>3, HandlerWrites DEF At
        <5>2. row'[n].attempts = worker[w].attempts
          BY <1>1, <5>1 DEF TypeOK, Row
        <5>3. worker'[w].pc = "sending"
          BY <1>1, <4>1, <4>3, HandlerGoes
        <5>4. QED  BY <1>1, <1>2, <2>3, <4>3, <5>2, <5>3 DEF Place, At
      <4>4. CASE At(w, "sending")
        BY <1>1, <2>3, <4>1, <4>4, HandlerGoes, HandlerFrame DEF At, EarlyPc
      <4>5. ~At(w, "bury")
        BY <1>1, <4>1, HandlerGoes DEF At, EarlyPc
      <4>6. QED  BY <1>6, <2>5, <4>2, <4>3, <4>4, <4>5 DEF At, EarlyPc
    <3>3. w \in Trying(n)' => worker'[w].job.attempt = k
      BY <1>0, <1>1, <1>3, HandlerOnly
    <3>4. QED  BY <1>3, <3>1, <3>2, <3>3 DEF Exact
  <2>6. QED  BY <2>4, <2>5
<1>7. QED  BY <1>5, <1>6

\* A notification that Submit accepted and that is not settled has a job.
Continued(n) ==
  submit[n] = "accepted" /\ row[n].status \notin Terminal =>
    \E job \in Live : job.notification = n

\* Why a handler ends without a fault.
LEMMA FaultlessReturn ==
  ASSUME TypeOK, NEW n \in Notifications, \A kind \in FaultKinds : ~Fault(kind),
         NEW w \in Workers, On(w, n), Process(w), ~Busy(w)'
  PROVE  /\ row' = row /\ scheduled' = scheduled
         /\ \/ At(w, "get") /\ row[n].status \in Terminal
            \/ At(w, "reschedule") /\ NextJob(w) \in Known
            \/ At(w, "finish")
<1>1. /\ Subject(w) = n /\ Busy(w) /\ worker[w] \in Handler
  BY HandlerOnly DEF On
<1>2. ASSUME NEW pc \in HandlerPc, Goto(w, pc) PROVE FALSE
  BY <1>1, <1>2 DEF Goto, TypeOK, Handler, Busy, HandlerPc
<1>3. CASE At(w, "get")
  <2>1. GetNotification(w) /\ (Return(w, TRUE) \/ Return(w, FALSE))
    BY <1>1, <1>3, HandlerAt, HandlerEnds
  <2>2. row[n].status \in Terminal
    <3>1. CASE worker' = [worker EXCEPT
                 ![w].pc = "increment",
                 ![w].status = row[n].status,
                 ![w].attempts = row[n].attempts + 1]
      BY ONLY <1>1, <3>1, ~Busy(w)', TypeOK DEF Handler, Busy, TypeOK
    <3>2. QED  BY <1>1, <2>1, <3>1 DEF GetNotification, FaultKinds
  <2>3. QED  BY <1>3, <2>1, <2>2 DEF GetNotification, storeVars
<1>4. ~At(w, "increment") /\ ~At(w, "update") /\ ~At(w, "appendLog")
  BY <1>1, <1>2, HandlerAt DEF IncrementAttempts, UpdateNotification,
     AppendLog, DbError, FaultKinds, HandlerPc
<1>5. ~At(w, "sending") /\ ~At(w, "bury")
  <2>1. ~CreateDeadLetter(w)
    BY <1>2 DEF CreateDeadLetter, HandlerPc
  <2>2. ~SendReturns(w)
    BY <1>1 DEF SendReturns, TypeOK, Handler, Busy
  <2>3. QED  BY <1>1, <2>1, <2>2, HandlerAt
<1>6. CASE At(w, "reschedule")
  <2>1. ScheduleRetry(w) /\ ~Goto(w, "update")
    BY <1>1, <1>2, <1>6, HandlerAt DEF HandlerPc
  <2>2. QED
    BY <1>6, <2>1 DEF ScheduleRetry, Refused, ReplyLost, FaultKinds, storeVars
<1>7. CASE At(w, "finish")
  BY <1>7, HandlerAt DEF Finish, storeVars
<1>8. QED  BY <1>1, <1>3, <1>4, <1>5, <1>6, <1>7, HandlerAt DEF HandlerPc, At

\* Then it has found or made the row settled, or has scheduled the next attempt.
LEMMA FaultlessEnd ==
  ASSUME Ground, NEW n \in Notifications, Cursor(n), Exact(n),
         \A kind \in FaultKinds : ~Fault(kind),
         NEW w \in Workers, On(w, n), Process(w), ~Busy(w)'
  PROVE  /\ row' = row /\ scheduled' = scheduled
         /\ row[n].status \in Terminal \/ NextJob(w) \in scheduled
<1>1. /\ TypeOK /\ Place(w, n) /\ Subject(w) = n /\ worker[w] \in Handler
  BY HandlerOnly DEF Ground, Base, TypeInv, Cursor, On
<1>2. ASSUME At(w, "reschedule") PROVE NextJob(w) \notin Known
  <2>0. PICK k : k = worker[w].job.attempt
    OBVIOUS
  <2>1. w \in Trying(n)
    BY <1>1, <1>2 DEF Trying, At, EarlyPc
  <2>2. Top(n, k) /\ row[n].attempts = k /\ k \in Nat
    BY <1>1, <1>2, <2>0, <2>1 DEF Exact, At, Handler, JobPayload
  <2>3. NextJob(w) = Job(n, k + 1)
    BY <1>1, <1>2, <2>2 DEF Place, At
  <2>4. Job(n, k + 1).attempt = k + 1 /\ Job(n, k + 1).notification = n
    BY DEF Job
  <2>5. ~(k + 1 <= k)
    BY <2>2
  <2>6. QED  BY <2>2, <2>3, <2>4, <2>5 DEF Top
<1>3. At(w, "finish") => row[n].status \in Terminal \/ NextJob(w) \in scheduled
  BY <1>1 DEF Place, At, EarlyPc, Terminal
<1>4. QED  BY <1>1, <1>2, <1>3, FaultlessReturn

LEMMA ContinuedStep ==
  ASSUME Ground, Apart', [Next]_vars, Faultless', NEW n \in Notifications,
         Cursor(n), Exact(n), Fresh(n), Continued(n)
  PROVE  Continued(n)'
<1> SUFFICES ASSUME submit'[n] = "accepted", row'[n].status \notin Terminal
             PROVE  \E job \in Live' : job.notification = n
  BY DEF Continued, Live
<1>1. TypeOK /\ \A kind \in FaultKinds : ~Fault(kind)
  BY FaultlessCases DEF Ground, Base, TypeInv
<1>2. CASE Elsewhere(n)
  <2>1. \E job \in Live : job.notification = n
    BY <1>2 DEF Elsewhere, Continued
  <2>2. QED  BY <1>2, <2>1 DEF Elsewhere, Live
<1>3. CASE Submit(n)
  <2>1. Put(Job(n, 1), FALSE)
    <3>1. EnqueueFirst(n)
      BY <1>1, <1>3 DEF Submit, RejectUnsupported, CreateNotification,
         AppendFirstLog, TypeOK
    <3>2. QED  BY <1>1, <3>1 DEF EnqueueFirst, TypeOK
  <2>2. QED  BY <2>1 DEF Put, Live, Job
<1>4. ASSUME NEW job, Forward(job) \/ \E w \in Workers : Dequeue(w, job)
      PROVE  \E other \in Live' : other.notification = n
  BY <1>4 DEF Forward, Dequeue, Live, Continued, storeVars, actorVars
<1>5. ASSUME NEW w \in Workers, On(w, n), Process(w)
      PROVE  \E job \in Live' : job.notification = n
  <2>1. CASE Busy(w)'
    <3>1. worker'[w].job \in active' /\ worker'[w].job = worker[w].job
      BY <1>1, <1>5, <2>1, HandlerOnly DEF Apart
    <3>2. QED  BY <1>5, <3>1 DEF On, Subject, Live
  <2>2. CASE ~Busy(w)'
    <3>1. NextJob(w) \in scheduled'
      BY <1>1, <1>5, <2>2, FaultlessEnd
    <3>2. NextJob(w).notification = n
      BY <1>5 DEF On, Job
    <3>3. QED  BY <3>1, <3>2 DEF Live
  <2>3. QED  BY <2>1, <2>2
<1>6. ASSUME NEW r \in Retriers, retry[r].pc \in RequestPc, retry[r].notification = n
      PROVE  FALSE
  BY <1>6 DEF Fresh, Asked
<1>7. QED  BY <1>2, <1>3, <1>4, <1>5, <1>6, FaultlessCases

-------------------------------------------------------------------------------
(* After the one request for its retry every attempt at a notification is    *)
(* exhausting, so that whoever ends settles it or leaves it the new job.     *)

OnRequest(r, n) == retry[r].pc \in RequestPc /\ retry[r].notification = n

\* Whoever is in progress stays so, ends by a step of its own, or has begun.
LEMMA RequestStep ==
  ASSUME TypeOK, [Next]_vars, NEW r \in Retriers
  PROVE  /\ retry[r].pc \in RequestPc =>
              retry'[r] = retry[r] \/ RetryDeadLetter(r) \/ Crash \/ Exit
         /\ retry'[r].pc \in RequestPc =>
              \/ /\ retry[r].pc \in RequestPc
                 /\ retry'[r].notification = retry[r].notification
                 /\ retry'[r].attempts = retry[r].attempts
              \/ \E n \in Notifications :
                   /\ RetryRead(r, n) /\ retry'[r].notification = n
                   /\ retry'[r].attempts = row[n].attempts
<1>1. CASE UNCHANGED retry
  BY <1>1
<1>2. ASSUME NEW q \in Retriers, NEW n \in Notifications, RetryRead(q, n)
      PROVE  /\ q # r => retry'[r] = retry[r]
             /\ q = r => /\ retry[r].pc \notin RequestPc
                         /\ retry'[r].notification = n
                         /\ retry'[r].attempts = row[n].attempts
  BY <1>2 DEF RetryRead, RequestAt, RequestPc, TypeOK
<1>3. ASSUME NEW q \in Retriers, RetryDeadLetter(q)
      PROVE  /\ q # r => retry'[r] = retry[r]
             /\ q = r => /\ retry[r].pc \in RequestPc
                         /\ retry'[r].pc \in RequestPc =>
                              /\ retry'[r].notification = retry[r].notification
                              /\ retry'[r].attempts = retry[r].attempts
  <2>1. retry[q].pc \in RequestPc /\ retry[q] \in Request
    BY <1>3, ActiveIsRequest DEF RetryDeadLetter, RetryUpdate, RetryMark,
       RetryEnqueue, RequestAt, RequestPc
  <2>2. ASSUME NEW pc \in {"requeued", "failed"}, EndRequest(q, pc)
        PROVE  /\ \A p \in Retriers \ {q} : retry'[p] = retry[p]
               /\ retry'[q].pc \notin RequestPc
    BY <2>2 DEF EndRequest, Ended, TypeOK, RequestPc
  <2>3. ASSUME NEW pc, retry' = [retry EXCEPT ![q].pc = pc]
        PROVE  /\ \A p \in Retriers \ {q} : retry'[p] = retry[p]
               /\ retry'[q].notification = retry[q].notification
               /\ retry'[q].attempts = retry[q].attempts
    BY <2>1, <2>3 DEF TypeOK, Request
  <2>4. \/ \E pc \in {"requeued", "failed"} : EndRequest(q, pc)
        \/ \E pc \in {"mark", "enqueue"} : retry' = [retry EXCEPT ![q].pc = pc]
    BY <1>3 DEF RetryDeadLetter, RetryUpdate, RetryMark, RetryEnqueue
  <2>5. QED  BY <2>1, <2>2, <2>3, <2>4
<1>4. Restart => retry'[r].pc \notin RequestPc \/ retry'[r] = retry[r]
  BY DEF Restart, Ended, RequestPc
<1>5. Crash \/ Exit => Restart
  BY DEF Crash, Exit
<1>6. QED
  BY <1>1, <1>2, <1>3, <1>4, <1>5 DEF Next, vars, Submit, RejectUnsupported,
     CreateNotification, AppendFirstLog, EnqueueFirst, Forward, Dequeue,
     LeaseExpired, actorVars, Process, GetNotification, IncrementAttempts,
     SendReturns, CreateDeadLetter, ScheduleRetry, UpdateNotification,
     AppendLog, Finish, Abort, Stop

\* The job that the request enqueues.
Last(n) == Job(n, MaxAttempts + 1)

Past(w, n) ==
  /\ ~At(w, "get") => worker[w].attempts >= MaxAttempts
  /\ ~At(w, "reschedule")
  /\ worker[w].pc \notin EarlyPc => worker[w].status \in Terminal
  /\ worker[w].job = Last(n) /\ worker[w].pc \in {"appendLog", "finish"} =>
       row[n].status \in Terminal

Second(n) ==
  /\ Buried(n) /\ Waiting(n) = {} /\ First(n) = 0
  /\ row[n].attempts >= MaxAttempts
  /\ \A w \in Workers : On(w, n) => Past(w, n)
  /\ \A r \in Retriers :
       OnRequest(r, n) => retry[r].attempts = MaxAttempts /\ Manual(n) = 0
  /\ ~Asked(n) => row[n].status \in Terminal \/ Last(n) \in pending \cup active

\* Until the request has enqueued it nobody knows the last job.
LEMMA LastUnknown ==
  ASSUME Ground, NEW n \in Notifications, Manual(n) = 0
  PROVE  /\ Last(n) \notin Known
         /\ \A w \in Workers : Busy(w) => worker[w].job # Last(n)
<1>1. Last(n).attempt = MaxAttempts + 1 /\ Last(n).notification = n
  BY DEF Last, Job
<1>2. MaxAttempts \in Nat
  BY DeliveryAssumption DEF MaxAttempts
<1>3. ~(MaxAttempts + 1 <= MaxAttempts)
  BY <1>2
<1>4. Last(n) \notin Known
  BY <1>1, <1>3 DEF Ground, HighOnly, Top
<1>5. QED  BY <1>4 DEF Ground, Apart, Known, Live

LEMMA SecondStarts ==
  ASSUME Ground, [Next]_vars, NEW n \in Notifications, Cursor(n), Fresh(n),
         NEW r \in Retriers, RetryRead(r, n)
  PROVE  Second(n)'
<1>1. /\ TypeOK /\ Manual(n) = 0 /\ ~Asked(n) /\ MaxAttempts \in Nat
  BY DeliveryAssumption DEF Ground, Base, TypeInv, Fresh, MaxAttempts
<1>2. UNCHANGED <<row, letters, scheduled, pending, active, submit, worker, tally>>
  BY DEF RetryRead, storeVars, queueVars
<1>3. Buried(n)
  <2>1. DOMAIN letters[n] # {}
    BY DEF RetryRead
  <2>2. QED  BY <2>1 DEF Buried
<1>4. /\ Spent(n) /\ row[n].attempts = MaxAttempts
      /\ \A w \in Workers : On(w, n) =>
           worker[w].attempts = MaxAttempts /\ worker[w].status = "failed"
  BY <1>3 DEF Cursor
<1>5. ASSUME NEW w \in Workers, On(w, n)
      PROVE  Past(w, n)
  <2>1. worker[w].pc \notin EarlyPc
    BY <1>4, <1>5 DEF Spent, Trying, On
  <2>2. worker[w].job # Last(n)
    BY <1>1, <1>5, LastUnknown DEF On
  <2>3. QED  BY <1>1, <1>4, <1>5, <2>1, <2>2 DEF Past, At, EarlyPc, Terminal
<1>6. \A w \in Workers : On(w, n)' => Past(w, n)'
  BY <1>2, <1>5 DEF On, Busy, Subject, Past, At, Last, Job
<1>7. Asked(n)'
  BY <1>1 DEF RetryRead, TypeOK, Asked, RequestPc
<1>8. ASSUME NEW q \in Retriers, OnRequest(q, n)'
      PROVE  retry'[q].attempts = MaxAttempts
  BY <1>1, <1>4, <1>8, RequestStep DEF Asked, OnRequest
<1>9. /\ Buried(n)' /\ Waiting(n)' = {} /\ First(n)' = 0
      /\ row'[n].attempts >= MaxAttempts /\ Manual(n)' = 0
  BY <1>1, <1>2, <1>3, <1>4 DEF Buried, Waiting, First, Manual, Spent
<1>10. QED  BY <1>6, <1>7, <1>8, <1>9 DEF Second

LEMMA ExactStep ==
  ASSUME Ground, Base', [Next]_vars, Faultless', NEW n \in Notifications,
         Cursor(n), Exact(n), Fresh(n)
  PROVE  Exact(n)'
<1>1. TypeOK /\ TypeOK'
  BY DEF Ground, Base, TypeInv
<1>2. \A r \in Retriers : ~(retry[r].pc \in RequestPc /\ retry[r].notification = n)
  BY DEF Fresh, Asked
<1>3. QED
  BY <1>1, <1>2, FaultlessCases, ExactElsewhere, ExactSubmit, ExactQueue,
     ExactHandler

\* What no request has asked for is not requeued.
Attended ==
  \A n \in Notifications :
    (\A r \in Retriers : ~Asks(r, n)) => Manual(n) = 0

LEMMA AttendedStep ==
  ASSUME TypeOK, Attended, [Next]_vars
  PROVE  Attended'
<1> SUFFICES ASSUME NEW n \in Notifications, \A r \in Retriers : ~Asks(r, n)'
             PROVE  Manual(n)' = 0
  BY DEF Attended, Manual
<1>1. \A r \in Retriers : ~Asks(r, n)
  BY AsksStay
<1>2. ~Asked(n)
  BY <1>1 DEF Asks, RequestAt, Asked, RequestPc
<1>3. QED  BY <1>1, <1>2, TallyStep DEF Attended

\* The request that has begun is the only one.
LEMMA NoSecondRead ==
  ASSUME TypeOK, [Next]_vars, Attended, NEW n \in Notifications,
         AskedOnce(n)', ~Fresh(n), Aborts(n) = 0,
         NEW r \in Retriers, RetryRead(r, n)
  PROVE  FALSE
<1>1. PICK q \in Retriers : Asks(q, n)
  <2>1. CASE Asked(n)
    BY <2>1 DEF Asked, Asks, RequestAt, RequestPc
  <2>2. CASE Manual(n) # 0
    BY <2>2 DEF Attended
  <2>3. QED  BY <2>1, <2>2 DEF Fresh
<1>2. q # r
  BY <1>1 DEF RetryRead, Asks
<1>3. Asks(q, n)'
  BY <1>1, AsksStay
<1>4. Asks(r, n)'
  BY DEF RetryRead, Asks, RequestAt, TypeOK
<1>5. QED  BY <1>2, <1>3, <1>4 DEF AskedOnce

\* What the request does to n.
LEMMA RequestGoes ==
  ASSUME Ground, NEW n \in Notifications, Second(n),
         \A kind \in FaultKinds : ~Fault(kind),
         NEW r \in Retriers, OnRequest(r, n), RetryDeadLetter(r)
  PROVE  /\ UNCHANGED <<submit, worker, active, archived>>
         /\ \/ /\ UNCHANGED <<scheduled, pending, tally>>
               /\ OnRequest(r, n)'
               /\ \/ row'[n] = row[n]
                  \/ row'[n] = [status |-> "pending", attempts |-> MaxAttempts]
            \/ /\ Put(Last(n), FALSE) /\ row' = row
               /\ Count(n, "manual") /\ ~OnRequest(r, n)'
<1>1. /\ TypeOK /\ retry[r] \in Request /\ retry[r].notification = n
      /\ retry[r].attempts = MaxAttempts /\ Manual(n) = 0
  BY ActiveIsRequest DEF Ground, Base, TypeInv, OnRequest, Second
<1>2. UNCHANGED <<submit, worker, active, archived>>
  BY DEF RetryDeadLetter, RetryUpdate, RetryMark, RetryEnqueue, queueVars
<1>3. ASSUME NEW pc \in RequestPc, retry' = [retry EXCEPT ![r].pc = pc]
      PROVE  OnRequest(r, n)'
  BY <1>1, <1>3 DEF OnRequest, TypeOK, Request
<1>4. CASE RetryUpdate(r)
  <2>1. /\ row' = [row EXCEPT ![n] = [status |-> "pending", attempts |-> MaxAttempts]]
        /\ retry' = [retry EXCEPT ![r].pc = "mark"]
    BY <1>1, <1>4 DEF RetryUpdate, DbError, FaultKinds
  <2>2. UNCHANGED <<scheduled, pending, tally>>
    BY <1>4 DEF RetryUpdate, queueVars
  <2>3. QED  BY <1>1, <1>2, <1>3, <2>1, <2>2 DEF RequestPc, TypeOK
<1>5. CASE RetryMark(r)
  <2>1. retry' = [retry EXCEPT ![r].pc = "enqueue"] /\ row' = row
    BY <1>5 DEF RetryMark, DbError, FaultKinds
  <2>2. UNCHANGED <<scheduled, pending, tally>>
    BY <1>5 DEF RetryMark, queueVars
  <2>3. QED  BY <1>2, <1>3, <2>1, <2>2 DEF RequestPc
<1>6. CASE RetryEnqueue(r)
  <2>1. RequeuedJob(r) = Last(n) /\ Last(n) \notin Known
    BY <1>1, LastUnknown DEF Last
  <2>2. /\ Put(Last(n), FALSE) /\ EndRequest(r, "requeued") /\ Count(n, "manual")
        /\ row' = row
    BY <1>1, <1>6, <2>1 DEF RetryEnqueue, Refused, ReplyLost, FaultKinds, storeVars
  <2>3. ~OnRequest(r, n)'
    BY <1>1, <2>2 DEF EndRequest, Ended, OnRequest, TypeOK, RequestPc
  <2>4. QED  BY <1>2, <2>2, <2>3
<1>7. QED  BY <1>4, <1>5, <1>6 DEF RetryDeadLetter

\* The requests at work on n after a step that is not theirs.
LEMMA RequestsKept ==
  ASSUME Ground, [Next]_vars, Faultless', Attended,
         NEW n \in Notifications, AskedOnce(n)', ~Fresh(n), Second(n),
         \A r \in Retriers : OnRequest(r, n) => ~RetryDeadLetter(r)
  PROVE  /\ Manual(n)' = Manual(n) => \A r \in Retriers : OnRequest(r, n)' =>
              retry'[r].attempts = MaxAttempts /\ Manual(n)' = 0
         /\ ~Asked(n)' => ~Asked(n)
<1>1. TypeOK /\ ~Crash /\ ~Exit /\ Aborts(n) = 0
  BY FaultlessCases DEF Ground, Base, TypeInv
<1>2. ASSUME NEW r \in Retriers, OnRequest(r, n)
      PROVE  OnRequest(r, n)'
  BY <1>1, <1>2, RequestStep DEF OnRequest
<1>3. ASSUME NEW r \in Retriers, OnRequest(r, n)'
      PROVE  OnRequest(r, n) /\ retry'[r].attempts = retry[r].attempts
  BY <1>1, <1>3, RequestStep, NoSecondRead DEF OnRequest
<1>4. QED  BY <1>2, <1>3 DEF Second, Asked, OnRequest

\* A handler past the limit settles the row before it ends the last job.
LEMMA PastHandler ==
  ASSUME Ground, Apart', [Next]_vars, NEW n \in Notifications, Second(n),
         \A kind \in FaultKinds : ~Fault(kind),
         NEW w \in Workers, On(w, n), Process(w)
  PROVE  /\ UNCHANGED <<retry, pending>> /\ Manual(n)' = Manual(n)
         /\ First(n)' = 0 /\ Waiting(n)' = {}
         /\ row'[n].attempts >= MaxAttempts
         /\ row[n].status \in Terminal => row'[n].status \in Terminal
         /\ Busy(w)' => Past(w, n)'
         /\ Last(n) \in active => Last(n) \in active' \/ row'[n].status \in Terminal
<1>1. /\ TypeOK /\ Past(w, n) /\ Subject(w) = n /\ Busy(w) /\ worker[w] \in Handler
      /\ ~At(w, "reschedule") /\ MaxAttempts \in Nat
  BY HandlerOnly, DeliveryAssumption
  DEF Ground, Base, TypeInv, Second, On, Past, MaxAttempts
<1>2. UNCHANGED <<retry, pending>> /\ Manual(n)' = Manual(n)
  <2>1. UNCHANGED <<retry, pending>>
    BY <1>1 DEF Process, GetNotification, IncrementAttempts, SendReturns,
       CreateDeadLetter, ScheduleRetry, UpdateNotification, AppendLog, Finish,
       queueVars
  <2>2. QED  BY <1>1, <2>1, HandlerTally
<1>3. First(n)' = 0 /\ Waiting(n)' = {} /\ row'[n].attempts >= MaxAttempts
  <2>1. worker[w].pc \in {"increment", "update"} => worker[w].attempts >= MaxAttempts
    BY <1>1 DEF Past, At
  <2>2. QED  BY <1>1, <2>1, HandlerFrame DEF Second
<1>4. /\ row[n].status \in Terminal => row'[n].status \in Terminal
      /\ At(w, "update") /\ Busy(w)' => row'[n].status \in Terminal
  <2>1. At(w, "update") => worker[w].status \in Terminal
    BY <1>1 DEF Past, At, EarlyPc
  <2>2. row[n] \in Row
    BY <1>1 DEF TypeOK
  <2>3. CASE row'[n] = row[n] /\ (At(w, "update") => ~Busy(w)')
    BY <2>3
  <2>4. CASE row'[n] = [row[n] EXCEPT !.attempts = worker[w].attempts] /\ ~At(w, "update")
    BY <2>2, <2>4 DEF Row
  <2>5. CASE /\ At(w, "update")
             /\ row'[n] = [status |-> worker[w].status, attempts |-> worker[w].attempts]
    BY <2>1, <2>5
  <2>6. QED  BY <1>1, <2>3, <2>4, <2>5, HandlerWrites DEF At
<1>5. ASSUME Busy(w)'
      PROVE  Past(w, n)'
  <2>1. /\ Last(n)' = Last(n) /\ worker'[w].job = worker[w].job
        /\ row[n].attempts \in Nat
    BY <1>1, <1>5, HandlerOnly DEF Last, Job, TypeOK, Row
  <2>2. CASE At(w, "get")
    <3>1. /\ worker'[w].pc = "increment"
          /\ worker'[w].attempts = row[n].attempts + 1
      BY <1>1, <1>5, <2>2, HandlerGoes
    <3>2. worker'[w].attempts >= MaxAttempts
      BY <1>1, <2>1, <3>1 DEF Second
    <3>3. QED  BY <3>1, <3>2 DEF Past, At, EarlyPc
  <2>3. CASE At(w, "increment")
    BY <1>1, <1>5, <2>3, HandlerGoes DEF Past, At, EarlyPc
  <2>4. CASE At(w, "sending")
    <3>1. Exhausted(w) /\ worker'[w].attempts >= MaxAttempts
      BY <1>1, <1>5, <2>4, HandlerGoes DEF Past, At
    <3>2. QED  BY <1>1, <1>5, <2>4, <3>1, HandlerGoes DEF Past, At, EarlyPc, Terminal
  <2>5. CASE At(w, "bury")
    <3>1. worker[w].status = "failed"
      BY <1>1, <2>5 DEF Ground, Base, Evidence, HandlersJustified
    <3>2. QED  BY <1>1, <1>5, <2>5, <3>1, HandlerGoes DEF Past, At, EarlyPc, Terminal
  <2>6. CASE worker[w].pc \notin EarlyPc
    <3>1. /\ worker'[w].pc \notin EarlyPc /\ worker'[w].status = worker[w].status
          /\ worker'[w].attempts = worker[w].attempts
      BY <1>1, <1>5, <2>6, HandlerGoes DEF At, EarlyPc
    <3>2. worker[w].attempts >= MaxAttempts /\ worker[w].status \in Terminal
      BY <1>1, <2>6 DEF Past, At, EarlyPc
    <3>3. worker[w].job = Last(n) => row'[n].status \in Terminal
      <4>1. CASE At(w, "update")
        BY <1>4, <1>5, <4>1
      <4>2. CASE ~At(w, "update")
        <5>1. worker[w].pc \in {"appendLog", "finish"}
          BY <1>1, <2>6, <4>2 DEF Handler, HandlerPc, EarlyPc, At
        <5>2. QED  BY <1>1, <1>4, <5>1 DEF Past
      <4>3. QED  BY <4>1, <4>2
    <3>4. QED  BY <2>1, <3>1, <3>2, <3>3 DEF Past, At, EarlyPc
  <2>7. QED  BY <1>1, <2>2, <2>3, <2>4, <2>5, <2>6 DEF At, EarlyPc
<1>6. ASSUME Last(n) \in active
      PROVE  Last(n) \in active' \/ row'[n].status \in Terminal
  <2>1. CASE worker[w].job # Last(n)
    BY <1>6, <2>1 DEF Process, GetNotification, IncrementAttempts, SendReturns,
       CreateDeadLetter, ScheduleRetry, UpdateNotification, AppendLog, Finish,
       Return, queueVars
  <2>2. CASE worker[w].job = Last(n) /\ Busy(w)'
    BY <1>1, <2>2, HandlerOnly DEF Apart
  <2>3. CASE worker[w].job = Last(n) /\ ~Busy(w)'
    <3>1. At(w, "finish") => row[n].status \in Terminal
      BY <1>1, <2>3 DEF Past, At
    <3>2. QED  BY <1>1, <2>3, <3>1, FaultlessReturn
  <2>4. QED  BY <2>1, <2>2, <2>3
<1>7. QED  BY <1>2, <1>3, <1>4, <1>5, <1>6

LEMMA SecondStep ==
  ASSUME Ground, Ground', [Next]_vars, Faultless', Attended,
         NEW n \in Notifications, AskedOnce(n)', ~Fresh(n), Second(n)
  PROVE  Second(n)'
<1>1. /\ TypeOK /\ TypeOK' /\ Apart' /\ MaxAttempts \in Nat
      /\ \A kind \in FaultKinds : ~Fault(kind)
  BY FaultlessCases, DeliveryAssumption DEF Ground, Base, TypeInv, MaxAttempts
<1>2. Buried(n)'
  BY <1>1, LettersStay DEF Second
<1>3. ASSUME NEW r \in Retriers, OnRequest(r, n), RetryDeadLetter(r)
      PROVE  Second(n)'
  <2>1. /\ UNCHANGED <<submit, worker, active>> /\ Manual(n) = 0
        /\ \/ /\ UNCHANGED <<scheduled, pending, tally>>
              /\ OnRequest(r, n)'
              /\ \/ row'[n] = row[n]
                 \/ row'[n] = [status |-> "pending", attempts |-> MaxAttempts]
           \/ /\ Put(Last(n), FALSE) /\ row' = row
              /\ Count(n, "manual") /\ ~OnRequest(r, n)'
    BY <1>1, <1>3, RequestGoes DEF Second
  <2>2. First(n)' = 0 /\ Waiting(n)' = {} /\ row'[n].attempts >= MaxAttempts
    <3>1. First(n)' = 0
      BY <2>1 DEF Second, First
    <3>2. Waiting(n)' = {}
      BY <2>1 DEF Second, Put, Waiting
    <3>3. row'[n].attempts = row[n].attempts \/ row'[n].attempts = MaxAttempts
      <4>1. \/ row'[n] = row[n]
            \/ row'[n] = [status |-> "pending", attempts |-> MaxAttempts]
        BY <2>1
      <4>2. QED  BY <4>1
    <3>4. QED  BY <1>1, <3>1, <3>2, <3>3 DEF Second
  <2>3. ASSUME NEW w \in Workers, On(w, n)'
        PROVE  Past(w, n)'
    <3>1. On(w, n) /\ worker'[w] = worker[w]
      BY <2>1, <2>3 DEF On, Busy, Subject
    <3>2. Past(w, n) /\ worker[w].job # Last(n)
      BY <2>1, <3>1, LastUnknown DEF Second, On
    <3>3. QED  BY <3>1, <3>2 DEF Past, At, Last, Job
  <2>4. ASSUME NEW q \in Retriers, OnRequest(q, n)'
        PROVE  retry'[q].attempts = MaxAttempts /\ Manual(n)' = 0
    <3>1. OnRequest(q, n) \/ \E m \in Notifications : RetryRead(q, m)
      BY <1>1, <2>4, RequestStep DEF OnRequest
    <3>2. q = r
      <4>1. Asks(r, n)'
        <5>1. Asks(r, n)
          BY <1>3 DEF OnRequest, RequestAt, RequestPc, Asks
        <5>2. QED  BY <1>1, <5>1, AsksStay
      <4>2. Asks(q, n)'
        BY <2>4 DEF OnRequest, RequestAt, RequestPc, Asks
      <4>3. QED  BY <4>1, <4>2 DEF AskedOnce
    <3>3. Manual(n)' = 0
      BY <2>1, <2>4, <3>2 DEF Manual
    <3>4. retry'[q].attempts = retry[q].attempts
      BY <1>1, <1>3, <2>4, <3>2, RequestStep DEF OnRequest, RetryRead, RequestAt,
         RequestPc
    <3>5. QED  BY <1>3, <3>2, <3>3, <3>4 DEF Second
  <2>5. ~Asked(n)' => Last(n) \in pending'
    BY <2>1 DEF Asked, OnRequest, Put
  <2>6. QED  BY <1>2, <2>2, <2>3, <2>4, <2>5 DEF Second, OnRequest, Last, Job
<1> SUFFICES ASSUME \A r \in Retriers : OnRequest(r, n) => ~RetryDeadLetter(r)
             PROVE  Second(n)'
  BY <1>3
<1>4. /\ Manual(n)' = Manual(n) => \A r \in Retriers : OnRequest(r, n)' =>
           retry'[r].attempts = MaxAttempts /\ Manual(n)' = 0
      /\ ~Asked(n)' => ~Asked(n)
  BY RequestsKept
<1>5. Last(n)' = Last(n) /\ Last(n).notification = n
  BY DEF Last, Job
<1>6. CASE Elsewhere(n)
  <2>1. /\ Waiting(n)' = {} /\ First(n)' = 0 /\ row'[n] = row[n]
        /\ Manual(n)' = Manual(n)
        /\ \A w \in Workers : On(w, n)' => On(w, n) /\ worker'[w] = worker[w]
    BY <1>1, <1>6, ElsewhereSame DEF Second, Elsewhere, Manual
  <2>2. \A w \in Workers : On(w, n)' => Past(w, n)'
    BY <1>5, <2>1 DEF Second, Past, At
  <2>3. Last(n) \in pending \cup active => Last(n) \in pending' \cup active'
    BY <1>5, <1>6 DEF Elsewhere
  <2>4. QED  BY <1>2, <1>4, <1>5, <2>1, <2>2, <2>3 DEF Second
<1>7. ASSUME Submit(n) PROVE FALSE
  <2>1. First(n) = 1
    BY <1>7 DEF Submit, RejectUnsupported, CreateNotification, AppendFirstLog,
       EnqueueFirst, First
  <2>2. QED  BY <2>1 DEF Second
<1>8. ASSUME NEW job \in JobPayload, job.notification = n, Forward(job)
      PROVE  FALSE
  BY <1>8 DEF Second, Forward, Waiting
<1>9. ASSUME NEW job \in JobPayload, NEW w \in Workers, Dequeue(w, job)
      PROVE  Second(n)'
  <2>1. /\ row' = row /\ First(n)' = First(n) /\ Manual(n)' = Manual(n)
        /\ Waiting(n)' = Waiting(n) /\ pending' \cup active' = pending \cup active
    BY <1>9 DEF Dequeue, storeVars, First, Manual, Waiting
  <2>2. /\ \A v \in Workers \ {w} : worker'[v] = worker[v]
        /\ worker'[w].pc = "get" /\ worker'[w].job = job
    BY <1>1, <1>9 DEF Dequeue, TypeOK
  <2>3. ASSUME NEW v \in Workers, On(v, n)'
        PROVE  Past(v, n)'
    <3>1. CASE v = w
      BY <2>2, <3>1 DEF Past, At, EarlyPc
    <3>2. CASE v # w
      BY <1>5, <2>1, <2>2, <2>3, <3>2 DEF Second, Past, At, On, Busy, Subject
    <3>3. QED  BY <3>1, <3>2
  <2>4. QED  BY <1>2, <1>4, <1>5, <2>1, <2>3 DEF Second
<1>10. ASSUME NEW w \in Workers, On(w, n), Process(w)
       PROVE  Second(n)'
  <2>1. /\ UNCHANGED <<retry, pending>> /\ Manual(n)' = Manual(n)
        /\ First(n)' = 0 /\ Waiting(n)' = {}
        /\ row'[n].attempts >= MaxAttempts
        /\ row[n].status \in Terminal => row'[n].status \in Terminal
        /\ Busy(w)' => Past(w, n)'
        /\ Last(n) \in active => Last(n) \in active' \/ row'[n].status \in Terminal
    BY <1>1, <1>10, PastHandler
  <2>2. ASSUME NEW v \in Workers, On(v, n)'
        PROVE  Past(v, n)'
    <3>1. CASE v = w
      BY <2>1, <2>2, <3>1 DEF On
    <3>2. CASE v # w
      <4>1. worker'[v] = worker[v]
        BY <1>1, <1>10, <3>2, HandlerOnly
      <4>2. QED  BY <1>5, <2>1, <2>2, <4>1 DEF Second, Past, At, On, Busy, Subject
    <3>3. QED  BY <3>1, <3>2
  <2>3. QED  BY <1>2, <1>4, <1>5, <2>1, <2>2 DEF Second
<1>11. QED
  BY <1>6, <1>7, <1>8, <1>9, <1>10, FaultlessCases DEF OnRequest

\* A notification leaves the first phase by a request, and for good.
LEMMA FreshStarts ==
  ASSUME Ground, [Next]_vars, Faultless', NEW n \in Notifications,
         Fresh(n), ~Fresh(n)'
  PROVE  \E r \in Retriers : RetryRead(r, n)
<1>1. TypeOK /\ Manual(n)' = 0 /\ Aborts(n)' = 0
  BY FaultlessCases, TallyStep DEF Ground, Base, TypeInv, Fresh
<1>2. PICK r \in Retriers : retry'[r].pc \in RequestPc /\ retry'[r].notification = n
  BY <1>1 DEF Fresh, Asked
<1>3. QED  BY <1>1, <1>2, RequestStep DEF Fresh, Asked

LEMMA FreshBack ==
  ASSUME Ground, [Next]_vars, Faultless', NEW n \in Notifications,
         ~Fresh(n), Second(n)
  PROVE  ~Fresh(n)'
<1> SUFFICES ASSUME Fresh(n)'
             PROVE  FALSE
  OBVIOUS
<1>1. /\ TypeOK /\ Aborts(n) = 0 /\ ~Crash /\ ~Exit
      /\ \A kind \in FaultKinds : ~Fault(kind)
  BY FaultlessCases DEF Ground, Base, TypeInv
<1>2. Manual(n) = 0 /\ Manual(n)' = 0
  <2>1. Manual(n) \in Nat /\ Manual(n)' >= Manual(n)
    BY <1>1, TallyGrows DEF Manual, TypeOK, TallyKinds
  <2>2. QED  BY <2>1 DEF Fresh
<1>3. PICK r \in Retriers : OnRequest(r, n)
  BY <1>1, <1>2 DEF Fresh, Asked, OnRequest
<1>4. ~OnRequest(r, n)'
  BY DEF Fresh, Asked, OnRequest
<1>5. RetryDeadLetter(r)
  BY <1>1, <1>3, <1>4, RequestStep DEF OnRequest
<1>6. Count(n, "manual")
  BY <1>1, <1>3, <1>4, <1>5, RequestGoes
<1>7. Manual(n)' = Manual(n) + 1
  BY <1>1, <1>6, CountExact DEF Manual, TallyKinds
<1>8. QED  BY <1>2, <1>7

-------------------------------------------------------------------------------
(* The two phases together.                                                  *)

Phases ==
  Faultless => \A n \in Notifications : AskedOnce(n) =>
    IF Fresh(n) THEN Cursor(n) /\ Exact(n) /\ Continued(n) ELSE Second(n)

LEMMA PhasesStep ==
  ASSUME LongBackoff, Ground, Ground', Attended, Phases, [Next]_vars
  PROVE  Phases'
<1> SUFFICES ASSUME Faultless', NEW n \in Notifications, AskedOnce(n)'
             PROVE  IF Fresh(n)' THEN Cursor(n)' /\ Exact(n)' /\ Continued(n)'
                                 ELSE Second(n)'
  BY DEF Phases
<1>1. /\ TypeOK /\ Base /\ Base' /\ OrderInv /\ Apart'
      /\ Faultless /\ Aborts(n)' = 0
  BY FaultlessBack DEF Ground, Base, TypeInv, Leased
<1>2. AskedOnce(n)
  BY <1>1, AsksStay DEF AskedOnce
<1>3. IF Fresh(n) THEN Cursor(n) /\ Exact(n) /\ Continued(n) ELSE Second(n)
  BY <1>1, <1>2 DEF Phases
<1>4. CASE Fresh(n) /\ Fresh(n)'
  <2>1. Cursor(n)'
    BY <1>1, <1>3, <1>4, CursorStep
  <2>2. Exact(n)'
    BY <1>1, <1>3, <1>4, ExactStep
  <2>3. Continued(n)'
    BY <1>1, <1>3, <1>4, ContinuedStep
  <2>4. QED  BY <1>4, <2>1, <2>2, <2>3
<1>5. CASE Fresh(n) /\ ~Fresh(n)'
  BY <1>1, <1>3, <1>5, FreshStarts, SecondStarts
<1>6. CASE ~Fresh(n)
  BY <1>1, <1>3, <1>6, FreshBack, SecondStep
<1>7. QED  BY <1>4, <1>5, <1>6

LEMMA InitPhases ==
  ASSUME Init
  PROVE  Apart /\ Leased /\ HighOnly /\ Attended /\ Phases
<1>1. Known = {} /\ active = {} /\ ~stopping
  BY DEF Init, Known, Live
<1>2. \A n \in Notifications : Cursor(n) /\ Fresh(n)
  BY InitCursor
<1>3. Apart
  BY DEF Init, Apart, Busy, Idle
<1>4. Leased /\ HighOnly /\ Attended
  BY <1>1, <1>2 DEF Leased, HighOnly, Top, Attended, Fresh
<1>5. ASSUME NEW n \in Notifications
      PROVE  Exact(n) /\ Continued(n)
  <2>1. Waiting(n) = {} /\ Ready(n) = {} /\ Trying(n) = {} /\ submit[n] = "new"
    BY <1>5 DEF Init, Waiting, Ready, Trying, Idle, EarlyPc
  <2>2. QED  BY <1>1, <2>1 DEF Exact, Continued, Top
<1>6. QED  BY <1>2, <1>3, <1>4, <1>5 DEF Phases

\* In either phase an accepted notification that is not settled has a job.
LEMMA PhasesSuffice == Phases => FaultlessNoneStranded
<1> SUFFICES ASSUME Phases, Faultless, NEW n \in Notifications, AskedOnce(n),
                    submit[n] = "accepted", row[n].status \notin Terminal, ~Asked(n)
             PROVE  \E job \in Live : job.notification = n
  BY DEF FaultlessNoneStranded, Stranded, Asked
<1>1. IF Fresh(n) THEN Continued(n) ELSE Second(n)
  BY DEF Phases
<1>2. CASE Fresh(n)
  BY <1>1, <1>2 DEF Continued
<1>3. CASE ~Fresh(n)
  BY <1>1, <1>3 DEF Second, Last, Job, Live
<1>4. QED  BY <1>2, <1>3

\* Without a fault, when delays outlast handlers, every notification that
\* Submit has accepted, whose retry was asked for once at most and that is
\* neither sent nor failed has a job that continues it or a request at work on
\* it: what Process and RetryDeadLetter write and enqueue in two stores never
\* leaves it behind.
THEOREM FaultlessNoneStrandedHolds ==
  ASSUME LongBackoff
  PROVE  Spec => []FaultlessNoneStranded
<1>1. Init => Apart /\ Leased /\ HighOnly /\ Attended /\ Phases
  BY InitPhases
<1>2. Base /\ TypeOK' /\ Apart /\ Leased /\ HighOnly /\ Attended /\ [Next]_vars =>
        Apart' /\ Leased' /\ HighOnly' /\ Attended'
  BY ApartStep, LeasedStep, HighOnlyStep, AttendedStep DEF Base, TypeInv
<1>3. /\ Base /\ OrderInv /\ Apart /\ Leased /\ HighOnly /\ Attended /\ Phases
      /\ Base' /\ OrderInv' /\ Apart' /\ Leased' /\ HighOnly' /\ [Next]_vars
      => Phases'
  BY PhasesStep DEF Ground
<1>4. Base => TypeOK
  BY DEF Base, TypeInv
<1>5. Phases => FaultlessNoneStranded
  BY PhasesSuffice
<1>6. QED
  BY <1>1, <1>2, <1>3, <1>4, <1>5, BaseHolds, OrderHolds, PTL DEF Spec
===============================================================================
