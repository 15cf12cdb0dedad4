---------------------------- MODULE DeliveryProofs ----------------------------
(***************************************************************************)
(* Theorems about Delivery, for every set of notifications, workers and    *)
(* requests, every MAX_RETRIES and every number of faults.                 *)
(***************************************************************************)
EXTENDS Delivery, SequenceTheorems, TLAPS

\* The statements of the repository and the names of jobs and log entries are
\* abbreviations, expanded throughout.
USE DEF StoreAttempts, Store, AddLog, AddLetter, MarkLetter, NextJob,
        RequeuedJob, Outcome, Exhausted

\* A worker that is at some point of Process holds a handler record.
LEMMA BusyIsHandler ==
  ASSUME TypeOK, NEW w \in Workers, Busy(w)
  PROVE  /\ worker[w] \in Handler
         /\ worker[w].job \in JobPayload
         /\ Subject(w) \in Notifications
BY DEF TypeOK, Busy, Idle, Handler, JobPayload, Subject

\* A request in progress holds a request record.
LEMMA ActiveIsRequest ==
  ASSUME TypeOK, NEW r \in Retriers, retry[r].pc \in RequestPc
  PROVE  /\ retry[r] \in Request
         /\ retry[r].notification \in Notifications
<1>1. retry[r] \in Request \cup RequestEnd \cup {Unmade}
  BY DEF TypeOK
<1>2. retry[r] \notin RequestEnd
  BY DEF RequestPc, RequestEnd
<1>3. retry[r] # Unmade
  BY DEF RequestPc, Unmade
<1>4. QED  BY <1>1, <1>2, <1>3 DEF Request

\* A table to which a letter was added has a letter.
LEMMA AddedLetter ==
  ASSUME NEW s \in Seq(BOOLEAN)
  PROVE  Append(s, FALSE) # <<>>
<1>1. Len(Append(s, FALSE)) = Len(s) + 1 /\ Len(s) \in Nat
  BY AppendProperties, LenProperties
<1>2. Len(s) + 1 # 0
  BY <1>1
<1>3. QED  BY <1>1, <1>2, EmptySeq

\* Setting retried_at of a letter leaves a sequence of letters, not emptied.
LEMMA MarkedIsSeq ==
  ASSUME NEW s \in Seq(BOOLEAN), NEW i \in Nat
  PROVE  /\ [s EXCEPT ![i] = TRUE] \in Seq(BOOLEAN)
         /\ s # <<>> => [s EXCEPT ![i] = TRUE] # <<>>
<1>1. CASE i \in 1..Len(s)
  <2>1. /\ [s EXCEPT ![i] = TRUE] \in Seq(BOOLEAN)
        /\ Len([s EXCEPT ![i] = TRUE]) = Len(s)
    BY <1>1, ExceptSeq
  <2>2. Len(s) # 0
    BY <1>1
  <2>3. QED  BY <2>1, <2>2, EmptySeq
<1>2. CASE i \notin 1..Len(s)
  <2>1. /\ s \in [1..Len(s) -> BOOLEAN]
        /\ DOMAIN s = 1..Len(s)
    BY LenProperties
  <2>2. [s EXCEPT ![i] = TRUE] = s
    BY <1>2, <2>1
  <2>3. QED  BY <2>2
<1>3. QED  BY <1>1, <1>2

-------------------------------------------------------------------------------
(* Type correctness, one lemma for each part of the system.  The type of a  *)
(* handler's copy needs References: a handler that found no row would copy   *)
(* the status "absent".                                                      *)

TypeInv == TypeOK /\ References

LEMMA FaultType ==
  ASSUME faults \in [FaultKinds -> Nat], NEW kind \in FaultKinds, Fault(kind)
  PROVE  faults' \in [FaultKinds -> Nat]
BY DEF Fault

LEMMA CountType ==
  ASSUME tally \in [Notifications -> [TallyKinds -> Nat]],
         NEW n \in Notifications, NEW kind \in TallyKinds, Count(n, kind)
  PROVE  tally' \in [Notifications -> [TallyKinds -> Nat]]
BY DEF Count

LEMMA PutType ==
  ASSUME NEW job \in JobPayload, NEW delayed \in BOOLEAN, Put(job, delayed),
         scheduled \in SUBSET JobPayload, pending \in SUBSET JobPayload
  PROVE  scheduled' \in SUBSET JobPayload /\ pending' \in SUBSET JobPayload
BY DEF Put

LEMMA SubmitType ==
  ASSUME TypeOK, NEW n \in Notifications, Submit(n)
  PROVE  TypeOK'
<1>1. CASE RejectUnsupported(n)
  BY <1>1 DEF RejectUnsupported, TypeOK, storeVars, queueVars, SubmitPc
<1>2. CASE CreateNotification(n)
  <2>1. faults' \in [FaultKinds -> Nat]
    BY <1>2, FaultType DEF CreateNotification, DbError, TypeOK, FaultKinds
  <2>2. row' \in [Notifications -> Row]
    <3>1. [status |-> "pending", attempts |-> 0] \in Row
      BY DEF Row, Status
    <3>2. Insert(n) => row' \in [Notifications -> Row]
      BY <3>1 DEF Insert, TypeOK
    <3>3. QED  BY <1>2, <3>2 DEF CreateNotification, DbError, TypeOK
  <2>3. submit' \in [Notifications -> SubmitPc]
    BY <1>2 DEF CreateNotification, TypeOK, SubmitPc
  <2>4. QED  BY <1>2, <2>1, <2>2, <2>3 DEF CreateNotification, TypeOK, queueVars
<1>3. CASE AppendFirstLog(n)
  <2>1. faults' \in [FaultKinds -> Nat]
    BY <1>3, FaultType DEF AppendFirstLog, DbError, TypeOK, FaultKinds
  <2>2. logs' \in SUBSET DeliveryLog
    BY <1>3 DEF AppendFirstLog, DbError, TypeOK, LogEntry, DeliveryLog, Status
  <2>3. submit' \in [Notifications -> SubmitPc]
    BY <1>3 DEF AppendFirstLog, TypeOK, SubmitPc
  <2>4. QED  BY <1>3, <2>1, <2>2, <2>3 DEF AppendFirstLog, TypeOK, queueVars
<1>4. CASE EnqueueFirst(n)
  <2>1. faults' \in [FaultKinds -> Nat]
    BY <1>4, FaultType DEF EnqueueFirst, Refused, ReplyLost, TypeOK, FaultKinds
  <2>2. Job(n, 1) \in JobPayload
    BY DEF Job, JobPayload
  <2>3. scheduled' \in SUBSET JobPayload /\ pending' \in SUBSET JobPayload
    BY <1>4, <2>2, PutType DEF EnqueueFirst, Refused, ReplyLost, TypeOK
  <2>4. submit' \in [Notifications -> SubmitPc]
    BY <1>4 DEF EnqueueFirst, TypeOK, SubmitPc
  <2>5. QED  BY <1>4, <2>1, <2>3, <2>4 DEF EnqueueFirst, TypeOK, storeVars
<1>5. QED  BY <1>1, <1>2, <1>3, <1>4 DEF Submit

LEMMA GotoType ==
  ASSUME TypeOK, NEW w \in Workers, Busy(w), NEW pc \in HandlerPc, Goto(w, pc)
  PROVE  worker' \in [Workers -> Handler \cup {Idle}]
<1>1. [worker[w] EXCEPT !.pc = pc] \in Handler
  BY BusyIsHandler DEF Handler
<1>2. worker' = [worker EXCEPT ![w] = [worker[w] EXCEPT !.pc = pc]]
  BY DEF Goto
<1>3. QED  BY <1>1, <1>2 DEF TypeOK

LEMMA ReturnType ==
  ASSUME TypeOK, NEW w \in Workers, Busy(w), NEW ok \in BOOLEAN, Return(w, ok)
  PROVE  /\ worker' \in [Workers -> Handler \cup {Idle}]
         /\ active' \in SUBSET JobPayload
         /\ archived' \in SUBSET JobPayload
BY BusyIsHandler DEF Return, TypeOK

LEMMA GetNotificationType ==
  ASSUME TypeInv, NEW w \in Workers, GetNotification(w)
  PROVE  TypeOK'
<1> DEFINE n == Subject(w)
           copy == [worker[w] EXCEPT !.pc = "increment",
                                     !.status = row[n].status,
                                     !.attempts = row[n].attempts + 1]
<1>1. Busy(w) /\ n \in Notifications /\ Exists(n) /\ TypeOK
  BY BusyIsHandler DEF GetNotification, At, Busy, TypeInv, References
<1>2. faults' \in [FaultKinds -> Nat]
  BY <1>1, FaultType DEF GetNotification, TypeOK, FaultKinds
<1>3. copy \in Handler
  <2>1. row[n] \in Row /\ row[n].status # "absent"
    BY <1>1 DEF TypeOK, Exists
  <2>2. row[n].status \in Status /\ row[n].attempts + 1 \in Nat
    BY <2>1 DEF Row
  <2>3. worker[w] \in Handler
    BY <1>1, BusyIsHandler
  <2>4. QED  BY <2>2, <2>3 DEF Handler, HandlerPc
<1>4. CASE Return(w, TRUE) \/ Return(w, FALSE)
  <2>1. /\ worker' \in [Workers -> Handler \cup {Idle}]
        /\ active' \in SUBSET JobPayload
        /\ archived' \in SUBSET JobPayload
    BY <1>1, <1>4, ReturnType
  <2>2. QED  BY <1>1, <1>2, <2>1 DEF GetNotification, TypeOK, storeVars
<1>5. CASE worker' = [worker EXCEPT ![w] = copy] /\ UNCHANGED <<active, archived>>
  <2>1. worker' \in [Workers -> Handler \cup {Idle}]
    BY <1>1, <1>3, <1>5 DEF TypeOK
  <2>2. QED  BY <1>1, <1>2, <1>5, <2>1 DEF GetNotification, TypeOK, storeVars
<1>6. QED  BY <1>4, <1>5 DEF GetNotification

LEMMA IncrementAttemptsType ==
  ASSUME TypeOK, NEW w \in Workers, IncrementAttempts(w)
  PROVE  TypeOK'
<1> DEFINE n == Subject(w)
           count == [row EXCEPT ![n].attempts = worker[w].attempts]
<1>1. Busy(w) /\ n \in Notifications /\ worker[w] \in Handler
  BY BusyIsHandler DEF IncrementAttempts, At, Busy
<1>2. faults' \in [FaultKinds -> Nat]
  BY FaultType DEF IncrementAttempts, DbError, TypeOK, FaultKinds
<1>3. row' \in [Notifications -> Row]
  <2>1. [row[n] EXCEPT !.attempts = worker[w].attempts] \in Row
    <3>1. row[n] \in Row
      BY <1>1 DEF TypeOK
    <3>2. worker[w].attempts \in Nat
      BY <1>1 DEF Handler
    <3>3. QED  BY <3>1, <3>2 DEF Row
  <2>2. count = [row EXCEPT ![n] = [row[n] EXCEPT !.attempts = worker[w].attempts]]
    OBVIOUS
  <2>3. row' = count \/ row' = row
    BY DEF IncrementAttempts, DbError
  <2>4. QED  BY <2>1, <2>2, <2>3 DEF TypeOK
<1>4. tally' \in [Notifications -> [TallyKinds -> Nat]]
  BY <1>1, CountType DEF IncrementAttempts, TypeOK, TallyKinds
<1>5. /\ worker' \in [Workers -> Handler \cup {Idle}]
      /\ active' \in SUBSET JobPayload
      /\ archived' \in SUBSET JobPayload
  <2>1. CASE Goto(w, "sending") /\ UNCHANGED <<active, archived>>
    BY <1>1, <2>1, GotoType DEF HandlerPc, TypeOK
  <2>2. CASE Return(w, FALSE)
    BY <1>1, <2>2, ReturnType
  <2>3. QED  BY <2>1, <2>2 DEF IncrementAttempts
<1>6. QED  BY <1>2, <1>3, <1>4, <1>5 DEF IncrementAttempts, TypeOK

LEMMA SendReturnsType ==
  ASSUME TypeOK, NEW w \in Workers, SendReturns(w)
  PROVE  TypeOK'
<1>1. Busy(w) /\ Subject(w) \in Notifications /\ worker[w] \in Handler
  BY BusyIsHandler DEF SendReturns, At, Busy
<1>2. tally' \in [Notifications -> [TallyKinds -> Nat]]
  BY <1>1, CountType DEF SendReturns, TypeOK, TallyKinds
<1>3. \E pc \in HandlerPc, s \in Status :
        worker' = [worker EXCEPT ![w].pc = pc, ![w].status = s]
  BY DEF SendReturns, HandlerPc, Status
<1>4. worker' \in [Workers -> Handler \cup {Idle}]
  <2>1. PICK pc \in HandlerPc, s \in Status :
          worker' = [worker EXCEPT ![w] =
                       [worker[w] EXCEPT !.pc = pc, !.status = s]]
    BY <1>3
  <2>2. [worker[w] EXCEPT !.pc = pc, !.status = s] \in Handler
    BY <1>1 DEF Handler
  <2>3. QED  BY <2>1, <2>2 DEF TypeOK
<1>5. QED  BY <1>2, <1>4 DEF SendReturns, TypeOK, storeVars, queueVars

LEMMA CreateDeadLetterType ==
  ASSUME TypeOK, NEW w \in Workers, CreateDeadLetter(w)
  PROVE  TypeOK'
<1>1. Busy(w) /\ Subject(w) \in Notifications
  BY BusyIsHandler DEF CreateDeadLetter, At, Busy
<1>2. faults' \in [FaultKinds -> Nat]
  BY FaultType DEF CreateDeadLetter, DbError, TypeOK, FaultKinds
<1>3. letters' \in [Notifications -> Seq(BOOLEAN)]
  <2>1. Append(letters[Subject(w)], FALSE) \in Seq(BOOLEAN)
    BY <1>1 DEF TypeOK
  <2>2. QED  BY <2>1 DEF CreateDeadLetter, DbError, TypeOK
<1>4. worker' \in [Workers -> Handler \cup {Idle}]
  BY <1>1, GotoType DEF CreateDeadLetter, HandlerPc
<1>5. QED  BY <1>2, <1>3, <1>4 DEF CreateDeadLetter, TypeOK, queueVars

LEMMA ScheduleRetryType ==
  ASSUME TypeOK, NEW w \in Workers, ScheduleRetry(w)
  PROVE  TypeOK'
<1> DEFINE next == Job(Subject(w), worker[w].attempts + 1)
<1>1. Busy(w) /\ Subject(w) \in Notifications /\ worker[w] \in Handler
  BY BusyIsHandler DEF ScheduleRetry, At, Busy
<1>2. faults' \in [FaultKinds -> Nat]
  BY FaultType DEF ScheduleRetry, Refused, ReplyLost, TypeOK, FaultKinds
<1>3. next \in JobPayload
  BY <1>1 DEF Job, JobPayload, Handler
<1>4. scheduled' \in SUBSET JobPayload /\ pending' \in SUBSET JobPayload
  <2>1. CASE Put(next, TRUE)
    BY <1>3, <2>1, PutType DEF TypeOK
  <2>2. CASE UNCHANGED <<scheduled, pending>>
    BY <2>2 DEF TypeOK
  <2>3. QED  BY <2>1, <2>2 DEF ScheduleRetry, Refused, ReplyLost
<1>5. /\ worker' \in [Workers -> Handler \cup {Idle}]
      /\ active' \in SUBSET JobPayload
      /\ archived' \in SUBSET JobPayload
  <2>1. CASE Goto(w, "update") /\ UNCHANGED <<active, archived>>
    BY <1>1, <2>1, GotoType DEF HandlerPc, TypeOK
  <2>2. CASE Return(w, FALSE)
    BY <1>1, <2>2, ReturnType
  <2>3. QED  BY <2>1, <2>2 DEF ScheduleRetry
<1>6. QED  BY <1>2, <1>4, <1>5 DEF ScheduleRetry, TypeOK, storeVars

LEMMA UpdateNotificationType ==
  ASSUME TypeOK, NEW w \in Workers, UpdateNotification(w)
  PROVE  TypeOK'
<1>1. Busy(w) /\ Subject(w) \in Notifications /\ worker[w] \in Handler
  BY BusyIsHandler DEF UpdateNotification, At, Busy
<1>2. faults' \in [FaultKinds -> Nat]
  BY FaultType DEF UpdateNotification, DbError, TypeOK, FaultKinds
<1>3. row' \in [Notifications -> Row]
  <2>1. [status |-> worker[w].status, attempts |-> worker[w].attempts] \in Row
    BY <1>1 DEF Row, Handler
  <2>2. QED  BY <2>1 DEF UpdateNotification, DbError, TypeOK
<1>4. /\ worker' \in [Workers -> Handler \cup {Idle}]
      /\ active' \in SUBSET JobPayload
      /\ archived' \in SUBSET JobPayload
  <2>1. CASE Goto(w, "appendLog") /\ UNCHANGED <<active, archived>>
    BY <1>1, <2>1, GotoType DEF HandlerPc, TypeOK
  <2>2. CASE Return(w, FALSE)
    BY <1>1, <2>2, ReturnType
  <2>3. QED  BY <2>1, <2>2 DEF UpdateNotification
<1>5. QED  BY <1>2, <1>3, <1>4 DEF UpdateNotification, TypeOK

LEMMA LogEntryType ==
  ASSUME TypeOK, NEW w \in Workers, Busy(w)
  PROVE  LogEntry(Subject(w), worker[w].attempts, worker[w].status)
           \in DeliveryLog
BY BusyIsHandler DEF LogEntry, DeliveryLog, Handler

LEMMA AppendLogType ==
  ASSUME TypeOK, NEW w \in Workers, AppendLog(w)
  PROVE  TypeOK'
<1>1. Busy(w)
  BY DEF AppendLog, At, Busy
<1>2. faults' \in [FaultKinds -> Nat]
  BY FaultType DEF AppendLog, DbError, TypeOK, FaultKinds
<1>3. logs' \in SUBSET DeliveryLog
  <2> DEFINE entry == LogEntry(Subject(w), worker[w].attempts, worker[w].status)
  <2>1. entry \in DeliveryLog
    BY <1>1, LogEntryType
  <2>2. logs' = logs \cup {entry} \/ logs' = logs
    BY DEF AppendLog, DbError
  <2>3. QED  BY <2>1, <2>2 DEF TypeOK
<1>4. /\ worker' \in [Workers -> Handler \cup {Idle}]
      /\ active' \in SUBSET JobPayload
      /\ archived' \in SUBSET JobPayload
  <2>1. CASE Goto(w, "finish") /\ UNCHANGED <<active, archived>>
    BY <1>1, <2>1, GotoType DEF HandlerPc, TypeOK
  <2>2. CASE Return(w, FALSE)
    BY <1>1, <2>2, ReturnType
  <2>3. QED  BY <2>1, <2>2 DEF AppendLog
<1>5. QED  BY <1>2, <1>3, <1>4 DEF AppendLog, TypeOK

LEMMA FinishType ==
  ASSUME TypeOK, NEW w \in Workers, Finish(w)
  PROVE  TypeOK'
<1>1. Busy(w)
  BY DEF Finish, At, Busy
<1>2. faults' \in [FaultKinds -> Nat]
  BY FaultType DEF Finish, TypeOK, FaultKinds
<1>3. callbacks' \in SUBSET DeliveryLog
  BY <1>1, LogEntryType DEF Finish, TypeOK
<1>4. /\ worker' \in [Workers -> Handler \cup {Idle}]
      /\ active' \in SUBSET JobPayload
      /\ archived' \in SUBSET JobPayload
  BY <1>1, ReturnType DEF Finish
<1>5. QED  BY <1>2, <1>3, <1>4 DEF Finish, TypeOK, storeVars

LEMMA ProcessType ==
  ASSUME TypeInv, NEW w \in Workers, Process(w)
  PROVE  TypeOK'
BY GetNotificationType, IncrementAttemptsType, SendReturnsType,
   CreateDeadLetterType, ScheduleRetryType, UpdateNotificationType,
   AppendLogType, FinishType DEF Process, TypeInv

LEMMA QueueType ==
  ASSUME TypeOK,
         \/ \E job \in scheduled : Forward(job)
         \/ \E job \in pending, w \in Workers : Dequeue(w, job)
         \/ \E job \in active : LeaseExpired(job)
  PROVE  TypeOK'
<1>1. ASSUME NEW job \in scheduled, Forward(job)
      PROVE  TypeOK'
  BY <1>1 DEF Forward, TypeOK, storeVars, actorVars
<1>2. ASSUME NEW job \in pending, NEW w \in Workers, Dequeue(w, job)
      PROVE  TypeOK'
  <2>1. [pc |-> "get", job |-> job, status |-> "pending", attempts |-> 0]
          \in Handler
    BY DEF TypeOK, Handler, HandlerPc, Status
  <2>2. worker' \in [Workers -> Handler \cup {Idle}]
    BY <1>2, <2>1 DEF Dequeue, TypeOK
  <2>3. QED  BY <1>2, <2>2 DEF Dequeue, TypeOK, storeVars
<1>3. ASSUME NEW job \in active, LeaseExpired(job)
      PROVE  TypeOK'
  BY <1>3 DEF LeaseExpired, TypeOK, storeVars, actorVars
<1>4. QED  BY <1>1, <1>2, <1>3

LEMMA RetryType ==
  ASSUME TypeOK, NEW r \in Retriers,
         RetryDeadLetter(r) \/ \E n \in Notifications : RetryRead(r, n)
  PROVE  TypeOK'
<1>1. ASSUME NEW n \in Notifications, RetryRead(r, n)
      PROVE  TypeOK'
  <2>1. PICK i \in DOMAIN letters[n] :
          retry' = [retry EXCEPT ![r] =
            [pc |-> "update", notification |-> n, letter |-> i,
             attempts |-> row[n].attempts]]
    BY <1>1 DEF RetryRead
  <2>2. letters[n] \in Seq(BOOLEAN) /\ row[n] \in Row
    BY DEF TypeOK
  <2>3. i \in Nat /\ row[n].attempts \in Nat
    BY <2>2, LenProperties DEF Row
  <2>4. retry' \in [Retriers -> Request \cup RequestEnd \cup {Unmade}]
    BY <2>1, <2>3 DEF TypeOK, Request, RequestPc
  <2>5. QED  BY <1>1, <2>4 DEF RetryRead, TypeOK, storeVars, queueVars
<1>2. ASSUME retry[r].pc \in RequestPc,
             \/ \E pc \in RequestPc : retry' = [retry EXCEPT ![r].pc = pc]
             \/ \E pc \in {"requeued", "failed"} : EndRequest(r, pc)
      PROVE  retry' \in [Retriers -> Request \cup RequestEnd \cup {Unmade}]
  <2>1. retry[r] \in Request
    BY <1>2, ActiveIsRequest
  <2>2. \A pc \in RequestPc : [retry[r] EXCEPT !.pc = pc] \in Request
    BY <2>1 DEF Request
  <2>3. \A pc \in {"requeued", "failed"} : Ended(r, pc) \in RequestEnd
    BY <2>1 DEF Ended, Request, RequestEnd
  <2>4. QED  BY <1>2, <2>2, <2>3 DEF EndRequest, TypeOK
<1>3. CASE RetryUpdate(r)
  <2>1. retry[r] \in Request
    BY <1>3, ActiveIsRequest DEF RetryUpdate, RequestAt, RequestPc
  <2>2. faults' \in [FaultKinds -> Nat]
    BY <1>3, FaultType DEF RetryUpdate, DbError, TypeOK, FaultKinds
  <2>3. row' \in [Notifications -> Row]
    <3>1. [status |-> "pending", attempts |-> retry[r].attempts] \in Row
      BY <2>1 DEF Row, Status, Request
    <3>2. QED  BY <1>3, <3>1 DEF RetryUpdate, DbError, TypeOK
  <2>4. retry' \in [Retriers -> Request \cup RequestEnd \cup {Unmade}]
    BY <1>2, <1>3 DEF RetryUpdate, RequestAt, RequestPc
  <2>5. QED  BY <1>3, <2>2, <2>3, <2>4 DEF RetryUpdate, TypeOK, queueVars
<1>4. CASE RetryMark(r)
  <2>1. retry[r] \in Request
    BY <1>4, ActiveIsRequest DEF RetryMark, RequestAt, RequestPc
  <2>2. faults' \in [FaultKinds -> Nat]
    BY <1>4, FaultType DEF RetryMark, DbError, TypeOK, FaultKinds
  <2>3. letters' \in [Notifications -> Seq(BOOLEAN)]
    <3> DEFINE n == retry[r].notification
               i == retry[r].letter
    <3>1. [letters[n] EXCEPT ![i] = TRUE] \in Seq(BOOLEAN)
      BY <2>1, MarkedIsSeq DEF TypeOK, Request
    <3>2. \/ letters' = [letters EXCEPT ![n] = [letters[n] EXCEPT ![i] = TRUE]]
          \/ letters' = letters
      BY <1>4 DEF RetryMark, DbError
    <3>3. QED  BY <3>1, <3>2 DEF TypeOK
  <2>4. retry' \in [Retriers -> Request \cup RequestEnd \cup {Unmade}]
    BY <1>2, <1>4 DEF RetryMark, RequestAt, RequestPc
  <2>5. QED  BY <1>4, <2>2, <2>3, <2>4 DEF RetryMark, TypeOK, queueVars
<1>5. CASE RetryEnqueue(r)
  <2> DEFINE n == retry[r].notification
             job == Job(n, retry[r].attempts + 1)
  <2>1. retry[r] \in Request
    BY <1>5, ActiveIsRequest DEF RetryEnqueue, RequestAt, RequestPc
  <2>2. n \in Notifications /\ job \in JobPayload
    BY <2>1 DEF Request, Job, JobPayload
  <2>3. faults' \in [FaultKinds -> Nat]
    BY <1>5, FaultType DEF RetryEnqueue, Refused, ReplyLost, TypeOK, FaultKinds
  <2>4. scheduled' \in SUBSET JobPayload /\ pending' \in SUBSET JobPayload
    <3>1. CASE Put(job, FALSE)
      BY <2>2, <3>1, PutType DEF TypeOK
    <3>2. CASE UNCHANGED <<scheduled, pending>>
      BY <3>2 DEF TypeOK
    <3>3. QED  BY <1>5, <3>1, <3>2 DEF RetryEnqueue, Refused, ReplyLost
  <2>5. tally' \in [Notifications -> [TallyKinds -> Nat]]
    BY <1>5, <2>2, CountType DEF RetryEnqueue, TypeOK, TallyKinds
  <2>6. retry' \in [Retriers -> Request \cup RequestEnd \cup {Unmade}]
    BY <1>2, <1>5 DEF RetryEnqueue, RequestAt, RequestPc
  <2>7. QED  BY <1>5, <2>3, <2>4, <2>5, <2>6 DEF RetryEnqueue, TypeOK, storeVars
<1>6. QED  BY <1>1, <1>3, <1>4, <1>5 DEF RetryDeadLetter

LEMMA RestartType ==
  ASSUME TypeOK, Crash \/ Stop \/ Exit
  PROVE  TypeOK'
<1>1. faults' \in [FaultKinds -> Nat]
  BY FaultType DEF Crash, Stop, Exit, TypeOK, FaultKinds
<1>2. CASE Stop
  BY <1>1, <1>2 DEF Stop, TypeOK, storeVars, queueVars, actorVars
<1>3. CASE Restart
  <2>1. submit' \in [Notifications -> SubmitPc]
    BY <1>3 DEF Restart, TypeOK, SubmitPc
  <2>2. worker' \in [Workers -> Handler \cup {Idle}]
    BY <1>3 DEF Restart
  <2>3. retry' \in [Retriers -> Request \cup RequestEnd \cup {Unmade}]
    <3>1. ASSUME NEW r \in Retriers, retry[r].pc \in RequestPc
          PROVE  Ended(r, "failed") \in RequestEnd
      BY <3>1, ActiveIsRequest DEF Ended, RequestEnd
    <3>2. QED  BY <1>3, <3>1 DEF Restart, TypeOK
  <2>4. QED  BY <1>1, <1>3, <2>1, <2>2, <2>3
             DEF Restart, TypeOK, storeVars, queueVars
<1>4. QED  BY <1>2, <1>3 DEF Crash, Exit

LEMMA AbortType ==
  ASSUME TypeOK, NEW w \in Workers, Abort(w)
  PROVE  TypeOK'
<1>1. worker[w].job \in JobPayload /\ Subject(w) \in Notifications
  BY BusyIsHandler DEF Abort
<1>2. tally' \in [Notifications -> [TallyKinds -> Nat]]
  BY <1>1, CountType DEF Abort, TypeOK, TallyKinds
<1>3. worker' \in [Workers -> Handler \cup {Idle}]
  BY DEF Abort, TypeOK
<1>4. QED  BY <1>1, <1>2, <1>3 DEF Abort, TypeOK, storeVars

LEMMA InitType == Init => TypeOK
<1> SUFFICES ASSUME Init PROVE TypeOK
  OBVIOUS
<1>1. row \in [Notifications -> Row]
  BY DEF Init, Row, Absent
<1>2. letters \in [Notifications -> Seq(BOOLEAN)]
  BY EmptySeq DEF Init
<1>3. submit \in [Notifications -> SubmitPc]
  BY DEF Init, SubmitPc
<1>4. retry \in [Retriers -> Request \cup RequestEnd \cup {Unmade}]
  BY DEF Init
<1>5. faults \in [FaultKinds -> Nat] /\ tally \in [Notifications -> [TallyKinds -> Nat]]
  BY DEF Init
<1>6. QED  BY <1>1, <1>2, <1>3, <1>4, <1>5 DEF Init, TypeOK

LEMMA TypeStep ==
  ASSUME TypeInv, [Next]_vars
  PROVE  TypeOK'
<1>1. TypeOK
  BY DEF TypeInv
<1>2. CASE UNCHANGED vars
  BY <1>1, <1>2 DEF vars, TypeOK
<1>3. CASE Next
  BY <1>1, <1>3, SubmitType, QueueType, ProcessType, AbortType, RetryType,
     RestartType DEF Next
<1>4. QED  BY <1>2, <1>3

-------------------------------------------------------------------------------
(* References: what refers to a notification refers to a row.               *)

LEMMA RowWritten ==
  ASSUME TypeOK, NEW n \in Notifications, Exists(n),
         NEW m, NEW x, x.status # "absent", row' = [row EXCEPT ![m] = x]
  PROVE  Exists(n)'
BY DEF TypeOK, Exists

\* No step deletes a row.
LEMMA RowsStay ==
  ASSUME TypeInv, [Next]_vars, NEW n \in Notifications, Exists(n)
  PROVE  Exists(n)'
<1> USE DEF Exists, TypeInv
<1>1. CASE row' = row
  BY <1>1
<1>2. CASE \E m \in Notifications : row' = [row EXCEPT ![m] =
                              [status |-> "pending", attempts |-> 0]]
  BY <1>2, RowWritten
<1>3. CASE \E w \in Workers : IncrementAttempts(w) \/ UpdateNotification(w)
  <2>1. PICK w \in Workers : IncrementAttempts(w) \/ UpdateNotification(w)
    BY <1>3
  <2>2. worker[w] \in Handler
    BY <2>1, BusyIsHandler DEF IncrementAttempts, UpdateNotification, At, Busy
  <2>3. worker[w].status \in Status
    BY <2>2 DEF Handler
  <2>4. \/ row' = [row EXCEPT ![Subject(w)].attempts = worker[w].attempts]
        \/ row' = [row EXCEPT ![Subject(w)] =
             [status |-> worker[w].status, attempts |-> worker[w].attempts]]
        \/ row' = row
    BY <2>1 DEF IncrementAttempts, UpdateNotification, DbError
  <2>5. CASE row' = [row EXCEPT ![Subject(w)] =
               [status |-> worker[w].status, attempts |-> worker[w].attempts]]
    BY <2>3, <2>5, RowWritten DEF Status
  <2>6. CASE row' = [row EXCEPT ![Subject(w)].attempts = worker[w].attempts]
    <3>1. row[n] \in Row
      BY DEF TypeOK
    <3>2. row'[n].status = row[n].status
      BY <2>6, <3>1 DEF TypeOK, Row
    <3>3. QED  BY <3>2
  <2>7. QED  BY <1>1, <2>4, <2>5, <2>6
<1>4. CASE \E r \in Retriers : RetryUpdate(r)
  <2>1. PICK r \in Retriers : RetryUpdate(r)
    BY <1>4
  <2> DEFINE x == [status |-> "pending", attempts |-> retry[r].attempts]
  <2>2. \/ row' = [row EXCEPT ![retry[r].notification] = x]
        \/ row' = row
    BY <2>1 DEF RetryUpdate, DbError
  <2>3. x.status # "absent"
    OBVIOUS
  <2> HIDE DEF x
  <2>4. QED  BY <1>1, <2>2, <2>3, RowWritten
<1>5. QED
  <2>1. CASE UNCHANGED vars
    BY <1>1, <2>1 DEF vars
  <2>2. ASSUME NEW m \in Notifications, Submit(m)
        PROVE  Exists(n)'
    BY <1>1, <1>2, <2>2 DEF Submit, RejectUnsupported, CreateNotification,
       AppendFirstLog, EnqueueFirst, storeVars, DbError, Insert
  <2>3. ASSUME NEW w \in Workers, Process(w) \/ Abort(w)
        PROVE  Exists(n)'
    BY <1>1, <1>3, <2>3 DEF Process, GetNotification, SendReturns,
       CreateDeadLetter, ScheduleRetry, AppendLog, Finish, Abort, storeVars
  <2>4. ASSUME NEW r \in Retriers, NEW m \in Notifications,
               RetryRead(r, m) \/ RetryDeadLetter(r)
        PROVE  Exists(n)'
    BY <1>1, <1>4, <2>4 DEF RetryRead, RetryDeadLetter, RetryMark,
       RetryEnqueue, storeVars
  <2>5. ASSUME \/ \E job \in scheduled : Forward(job)
               \/ \E job \in pending, w \in Workers : Dequeue(w, job)
               \/ \E job \in active : LeaseExpired(job)
               \/ Crash \/ Stop \/ Exit
        PROVE  Exists(n)'
    BY <1>1, <2>5 DEF Forward, Dequeue, LeaseExpired, Crash, Stop, Exit,
       Restart, storeVars
  <2>6. QED  BY <2>1, <2>2, <2>3, <2>4, <2>5 DEF Next

\* The jobs that a step can bring into the queue.
NewJobs ==
  {worker[w].job : w \in {x \in Workers : Busy(x)}}
    \cup {Job(Subject(w), worker[w].attempts + 1) :
           w \in {x \in Workers : At(x, "reschedule")}}
    \cup {Job(retry[r].notification, retry[r].attempts + 1) :
           r \in {x \in Retriers : RequestAt(x, "enqueue")}}
    \cup {Job(n, 1) : n \in {x \in Notifications : submit[x] = "enqueue"}}

LEMMA PutAdds ==
  ASSUME NEW job, NEW delayed \in BOOLEAN,
         \/ Put(job, delayed) \/ Refused(job) \/ ReplyLost(job, delayed)
  PROVE  scheduled' \cup pending' \subseteq scheduled \cup pending \cup {job}
BY DEF Put, Refused, ReplyLost

LEMMA ReturnAdds ==
  ASSUME NEW w \in Workers, NEW ok \in BOOLEAN, Return(w, ok)
  PROVE  active' \cup archived' \subseteq active \cup archived \cup {worker[w].job}
BY DEF Return

LEMMA KnownStep ==
  ASSUME [Next]_vars
  PROVE  Known' \subseteq Known \cup NewJobs
<1> USE DEF Known, Live
<1>1. CASE UNCHANGED queueVars
  BY <1>1 DEF queueVars
<1>2. ASSUME NEW n \in Notifications, EnqueueFirst(n)
      PROVE  Known' \subseteq Known \cup NewJobs
  <2>1. Job(n, 1) \in NewJobs
    BY <1>2 DEF EnqueueFirst, NewJobs
  <2>2. scheduled' \cup pending' \subseteq scheduled \cup pending \cup {Job(n, 1)}
    BY <1>2, PutAdds DEF EnqueueFirst
  <2>3. QED  BY <1>2, <2>1, <2>2 DEF EnqueueFirst
<1>3. ASSUME NEW job, Forward(job) \/ LeaseExpired(job)
      PROVE  Known' \subseteq Known \cup NewJobs
  BY <1>3 DEF Forward, LeaseExpired
<1>4. ASSUME NEW job, NEW w \in Workers, Dequeue(w, job)
      PROVE  Known' \subseteq Known \cup NewJobs
  BY <1>4 DEF Dequeue
<1>5. ASSUME NEW w \in Workers, Process(w) \/ Abort(w)
      PROVE  Known' \subseteq Known \cup NewJobs
  <2>1. worker[w].job \in NewJobs
    <3>1. Busy(w)
      BY <1>5 DEF Process, Abort, GetNotification, IncrementAttempts,
         SendReturns, CreateDeadLetter, ScheduleRetry, UpdateNotification,
         AppendLog, Finish, At, Busy
    <3>2. QED  BY <3>1 DEF NewJobs
  <2>2. CASE ScheduleRetry(w)
    <3> DEFINE next == Job(Subject(w), worker[w].attempts + 1)
    <3>1. next \in NewJobs
      BY <2>2 DEF ScheduleRetry, NewJobs
    <3>2. scheduled' \cup pending' \subseteq scheduled \cup pending \cup {next}
      BY <2>2, PutAdds DEF ScheduleRetry
    <3>3. active' \cup archived' \subseteq active \cup archived \cup {worker[w].job}
      BY <2>2, ReturnAdds DEF ScheduleRetry
    <3>4. QED  BY <2>1, <3>1, <3>2, <3>3
  <2>3. CASE Abort(w)
    BY <2>1, <2>3 DEF Abort
  <2>4. CASE \/ GetNotification(w) \/ IncrementAttempts(w)
             \/ UpdateNotification(w) \/ AppendLog(w) \/ Finish(w)
    <3>1. UNCHANGED <<scheduled, pending>>
      BY <2>4 DEF GetNotification, IncrementAttempts, UpdateNotification,
         AppendLog, Finish
    <3>2. active' \cup archived' \subseteq active \cup archived \cup {worker[w].job}
      BY <2>4, ReturnAdds DEF GetNotification, IncrementAttempts,
         UpdateNotification, AppendLog, Finish
    <3>3. QED  BY <2>1, <3>1, <3>2
  <2>5. CASE SendReturns(w) \/ CreateDeadLetter(w)
    BY <1>1, <2>5 DEF SendReturns, CreateDeadLetter
  <2>6. QED  BY <1>5, <2>2, <2>3, <2>4, <2>5 DEF Process
<1>6. ASSUME NEW r \in Retriers, RetryEnqueue(r)
      PROVE  Known' \subseteq Known \cup NewJobs
  <2> DEFINE job == Job(retry[r].notification, retry[r].attempts + 1)
  <2>1. job \in NewJobs
    BY <1>6 DEF RetryEnqueue, NewJobs
  <2>2. scheduled' \cup pending' \subseteq scheduled \cup pending \cup {job}
    BY <1>6, PutAdds DEF RetryEnqueue
  <2>3. QED  BY <1>6, <2>1, <2>2 DEF RetryEnqueue
<1>7. QED
  BY <1>1, <1>2, <1>3, <1>4, <1>5, <1>6 DEF Next, vars, queueVars, Submit,
     RejectUnsupported, CreateNotification, AppendFirstLog, RetryRead,
     RetryDeadLetter, RetryUpdate, RetryMark, Crash, Stop, Exit, Restart

\* A handler keeps the job it was given, which came from the queue.
LEMMA JobKept ==
  ASSUME TypeOK, [Next]_vars, NEW w \in Workers, Busy(w)'
  PROVE  \/ Busy(w) /\ worker'[w].job = worker[w].job
         \/ worker'[w].job \in pending
<1> USE DEF TypeOK, Busy
<1>1. CASE UNCHANGED worker
  BY <1>1
<1>2. ASSUME NEW v \in Workers, NEW job \in pending, Dequeue(v, job)
      PROVE  \/ Busy(w) /\ worker'[w].job = worker[w].job
             \/ worker'[w].job \in pending
  BY <1>2 DEF Dequeue
<1>3. ASSUME NEW v \in Workers, Process(v) \/ Abort(v)
      PROVE  Busy(w) /\ worker'[w].job = worker[w].job
  <2>1. CASE v # w
    <3>1. worker'[w] = worker[w]
      BY <1>3, <2>1 DEF Process, Abort, GetNotification, IncrementAttempts,
         SendReturns, CreateDeadLetter, ScheduleRetry, UpdateNotification,
         AppendLog, Finish, Return, Goto
    <3>2. QED  BY <3>1
  <2>2. CASE v = w
    <3>1. Busy(w) /\ worker[w] \in Handler
      BY <1>3, <2>2, BusyIsHandler DEF Process, Abort, GetNotification,
         IncrementAttempts, SendReturns, CreateDeadLetter, ScheduleRetry,
         UpdateNotification, AppendLog, Finish, At
    <3>2. CASE \E ok \in BOOLEAN : Return(w, ok)
      BY <3>1, <3>2 DEF Return, Idle
    <3>3. CASE \E pc \in HandlerPc : Goto(w, pc)
      BY <3>1, <3>3 DEF Goto, Handler
    <3>4. CASE GetNotification(w)
      <4>1. CASE worker' = [worker EXCEPT
                   ![w].pc = "increment",
                   ![w].status = row[Subject(w)].status,
                   ![w].attempts = row[Subject(w)].attempts + 1]
        <5>1. worker \in [Workers -> Handler \cup {Idle}]
          OBVIOUS
        <5>2. worker'[w].job = worker[w].job
          BY ONLY <3>1, <4>1, <5>1 DEF Handler
        <5>3. QED  BY <3>1, <5>2
      <4>2. CASE Return(w, TRUE) \/ Return(w, FALSE)
        BY <3>2, <4>2
      <4>3. QED  BY <3>4, <4>1, <4>2 DEF GetNotification
    <3>5. CASE SendReturns(w)
      BY <3>1, <3>5 DEF SendReturns, Handler
    <3>6. CASE Abort(w)
      BY <3>1, <3>6 DEF Abort, Idle
    <3>7. QED
      BY <1>3, <2>2, <3>2, <3>3, <3>4, <3>5, <3>6 DEF Process,
         IncrementAttempts, CreateDeadLetter, ScheduleRetry,
         UpdateNotification, AppendLog, Finish, HandlerPc
  <2>3. QED  BY <2>1, <2>2
<1>4. CASE Restart
  BY <1>4 DEF Restart, Idle
<1>5. QED
  BY <1>1, <1>2, <1>3, <1>4 DEF Next, vars, Submit, RejectUnsupported,
     CreateNotification, AppendFirstLog, EnqueueFirst, Forward, LeaseExpired,
     actorVars, RetryRead, RetryDeadLetter, RetryUpdate, RetryMark,
     RetryEnqueue, Crash, Stop, Exit

\* A request keeps the notification of the letter it was made for.
LEMMA NotificationKept ==
  ASSUME TypeOK, [Next]_vars, NEW r \in Retriers, (retry[r].pc \in RequestPc)'
  PROVE  \/ /\ retry[r].pc \in RequestPc
            /\ retry'[r].notification = retry[r].notification
         \/ /\ retry'[r].notification \in Notifications
            /\ Buried(retry'[r].notification)
<1> USE DEF TypeOK, RequestPc
<1>1. CASE UNCHANGED retry
  BY <1>1
<1>2. ASSUME NEW q \in Retriers, NEW n \in Notifications, RetryRead(q, n)
      PROVE  \/ /\ retry[r].pc \in RequestPc
                /\ retry'[r].notification = retry[r].notification
             \/ /\ retry'[r].notification \in Notifications
                /\ Buried(retry'[r].notification)
  <2>1. CASE q # r
    BY <1>2, <2>1 DEF RetryRead
  <2>2. CASE q = r
    <3>1. PICK i \in DOMAIN letters[n] : retry'[r].notification = n
      BY <1>2, <2>2 DEF RetryRead
    <3>2. Buried(n)
      BY <3>1, EmptySeq DEF Buried
    <3>3. QED  BY <3>1, <3>2
  <2>3. QED  BY <2>1, <2>2
<1>3. ASSUME NEW q \in Retriers, RetryDeadLetter(q)
      PROVE  /\ retry[r].pc \in RequestPc
             /\ retry'[r].notification = retry[r].notification
  <2>1. CASE q # r
    <3>1. retry'[r] = retry[r]
      BY <1>3, <2>1 DEF RetryDeadLetter, RetryUpdate, RetryMark, RetryEnqueue,
         EndRequest
    <3>2. QED  BY <3>1
  <2>2. CASE q = r
    <3>1. retry[r].pc \in RequestPc /\ retry[r] \in Request
      BY <1>3, <2>2, ActiveIsRequest DEF RetryDeadLetter, RetryUpdate,
         RetryMark, RetryEnqueue, RequestAt
    <3>2. \/ \E pc \in {"requeued", "failed"} : EndRequest(r, pc)
          \/ \E pc \in RequestPc : retry' = [retry EXCEPT ![r].pc = pc]
      BY <1>3, <2>2 DEF RetryDeadLetter, RetryUpdate, RetryMark, RetryEnqueue
    <3>3. CASE \E pc \in {"requeued", "failed"} : EndRequest(r, pc)
      BY <3>3 DEF EndRequest, Ended
    <3>4. CASE \E pc \in RequestPc : retry' = [retry EXCEPT ![r].pc = pc]
      BY <3>1, <3>4 DEF Request
    <3>5. QED  BY <3>1, <3>2, <3>3, <3>4
  <2>3. QED  BY <2>1, <2>2
<1>4. CASE Restart
  BY <1>4 DEF Restart, Ended, RequestPc
<1>5. QED
  BY <1>1, <1>2, <1>3, <1>4 DEF Next, vars, Submit, RejectUnsupported,
     CreateNotification, AppendFirstLog, EnqueueFirst, Forward, Dequeue,
     LeaseExpired, actorVars, Process, GetNotification, IncrementAttempts,
     SendReturns, CreateDeadLetter, ScheduleRetry, UpdateNotification,
     AppendLog, Finish, Abort, Crash, Stop, Exit

LEMMA ReferencesStep ==
  ASSUME TypeInv, [Next]_vars
  PROVE  References'
<1>1. \A n \in Notifications : Exists(n) => Exists(n)'
  BY RowsStay
<1>2. TypeOK /\ TypeOK' /\ References
  BY TypeStep DEF TypeInv
<1>3. \A n \in Notifications :
        (submit[n] \in {"appendLog", "enqueue"})' => Exists(n)'
  <2>1. \A n \in Notifications :
          \/ submit'[n] = submit[n]
          \/ submit[n] \in {"appendLog", "enqueue"}
          \/ submit'[n] \notin {"appendLog", "enqueue"}
          \/ row'[n] = [status |-> "pending", attempts |-> 0]
    <3>1. CASE UNCHANGED submit
      BY <3>1
    <3>2. CASE \E m \in Notifications : Submit(m)
      BY <1>2, <3>2 DEF Submit, RejectUnsupported, CreateNotification,
         AppendFirstLog, EnqueueFirst, Insert, TypeOK
    <3>3. CASE Restart
      BY <1>2, <3>3 DEF Restart, TypeOK
    <3>4. QED
      BY <3>1, <3>2, <3>3 DEF Next, vars, Forward, Dequeue, LeaseExpired,
         actorVars, Process, GetNotification, IncrementAttempts, SendReturns,
         CreateDeadLetter, ScheduleRetry, UpdateNotification, AppendLog,
         Finish, Abort, RetryRead, RetryDeadLetter, RetryUpdate, RetryMark,
         RetryEnqueue, Crash, Stop, Exit
  <2>2. QED  BY <1>1, <1>2, <2>1 DEF References, Exists
<1>4. \A n \in Notifications : Buried(n)' => Exists(n)'
  <2>1. \A n \in Notifications :
          \/ Buried(n)' => Buried(n)
          \/ \E w \in Workers : Busy(w) /\ Subject(w) = n
    <3>1. CASE UNCHANGED letters
      BY <3>1 DEF Buried
    <3>2. ASSUME NEW w \in Workers, CreateDeadLetter(w)
          PROVE  \A n \in Notifications :
                   (Buried(n)' => Buried(n)) \/ (Busy(w) /\ Subject(w) = n)
      <4>1. \/ letters' = letters
            \/ letters' = [letters EXCEPT ![Subject(w)] =
                                Append(letters[Subject(w)], FALSE)]
        BY <3>2 DEF CreateDeadLetter, DbError
      <4>2. Busy(w) /\ DOMAIN letters = Notifications
        BY <1>2, <3>2 DEF CreateDeadLetter, At, Busy, TypeOK
      <4>3. ASSUME NEW n \in Notifications, Buried(n)', Subject(w) # n
            PROVE  Buried(n)
        BY <4>1, <4>2, <4>3 DEF Buried
      <4>4. QED  BY <4>2, <4>3
    <3>3. ASSUME NEW r \in Retriers, RetryMark(r)
          PROVE  \A n \in Notifications : Buried(n)' => Buried(n)
      <4>1. \/ letters' = letters
            \/ letters' = [letters EXCEPT ![retry[r].notification] =
                  [letters[retry[r].notification]
                     EXCEPT ![retry[r].letter] = TRUE]]
        BY <3>3 DEF RetryMark, DbError
      <4>2. \A i : [<<>> EXCEPT ![i] = TRUE] = <<>>
        OBVIOUS
      <4>3. QED  BY <1>2, <4>1, <4>2 DEF Buried, TypeOK
    <3>4. QED
      BY <3>1, <3>2, <3>3 DEF Next, vars, Submit, RejectUnsupported,
         CreateNotification, AppendFirstLog, EnqueueFirst, Forward, Dequeue,
         LeaseExpired, storeVars, Process, GetNotification, IncrementAttempts,
         SendReturns, ScheduleRetry, UpdateNotification, AppendLog, Finish,
         Abort, RetryRead, RetryDeadLetter, RetryUpdate, RetryEnqueue, Crash,
         Stop, Exit, Restart
  <2>2. QED  BY <1>1, <1>2, <2>1 DEF References
<1>5. \A job \in Known' : row'[job.notification].status # "absent"
  <2>1. \A job \in Known \cup NewJobs :
          job.notification \in Notifications /\ Exists(job.notification)
    <3>1. \A job \in Known : job.notification \in Notifications
      BY <1>2 DEF Known, Live, TypeOK, JobPayload
    <3>2. QED
      BY <1>2, <3>1, BusyIsHandler, ActiveIsRequest
      DEF References, NewJobs, Job, Subject, At, Busy, RequestAt, RequestPc
  <2>2. QED  BY <1>1, <2>1, KnownStep DEF Exists
<1>6. \A w \in Workers : Busy(w)' => row'[worker'[w].job.notification].status # "absent"
  <2>1. \A job \in pending :
          job.notification \in Notifications /\ Exists(job.notification)
    BY <1>2 DEF References, Known, Live, TypeOK, JobPayload
  <2>2. \A w \in Workers : Busy(w) =>
          /\ worker[w].job.notification \in Notifications
          /\ Exists(worker[w].job.notification)
    BY <1>2, BusyIsHandler DEF References, Subject
  <2>3. QED  BY <1>1, <1>2, <2>1, <2>2, JobKept DEF Exists
<1>7. \A r \in Retriers : (retry[r].pc \in RequestPc)' =>
        row'[retry'[r].notification].status # "absent"
  <2>1. ASSUME NEW r \in Retriers, (retry[r].pc \in RequestPc)'
        PROVE  /\ retry'[r].notification \in Notifications
               /\ Exists(retry'[r].notification)
    BY <1>2, <2>1, NotificationKept, ActiveIsRequest DEF References
  <2>2. QED  BY <1>1, <1>2, <2>1 DEF Exists
<1>8. QED
  BY <1>3, <1>4, <1>5, <1>6, <1>7 DEF References, Exists, Subject

LEMMA InitReferences == Init => References
BY DEF Init, References, Exists, Buried, Known, Live, Busy, Idle, RequestPc, Unmade

\* The state of the system always has the shape TypeOK gives, and every job,
\* letter and request refers to a row.
THEOREM TypeCorrect == Spec => [](TypeOK /\ References)
<1>1. Init => TypeInv
  BY InitType, InitReferences DEF TypeInv
<1>2. TypeInv /\ [Next]_vars => TypeInv'
  BY TypeStep, ReferencesStep DEF TypeInv
<1>3. Spec => []TypeInv
  BY <1>1, <1>2, PTL DEF Spec
<1>4. QED  BY <1>3, PTL DEF TypeInv

-------------------------------------------------------------------------------
(* What statuses claim.  Evidence once there stays: acks and faults only      *)
(* grow and no step removes a letter.                                         *)

LEMMA CountGrows ==
  ASSUME TypeOK, NEW n \in Notifications, NEW m \in Notifications,
         NEW kind \in TallyKinds, NEW k \in TallyKinds, Count(m, k)
  PROVE  tally'[n][kind] >= tally[n][kind]
<1>1. tally \in [Notifications -> [TallyKinds -> Nat]]
  BY DEF TypeOK
<1>2. tally' = [tally EXCEPT ![m] = [tally[m] EXCEPT ![k] = tally[m][k] + 1]]
  BY DEF Count
<1>3. tally[n][kind] \in Nat /\ tally[m][k] \in Nat /\ tally[m] \in [TallyKinds -> Nat]
  BY <1>1
<1>4. CASE n # m
  BY <1>1, <1>2, <1>3, <1>4
<1>5. CASE n = m
  <2>1. tally'[n] = [tally[n] EXCEPT ![k] = tally[n][k] + 1]
    BY <1>1, <1>2, <1>5
  <2>2. QED  BY <1>3, <1>5, <2>1
<1>6. QED  BY <1>4, <1>5

LEMMA TallyGrows ==
  ASSUME TypeOK, [Next]_vars, NEW n \in Notifications, NEW kind \in TallyKinds
  PROVE  tally'[n][kind] >= tally[n][kind]
<1>1. CASE UNCHANGED tally
  BY <1>1 DEF TypeOK
<1>2. CASE \E m \in Notifications, k \in TallyKinds : Count(m, k)
  BY <1>2, CountGrows
<1>3. ASSUME NEW w \in Workers, IncrementAttempts(w) \/ SendReturns(w) \/ Abort(w)
      PROVE  UNCHANGED tally \/ \E m \in Notifications, k \in TallyKinds : Count(m, k)
  <2>1. Subject(w) \in Notifications
    BY <1>3, BusyIsHandler DEF IncrementAttempts, SendReturns, Abort, At, Busy
  <2>2. QED  BY <1>3, <2>1 DEF IncrementAttempts, SendReturns, Abort, TallyKinds
<1>4. ASSUME NEW r \in Retriers, RetryEnqueue(r)
      PROVE  UNCHANGED tally \/ \E m \in Notifications, k \in TallyKinds : Count(m, k)
  <2>1. retry[r].notification \in Notifications
    BY <1>4, ActiveIsRequest DEF RetryEnqueue, RequestAt, RequestPc
  <2>2. QED  BY <1>4, <2>1 DEF RetryEnqueue, TallyKinds
<1>5. QED
  BY <1>1, <1>2, <1>3, <1>4 DEF Next, vars, Submit, RejectUnsupported,
     CreateNotification, AppendFirstLog, EnqueueFirst, Forward, Dequeue,
     LeaseExpired, Process, GetNotification, CreateDeadLetter, ScheduleRetry,
     UpdateNotification, AppendLog, Finish, RetryRead, RetryDeadLetter,
     RetryUpdate, RetryMark, Crash, Stop, Exit, Restart

LEMMA FaultsGrow ==
  ASSUME TypeOK, [Next]_vars
  PROVE  faults'["db"] >= faults["db"]
<1>1. CASE UNCHANGED faults
  BY <1>1 DEF TypeOK, FaultKinds
<1>2. CASE \E kind \in FaultKinds : Fault(kind)
  BY <1>2 DEF Fault, TypeOK, FaultKinds
<1>3. UNCHANGED faults \/ \E kind \in FaultKinds : Fault(kind)
  BY DEF Next, vars, Submit, RejectUnsupported,
     CreateNotification, AppendFirstLog, EnqueueFirst, Forward, Dequeue,
     LeaseExpired, Process, GetNotification, IncrementAttempts, SendReturns,
     CreateDeadLetter, ScheduleRetry, UpdateNotification, AppendLog, Finish,
     Abort, RetryRead, RetryDeadLetter, RetryUpdate, RetryMark, RetryEnqueue,
     Crash, Stop, Exit, Restart, DbError, Refused, ReplyLost, FaultKinds
<1>4. QED  BY <1>1, <1>2, <1>3

LEMMA LettersStay ==
  ASSUME TypeOK, [Next]_vars, NEW n \in Notifications, Buried(n)
  PROVE  Buried(n)'
<1> USE DEF Buried
<1>1. CASE UNCHANGED letters
  BY <1>1
<1>2. ASSUME NEW w \in Workers, CreateDeadLetter(w)
      PROVE  Buried(n)'
  <2>1. \/ letters' = letters
        \/ letters' = [letters EXCEPT ![Subject(w)] =
                                Append(letters[Subject(w)], FALSE)]
    BY <1>2 DEF CreateDeadLetter, DbError
  <2>2. letters[n] \in Seq(BOOLEAN) /\ DOMAIN letters = Notifications
    BY DEF TypeOK
  <2>3. Append(letters[n], FALSE) # <<>>
    BY <2>2, AddedLetter
  <2>4. QED  BY <2>1, <2>2, <2>3
<1>3. ASSUME NEW r \in Retriers, RetryMark(r)
      PROVE  Buried(n)'
  <2> DEFINE m == retry[r].notification
  <2>1. \/ letters' = letters
        \/ letters' = [letters EXCEPT ![m] =
                         [letters[m] EXCEPT ![retry[r].letter] = TRUE]]
    BY <1>3 DEF RetryMark, DbError
  <2>2. letters[n] \in Seq(BOOLEAN) /\ DOMAIN letters = Notifications
    BY DEF TypeOK
  <2>3. retry[r].letter \in Nat
    BY <1>3, ActiveIsRequest DEF RetryMark, RequestAt, RequestPc, Request
  <2>4. [letters[n] EXCEPT ![retry[r].letter] = TRUE] # <<>>
    BY <2>2, <2>3, MarkedIsSeq
  <2>5. CASE m = n
    BY <2>1, <2>2, <2>4, <2>5
  <2>6. CASE m # n
    BY <2>1, <2>2, <2>6
  <2>7. QED  BY <2>5, <2>6
<1>4. QED
  BY <1>1, <1>2, <1>3 DEF Next, vars, Submit, RejectUnsupported,
     CreateNotification, AppendFirstLog, EnqueueFirst, Forward, Dequeue,
     LeaseExpired, storeVars, Process, GetNotification, IncrementAttempts,
     SendReturns, ScheduleRetry, UpdateNotification, AppendLog, Finish, Abort,
     RetryRead, RetryDeadLetter, RetryUpdate, RetryEnqueue, Crash, Stop, Exit,
     Restart

\* What a handler carries towards the row, the log and the webhook is true
\* already, or at "bury" about to become true.
Justified(n, status) ==
  /\ status = "sent" => tally[n]["acks"] > 0
  /\ status = "failed" => Buried(n) \/ faults["db"] > 0
HandlersJustified ==
  \A w \in Workers : Busy(w) =>
    IF At(w, "bury") THEN worker[w].status = "failed"
                     ELSE Justified(Subject(w), worker[w].status)

LEMMA JustifiedStays ==
  ASSUME TypeInv, [Next]_vars, NEW n \in Notifications, NEW s, Justified(n, s)
  PROVE  Justified(n, s)'
<1>1. TypeOK /\ TypeOK'
  BY TypeStep DEF TypeInv
<1>2. tally[n]["acks"] > 0 => tally'[n]["acks"] > 0
  <2>1. tally'[n]["acks"] >= tally[n]["acks"]
    BY <1>1, TallyGrows DEF TallyKinds
  <2>2. tally[n]["acks"] \in Nat /\ tally'[n]["acks"] \in Nat
    BY <1>1 DEF TypeOK, TallyKinds
  <2>3. QED  BY <2>1, <2>2
<1>3. faults["db"] > 0 => faults'["db"] > 0
  <2>1. faults'["db"] >= faults["db"]
    BY <1>1, FaultsGrow
  <2>2. faults["db"] \in Nat /\ faults'["db"] \in Nat
    BY <1>1 DEF TypeOK, FaultKinds
  <2>3. QED  BY <2>1, <2>2
<1>4. Buried(n) => Buried(n)'
  BY <1>1, LettersStay
<1>5. QED  BY <1>2, <1>3, <1>4 DEF Justified

Evidence ==
  /\ \A n \in Notifications : Justified(n, row[n].status)
  /\ \A entry \in logs \cup callbacks :
       Justified(entry.notification, entry.status)
  /\ HandlersJustified

\* Every step keeps what was justified so; a row, a log and a webhook get the
\* status of a handler past its dead letter, or "pending".
LEMMA RowsJustified ==
  ASSUME TypeInv, Evidence, [Next]_vars, NEW n \in Notifications
  PROVE  Justified(n, row[n].status)'
<1> DEFINE Safe(s) == Justified(n, s) \/ s \notin Terminal
<1>1. TypeOK
  BY DEF TypeInv
<1>2. \A s : Safe(s) => Justified(n, s)'
  BY JustifiedStays DEF Justified, Terminal
<1>3. Safe(row[n].status)
  BY DEF Evidence
<1>4. Safe(row'[n].status)
  <2>1. CASE UNCHANGED row
    BY <1>3, <2>1
  <2>2. ASSUME NEW m, NEW x, Safe(x.status) \/ m # n,
               row' = [row EXCEPT ![m] = x]
        PROVE  Safe(row'[n].status)
    BY <1>1, <1>3, <2>2 DEF TypeOK
  <2>3. ASSUME NEW m \in Notifications, CreateNotification(m)
        PROVE  Safe(row'[n].status)
    <3>1. \A x : x = [status |-> "pending", attempts |-> 0] => Safe(x.status)
      BY DEF Terminal
    <3>2. QED  BY <2>1, <2>2, <2>3, <3>1 DEF CreateNotification, DbError, Insert
  <2>4. ASSUME NEW r \in Retriers, RetryUpdate(r)
        PROVE  Safe(row'[n].status)
    <3> DEFINE x == [status |-> "pending", attempts |-> retry[r].attempts]
    <3>1. Safe(x.status)
      BY DEF Terminal
    <3>2. UNCHANGED row \/ row' = [row EXCEPT ![retry[r].notification] = x]
      BY <2>4 DEF RetryUpdate, DbError
    <3> HIDE DEF x, Safe
    <3>3. QED  BY <2>1, <2>2, <3>1, <3>2
  <2>5. ASSUME NEW w \in Workers, IncrementAttempts(w)
        PROVE  Safe(row'[n].status)
    <3>1. UNCHANGED row \/ row' = [row EXCEPT ![Subject(w)].attempts = worker[w].attempts]
      BY <2>5 DEF IncrementAttempts, DbError
    <3>2. row[n] \in Row /\ DOMAIN row = Notifications
      BY <1>1 DEF TypeOK
    <3>3. row'[n].status = row[n].status
      BY <3>1, <3>2 DEF Row
    <3>4. QED  BY <1>3, <3>3
  <2>6. ASSUME NEW w \in Workers, UpdateNotification(w)
        PROVE  Safe(row'[n].status)
    <3> DEFINE x == [status |-> worker[w].status, attempts |-> worker[w].attempts]
    <3>1. Justified(Subject(w), worker[w].status)
      BY <2>6 DEF UpdateNotification, Evidence, HandlersJustified, At, Busy
    <3>2. Safe(x.status) \/ Subject(w) # n
      BY <3>1
    <3>3. UNCHANGED row \/ row' = [row EXCEPT ![Subject(w)] = x]
      BY <2>6 DEF UpdateNotification, DbError
    <3> HIDE DEF x, Safe
    <3>4. QED  BY <2>1, <2>2, <3>2, <3>3
  <2>7. QED
    <3> HIDE DEF Safe
    <3>1. QED
      BY <2>1, <2>3, <2>4, <2>5, <2>6 DEF Next, vars, Submit,
       RejectUnsupported, AppendFirstLog, EnqueueFirst, Forward, Dequeue,
       LeaseExpired, storeVars, Process, GetNotification, SendReturns,
       CreateDeadLetter, ScheduleRetry, AppendLog, Finish, Abort, RetryRead,
       RetryDeadLetter, RetryMark, RetryEnqueue, Crash, Stop, Exit, Restart
<1>5. QED  BY <1>2, <1>4 DEF Justified

LEMMA EntriesJustified ==
  ASSUME TypeInv, Evidence, [Next]_vars, NEW entry \in (logs \cup callbacks)'
  PROVE  Justified(entry.notification, entry.status)'
<1> DEFINE Known1(e) == e.notification \in Notifications
                          /\ Justified(e.notification, e.status)
<1>1. TypeOK
  BY DEF TypeInv
<1>2. \A e \in logs \cup callbacks : Known1(e)
  BY <1>1 DEF TypeOK, DeliveryLog, Evidence
<1>3. ASSUME NEW n \in Notifications
      PROVE  Known1(LogEntry(n, 0, "pending"))
  BY DEF LogEntry, Justified
<1>4. ASSUME NEW w \in Workers, At(w, "appendLog") \/ At(w, "finish")
      PROVE  Known1(LogEntry(Subject(w), worker[w].attempts, worker[w].status))
  BY <1>1, <1>4, BusyIsHandler
     DEF LogEntry, Evidence, HandlersJustified, At, Busy, Justified
<1>5. \/ entry \in logs \cup callbacks
      \/ \E n \in Notifications : entry = LogEntry(n, 0, "pending")
      \/ \E w \in Workers :
           /\ At(w, "appendLog") \/ At(w, "finish")
           /\ entry = LogEntry(Subject(w), worker[w].attempts, worker[w].status)
  BY DEF Next, vars, Submit, RejectUnsupported, CreateNotification,
     AppendFirstLog, EnqueueFirst, Forward, Dequeue, LeaseExpired, storeVars,
     Process, GetNotification, IncrementAttempts, SendReturns,
     CreateDeadLetter, ScheduleRetry, UpdateNotification, AppendLog, Finish,
     Abort, RetryRead, RetryDeadLetter, RetryUpdate, RetryMark, RetryEnqueue,
     Crash, Stop, Exit, Restart, DbError
<1>6. Known1(entry)
  <2> HIDE DEF Known1
  <2>1. QED  BY <1>2, <1>3, <1>4, <1>5
<1>7. QED
  <2>1. PICK n \in Notifications : n = entry.notification
    BY <1>6
  <2>2. PICK s : s = entry.status
    OBVIOUS
  <2>3. Justified(n, s)
    BY <1>6, <2>1, <2>2
  <2>4. Justified(n, s)'
    BY <2>3, JustifiedStays
  <2>5. QED  BY <2>1, <2>2, <2>4

LEMMA HandlersStayJustified ==
  ASSUME TypeInv, Evidence, [Next]_vars, NEW w \in Workers, Busy(w)'
  PROVE  IF worker'[w].pc = "bury" THEN worker'[w].status = "failed"
                                   ELSE Justified(Subject(w), worker[w].status)'
<1> DEFINE Fits == IF worker'[w].pc = "bury"
                   THEN worker'[w].status = "failed"
                   ELSE Justified(Subject(w), worker[w].status)'
<1> SUFFICES Fits
  OBVIOUS
<1> HIDE DEF Fits
<1>1. TypeOK /\ TypeOK'
  BY TypeStep DEF TypeInv
<1>2. CASE worker'[w].pc # "bury" /\ worker'[w].status \notin Terminal
  BY <1>2 DEF Fits, Justified, Terminal
<1>3. ASSUME Busy(w), worker'[w].job = worker[w].job,
             worker'[w].status = worker[w].status,
             worker'[w].pc = "bury" <=> At(w, "bury")
      PROVE  Fits
  <2>1. CASE At(w, "bury")
    BY <1>3, <2>1 DEF Fits, Evidence, HandlersJustified, At
  <2>2. CASE ~At(w, "bury")
    <3>1. Subject(w) \in Notifications /\ Justified(Subject(w), worker[w].status)
      BY <1>1, <1>3, <2>2, BusyIsHandler DEF Evidence, HandlersJustified
    <3>2. PICK n \in Notifications : n = Subject(w)
      BY <3>1
    <3>3. PICK s : s = worker[w].status
      OBVIOUS
    <3>4. Justified(n, s)'
      BY <3>1, <3>2, <3>3, JustifiedStays
    <3>5. worker'[w].job.notification = n /\ worker'[w].status = s
      BY <1>3, <3>2, <3>3 DEF Subject
    <3>6. QED  BY <1>3, <2>2, <3>4, <3>5 DEF Fits, Justified, Subject
  <2>3. QED  BY <2>1, <2>2
<1>4. CASE UNCHANGED worker
  BY <1>3, <1>4 DEF At, Busy
<1>5. CASE Restart
  BY <1>5 DEF Restart, Busy, Idle
<1>6. ASSUME NEW v \in Workers, NEW job \in pending, Dequeue(v, job)
      PROVE  Fits
  <2>1. CASE v = w
    BY <1>1, <1>2, <1>6, <2>1 DEF Dequeue, TypeOK, Terminal
  <2>2. CASE v # w
    BY <1>1, <1>3, <1>6, <2>2 DEF Dequeue, At, Busy
  <2>3. QED  BY <2>1, <2>2
<1>7. ASSUME NEW v \in Workers, Process(v) \/ Abort(v), v # w
      PROVE  Fits
  <2>1. worker'[w] = worker[w]
    BY <1>1, <1>7 DEF TypeOK, Process, Abort, GetNotification, IncrementAttempts,
       SendReturns, CreateDeadLetter, ScheduleRetry, UpdateNotification,
       AppendLog, Finish, Return, Goto
  <2>2. QED  BY <1>3, <2>1 DEF At, Busy
<1>8. CASE Process(w) \/ Abort(w)
  <2>1. /\ Busy(w) /\ worker[w] \in Handler /\ DOMAIN worker = Workers
        /\ Subject(w) \in Notifications
    BY <1>1, <1>8, BusyIsHandler DEF Process, Abort, GetNotification,
       IncrementAttempts, SendReturns, CreateDeadLetter, ScheduleRetry,
       UpdateNotification, AppendLog, Finish, At, Busy, TypeOK
  <2>2. CASE Abort(w) \/ \E ok \in BOOLEAN : Return(w, ok)
    BY <2>1, <2>2 DEF Abort, Return, Busy, Idle
  <2>3. ASSUME NEW pc \in HandlerPc \ {"bury"}, Goto(w, pc), ~At(w, "bury")
        PROVE  Fits
    <3>1. /\ worker'[w].job = worker[w].job
          /\ worker'[w].status = worker[w].status
          /\ worker'[w].pc = pc
      BY <2>1, <2>3 DEF Goto, Handler
    <3>2. QED  BY <1>3, <2>1, <2>3, <3>1
  <2>4. CASE GetNotification(w)
    <3>1. CASE \E ok \in BOOLEAN : Return(w, ok)
      BY <2>2, <3>1
    <3>2. CASE /\ row[Subject(w)].status \notin Terminal
               /\ worker' = [worker EXCEPT ![w].pc = "increment",
                                    ![w].status = row[Subject(w)].status,
                                    ![w].attempts = row[Subject(w)].attempts + 1]
      <4>1. worker'[w].pc # "bury" /\ worker'[w].status \notin Terminal
        BY <2>1, <3>2 DEF Handler
      <4>2. QED  BY <1>2, <4>1
    <3>3. QED  BY <2>4, <3>1, <3>2 DEF GetNotification
  <2>5. CASE SendReturns(w)
    <3>1. CASE /\ worker' = [worker EXCEPT ![w].pc = "update", ![w].status = "sent"]
               /\ Count(Subject(w), "acks")
      <4>1. /\ worker'[w].pc = "update" /\ worker'[w].status = "sent"
            /\ worker'[w].job = worker[w].job
        BY <2>1, <3>1 DEF Handler
      <4>2. tally'[Subject(w)]["acks"] > 0
        <5>1. tally[Subject(w)] \in [TallyKinds -> Nat] /\ DOMAIN tally = Notifications
          BY <1>1, <2>1 DEF TypeOK
        <5>2. tally'[Subject(w)]["acks"] = tally[Subject(w)]["acks"] + 1
          BY <2>1, <3>1, <5>1 DEF Count, TallyKinds
        <5>3. tally[Subject(w)]["acks"] \in Nat
          BY <5>1 DEF TallyKinds
        <5>4. QED  BY <5>2, <5>3
      <4>3. QED  BY <4>1, <4>2 DEF Fits, Justified, Subject
    <3>2. CASE worker' = [worker EXCEPT ![w].pc = "bury", ![w].status = "failed"]
      <4>1. worker'[w].status = "failed" /\ worker'[w].pc = "bury"
        BY <2>1, <3>2 DEF Handler
      <4>2. QED  BY <4>1 DEF Fits
    <3>3. CASE worker' = [worker EXCEPT ![w].pc = "reschedule",
                                        ![w].status = "retrying"]
      <4>1. worker'[w].status = "retrying" /\ worker'[w].pc = "reschedule"
        BY <2>1, <3>3 DEF Handler
      <4>2. QED  BY <1>2, <4>1 DEF Terminal
    <3>4. QED  BY <2>5, <3>1, <3>2, <3>3 DEF SendReturns
  <2>6. CASE CreateDeadLetter(w)
    <3>1. worker[w].status = "failed"
      BY <2>1, <2>6 DEF CreateDeadLetter, Evidence, HandlersJustified
    <3>2. /\ worker'[w].pc = "update" /\ worker'[w].status = "failed"
          /\ worker'[w].job = worker[w].job
      BY <2>1, <2>6, <3>1 DEF CreateDeadLetter, Goto, Handler
    <3>3. letters'[Subject(w)] # <<>> \/ faults'["db"] > 0
      <4>1. CASE letters' = [letters EXCEPT ![Subject(w)] =
                                Append(letters[Subject(w)], FALSE)]
        <5>1. letters[Subject(w)] \in Seq(BOOLEAN) /\ DOMAIN letters = Notifications
          BY <1>1, <2>1 DEF TypeOK
        <5>2. Append(letters[Subject(w)], FALSE) # <<>>
          BY <5>1, AddedLetter
        <5>3. QED  BY <2>1, <4>1, <5>1, <5>2
      <4>2. CASE Fault("db")
        <5>1. faults["db"] \in Nat /\ faults'["db"] = faults["db"] + 1
          BY <1>1, <4>2 DEF Fault, TypeOK, FaultKinds
        <5>2. QED  BY <5>1
      <4>3. QED  BY <2>6, <4>1, <4>2 DEF CreateDeadLetter, DbError
    <3>4. QED  BY <3>2, <3>3 DEF Fits, Justified, Subject, Buried
  <2>7. CASE \/ IncrementAttempts(w) \/ ScheduleRetry(w)
             \/ UpdateNotification(w) \/ AppendLog(w) \/ Finish(w)
    <3>1. ~At(w, "bury")
      BY <2>7 DEF IncrementAttempts, ScheduleRetry, UpdateNotification,
         AppendLog, Finish, At
    <3>2. \/ \E ok \in BOOLEAN : Return(w, ok)
          \/ \E pc \in HandlerPc \ {"bury"} : Goto(w, pc)
      BY <2>7 DEF IncrementAttempts, ScheduleRetry, UpdateNotification,
         AppendLog, Finish, HandlerPc
    <3>3. QED  BY <2>2, <2>3, <3>1, <3>2
  <2>8. QED  BY <1>8, <2>2, <2>4, <2>5, <2>6, <2>7 DEF Process
<1>9. QED
  BY <1>4, <1>5, <1>6, <1>7, <1>8 DEF Next, vars, Submit,
     RejectUnsupported, CreateNotification, AppendFirstLog, EnqueueFirst,
     Forward, LeaseExpired, actorVars, RetryRead, RetryDeadLetter,
     RetryUpdate, RetryMark, RetryEnqueue, Crash, Stop, Exit

LEMMA EvidenceStep ==
  ASSUME TypeInv, Evidence, [Next]_vars
  PROVE  Evidence'
<1>1. \A n \in Notifications : Justified(n, row[n].status)'
  BY RowsJustified
<1>2. \A entry \in (logs \cup callbacks)' :
        Justified(entry.notification, entry.status)'
  BY EntriesJustified
<1>3. HandlersJustified'
  BY HandlersStayJustified DEF HandlersJustified, At
<1>4. QED  BY <1>1, <1>2, <1>3 DEF Evidence

\* What every handler carries, and what it wrote, is true.
THEOREM EvidenceHolds == Spec => []Evidence
<1>1. Init => Evidence
  BY DEF Init, Evidence, HandlersJustified, Justified, Absent, Busy, Idle
<1>2. Spec => []TypeInv
  BY TypeCorrect, PTL DEF TypeInv
<1>3. TypeInv /\ Evidence /\ [Next]_vars => Evidence'
  BY EvidenceStep
<1>4. QED  BY <1>1, <1>2, <1>3, PTL DEF Spec

\* A row, log or webhook says "sent" only of what the provider accepted,
\* whatever crashes, errors and interleavings there are: Process takes no
\* status from anything but the answer to its own call of Send.
THEOREM NoFalseDeliveryHolds == Spec => []NoFalseDelivery
<1>1. Evidence => NoFalseDelivery
  BY DEF Evidence, Justified, NoFalseDelivery
<1>2. QED  BY <1>1, EvidenceHolds, PTL

\* A row, log or webhook says "failed" only once the dead letter exists or the
\* database has failed: the letter is written first, and never deleted.
THEOREM ExhaustedHasLetterHolds == Spec => []ExhaustedHasLetter
<1>1. Evidence => ExhaustedHasLetter
  BY DEF Evidence, Justified, ExhaustedHasLetter
<1>2. QED  BY <1>1, EvidenceHolds, PTL

\* Jobs, letters, handlers and requests never refer to a missing row.
THEOREM ReferencesHolds == Spec => []References
BY TypeCorrect, PTL

-------------------------------------------------------------------------------
(* The attempt limit.                                                        *)

\* Who may yet enqueue a job above the limit, or put one back, works for a
\* notification that has been dead lettered.
LimitKept ==
  /\ \A w \in Workers : At(w, "reschedule") => worker[w].attempts < MaxAttempts
  /\ \A w \in Workers :
       Busy(w) /\ worker[w].job.attempt > MaxAttempts => Buried(Subject(w))
  /\ \A r \in Retriers :
       retry[r].pc \in RequestPc => Buried(retry[r].notification)
LimitInv == OnlyDeadLettersExceedLimit /\ LimitKept

LEMMA NewJobsWithinLimit ==
  ASSUME TypeOK, LimitInv, NEW job \in Known \cup NewJobs,
         job.attempt > MaxAttempts
  PROVE  job.notification \in Notifications /\ Buried(job.notification)
<1>1. CASE job \in Known
  BY <1>1 DEF LimitInv, OnlyDeadLettersExceedLimit, Known, Live, TypeOK, JobPayload
<1>2. ASSUME NEW w \in Workers, Busy(w), job = worker[w].job
      PROVE  job.notification \in Notifications /\ Buried(job.notification)
  BY <1>2, BusyIsHandler DEF LimitInv, LimitKept, Subject
<1>3. ASSUME NEW w \in Workers, At(w, "reschedule"),
             job = Job(Subject(w), worker[w].attempts + 1)
      PROVE  FALSE
  <2>1. worker[w] \in Handler
    BY <1>3, BusyIsHandler DEF At, Busy
  <2>2. worker[w].attempts \in Nat /\ worker[w].attempts < MaxAttempts
    BY <1>3, <2>1 DEF LimitInv, LimitKept, Handler
  <2>3. job.attempt = worker[w].attempts + 1 /\ MaxAttempts \in Nat
    BY <1>3, DeliveryAssumption DEF Job, MaxAttempts
  <2>4. QED  BY <2>2, <2>3
<1>4. ASSUME NEW r \in Retriers, RequestAt(r, "enqueue"),
             job = Job(retry[r].notification, retry[r].attempts + 1)
      PROVE  job.notification \in Notifications /\ Buried(job.notification)
  BY <1>4, ActiveIsRequest
     DEF LimitInv, LimitKept, RequestAt, RequestPc, Job
<1>5. ASSUME NEW n \in Notifications, job = Job(n, 1)
      PROVE  FALSE
  BY <1>5, DeliveryAssumption DEF Job, MaxAttempts
<1>6. QED  BY <1>1, <1>2, <1>3, <1>4, <1>5 DEF NewJobs

\* A handler about to schedule a retry has attempts left.
LEMMA RescheduleWithinLimit ==
  ASSUME TypeOK, LimitInv, [Next]_vars, NEW w \in Workers, At(w, "reschedule")'
  PROVE  worker'[w].attempts < MaxAttempts
<1>1. CASE worker'[w] = worker[w]
  BY <1>1 DEF LimitInv, LimitKept, At
<1>2. ASSUME NEW v \in Workers, NEW job \in pending, Dequeue(v, job)
      PROVE  worker'[w] = worker[w]
  BY <1>2 DEF Dequeue, At, TypeOK
<1>3. ASSUME NEW v \in Workers, Process(v) \/ Abort(v), v # w
      PROVE  worker'[w] = worker[w]
  BY <1>3 DEF Process, Abort, GetNotification, IncrementAttempts,
     SendReturns, CreateDeadLetter, ScheduleRetry, UpdateNotification,
     AppendLog, Finish, Return, Goto, TypeOK
<1>4. CASE Process(w) \/ Abort(w)
  <2>1. Busy(w) /\ worker[w] \in Handler /\ DOMAIN worker = Workers
    BY <1>4, BusyIsHandler DEF Process, Abort, GetNotification,
       IncrementAttempts, SendReturns, CreateDeadLetter, ScheduleRetry,
       UpdateNotification, AppendLog, Finish, At, Busy, TypeOK
  <2>2. CASE Abort(w) \/ \E ok \in BOOLEAN : Return(w, ok)
    BY <2>1, <2>2 DEF Abort, Return, At, Idle
  <2>3. CASE \E pc \in HandlerPc \ {"reschedule"} : Goto(w, pc)
    BY <2>1, <2>3 DEF Goto, At, Handler
  <2>4. CASE GetNotification(w)
    BY <2>1, <2>2, <2>4 DEF GetNotification, At, Handler
  <2>5. CASE SendReturns(w)
    <3>1. worker[w].attempts \in Nat /\ MaxAttempts \in Nat
      BY <2>1, DeliveryAssumption DEF Handler, MaxAttempts
    <3>2. worker'[w].attempts = worker[w].attempts /\ ~Exhausted(w)
      BY <2>1, <2>5 DEF SendReturns, At, Handler
    <3>3. QED  BY <3>1, <3>2
  <2>6. QED
    BY <1>4, <2>2, <2>3, <2>4, <2>5 DEF Process, IncrementAttempts,
       CreateDeadLetter, ScheduleRetry, UpdateNotification, AppendLog, Finish,
       HandlerPc
<1>5. CASE Restart
  BY <1>5 DEF Restart, At, Idle
<1>6. QED
  BY <1>1, <1>2, <1>3, <1>4, <1>5 DEF Next, vars, Submit,
     RejectUnsupported, CreateNotification, AppendFirstLog, EnqueueFirst,
     Forward, LeaseExpired, actorVars, RetryRead, RetryDeadLetter,
     RetryUpdate, RetryMark, RetryEnqueue, Crash, Stop, Exit

LEMMA LimitStep ==
  ASSUME TypeInv, LimitInv, [Next]_vars
  PROVE  LimitInv'
<1>1. TypeOK /\ TypeOK'
  BY TypeStep DEF TypeInv
<1>2. \A n \in Notifications : Buried(n) => Buried(n)'
  BY <1>1, LettersStay
<1>3. OnlyDeadLettersExceedLimit'
  BY <1>1, <1>2, KnownStep, NewJobsWithinLimit
     DEF OnlyDeadLettersExceedLimit, Buried, MaxAttempts
<1>4. \A w \in Workers : At(w, "reschedule")' => worker'[w].attempts < MaxAttempts
  BY <1>1, RescheduleWithinLimit
<1>5. ASSUME NEW w \in Workers, Busy(w)', worker'[w].job.attempt > MaxAttempts
      PROVE  letters'[worker'[w].job.notification] # <<>>
  <2>1. worker'[w].job \in Known \cup NewJobs
    BY <1>1, <1>5, JobKept DEF Known, Live, NewJobs
  <2>2. QED  BY <1>1, <1>2, <1>5, <2>1, NewJobsWithinLimit DEF Buried
<1>6. ASSUME NEW r \in Retriers, (retry[r].pc \in RequestPc)'
      PROVE  letters'[retry'[r].notification] # <<>>
  <2>1. /\ retry'[r].notification \in Notifications
        /\ Buried(retry'[r].notification)
    BY <1>1, <1>6, NotificationKept, ActiveIsRequest DEF LimitInv, LimitKept
  <2>2. QED  BY <1>2, <2>1 DEF Buried
<1>7. QED
  BY <1>3, <1>4, <1>5, <1>6
     DEF LimitInv, LimitKept, Buried, Subject, MaxAttempts, At

LEMMA LimitAlways == Spec => []LimitInv
<1>1. Init => LimitInv
  BY DEF Init, LimitInv, OnlyDeadLettersExceedLimit, LimitKept, Known, Live,
         Busy, At, Idle, RequestPc, Unmade
<1>2. Spec => []TypeInv
  BY TypeCorrect, PTL DEF TypeInv
<1>3. TypeInv /\ LimitInv /\ [Next]_vars => LimitInv'
  BY LimitStep
<1>4. QED  BY <1>1, <1>2, <1>3, PTL DEF Spec

\* A job beyond max_attempts exists only for a dead lettered notification.
THEOREM LimitHolds == Spec => []OnlyDeadLettersExceedLimit
BY LimitAlways, PTL DEF LimitInv
===============================================================================
