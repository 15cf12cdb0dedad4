------------------------------- MODULE Delivery -------------------------------
(***************************************************************************)
(* The delivery pipeline of Naughyfication: service.Submit accepts a       *)
(* notification, asynq workers run service.Process on its jobs until it is *)
(* sent or its attempts are exhausted, and service.RetryDeadLetter puts an *)
(* exhausted one back in the queue.                                        *)
(*                                                                         *)
(* The three operations run concurrently and share two stores that no      *)
(* transaction spans: PostgreSQL (row, logs, letters) and Redis (the asynq *)
(* queue).  Each store call is one atomic step; what an operation read     *)
(* before a step it keeps in its own record and writes back later, as the  *)
(* code does with its copy of domain.Notification.                         *)
(*                                                                         *)
(* Left out: user ids, addresses, templates, times, last_error, metrics.   *)
(* An operator whose name ends in _bug is a mutant: what the operator after *)
(* it would be with a plausible mistake, which some run must detect.       *)
(***************************************************************************)
EXTENDS Naturals, Sequences

CONSTANTS
  Notifications, \* the notifications clients submit, one Submit request each
  Workers,       \* the WORKER_COUNT slots of the asynq server
  Retriers,      \* the POST /v1/dlq/{id}/retry requests
  MaxRetries,    \* cfg.MaxRetries, environment variable MAX_RETRIES
  LongBackoff,   \* TRUE: a retry delay outlasts the rest of the handler that
                 \* scheduled it; FALSE: it may elapse at any moment
  MaxFaults      \* bound: how often each kind of fault may happen

FaultKinds == {"db", "redis", "crash", "stop"}

ASSUME DeliveryAssumption ==
  /\ MaxRetries \in Nat
  /\ LongBackoff \in BOOLEAN
  /\ MaxFaults \in [FaultKinds -> Nat]

VARIABLES
  row,       \* table notifications: status and attempts
  logs,      \* table delivery_logs
  letters,   \* table dead_letter_jobs: for each letter, is retried_at set?
  scheduled, \* asynq: jobs whose delay has not elapsed
  pending,   \* asynq: jobs a worker may take
  active,    \* asynq: jobs a worker has taken, leased until it reports
  archived,  \* asynq: jobs given up, whose task ids stay taken
  submit,    \* progress of each Submit
  worker,    \* what each worker is doing
  retry,     \* progress of each RetryDeadLetter
  callbacks, \* what was handed to the webhook dispatcher
  stopping,  \* has the process received SIGTERM?
  faults,    \* how many faults of each kind have happened
  tally      \* history: provider calls and requeues of each notification

storeVars == <<row, logs, letters>>
queueVars == <<scheduled, pending, active, archived>>
actorVars == <<submit, worker, retry>>
vars == <<row, logs, letters, scheduled, pending, active, archived, submit,
          worker, retry, callbacks, stopping, faults, tally>>

-------------------------------------------------------------------------------
(* Data. *)

Status == {"pending", "retrying", "sent", "failed"}
Terminal == {"sent", "failed"}
MaxAttempts == MaxRetries + 1

\* queue.JobPayload.  The task id "<notification>-<attempt>" is the pair itself.
JobPayload == [notification : Notifications, attempt : Nat]
Job(n, k) == [notification |-> n, attempt |-> k]

\* The columns of table notifications that change; Absent: no row yet.
Row == [status : Status \cup {"absent"}, attempts : Nat]
Absent == [status |-> "absent", attempts |-> 0]
DeliveryLog == [notification : Notifications, attempt : Nat, status : Status]
LogEntry(n, k, s) == [notification |-> n, attempt |-> k, status |-> s]

Idle == [pc |-> "idle"]
HandlerPc == {"get", "increment", "sending", "bury", "reschedule", "update",
              "appendLog", "finish"}
Handler == [pc : HandlerPc, job : JobPayload, status : Status, attempts : Nat]
Busy(w) == worker[w].pc # "idle"

RequestPc == {"update", "mark", "enqueue"}
Unmade == [pc |-> "new"]
Request == [pc : RequestPc, notification : Notifications, letter : Nat,
            attempts : Nat]
RequestEnd == [pc : {"requeued", "failed"}, notification : Notifications]

SubmitPc == {"new", "appendLog", "enqueue", "accepted", "rejected"}

TallyKinds == {"sends", "acks", "manual", "aborts"}
Count(n, kind) == tally' = [tally EXCEPT ![n][kind] = @ + 1]

Fault(kind) ==
  /\ faults[kind] < MaxFaults[kind]
  /\ faults' = [faults EXCEPT ![kind] = @ + 1]

\* A statement fails: PostgreSQL has applied it, or it has not.
\* A client that hangs up has this effect too: it cancels the context.
DbError(Effect, table) == Fault("db") /\ (Effect \/ UNCHANGED table)

Buried(n) == letters[n] # <<>>

At(w, pc) == worker[w].pc = pc
Subject(w) == worker[w].job.notification
Goto(w, pc) == worker' = [worker EXCEPT ![w].pc = pc]

\* The job of the retry that follows the attempt w has made.
NextJob_bug(w) == Job(Subject(w), worker[w].attempts)
NextJob(w) == Job(Subject(w), worker[w].attempts + 1)

-------------------------------------------------------------------------------
(* The asynq queue, as queue.Client and queue.Server use it. *)

Live == scheduled \cup pending \cup active
Known == Live \cup archived

\* EnqueueContext stores a task whose id no kept task has.
Put(job, delayed) ==
  /\ job \notin Known
  /\ scheduled' = IF delayed THEN scheduled \cup {job} ELSE scheduled
  /\ pending' = IF delayed THEN pending ELSE pending \cup {job}

\* The error results of Enqueue: an id that is taken, by an archived task too,
\* is refused (ErrTaskIDConflict); Redis fails before it has stored the task,
\* or after it.
Refused(job) ==
  /\ \/ job \in Known /\ UNCHANGED faults
     \/ Fault("redis")
  /\ UNCHANGED <<scheduled, pending>>
ReplyLost(job, delayed) == Put(job, delayed) /\ Fault("redis")

\* The handler of worker w returns: asynq deletes a task that succeeded and
\* archives one that failed, since Enqueue asks for MaxRetry(0).
Return(w, ok) ==
  /\ worker' = [worker EXCEPT ![w] = Idle]
  /\ active' = active \ {worker[w].job}
  /\ archived' = IF ok THEN archived ELSE archived \cup {worker[w].job}

\* The retry delay of a job elapses and the forwarder makes it pending.
Forward(job) ==
  /\ job \in scheduled
  /\ LongBackoff =>
       ~ \E w \in Workers :
            /\ worker[w].pc \in {"update", "appendLog", "finish"}
            /\ worker[w].status = "retrying"
            /\ job = NextJob(w)
  /\ scheduled' = scheduled \ {job}
  /\ pending' = pending \cup {job}
  /\ UNCHANGED <<active, archived, storeVars, actorVars, callbacks, stopping,
                 faults, tally>>

\* A worker takes a job and calls the handler that calls Process.
Dequeue(w, job) ==
  /\ ~stopping
  /\ ~Busy(w)
  /\ job \in pending
  /\ pending' = pending \ {job}
  /\ active' = active \cup {job}
  /\ worker' = [worker EXCEPT ![w] =
       [pc |-> "get", job |-> job, status |-> "pending", attempts |-> 0]]
  /\ UNCHANGED <<scheduled, archived, storeVars, submit, retry, callbacks,
                 stopping, faults, tally>>

LeaseExpired_bug(job) ==
  /\ job \in active
  /\ \A w \in Workers : Busy(w) => worker[w].job # job
  /\ active' = active \ {job}
  /\ pending' = pending \cup {job}
  /\ UNCHANGED <<scheduled, archived, storeVars, actorVars, callbacks, stopping,
                 faults, tally>>

\* The recoverer finds a job whose worker died: its retries (0) are used up,
\* so it archives the job.
LeaseExpired(job) ==
  /\ job \in active
  /\ \A w \in Workers : Busy(w) => worker[w].job # job
  /\ active' = active \ {job}
  /\ archived' = archived \cup {job}
  /\ UNCHANGED <<scheduled, pending, storeVars, actorVars, callbacks, stopping,
                 faults, tally>>

-------------------------------------------------------------------------------
(* The statements of postgres.Repository.  No row is ever deleted, so none   *)
(* of them finds its row missing.                                            *)

\* CreateNotification
Insert_bug(n) == row' = [row EXCEPT ![n] = [status |-> "pending"]]
Insert(n) == row' = [row EXCEPT ![n] = [status |-> "pending", attempts |-> 0]]

\* IncrementAttempts stores the count the handler computed, not row + 1.
StoreAttempts_bug(w) ==
  row' = [row EXCEPT ![Subject(w)] =
           [status |-> "sent", attempts |-> worker[w].attempts]]
StoreAttempts(w) ==
  row' = [row EXCEPT ![Subject(w)].attempts = worker[w].attempts]

\* UpdateNotification writes the whole record the caller carries.
Store(n, status, attempts) ==
  row' = [row EXCEPT ![n] = [status |-> status, attempts |-> attempts]]

AddLog(entry) == logs' = logs \cup {entry}

\* CreateDeadLetter
AddLetter_bug(n) == UNCHANGED letters
AddLetter(n) == letters' = [letters EXCEPT ![n] = Append(@, FALSE)]

\* MarkDeadLetterRetried sets retried_at of letter i.
MarkLetter(n, i) == letters' = [letters EXCEPT ![n][i] = TRUE]

-------------------------------------------------------------------------------
(* service.Submit.  A template that cannot be read is ignored. *)

\* A request of a type other than email is refused before it has any effect.
RejectUnsupported(n) ==
  /\ ~stopping /\ submit[n] = "new"
  /\ submit' = [submit EXCEPT ![n] = "rejected"]
  /\ UNCHANGED <<storeVars, queueVars, worker, retry, callbacks, stopping,
                 faults, tally>>

CreateNotification_bug(n) ==
  /\ ~stopping /\ submit[n] = "new"
  /\ \/ Insert(n) /\ UNCHANGED faults
     \/ DbError(Insert(n), row)
  /\ submit' = [submit EXCEPT ![n] = "appendLog"]
  /\ UNCHANGED <<logs, letters, queueVars, worker, retry, callbacks, stopping,
                 tally>>
CreateNotification(n) ==
  /\ ~stopping /\ submit[n] = "new"
  /\ \/ /\ Insert(n)
        /\ submit' = [submit EXCEPT ![n] = "appendLog"]
        /\ UNCHANGED faults
     \/ /\ DbError(Insert(n), row)
        /\ submit' = [submit EXCEPT ![n] = "rejected"]
  /\ UNCHANGED <<logs, letters, queueVars, worker, retry, callbacks, stopping,
                 tally>>

AppendFirstLog(n) ==
  LET entry == LogEntry(n, 0, "pending")
  IN  /\ submit[n] = "appendLog"
      /\ \/ /\ AddLog(entry)
            /\ submit' = [submit EXCEPT ![n] = "enqueue"]
            /\ UNCHANGED faults
         \/ /\ DbError(AddLog(entry), logs)
            /\ submit' = [submit EXCEPT ![n] = "rejected"]
      /\ UNCHANGED <<row, letters, queueVars, worker, retry, callbacks,
                     stopping, tally>>

EnqueueFirst(n) ==
  /\ submit[n] = "enqueue"
  /\ \/ /\ Put(Job(n, 1), FALSE)
        /\ submit' = [submit EXCEPT ![n] = "accepted"]
        /\ UNCHANGED faults
     \/ /\ Refused(Job(n, 1)) \/ ReplyLost(Job(n, 1), FALSE)
        /\ submit' = [submit EXCEPT ![n] = "rejected"]
  /\ UNCHANGED <<active, archived, storeVars, worker, retry, callbacks, stopping, tally>>

-------------------------------------------------------------------------------
(* service.Process *)

\* GetNotificationByID; a notification already sent or failed is left alone.
GetNotification(w) ==
  /\ At(w, "get")
  /\ \/ /\ row[Subject(w)].status \in Terminal
        /\ Return(w, TRUE)
        /\ UNCHANGED faults
     \/ /\ row[Subject(w)].status \notin Terminal
        /\ worker' = [worker EXCEPT ![w].pc = "increment",
                                    ![w].status = row[Subject(w)].status,
                                    ![w].attempts = row[Subject(w)].attempts + 1]
        /\ UNCHANGED <<active, archived, faults>>
     \/ Fault("db") /\ Return(w, FALSE)
  /\ UNCHANGED <<scheduled, pending, storeVars, submit, retry, callbacks,
                 stopping, tally>>

\* When the new count is stored the call of the provider has begun.
IncrementAttempts(w) ==
  /\ At(w, "increment")
  /\ \/ /\ StoreAttempts(w)
        /\ Goto(w, "sending")
        /\ Count(Subject(w), "sends")
        /\ UNCHANGED <<active, archived, faults>>
     \/ /\ DbError(StoreAttempts(w), row)
        /\ Return(w, FALSE)
        /\ UNCHANGED tally
  /\ UNCHANGED <<scheduled, pending, logs, letters, submit, retry, callbacks,
                 stopping>>

Exhausted_bug(w) == worker[w].attempts > MaxAttempts
Exhausted(w) == worker[w].attempts >= MaxAttempts

\* Send returns nil, which "acks" counts, or an error: its timeout too, though
\* the mail may still go out then.  The last error exhausts the notification.
SendReturns(w) ==
  /\ At(w, "sending")
  /\ \/ /\ worker' = [worker EXCEPT ![w].pc = "update", ![w].status = "sent"]
        /\ Count(Subject(w), "acks")
     \/ /\ Exhausted(w)
        /\ worker' = [worker EXCEPT ![w].pc = "bury", ![w].status = "failed"]
        /\ UNCHANGED tally
     \/ /\ ~Exhausted(w)
        /\ worker' = [worker EXCEPT ![w].pc = "reschedule",
                                    ![w].status = "retrying"]
        /\ UNCHANGED tally
  /\ UNCHANGED <<storeVars, queueVars, submit, retry, callbacks, stopping,
                 faults>>

\* The error of CreateDeadLetter is discarded.
CreateDeadLetter(w) ==
  /\ At(w, "bury")
  /\ \/ AddLetter(Subject(w)) /\ UNCHANGED faults
     \/ DbError(AddLetter(Subject(w)), letters)
  /\ Goto(w, "update")
  /\ UNCHANGED <<row, logs, queueVars, submit, retry, callbacks, stopping, tally>>

\* The next attempt is enqueued before this one is recorded.
ScheduleRetry(w) ==
  /\ At(w, "reschedule")
  /\ \/ /\ Put(NextJob(w), TRUE)
        /\ Goto(w, "update")
        /\ UNCHANGED <<active, archived, faults>>
     \/ /\ Refused(NextJob(w)) \/ ReplyLost(NextJob(w), TRUE)
        /\ Return(w, FALSE)
  /\ UNCHANGED <<storeVars, submit, retry, callbacks, stopping, tally>>

\* The record the handler has carried since its read goes back to the row.
UpdateNotification(w) ==
  LET Save == Store(Subject(w), worker[w].status, worker[w].attempts)
  IN  /\ At(w, "update")
      /\ \/ /\ Save
            /\ Goto(w, "appendLog")
            /\ UNCHANGED <<active, archived, faults>>
         \/ /\ DbError(Save, row)
            /\ Return(w, FALSE)
      /\ UNCHANGED <<scheduled, pending, logs, letters, submit, retry,
                     callbacks, stopping, tally>>

Outcome(w) == LogEntry(Subject(w), worker[w].attempts, worker[w].status)

AppendLog(w) ==
  /\ At(w, "appendLog")
  /\ \/ /\ AddLog(Outcome(w))
        /\ Goto(w, "finish")
        /\ UNCHANGED <<active, archived, faults>>
     \/ /\ DbError(AddLog(Outcome(w)), logs)
        /\ Return(w, FALSE)
  /\ UNCHANGED <<scheduled, pending, row, letters, submit, retry, callbacks,
                 stopping, tally>>

\* GetUserByID, the webhook goroutine, and the result of the send as the
\* result of the handler.
Finish(w) ==
  /\ At(w, "finish")
  /\ \/ callbacks' = callbacks \cup {Outcome(w)} /\ UNCHANGED faults
     \/ Fault("db") /\ UNCHANGED callbacks
  /\ Return(w, worker[w].status = "sent")
  /\ UNCHANGED <<scheduled, pending, storeVars, submit, retry, stopping, tally>>

Process(w) ==
  \/ GetNotification(w) \/ IncrementAttempts(w) \/ SendReturns(w)
  \/ CreateDeadLetter(w) \/ ScheduleRetry(w) \/ UpdateNotification(w)
  \/ AppendLog(w) \/ Finish(w)

-------------------------------------------------------------------------------
(* service.RetryDeadLetter *)

RequestAt(r, pc) == retry[r].pc = pc
Ended(r, pc) == [pc |-> pc, notification |-> retry[r].notification]
EndRequest(r, pc) == retry' = [retry EXCEPT ![r] = Ended(r, pc)]

\* GetDeadLetter and GetNotification.  A letter never changes but for
\* retried_at, which is not consulted, so the two reads are one step; a read
\* that fails ends the request as if it had not been made.
RetryRead(r, n) ==
  /\ ~stopping
  /\ RequestAt(r, "new")
  /\ \E i \in DOMAIN letters[n] :
       retry' = [retry EXCEPT ![r] =
         [pc |-> "update", notification |-> n, letter |-> i,
          attempts |-> row[n].attempts]]
  /\ UNCHANGED <<storeVars, queueVars, submit, worker, callbacks, stopping,
                 faults, tally>>

RetryUpdate_bug(r) ==  \* the row keeps its status
  /\ RequestAt(r, "update")
  /\ retry' = [retry EXCEPT ![r].pc = "mark"]
  /\ UNCHANGED <<storeVars, queueVars, submit, worker, callbacks, stopping,
                 faults, tally>>
RetryUpdate(r) ==
  LET Reset == Store(retry[r].notification, "pending", retry[r].attempts)
  IN  /\ RequestAt(r, "update")
      /\ \/ /\ Reset
            /\ retry' = [retry EXCEPT ![r].pc = "mark"]
            /\ UNCHANGED faults
         \/ /\ DbError(Reset, row)
            /\ EndRequest(r, "failed")
      /\ UNCHANGED <<logs, letters, queueVars, submit, worker, callbacks,
                     stopping, tally>>

\* MarkDeadLetterRetried comes before the job exists.
RetryMark(r) ==
  LET Mark == MarkLetter(retry[r].notification, retry[r].letter)
  IN  /\ RequestAt(r, "mark")
      /\ \/ /\ Mark
            /\ retry' = [retry EXCEPT ![r].pc = "enqueue"]
            /\ UNCHANGED faults
         \/ /\ DbError(Mark, letters)
            /\ EndRequest(r, "failed")
      /\ UNCHANGED <<row, logs, queueVars, submit, worker, callbacks, stopping,
                     tally>>

RequeuedJob_bug(r) == Job(retry[r].notification, retry[r].attempts)
RequeuedJob(r) == Job(retry[r].notification, retry[r].attempts + 1)

RetryEnqueue(r) ==
  LET n == retry[r].notification
      job == RequeuedJob(r)
  IN  /\ RequestAt(r, "enqueue")
      /\ \/ /\ Put(job, FALSE)
            /\ EndRequest(r, "requeued")
            /\ Count(n, "manual")
            /\ UNCHANGED faults
         \/ /\ ReplyLost(job, FALSE)
            /\ EndRequest(r, "failed")
            /\ Count(n, "manual")
         \/ /\ Refused(job)
            /\ EndRequest(r, "failed")
            /\ UNCHANGED tally
      /\ UNCHANGED <<active, archived, storeVars, submit, worker, callbacks,
                     stopping>>

RetryDeadLetter(r) == RetryUpdate(r) \/ RetryMark(r) \/ RetryEnqueue(r)

-------------------------------------------------------------------------------
(* Process life cycle: one process runs the API and the workers. *)

\* The process is gone and a new one starts: every operation in progress is
\* lost; the two stores keep what they have.
Restart ==
  /\ worker' = [w \in Workers |-> Idle]
  /\ submit' = [n \in Notifications |->
       IF submit[n] \in {"appendLog", "enqueue"} THEN "rejected" ELSE submit[n]]
  /\ retry' = [r \in Retriers |->
       IF retry[r].pc \in RequestPc THEN Ended(r, "failed") ELSE retry[r]]
  /\ stopping' = FALSE
  /\ UNCHANGED <<storeVars, queueVars, callbacks, tally>>

Crash == Fault("crash") /\ Restart

\* SIGTERM: the asynq server and main both react, new work is refused.
Stop ==
  /\ ~stopping
  /\ Fault("stop")
  /\ stopping' = TRUE
  /\ UNCHANGED <<storeVars, queueVars, actorVars, callbacks, tally>>

\* The asynq shutdown timeout: the job goes back to pending and the context
\* of its handler is cancelled, which ends it without another effect.
Abort(w) ==
  /\ stopping
  /\ Busy(w)
  /\ worker' = [worker EXCEPT ![w] = Idle]
  /\ active' = active \ {worker[w].job}
  /\ pending' = pending \cup {worker[w].job}
  /\ Count(Subject(w), "aborts")
  /\ UNCHANGED <<scheduled, archived, storeVars, submit, retry, callbacks,
                 stopping, faults>>

\* main returns, with handlers perhaps still running, and is started again.
Exit == stopping /\ Restart /\ UNCHANGED faults

-------------------------------------------------------------------------------
Init ==
  /\ row = [n \in Notifications |-> Absent]
  /\ logs = {}
  /\ letters = [n \in Notifications |-> <<>>]
  /\ scheduled = {} /\ pending = {} /\ active = {} /\ archived = {}
  /\ submit = [n \in Notifications |-> "new"]
  /\ worker = [w \in Workers |-> Idle]
  /\ retry = [r \in Retriers |-> Unmade]
  /\ callbacks = {}
  /\ stopping = FALSE
  /\ faults = [kind \in FaultKinds |-> 0]
  /\ tally = [n \in Notifications |-> [kind \in TallyKinds |-> 0]]

Submit(n) ==
  \/ RejectUnsupported(n) \/ CreateNotification(n) \/ AppendFirstLog(n)
  \/ EnqueueFirst(n)

Next ==
  \/ \E n \in Notifications : Submit(n)
  \/ \E job \in scheduled : Forward(job)
  \/ \E job \in pending, w \in Workers : Dequeue(w, job)
  \/ \E job \in active : LeaseExpired(job)
  \/ \E w \in Workers : Process(w) \/ Abort(w)
  \/ \E r \in Retriers, n \in Notifications : RetryRead(r, n)
  \/ \E r \in Retriers : RetryDeadLetter(r)
  \/ Crash \/ Stop \/ Exit

Spec == Init /\ [][Next]_vars

\* What the runtime guarantees: goroutines make progress, asynq forwards due
\* jobs and hands the jobs of a notification to workers that are free.
Fairness ==
  /\ \A n \in Notifications :
       WF_vars(\E job \in pending, w \in Workers :
                 job.notification = n /\ Dequeue(w, job))
  /\ \A n \in Notifications :
       WF_vars(\E job \in scheduled : job.notification = n /\ Forward(job))
  /\ \A w \in Workers : WF_vars(Process(w))
  /\ \A n \in Notifications : WF_vars(AppendFirstLog(n) \/ EnqueueFirst(n))
  /\ \A r \in Retriers : WF_vars(RetryDeadLetter(r))

FairSpec == Spec /\ Fairness

-------------------------------------------------------------------------------
(* Properties. *)

TypeOK ==
  /\ row \in [Notifications -> Row]
  /\ logs \in SUBSET DeliveryLog
  /\ letters \in [Notifications -> Seq(BOOLEAN)]
  /\ scheduled \in SUBSET JobPayload
  /\ pending \in SUBSET JobPayload
  /\ active \in SUBSET JobPayload
  /\ archived \in SUBSET JobPayload
  /\ submit \in [Notifications -> SubmitPc]
  /\ worker \in [Workers -> Handler \cup {Idle}]
  /\ retry \in [Retriers -> Request \cup RequestEnd \cup {Unmade}]
  /\ callbacks \in SUBSET DeliveryLog
  /\ stopping \in BOOLEAN
  /\ faults \in [FaultKinds -> Nat]
  /\ tally \in [Notifications -> [TallyKinds -> Nat]]

\* No job, request or letter refers to a notification without a row: Process
\* reads a row for every job it is handed.
Exists(n) == row[n].status # "absent"
References ==
  /\ \A n \in Notifications :
       submit[n] \in {"appendLog", "enqueue"} \/ Buried(n) => Exists(n)
  /\ \A job \in Known : Exists(job.notification)
  /\ \A w \in Workers : Busy(w) => Exists(Subject(w))
  /\ \A r \in Retriers :
       retry[r].pc \in RequestPc => Exists(retry[r].notification)

\* Whatever crashes, races and errors happen, no row, delivery log or webhook
\* says "sent" of a notification the provider has never accepted: the copy
\* Process writes back, however stale, was made after Send returned nil.
NoFalseDelivery ==
  \A n \in Notifications :
    \/ row[n].status = "sent"
    \/ \E entry \in logs \cup callbacks :
         entry.notification = n /\ entry.status = "sent"
    => tally[n]["acks"] > 0

\* A notification whose row, log or webhook says "failed" has a dead letter, so
\* that an operator can retry it, even when the process died in between; only
\* a database error, which Process discards, may lose the letter.
ExhaustedHasLetter ==
  \A n \in Notifications :
    \/ row[n].status = "failed"
    \/ \E entry \in logs \cup callbacks :
         entry.notification = n /\ entry.status = "failed"
    => Buried(n) \/ faults["db"] > 0

\* Automatic retries stop at max_attempts: a job with a higher number, and so a
\* delivery beyond the limit, exists only after the notification was dead
\* lettered.
OnlyDeadLettersExceedLimit ==
  \A job \in Known :
    job.attempt > MaxAttempts => Buried(job.notification)

\* The provider is called at most max_attempts times, plus once for each manual
\* retry, unless a shutdown put a job back: the kept task ids keep a job from
\* being enqueued again by a handler that works on a stale copy.
SendBudget ==
  \A n \in Notifications :
    \/ tally[n]["sends"] <= MaxAttempts + tally[n]["manual"]
    \/ tally[n]["aborts"] > 0

\* A notification that Send has returned nil for is not handed to the provider
\* again, unless an operator retries it or a shutdown put its job back.
NoResend ==
  \A n \in Notifications :
    tally[n]["acks"] <= 1 + tally[n]["manual"] + tally[n]["aborts"]

\* Two workers never have calls of the provider for one notification under way
\* at the same time, unless an operator's retries or a shutdown made a second
\* job beside the one there was.
NoOverlappingSends ==
  \A v, w \in Workers :
    At(v, "sending") /\ At(w, "sending") /\ Subject(v) = Subject(w) =>
      v = w \/ tally[Subject(v)]["aborts"] + tally[Subject(v)]["manual"] > 0

\* A notification that Submit has accepted and that is neither sent nor failed
\* has a job that will continue it, or an operator's retry in progress.
Stranded(n) ==
  /\ submit[n] = "accepted"
  /\ row[n].status \notin Terminal
  /\ \A job \in Live : job.notification # n
  /\ \A r \in Retriers :
       retry[r].pc \in RequestPc => retry[r].notification # n
NoneStranded == \A n \in Notifications : ~Stranded(n)

\* Request r for the retry of n has begun, and perhaps ended.
Asks(r, n) == ~RequestAt(r, "new") /\ retry[r].notification = n

\* Without a fault nothing strands a notification, when delays outlast handlers
\* and operators ask for its retry once.  A second request may: it stores
\* "pending" over what the job of the first has achieved, and its own job is
\* refused.
Faultless == \A kind \in FaultKinds : faults[kind] = 0
AskedOnce(n) ==
  \A q, r \in Retriers : Asks(q, n) /\ Asks(r, n) => q = r
FaultlessNoneStranded ==
  Faultless => \A n \in Notifications : AskedOnce(n) => ~Stranded(n)

\* Until an operator asks for its retry or a shutdown aborts a handler of it,
\* the row of a notification moves along the life cycle that
\* domain.NotificationStatus names, attempt by attempt.
Life(n) == INSTANCE NotificationLifecycle WITH
  status <- row[n].status, attempts <- row[n].attempts

Untouched(n) ==
  tally[n]["aborts"] = 0 /\ \A r \in Retriers : ~Asks(r, n)
ImplementsLifecycle ==
  /\ \A n \in Notifications : Life(n)!Init
  /\ [][\A n \in Notifications :
          Untouched(n)' => [Life(n)!Next]_(Life(n)!vars)]_row

\* Every notification is eventually sent or failed, unless a fault or a second
\* request of an operator strands it.
EventuallySettled ==
  \A n \in Notifications :
    Life(n)!Unsettled ~> Life(n)!Settled \/ ~Faultless \/ ~AskedOnce(n)

\* An operator's retry of a notification whose row says "failed" brings it one
\* more delivery attempt, unless a fault or a second request prevents it.  A row
\* that the last handler has still to write is not enough: that write takes the
\* request back, and the job finds the notification settled.
EventuallyRetried ==
  \A n \in Notifications :
    /\ \E r \in Retriers : RequestAt(r, "update") /\ retry[r].notification = n
    /\ row[n].status = "failed"
    ~> tally[n]["sends"] > MaxAttempts \/ ~Faultless \/ ~AskedOnce(n)
===============================================================================
