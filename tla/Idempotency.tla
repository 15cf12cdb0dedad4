----------------------------- MODULE Idempotency ------------------------------
(***************************************************************************)
(* Middleware.Idempotency around the handler of POST /v1/notify, for the   *)
(* requests of one user.  Concurrent requests meet in the table            *)
(* idempotency_keys: the one that inserts the row of a key runs the        *)
(* handler and stores its response, the others are answered from the row.  *)
(*                                                                         *)
(* The statements use the context of the HTTP request, which is cancelled  *)
(* when the client hangs up.  The recorder writes through, but net/http    *)
(* buffers what it is given: a client reads its answer when the handler    *)
(* chain has returned.                                                     *)
(*                                                                         *)
(* The handler decodes the body and calls Submit, which inserts a row and  *)
(* a log and enqueues a job, without undoing the first when a later one    *)
(* fails; what becomes of the job is module Delivery.                      *)
(*                                                                         *)
(* Left out: the user and the endpoint of a key, times, the look-up of a   *)
(* template, whose error Submit ignores.                                   *)
(*                                                                         *)
(* An operator whose name ends in _bug is a mutant of the operator after   *)
(* it.                                                                     *)
(***************************************************************************)
EXTENDS Naturals

CONSTANTS
  Requests,  \* the POST /v1/notify requests
  Keys,      \* values of the Idempotency-Key header
  NoKey,     \* the header is missing
  Bodies,    \* request bodies, which their SHA-256 hashes tell apart
  KeyOf,     \* the key each request carries
  BodyOf,    \* the body each request carries
  Nobody,    \* the owner of a key that has no row
  MaxFaults  \* bound: how often each kind of fault may happen

FaultKinds == {"db", "crash", "hangup"}

ASSUME IdempotencyAssumption ==
  /\ NoKey \notin Keys
  /\ Nobody \notin Requests
  /\ KeyOf \in [Requests -> Keys \cup {NoKey}]
  /\ BodyOf \in [Requests -> Bodies]
  /\ MaxFaults \in [FaultKinds -> Nat]

VARIABLES
  records,  \* table idempotency_keys, one row per key at most
  stored,   \* what PostgreSQL and Redis hold of each request's notification
  pc,       \* where each request is
  recorder, \* what the handler wrote to the response of each request
  answer,   \* what the client of each request received
  gone,     \* has the client hung up?
  faults    \* how many faults of each kind have happened

vars == <<records, stored, pc, recorder, answer, gone, faults>>

-------------------------------------------------------------------------------
(* Data. *)

\* Responses of handleNotify: 202; 400; 500, when Submit fails.
Outcomes == {"accepted", "invalid", "error"}

\* A response of the handler names the request whose execution it is of, as
\* the id in its body does; the middleware's own answers do not.
Response(outcome, r) == [kind |-> "result", outcome |-> outcome, of |-> r]
Responses == [kind : {"result"}, outcome : Outcomes, of : Requests]
NoAnswer == [kind |-> "none"]
Unreadable == [kind |-> "unreadable"] \* 400, failed to read request body
Failure == [kind |-> "failure"]       \* 500, failed to register the key
Reused == [kind |-> "reused"]         \* 409, different payload
Busy == [kind |-> "busy"]             \* 409, already in progress
Answers == Responses \cup {NoAnswer, Unreadable, Failure, Reused, Busy}

\* domain.IdempotencyRecord.  The owner is the request whose id the row has;
\* request_hash is the hash of the owner's body.
Absent == [owner |-> Nobody, status |-> "absent", response |-> NoAnswer]
InProgress(r) == [owner |-> r, status |-> "in_progress", response |-> NoAnswer]
Completed(r, a) == [owner |-> r, status |-> "completed", response |-> a]

\* Where a request is that executes, or has executed, the handler.
Executing == {"handle", "log", "enqueue", "mark"}
Points == {"new", "insert", "select", "done"} \cup Executing
Stores == {"row", "log", "job"}
At(r, point) == pc[r] = point
Goto(r, point) == pc' = [pc EXCEPT ![r] = point]

\* The handler chain of r returns; a client that has hung up reads nothing.
End(r, a) ==
  /\ Goto(r, "done")
  /\ answer' = [answer EXCEPT ![r] = IF gone[r] THEN @ ELSE a]

Fault(kind) ==
  /\ faults[kind] < MaxFaults[kind]
  /\ faults' = [faults EXCEPT ![kind] = @ + 1]

\* A statement of r fails, applied or not: the database fails or the context
\* has been cancelled.
StatementFails(r) == (gone[r] /\ UNCHANGED faults) \/ Fault("db")

-------------------------------------------------------------------------------
(* Middleware.Idempotency *)

\* A request without a key goes straight to the handler.
Arrive(r) ==
  /\ At(r, "new")
  /\ \/ KeyOf[r] = NoKey /\ Goto(r, "handle")
     \/ KeyOf[r] # NoKey /\ Goto(r, "insert")
  /\ UNCHANGED <<records, stored, recorder, answer, gone, faults>>

ReadBodyFails(r) ==
  /\ At(r, "new")
  /\ KeyOf[r] # NoKey
  /\ End(r, Unreadable)
  /\ UNCHANGED <<records, stored, recorder, gone, faults>>

\* CreateOrGet: INSERT ... ON CONFLICT (user_id, endpoint, key) DO NOTHING.
Create_bug(r) == records' = [records EXCEPT ![KeyOf[r]] = InProgress(r)]
Create(r) ==
  /\ records[KeyOf[r]] = Absent
  /\ records' = [records EXCEPT ![KeyOf[r]] = InProgress(r)]

Insert(r) ==
  /\ At(r, "insert")
  /\ \/ Create(r) /\ Goto(r, "handle") /\ UNCHANGED <<answer, faults>>
     \/ /\ records[KeyOf[r]] # Absent
        /\ Goto(r, "select")
        /\ UNCHANGED <<records, answer, faults>>
     \/ /\ StatementFails(r)
        /\ Create(r) \/ UNCHANGED records
        /\ End(r, Failure)
  /\ UNCHANGED <<stored, recorder, gone>>

\* CreateOrGet's SELECT, a statement of its own, and what is answered from it.
SameBody_bug(r) == TRUE
SameBody(r) == BodyOf[records[KeyOf[r]].owner] = BodyOf[r]

Select(r) ==
  LET found == records[KeyOf[r]]
  IN  /\ At(r, "select")
      /\ \/ ~SameBody(r) /\ End(r, Reused) /\ UNCHANGED faults
         \/ /\ SameBody(r) /\ found.status = "in_progress"
            /\ End(r, Busy) /\ UNCHANGED faults
         \/ /\ SameBody(r) /\ found.status = "completed"
            /\ End(r, found.response) /\ UNCHANGED faults
         \/ StatementFails(r) /\ End(r, Failure)
      /\ UNCHANGED <<records, stored, recorder, gone>>

\* next(recorder, r) returns: the handler of r has written its response.
Reply_bug(r, outcome) ==  \* next(w, r): the recorder stays empty
  /\ \/ KeyOf[r] # NoKey /\ Goto(r, "mark") /\ UNCHANGED answer
     \/ KeyOf[r] = NoKey /\ End(r, Response(outcome, r))
  /\ UNCHANGED recorder
Reply(r, outcome) ==
  /\ recorder' = [recorder EXCEPT ![r] = outcome]
  /\ \/ KeyOf[r] # NoKey /\ Goto(r, "mark") /\ UNCHANGED answer
     \/ KeyOf[r] = NoKey /\ End(r, Response(outcome, r))

Put(r, store) == stored' = [stored EXCEPT ![r] = @ \cup {store}]

\* A store call of Submit that fails, applied or not, ends it with a 500.
PutFails(r, store) ==
  /\ StatementFails(r)
  /\ Put(r, store) \/ UNCHANGED stored
  /\ Reply(r, "error")

\* handleNotify refuses what it cannot decode, or Submit another type than
\* email; else the notification is inserted.
Handle(r) ==
  /\ At(r, "handle")
  /\ \/ Reply(r, "invalid") /\ UNCHANGED <<stored, faults>>
     \/ Put(r, "row") /\ Goto(r, "log") /\ UNCHANGED <<recorder, answer, faults>>
     \/ PutFails(r, "row")
  /\ UNCHANGED <<records, gone>>

AppendLog(r) ==
  /\ At(r, "log")
  /\ \/ Put(r, "log") /\ Goto(r, "enqueue") /\ UNCHANGED <<recorder, answer, faults>>
     \/ PutFails(r, "log")
  /\ UNCHANGED <<records, gone>>

\* The 202 is written once Redis has the job.
Enqueue_bug(r) ==
  /\ At(r, "enqueue")
  /\ \/ Put(r, "job") /\ UNCHANGED faults
     \/ StatementFails(r) /\ (Put(r, "job") \/ UNCHANGED stored)
  /\ Reply(r, "accepted")
  /\ UNCHANGED <<records, gone>>
Enqueue(r) ==
  /\ At(r, "enqueue")
  /\ \/ Put(r, "job") /\ Reply(r, "accepted") /\ UNCHANGED faults
     \/ PutFails(r, "job")
  /\ UNCHANGED <<records, gone>>

\* MarkCompleted updates the row by its id; its error is only logged.
Complete_bug(r) ==
  records' = [records EXCEPT ![KeyOf[r]] =
                Completed(r, Response("accepted", r))]
Complete(r) ==
  records' = [records EXCEPT ![KeyOf[r]] =
                Completed(r, Response(recorder[r], r))]

MarkCompleted_bug(r) ==
  /\ At(r, "mark")
  /\ IF recorder[r] = "accepted" THEN Complete(r) ELSE UNCHANGED records
  /\ End(r, Response(recorder[r], r))
  /\ UNCHANGED <<stored, recorder, gone, faults>>
MarkCompleted(r) ==
  /\ At(r, "mark")
  /\ \/ Complete(r) /\ UNCHANGED faults
     \/ StatementFails(r) /\ (Complete(r) \/ UNCHANGED records)
  /\ End(r, Response(recorder[r], r))
  /\ UNCHANGED <<stored, recorder, gone>>

Serve(r) ==
  \/ Insert(r) \/ Select(r) \/ Handle(r) \/ AppendLog(r) \/ Enqueue(r)
  \/ MarkCompleted(r)

-------------------------------------------------------------------------------
(* The environment. *)

HangUp(r) ==
  /\ ~gone[r]
  /\ pc[r] \notin {"new", "done"}
  /\ Fault("hangup")
  /\ gone' = [gone EXCEPT ![r] = TRUE]
  /\ UNCHANGED <<records, stored, pc, recorder, answer>>

\* The process dies and is started again: requests in progress are lost.
Crash ==
  /\ Fault("crash")
  /\ pc' = [r \in Requests |-> IF At(r, "new") THEN "new" ELSE "done"]
  /\ UNCHANGED <<records, stored, recorder, answer, gone>>

Init ==
  /\ records = [k \in Keys |-> Absent]
  /\ stored = [r \in Requests |-> {}]
  /\ pc = [r \in Requests |-> "new"]
  /\ recorder = [r \in Requests |-> "none"]
  /\ answer = [r \in Requests |-> NoAnswer]
  /\ gone = [r \in Requests |-> FALSE]
  /\ faults = [kind \in FaultKinds |-> 0]

Next ==
  \/ \E r \in Requests :
       Arrive(r) \/ ReadBodyFails(r) \/ Serve(r) \/ HangUp(r)
  \/ Crash

Spec == Init /\ [][Next]_vars

\* Each request has a goroutine, which runs until the chain has returned.
FairSpec == Spec /\ \A r \in Requests : WF_vars(Serve(r))

-------------------------------------------------------------------------------
(* Properties. *)

RecordType ==
  {Absent} \cup {InProgress(r) : r \in Requests}
    \cup {Completed(a.of, a) : a \in Responses}

TypeOK ==
  /\ records \in [Keys -> RecordType]
  /\ stored \in [Requests -> SUBSET Stores]
  /\ pc \in [Requests -> Points]
  /\ recorder \in [Requests -> Outcomes \cup {"none"}]
  /\ answer \in [Requests -> Answers]
  /\ gone \in [Requests -> BOOLEAN]
  /\ faults \in [FaultKinds -> Nat]

HasRun(r) == recorder[r] # "none"
HasResult(r) == answer[r] \in Responses

\* The handler runs at most once for a key, however many requests carry it at
\* the same time and whatever fails.
AtMostOnce ==
  \A q, r \in Requests :
    KeyOf[q] = KeyOf[r] /\ KeyOf[r] # NoKey /\ HasRun(q) /\ HasRun(r) => q = r

\* A key has one notification in the stores at most, those included that Submit
\* left behind when it failed or the process died: a repetition adds none.
OneNotificationPerKey ==
  \A q, r \in Requests :
    /\ KeyOf[q] = KeyOf[r] /\ KeyOf[r] # NoKey
    /\ stored[q] # {} /\ stored[r] # {}
    => q = r

\* A 202, fresh or replayed, names a notification with its row, log and job.
AcceptedIsQueued ==
  \A r \in Requests :
    HasResult(r) /\ answer[r].outcome = "accepted" => stored[answer[r].of] = Stores

\* All the results that requests with one key are given are the same result,
\* outcome and notification id, be they fresh or replayed.
SameResult ==
  \A q, r \in Requests :
    KeyOf[q] = KeyOf[r] /\ KeyOf[r] # NoKey /\ HasResult(q) /\ HasResult(r)
      => answer[q] = answer[r]

\* Nobody is given the result of a request that had a different body.
MatchingBody ==
  \A r \in Requests : HasResult(r) => BodyOf[answer[r].of] = BodyOf[r]

\* A request is executing, or about to store what it executed, only for the
\* key it has inserted the row of.
OwnerRuns ==
  \A r \in Requests :
    KeyOf[r] # NoKey /\ (pc[r] \in Executing \/ HasRun(r))
      => records[KeyOf[r]].owner = r

\* Rows go through the life cycle of a key: claimed by one request, then given
\* the one result.
Once == INSTANCE OncePerKey WITH
  Results <- Responses,
  NoResult <- NoAnswer,
  owner <- [k \in Keys |-> records[k].owner],
  result <- [k \in Keys |-> records[k].response]

ImplementsOncePerKey == Once!Spec

\* Unless something fails, every claimed key gets its result, so that a client
\* that repeats its request is not told "already in progress" for ever.
EventuallyCompleted ==
  \A k \in Keys :
    records[k].status = "in_progress" ~>
      \/ records[k].status = "completed"
      \/ \E kind \in FaultKinds : faults[kind] > 0

\* What the 409 answer says: "request with this idempotency key is already in
\* progress".  When the handler has accepted the request, MarkCompleted is all
\* that can be in progress.
InProgressIsServed ==
  \A r \in Requests :
    /\ KeyOf[r] # NoKey
    /\ recorder[r] = "accepted"
    /\ records[KeyOf[r]] = InProgress(r)
    => At(r, "mark")
===============================================================================
