-------------------------- MODULE IdempotencyProofs ---------------------------
(***************************************************************************)
(* Theorems about Idempotency, for every set of requests, keys and bodies  *)
(* and every number of faults.                                             *)
(***************************************************************************)
EXTENDS Idempotency, TLAPS

USE DEF At, Goto, HasRun, Executing

\* Nobody gets between the insert of a row and the result of its owner: while a
\* request executes, the row of its key is the one it inserted, unanswered.
OwnerHolds ==
  \A r \in Requests :
    KeyOf[r] # NoKey /\ pc[r] \in Executing
      => records[KeyOf[r]] = InProgress(r)

\* What each point of the middleware knows of the request that is there.
PointsKnow ==
  \A r \in Requests :
    /\ pc[r] \in {"insert", "select", "mark"} => KeyOf[r] # NoKey
    /\ pc[r] = "select" => records[KeyOf[r]] # Absent
    /\ pc[r] = "mark" => HasRun(r)

\* A request that has run, or stored anything, has its row, for ever.
RunnersOwn ==
  \A r \in Requests :
    KeyOf[r] # NoKey /\ (HasRun(r) \/ stored[r] # {})
      => records[KeyOf[r]].owner = r

\* What Submit has stored when it takes its next step, and when it succeeds.
StoredTrue ==
  \A r \in Requests :
    /\ pc[r] = "log" => "row" \in stored[r]
    /\ pc[r] = "enqueue" => {"row", "log"} \subseteq stored[r]
    /\ recorder[r] = "accepted" => stored[r] = Stores

\* The one result of request o, which can no longer change.
Final(o, a) ==
  /\ o \in Requests
  /\ pc[o] = "done"
  /\ HasRun(o)
  /\ a = Response(recorder[o], o)

\* A row belongs to a request with its key; its response is the owner's.
RecordsTrue ==
  \A k \in Keys :
    /\ records[k].owner \in Requests => KeyOf[records[k].owner] = k
    /\ records[k].status = "completed" =>
         Final(records[k].owner, records[k].response)

\* A result that a client got is that of the owner of its key, which had the
\* same body; without a key it is its own.
AnswersTrue ==
  \A r \in Requests :
    HasResult(r) =>
      IF KeyOf[r] = NoKey
      THEN Final(r, answer[r])
      ELSE LET o == records[KeyOf[r]].owner
           IN  Final(o, answer[r]) /\ BodyOf[o] = BodyOf[r]

IInv == /\ TypeOK /\ OwnerHolds /\ PointsKnow /\ RunnersOwn /\ StoredTrue
        /\ RecordsTrue /\ AnswersTrue

\* A step of the handler.
Execute(r) == Handle(r) \/ AppendLog(r) \/ Enqueue(r)

-------------------------------------------------------------------------------
(* Lemmas about rows and answers. *)

\* A request with a key has one of Keys.
LEMMA KeyType ==
  ASSUME NEW r \in Requests
  PROVE  KeyOf[r] # NoKey => KeyOf[r] \in Keys
BY IdempotencyAssumption

\* The three forms of a row.
LEMMA RowForms ==
  ASSUME TypeOK, NEW k \in Keys
  PROVE  \/ records[k] = Absent
         \/ \E r \in Requests : records[k] = InProgress(r)
         \/ \E a \in Responses : records[k] = Completed(a.of, a)
BY DEF TypeOK, RecordType

\* Only an absent row has no owner, and only a completed one has a response.
LEMMA RowFields ==
  ASSUME TypeOK, NEW k \in Keys
  PROVE  /\ records[k] # Absent => records[k].owner \in Requests
         /\ records[k] = Absent => records[k].owner = Nobody
         /\ records[k].status = "completed" => records[k].response \in Responses
         /\ records[k].status \in {"absent", "in_progress", "completed"}
         /\ records[k].status = "absent" => records[k] = Absent
<1>1. CASE records[k] = Absent
  BY <1>1, IdempotencyAssumption DEF Absent
<1>2. ASSUME NEW r \in Requests, records[k] = InProgress(r)
      PROVE  /\ records[k].owner = r
             /\ records[k].status = "in_progress"
  BY <1>2 DEF InProgress
<1>3. ASSUME NEW a \in Responses, records[k] = Completed(a.of, a)
      PROVE  /\ records[k].owner \in Requests
             /\ records[k].response \in Responses
             /\ records[k].status = "completed"
  BY <1>3 DEF Completed, Responses
<1>4. Absent.owner = Nobody /\ Absent.status = "absent"
  BY DEF Absent
<1>5. QED  BY <1>1, <1>2, <1>3, <1>4, RowForms, IdempotencyAssumption

\* The middleware's own answers are not results.
LEMMA NotResults ==
  /\ NoAnswer \notin Responses /\ Unreadable \notin Responses
  /\ Failure \notin Responses /\ Reused \notin Responses
  /\ Busy \notin Responses
BY DEF NoAnswer, Unreadable, Failure, Reused, Busy, Responses

\* What a request that has run answers is a result.
LEMMA ResponseType ==
  ASSUME TypeOK, NEW r \in Requests, HasRun(r)
  PROVE  Response(recorder[r], r) \in Responses
BY DEF TypeOK, Response, Responses

-------------------------------------------------------------------------------
(* Steps.  A statement of the middleware changes one row at most, and only   *)
(* from absent to in progress or from in progress to completed.              *)

\* A step of the handler goes on to Submit's next store call or replies.
LEMMA ExecuteMoves ==
  ASSUME TypeOK, NEW r \in Requests, Execute(r)
  PROVE  /\ pc[r] \in Executing \ {"mark"}
         /\ UNCHANGED <<records, gone>>
         /\ stored' = stored \/ \E store \in Stores : Put(r, store)
         /\ UNCHANGED faults \/ StatementFails(r)
         /\ \/ /\ pc' = [pc EXCEPT ![r] = "log"] \/ pc' = [pc EXCEPT ![r] = "enqueue"]
               /\ UNCHANGED <<recorder, answer>>
            \/ \E outcome \in Outcomes : Reply(r, outcome)
<1> USE DEF Stores, Outcomes
<1>1. CASE Handle(r)
  BY <1>1 DEF Handle, PutFails
<1>2. CASE AppendLog(r)
  BY <1>2 DEF AppendLog, PutFails
<1>3. CASE Enqueue(r)
  BY <1>3 DEF Enqueue, PutFails
<1>4. QED  BY <1>1, <1>2, <1>3 DEF Execute

\* What one step does to the rows, and where it leaves the request that took it.
RowsStep ==
  \/ UNCHANGED records
  \/ \E r \in Requests :
       At(r, "insert") /\ Create(r) /\ pc'[r] \in {"handle", "done"}
  \/ \E r \in Requests :
       /\ At(r, "mark") /\ Complete(r)
       /\ pc'[r] = "done" /\ UNCHANGED recorder

LEMMA RowsMove ==
  ASSUME TypeOK, [Next]_vars
  PROVE  RowsStep
<1> USE DEF RowsStep, TypeOK
<1>1. CASE UNCHANGED vars
  BY <1>1 DEF vars
<1>2. ASSUME NEW r \in Requests, Insert(r)
      PROVE  RowsStep
  BY <1>2 DEF Insert, End
<1>3. ASSUME NEW r \in Requests, MarkCompleted(r)
      PROVE  RowsStep
  BY <1>3 DEF MarkCompleted, End
<1>4. ASSUME NEW r \in Requests,
             \/ Arrive(r) \/ ReadBodyFails(r) \/ HangUp(r)
             \/ Select(r) \/ Execute(r)
      PROVE  RowsStep
  BY <1>4, ExecuteMoves DEF Arrive, ReadBodyFails, HangUp, Select
<1>5. CASE Crash
  BY <1>5 DEF Crash
<1>6. QED  BY <1>1, <1>2, <1>3, <1>4, <1>5 DEF Next, Serve, Execute

\* A request that has ended stays so, and what it ran does not change.
LEMMA FinalStays ==
  ASSUME TypeOK, [Next]_vars, NEW o \in Requests, pc[o] = "done"
  PROVE  pc'[o] = "done" /\ recorder'[o] = recorder[o]
<1>1. /\ pc \in [Requests -> Points] /\ recorder \in [Requests -> Outcomes \cup {"none"}]
  BY DEF TypeOK
<1>2. CASE UNCHANGED vars
  BY <1>1, <1>2 DEF vars
<1>3. ASSUME NEW r \in Requests,
             Arrive(r) \/ ReadBodyFails(r) \/ Serve(r) \/ HangUp(r)
      PROVE  pc'[o] = "done" /\ recorder'[o] = recorder[o]
  <2>1. CASE Arrive(r) \/ ReadBodyFails(r) \/ HangUp(r)
    BY <1>1, <2>1 DEF Arrive, ReadBodyFails, HangUp, End
  <2>2. CASE Insert(r) \/ Select(r)
    BY <1>1, <2>2 DEF Insert, Select, End
  <2>3. CASE Execute(r)
    BY <1>1, <2>3, ExecuteMoves DEF Reply, End
  <2>4. CASE MarkCompleted(r)
    BY <1>1, <2>4 DEF MarkCompleted, End
  <2>5. QED  BY <1>3, <2>1, <2>2, <2>3, <2>4 DEF Serve, Execute
<1>4. CASE Crash
  BY <1>1, <1>4 DEF Crash
<1>5. QED  BY <1>2, <1>3, <1>4 DEF Next

\* A row that has an owner keeps it.
LEMMA OwnerStays ==
  ASSUME IInv, [Next]_vars, NEW k \in Keys, records[k] # Absent
  PROVE  /\ records'[k].owner = records[k].owner
         /\ records'[k] # Absent
<1>1. RowsStep
  BY RowsMove DEF IInv
<1>2. CASE UNCHANGED records
  BY <1>2
<1>3. ASSUME NEW r \in Requests, Create(r)
      PROVE  records'[k] = records[k]
  BY <1>3 DEF Create, IInv, TypeOK
<1>4. ASSUME NEW r \in Requests, At(r, "mark"), Complete(r)
      PROVE  /\ records'[k].owner = records[k].owner
             /\ records'[k] # Absent
  <2>1. /\ KeyOf[r] \in Keys
        /\ records[KeyOf[r]] = InProgress(r)
    BY <1>4, KeyType DEF IInv, PointsKnow, OwnerHolds
  <2>2. records' = [records EXCEPT ![KeyOf[r]] =
                      Completed(r, Response(recorder[r], r))]
    BY <1>4 DEF Complete
  <2>3. Completed(r, Response(recorder[r], r)).owner = r /\ InProgress(r).owner = r
    BY DEF Completed, InProgress
  <2>4. Completed(r, Response(recorder[r], r)) # Absent
    BY <2>3, IdempotencyAssumption DEF Absent
  <2>5. QED  BY <2>1, <2>2, <2>3, <2>4 DEF IInv, TypeOK
<1>5. QED  BY <1>1, <1>2, <1>3, <1>4 DEF RowsStep

-------------------------------------------------------------------------------
(* The invariant. *)

LEMMA InitInvariant == Init => IInv
BY IdempotencyAssumption, NotResults, KeyType
   DEF Init, IInv, TypeOK, RecordType, Points, Answers, Absent,
       OwnerHolds, PointsKnow, RunnersOwn, StoredTrue, RecordsTrue, AnswersTrue,
       HasResult

\* The rows that Create and Complete write are rows.
LEMMA NewRows ==
  ASSUME TypeOK, NEW r \in Requests
  PROVE  /\ InProgress(r) \in RecordType
         /\ HasRun(r) => Completed(r, Response(recorder[r], r)) \in RecordType
<1>1. Response(recorder[r], r).of = r
  BY DEF Response
<1>2. QED  BY <1>1, ResponseType DEF RecordType

LEMMA TypeStep == ASSUME IInv, [Next]_vars PROVE TypeOK'
<1> USE DEF IInv, TypeOK, End
<1>1. CASE UNCHANGED vars
  BY <1>1 DEF vars
<1>2. records' \in [Keys -> RecordType]
  <2>1. CASE UNCHANGED records
    BY <2>1
  <2>2. ASSUME NEW r \in Requests, At(r, "insert"), Create(r)
        PROVE  records' \in [Keys -> RecordType]
    BY <2>2, NewRows, KeyType DEF Create
  <2>3. ASSUME NEW r \in Requests, At(r, "mark"), Complete(r)
        PROVE  records' \in [Keys -> RecordType]
    BY <2>3, NewRows, KeyType DEF Complete, PointsKnow
  <2>4. QED  BY <2>1, <2>2, <2>3, RowsMove DEF RowsStep
<1>3. ASSUME NEW kind \in FaultKinds, Fault(kind)
      PROVE  faults' \in [FaultKinds -> Nat]
  BY <1>3 DEF Fault
<1>4. ASSUME NEW r \in Requests,
             Arrive(r) \/ ReadBodyFails(r) \/ Serve(r) \/ HangUp(r)
      PROVE  /\ stored' \in [Requests -> SUBSET Stores]
             /\ pc' \in [Requests -> Points]
             /\ recorder' \in [Requests -> Outcomes \cup {"none"}]
             /\ answer' \in [Requests -> Answers]
             /\ gone' \in [Requests -> BOOLEAN]
             /\ faults' \in [FaultKinds -> Nat]
  <2> USE DEF Points, Answers
  <2>1. CASE Arrive(r) \/ ReadBodyFails(r)
    BY <2>1 DEF Arrive, ReadBodyFails
  <2>2. CASE HangUp(r)
    BY <2>2, <1>3 DEF HangUp, FaultKinds
  <2>3. CASE Insert(r)
    BY <2>3, <1>3 DEF Insert, StatementFails, FaultKinds
  <2>4. CASE Select(r)
    <3>1. KeyOf[r] \in Keys
      BY <2>4, KeyType DEF Select, PointsKnow
    <3>2. records[KeyOf[r]].status = "completed" =>
            records[KeyOf[r]].response \in Answers
      BY <3>1, RowFields
    <3>3. QED  BY <2>4, <3>2, <1>3 DEF Select, StatementFails, FaultKinds
  <2>5. CASE Execute(r)
    <3>1. \A outcome \in Outcomes : Response(outcome, r) \in Answers
      BY DEF Response, Responses
    <3>2. stored' \in [Requests -> SUBSET Stores]
      BY <2>5, ExecuteMoves DEF Put
    <3>3. faults' \in [FaultKinds -> Nat]
      BY <2>5, ExecuteMoves, <1>3 DEF StatementFails, FaultKinds
    <3>4. QED  BY <2>5, <3>1, <3>2, <3>3, ExecuteMoves DEF Reply
  <2>6. CASE MarkCompleted(r)
    <3>1. Response(recorder[r], r) \in Answers
      BY <2>6, ResponseType DEF MarkCompleted, PointsKnow
    <3>2. QED  BY <2>6, <3>1, <1>3 DEF MarkCompleted, StatementFails, FaultKinds
  <2>7. QED  BY <1>4, <2>1, <2>2, <2>3, <2>4, <2>5, <2>6 DEF Serve, Execute
<1>5. CASE Crash
  BY <1>2, <1>5, <1>3 DEF Crash, Points, FaultKinds
<1>6. QED  BY <1>1, <1>2, <1>4, <1>5 DEF Next

\* Where the request that takes a step goes; the others stay, unless all end.
LEMMA PointsMove ==
  ASSUME TypeOK, [Next]_vars, NEW r \in Requests
  PROVE  \/ pc'[r] = pc[r] /\ recorder'[r] = recorder[r]
         \/ pc'[r] = "done" /\ recorder'[r] = recorder[r]
         \/ At(r, "new") /\ Arrive(r)
         \/ Insert(r) \/ Execute(r)
<1> USE DEF TypeOK, End
<1>1. CASE UNCHANGED vars
  BY <1>1 DEF vars
<1>2. ASSUME NEW q \in Requests,
             Arrive(q) \/ ReadBodyFails(q) \/ Serve(q) \/ HangUp(q)
      PROVE  \/ pc'[r] = pc[r] /\ recorder'[r] = recorder[r]
             \/ pc'[r] = "done" /\ recorder'[r] = recorder[r]
             \/ At(r, "new") /\ Arrive(r)
             \/ Insert(r) \/ Execute(r)
  <2>1. CASE Arrive(q) \/ ReadBodyFails(q) \/ HangUp(q)
    BY <2>1 DEF Arrive, ReadBodyFails, HangUp
  <2>2. CASE Insert(q)
    BY <2>2 DEF Insert
  <2>3. CASE Select(q)
    BY <2>3 DEF Select
  <2>4. CASE Execute(q)
    BY <2>4, ExecuteMoves DEF Reply
  <2>5. CASE MarkCompleted(q)
    BY <2>5 DEF MarkCompleted
  <2>6. QED  BY <1>2, <2>1, <2>2, <2>3, <2>4, <2>5 DEF Serve, Execute
<1>3. CASE Crash
  BY <1>3 DEF Crash
<1>4. QED  BY <1>1, <1>2, <1>3 DEF Next

LEMMA OwnerHoldsStep == ASSUME IInv, [Next]_vars PROVE OwnerHolds'
<1> SUFFICES ASSUME NEW r \in Requests,
                    KeyOf[r] # NoKey, pc'[r] \in Executing
             PROVE  records'[KeyOf[r]] = InProgress(r)
  BY DEF OwnerHolds
<1>1. /\ KeyOf[r] \in Keys
      /\ records \in [Keys -> RecordType]
  BY KeyType DEF IInv, TypeOK
<1>2. CASE pc'[r] = pc[r]
  <2>1. records[KeyOf[r]] = InProgress(r)
    BY <1>2 DEF IInv, OwnerHolds
  <2>2. InProgress(r) # Absent
    BY IdempotencyAssumption DEF InProgress, Absent
  <2>3. ASSUME NEW q \in Requests, Create(q)
        PROVE  records'[KeyOf[r]] = InProgress(r)
    BY <1>1, <2>1, <2>2, <2>3 DEF Create
  <2>4. ASSUME NEW q \in Requests, At(q, "mark"), Complete(q), pc'[q] = "done"
        PROVE  records'[KeyOf[r]] = InProgress(r)
    <3>1. records[KeyOf[q]] = InProgress(q)
      BY <2>4 DEF IInv, OwnerHolds, PointsKnow
    <3>2. q # r
      BY <2>4
    <3>3. KeyOf[q] # KeyOf[r]
      BY <2>1, <3>1, <3>2 DEF InProgress
    <3>4. QED  BY <1>1, <2>1, <2>4, <3>3 DEF Complete
  <2>5. QED  BY <2>1, <2>3, <2>4, RowsMove DEF RowsStep, IInv
<1>3. CASE Arrive(r)
  BY <1>3 DEF Arrive, IInv, TypeOK
<1>4. CASE Insert(r)
  BY <1>1, <1>4 DEF Insert, Create, End, IInv, TypeOK
<1>5. CASE Execute(r)
  BY <1>5, ExecuteMoves DEF IInv, OwnerHolds
<1>6. QED  BY <1>2, <1>3, <1>4, <1>5, PointsMove DEF IInv

LEMMA PointsKnowStep == ASSUME IInv, [Next]_vars PROVE PointsKnow'
<1> SUFFICES ASSUME NEW r \in Requests
             PROVE  /\ pc'[r] \in {"insert", "select", "mark"} => KeyOf[r] # NoKey
                    /\ pc'[r] = "select" => records'[KeyOf[r]] # Absent
                    /\ pc'[r] = "mark" => HasRun(r)'
  BY DEF PointsKnow
<1>1. ASSUME pc'[r] = pc[r], recorder'[r] = recorder[r]
      PROVE  /\ pc'[r] \in {"insert", "select", "mark"} => KeyOf[r] # NoKey
             /\ pc'[r] = "select" => records'[KeyOf[r]] # Absent
             /\ pc'[r] = "mark" => HasRun(r)'
  BY <1>1, OwnerStays, KeyType DEF IInv, PointsKnow
<1>2. CASE Arrive(r)
  BY <1>2 DEF Arrive, IInv, TypeOK
<1>3. CASE Insert(r)
  BY <1>3 DEF Insert, End, IInv, TypeOK, PointsKnow
<1>4. CASE Execute(r)
  <2>1. "none" \notin Outcomes
    BY DEF Outcomes
  <2>2. QED  BY <1>4, <2>1, ExecuteMoves DEF Reply, End, IInv, TypeOK
<1>5. QED  BY <1>1, <1>2, <1>3, <1>4, PointsMove DEF IInv

\* Only a step of the handler stores anything.
LEMMA StoredMove ==
  ASSUME TypeOK, [Next]_vars, NEW r \in Requests
  PROVE  /\ stored[r] \subseteq stored'[r]
         /\ stored'[r] # stored[r] => Execute(r)
<1>1. stored \in [Requests -> SUBSET Stores]
  BY DEF TypeOK
<1>2. ASSUME NEW q \in Requests, Execute(q)
      PROVE  /\ stored[r] \subseteq stored'[r]
             /\ stored'[r] # stored[r] => q = r
  BY <1>1, <1>2, ExecuteMoves DEF Put
<1>3. ASSUME NEW q \in Requests, \/ Arrive(q) \/ ReadBodyFails(q) \/ HangUp(q)
                                 \/ Insert(q) \/ Select(q) \/ MarkCompleted(q)
      PROVE  stored' = stored
  BY <1>3 DEF Arrive, ReadBodyFails, HangUp, Insert, Select, MarkCompleted
<1>4. Crash \/ UNCHANGED vars => stored' = stored
  BY DEF Crash, vars
<1>5. QED  BY <1>2, <1>3, <1>4 DEF Next, Serve, Execute

LEMMA RunnersOwnStep == ASSUME IInv, [Next]_vars PROVE RunnersOwn'
<1> SUFFICES ASSUME NEW r \in Requests,
                    KeyOf[r] # NoKey, HasRun(r)' \/ stored'[r] # {}
             PROVE  records'[KeyOf[r]].owner = r
  BY DEF RunnersOwn
<1>1. records[KeyOf[r]].owner = r
  <2>1. CASE HasRun(r) \/ stored[r] # {}
    BY <2>1 DEF IInv, RunnersOwn
  <2>2. CASE Execute(r)
    <3>1. records[KeyOf[r]] = InProgress(r)
      BY <2>2, ExecuteMoves DEF IInv, OwnerHolds
    <3>2. InProgress(r).owner = r
      BY DEF InProgress
    <3>3. QED  BY <3>1, <3>2
  <2>3. Arrive(r) \/ Insert(r) => recorder' = recorder
    BY DEF Arrive, Insert
  <2>4. QED  BY <2>1, <2>2, <2>3, PointsMove, StoredMove DEF IInv
<1>2. records[KeyOf[r]] # Absent
  BY <1>1, IdempotencyAssumption DEF Absent
<1>3. QED  BY <1>1, <1>2, OwnerStays, KeyType

LEMMA StoredTrueStep == ASSUME IInv, [Next]_vars PROVE StoredTrue'
<1> DEFINE True(r) == /\ pc'[r] = "log" => "row" \in stored'[r]
                      /\ pc'[r] = "enqueue" => {"row", "log"} \subseteq stored'[r]
                      /\ recorder'[r] = "accepted" => stored'[r] = Stores
<1> SUFFICES ASSUME NEW r \in Requests PROVE True(r)
  BY DEF StoredTrue
<1>1. /\ pc[r] = "log" => "row" \in stored[r]
      /\ pc[r] = "enqueue" => {"row", "log"} \subseteq stored[r]
      /\ recorder[r] = "accepted" => stored[r] = Stores
      /\ stored[r] \subseteq stored'[r]
      /\ stored'[r] \subseteq Stores
  BY StoredMove, TypeStep DEF IInv, StoredTrue, TypeOK
<1>2. ASSUME pc'[r] = pc[r] \/ pc'[r] \notin {"log", "enqueue"},
             recorder'[r] = recorder[r]
      PROVE  True(r)
  BY <1>1, <1>2
<1>3. CASE Arrive(r)
  BY <1>2, <1>3 DEF Arrive, IInv, TypeOK
<1>4. CASE Insert(r)
  BY <1>2, <1>4 DEF Insert, End, IInv, TypeOK
<1>5. CASE Execute(r)
  <2> USE DEF IInv, TypeOK, Reply, End, Put, Stores
  <2>1. CASE Handle(r)
    BY <1>1, <2>1 DEF Handle, PutFails
  <2>2. CASE AppendLog(r)
    BY <1>1, <2>2 DEF AppendLog, PutFails
  <2>3. CASE Enqueue(r)
    BY <1>1, <2>3 DEF Enqueue, PutFails
  <2>4. QED  BY <1>5, <2>1, <2>2, <2>3 DEF Execute
<1>6. QED  BY <1>2, <1>3, <1>4, <1>5, PointsMove DEF IInv

LEMMA RecordsTrueStep == ASSUME IInv, [Next]_vars PROVE RecordsTrue'
<1> SUFFICES ASSUME NEW k \in Keys
             PROVE  /\ records'[k].owner \in Requests =>
                         KeyOf[records'[k].owner] = k
                    /\ records'[k].status = "completed" =>
                         Final(records[k].owner, records[k].response)'
  BY DEF RecordsTrue
<1>1. records \in [Keys -> RecordType]
  BY DEF IInv, TypeOK
<1>2. CASE records'[k] = records[k]
  <2>1. records[k].status = "completed" =>
          Final(records[k].owner, records[k].response)
    BY DEF IInv, RecordsTrue
  <2>2. records[k].status = "completed" =>
          Final(records[k].owner, records[k].response)'
    BY <1>2, <2>1, FinalStays DEF IInv, Final
  <2>3. QED  BY <1>2, <2>2 DEF IInv, RecordsTrue
<1>3. ASSUME NEW r \in Requests, KeyOf[r] = k, Create(r)
      PROVE  /\ records'[k].owner = r
             /\ records'[k].status = "in_progress"
  BY <1>1, <1>3 DEF Create, InProgress
<1>4. ASSUME NEW r \in Requests, KeyOf[r] = k, At(r, "mark"), Complete(r),
             pc'[r] = "done", UNCHANGED recorder
      PROVE  /\ records'[k].owner = r
             /\ Final(records[k].owner, records[k].response)'
  <2>1. /\ records'[k].owner = r
        /\ records'[k].response = Response(recorder[r], r)
    BY <1>1, <1>4 DEF Complete, Completed
  <2>2. HasRun(r)
    BY <1>4 DEF IInv, PointsKnow
  <2>3. QED  BY <1>4, <2>1, <2>2 DEF Final, Response
<1>5. CASE records'[k] # records[k]
  <2>1. PICK r \in Requests :
          \/ At(r, "insert") /\ Create(r)
          \/ /\ At(r, "mark") /\ Complete(r)
             /\ pc'[r] = "done" /\ UNCHANGED recorder
    BY <1>5, RowsMove DEF RowsStep, IInv
  <2>2. KeyOf[r] = k
    BY <1>1, <1>5, <2>1 DEF Create, Complete
  <2>3. QED  BY <1>3, <1>4, <2>1, <2>2
<1>6. QED  BY <1>2, <1>5

\* How a client comes by a result.
LEMMA AnswersMove ==
  ASSUME IInv, [Next]_vars, NEW r \in Requests, HasResult(r)'
  PROVE  \/ answer'[r] = answer[r]
         \/ /\ KeyOf[r] # NoKey /\ SameBody(r)
            /\ records[KeyOf[r]].status = "completed"
            /\ answer'[r] = records[KeyOf[r]].response
         \/ /\ KeyOf[r] # NoKey /\ At(r, "mark")
            /\ pc'[r] = "done" /\ UNCHANGED recorder
            /\ answer'[r] = Response(recorder[r], r)
         \/ /\ KeyOf[r] = NoKey
            /\ pc'[r] = "done" /\ recorder'[r] # "none"
            /\ answer'[r] = Response(recorder'[r], r)
<1> USE NotResults DEF IInv, TypeOK, End, HasResult
<1>1. CASE UNCHANGED vars
  BY <1>1 DEF vars
<1>2. ASSUME NEW q \in Requests, Arrive(q) \/ ReadBodyFails(q) \/ HangUp(q)
      PROVE  answer'[r] = answer[r]
  BY <1>2 DEF Arrive, ReadBodyFails, HangUp
<1>3. ASSUME NEW q \in Requests, Insert(q)
      PROVE  answer'[r] = answer[r]
  BY <1>3 DEF Insert
<1>4. ASSUME NEW q \in Requests, Select(q)
      PROVE  \/ answer'[r] = answer[r]
             \/ /\ KeyOf[r] # NoKey /\ SameBody(r)
                /\ records[KeyOf[r]].status = "completed"
                /\ answer'[r] = records[KeyOf[r]].response
  BY <1>4 DEF Select, PointsKnow
<1>5. ASSUME NEW q \in Requests, Execute(q)
      PROVE  \/ answer'[r] = answer[r]
             \/ /\ KeyOf[r] = NoKey
                /\ pc'[r] = "done" /\ recorder'[r] # "none"
                /\ answer'[r] = Response(recorder'[r], r)
  BY <1>5, ExecuteMoves DEF Reply, Outcomes
<1>6. ASSUME NEW q \in Requests, MarkCompleted(q)
      PROVE  \/ answer'[r] = answer[r]
             \/ /\ KeyOf[r] # NoKey /\ At(r, "mark")
                /\ pc'[r] = "done" /\ UNCHANGED recorder
                /\ answer'[r] = Response(recorder[r], r)
  BY <1>6 DEF MarkCompleted, PointsKnow
<1>7. CASE Crash
  BY <1>7 DEF Crash
<1>8. QED
  BY <1>1, <1>2, <1>3, <1>4, <1>5, <1>6, <1>7 DEF Next, Serve, Execute

LEMMA AnswersTrueStep == ASSUME IInv, [Next]_vars PROVE AnswersTrue'
<1> DEFINE Owner(r) == records[KeyOf[r]].owner
<1> SUFFICES ASSUME NEW r \in Requests, HasResult(r)'
             PROVE  IF KeyOf[r] = NoKey
                    THEN Final(r, answer[r])'
                    ELSE /\ Final(Owner(r), answer[r])'
                         /\ BodyOf[Owner(r)'] = BodyOf[r]
  BY DEF AnswersTrue
\* A row with an owner keeps it, so what is final for it stays final.
<1>1. ASSUME KeyOf[r] # NoKey, NEW a, Final(Owner(r), a), answer'[r] = a,
             BodyOf[Owner(r)] = BodyOf[r]
      PROVE  /\ Final(Owner(r), answer[r])'
             /\ BodyOf[Owner(r)'] = BodyOf[r]
  <2>1. records[KeyOf[r]] # Absent
    BY <1>1, IdempotencyAssumption DEF Final, Absent
  <2>2. Owner(r)' = Owner(r)
    BY <1>1, <2>1, OwnerStays, KeyType
  <2>3. /\ Owner(r) \in Requests /\ pc'[Owner(r)] = "done"
        /\ recorder'[Owner(r)] # "none"
        /\ a = Response(recorder'[Owner(r)], Owner(r))
    BY <1>1, FinalStays DEF Final, IInv
  <2>4. QED  BY <1>1, <2>2, <2>3 DEF Final
<1>2. CASE answer'[r] = answer[r]
  <2>1. HasResult(r)
    BY <1>2 DEF HasResult
  <2>2. CASE KeyOf[r] = NoKey
    BY <2>1, <2>2, <1>2, FinalStays DEF IInv, AnswersTrue, Final
  <2>3. CASE KeyOf[r] # NoKey
    BY <2>1, <2>3, <1>1, <1>2 DEF IInv, AnswersTrue
  <2>4. QED  BY <2>2, <2>3
<1>3. CASE /\ KeyOf[r] # NoKey /\ SameBody(r)
           /\ records[KeyOf[r]].status = "completed"
           /\ answer'[r] = records[KeyOf[r]].response
  <2>1. Final(Owner(r), records[KeyOf[r]].response)
    BY <1>3, KeyType DEF IInv, RecordsTrue
  <2>2. QED  BY <1>1, <1>3, <2>1 DEF SameBody
<1>4. CASE /\ KeyOf[r] # NoKey /\ At(r, "mark")
           /\ pc'[r] = "done" /\ UNCHANGED recorder
           /\ answer'[r] = Response(recorder[r], r)
  <2>1. HasRun(r) /\ Owner(r) = r
    BY <1>4 DEF IInv, PointsKnow, RunnersOwn
  <2>2. Owner(r)' = r
    <3>1. records[KeyOf[r]] # Absent
      BY <2>1, IdempotencyAssumption DEF Absent
    <3>2. QED  BY <1>4, <2>1, <3>1, OwnerStays, KeyType
  <2>3. QED  BY <1>4, <2>1, <2>2 DEF Final
<1>5. CASE /\ KeyOf[r] = NoKey
           /\ pc'[r] = "done" /\ recorder'[r] # "none"
           /\ answer'[r] = Response(recorder'[r], r)
  BY <1>5 DEF Final
<1>6. QED  BY <1>2, <1>3, <1>4, <1>5, AnswersMove

\* The invariant holds in every reachable state.
THEOREM InvariantHolds == Spec => []IInv
<1>1. IInv /\ [Next]_vars => IInv'
  BY TypeStep, OwnerHoldsStep, PointsKnowStep, RunnersOwnStep, StoredTrueStep,
     RecordsTrueStep, AnswersTrueStep DEF IInv
<1>2. QED  BY InitInvariant, <1>1, PTL DEF Spec

-------------------------------------------------------------------------------
(* Theorems. *)

\* The state has the shape TypeOK gives.
THEOREM TypeCorrect == Spec => []TypeOK
<1>1. IInv => TypeOK
  BY DEF IInv
<1>2. QED  BY <1>1, InvariantHolds, PTL

\* Only the request that inserted the row of its key executes, and it keeps the
\* row: CreateOrGet lets through the one whose INSERT took effect.
THEOREM OwnerRunsHolds == Spec => []OwnerRuns
<1>1. ASSUME NEW r \in Requests PROVE InProgress(r).owner = r
  BY DEF InProgress
<1>2. IInv => OwnerRuns
  BY <1>1 DEF IInv, OwnerHolds, RunnersOwn, OwnerRuns
<1>3. QED  BY <1>2, InvariantHolds, PTL

\* The handler runs at most once for a key, whatever fails.
THEOREM AtMostOnceHolds == Spec => []AtMostOnce
<1>1. IInv => AtMostOnce
  BY DEF IInv, RunnersOwn, AtMostOnce
<1>2. QED  BY <1>1, InvariantHolds, PTL

\* A key has one notification in the stores at most, whatever fails.
THEOREM OneNotificationHolds == Spec => []OneNotificationPerKey
<1>1. IInv => OneNotificationPerKey
  BY DEF IInv, RunnersOwn, OneNotificationPerKey
<1>2. QED  BY <1>1, InvariantHolds, PTL

\* A 202, however often it is replayed, names a notification that is queued.
THEOREM AcceptedIsQueuedHolds == Spec => []AcceptedIsQueued
<1>1. ASSUME NEW o, NEW a, Final(o, a), IInv, a.outcome = "accepted"
      PROVE  stored[a.of] = Stores
  BY <1>1 DEF Final, Response, IInv, StoredTrue
<1>2. IInv => AcceptedIsQueued
  <2>1. SUFFICES ASSUME IInv, NEW r \in Requests, HasResult(r),
                        answer[r].outcome = "accepted"
                 PROVE  stored[answer[r].of] = Stores
    BY DEF AcceptedIsQueued
  <2>2. CASE KeyOf[r] = NoKey
    BY <1>1, <2>1, <2>2 DEF IInv, AnswersTrue
  <2>3. CASE KeyOf[r] # NoKey
    BY <1>1, <2>1, <2>3 DEF IInv, AnswersTrue
  <2>4. QED  BY <2>2, <2>3
<1>3. QED  BY <1>2, InvariantHolds, PTL

\* All results of a key are the same result, fresh or replayed.
THEOREM SameResultHolds == Spec => []SameResult
<1>1. IInv => SameResult
  BY DEF IInv, AnswersTrue, Final, SameResult
<1>2. QED  BY <1>1, InvariantHolds, PTL

\* A result is never given to a request with another body than the one that
\* was executed.
THEOREM MatchingBodyHolds == Spec => []MatchingBody
<1>1. ASSUME NEW o, NEW a, Final(o, a) PROVE a.of = o
  BY <1>1 DEF Final, Response
<1>2. IInv => MatchingBody
  <2>1. SUFFICES ASSUME IInv, NEW r \in Requests, HasResult(r)
                 PROVE  BodyOf[answer[r].of] = BodyOf[r]
    BY DEF MatchingBody
  <2>2. CASE KeyOf[r] = NoKey
    BY <1>1, <2>1, <2>2 DEF IInv, AnswersTrue
  <2>3. CASE KeyOf[r] # NoKey
    BY <1>1, <2>1, <2>3 DEF IInv, AnswersTrue
  <2>4. QED  BY <2>2, <2>3
<1>3. QED  BY <1>2, InvariantHolds, PTL

\* The middleware implements OncePerKey: a row is claimed once and given its
\* one result once.
THEOREM RefinesOncePerKey == Spec => ImplementsOncePerKey
<1> DEFINE Owners == [k \in Keys |-> records[k].owner]
           Results == [k \in Keys |-> records[k].response]
<1>1. Init => Once!Init
  BY DEF Init, Once!Init, Absent
<1>2. IInv /\ [Next]_vars => [Once!Next]_Once!vars
  <2> SUFFICES ASSUME IInv, [Next]_vars
               PROVE  [Once!Next]_Once!vars
    OBVIOUS
  <2>1. records \in [Keys -> RecordType]
    BY DEF IInv, TypeOK
  <2>2. CASE UNCHANGED records
    BY <2>2 DEF Once!vars
  <2>3. ASSUME NEW r \in Requests, At(r, "insert"), Create(r)
        PROVE  Once!Claim(KeyOf[r]) /\ KeyOf[r] \in Keys
    <3>1. KeyOf[r] \in Keys
      BY <2>3, KeyType DEF IInv, PointsKnow
    <3>2. /\ Owners' = [Owners EXCEPT ![KeyOf[r]] = r]
          /\ Results' = Results
      <4>1. /\ InProgress(r).owner = r
            /\ InProgress(r).response = records[KeyOf[r]].response
        BY <2>3 DEF Create, Absent, InProgress
      <4>2. ASSUME NEW k \in Keys
            PROVE  /\ records'[k].owner =
                        IF k = KeyOf[r] THEN r ELSE records[k].owner
                   /\ records'[k].response = records[k].response
        BY <2>1, <2>3, <3>1, <4>1 DEF Create
      <4>3. QED  BY <4>2
    <3>3. Owners[KeyOf[r]] = Nobody
      BY <2>3, <3>1 DEF Create, Absent
    <3>4. QED  BY <3>1, <3>2, <3>3 DEF Once!Claim
  <2>4. ASSUME NEW r \in Requests, At(r, "mark"), Complete(r)
        PROVE  Once!Decide(KeyOf[r]) /\ KeyOf[r] \in Keys
    <3>1. KeyOf[r] \in Keys /\ records[KeyOf[r]] = InProgress(r)
      BY <2>4, KeyType DEF IInv, PointsKnow, OwnerHolds
    <3>2. Response(recorder[r], r) \in Responses
      BY <2>4, ResponseType DEF IInv, PointsKnow
    <3>3. /\ Owners' = Owners
          /\ Results' = [Results EXCEPT ![KeyOf[r]] = Response(recorder[r], r)]
      <4> DEFINE a == Response(recorder[r], r)
      <4>1. /\ Completed(r, a).owner = records[KeyOf[r]].owner
            /\ Completed(r, a).response = a
        BY <3>1 DEF Completed, InProgress
      <4>2. ASSUME NEW k \in Keys
            PROVE  /\ records'[k].owner = records[k].owner
                   /\ records'[k].response =
                        IF k = KeyOf[r] THEN a ELSE records[k].response
        BY <2>1, <2>4, <3>1, <4>1 DEF Complete
      <4>3. QED  BY <4>2
    <3>4. Owners[KeyOf[r]] = r /\ Results[KeyOf[r]] = NoAnswer
      BY <3>1 DEF InProgress
    <3>5. QED  BY <3>1, <3>2, <3>3, <3>4 DEF Once!Decide
  <2>5. QED
    BY <2>2, <2>3, <2>4, RowsMove DEF RowsStep, IInv, Once!Next
<1>3. QED
  BY <1>1, <1>2, InvariantHolds, PTL DEF Spec, ImplementsOncePerKey, Once!Spec
===============================================================================
