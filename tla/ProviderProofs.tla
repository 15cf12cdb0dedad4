---------------------------- MODULE ProviderProofs ----------------------------
(***************************************************************************)
(* Theorems about Provider, for every max_attempts, WEBHOOK_MAX_RETRIES    *)
(* and number of handlers, aborted ones included, and of exits.            *)
(***************************************************************************)
EXTENDS Provider, FiniteSetTheorems, TLAPS

\* Where the loop of Notify is tells which try it makes.
LoopInv ==
  \A c \in Calls :
    /\ callback[c].pc \in {"post", "flight", "wait"} => callback[c].try >= 1
    /\ callback[c].pc = "wait" => callback[c].try < Tries

TypeInv == TypeOK /\ LoopInv

\* What SendMail reports, and what Send returns of it, is true of the server.
ReportsTrue ==
  \A c \in Calls :
    mail[c] = "ok" \/ result[c] = "ok" \/ returned[c] = "ok" => c \in accepted

\* Nothing is mailed for a handler that has not begun.
BegunInv ==
  \A c \in Calls :
    /\ handler[c] # "none" <=> Begun(c)
    /\ mail[c] # "none" => Begun(c)
    /\ c \in accepted => mail[c] # "none"

\* How far a handler is tells whether Send has returned, and what.
HandlerInv ==
  \A c \in Calls :
    /\ handler[c] \in {"none", "send"} => returned[c] = "none"
    /\ handler[c] = "record" => returned[c] # "none"
    /\ handler[c] = "schedule" => returned[c] = "error" /\ ~Exhausted(c)

\* A count is one more than an earlier one: none is passed over.
CountsMade ==
  \A c \in Calls : \A k \in 1..number[c] : \E d \in Calls : number[d] = k

\* Only handlers that Send has returned to have a callback, and posts.
CallbackInv ==
  /\ \A c \in Calls : callback[c].pc # "none" => returned[c] # "none"
  /\ \A p \in wire \cup received : callback[p.call].pc # "none"

\* A handler that may still bring a job or has used its job up for good.
Spent(c) ==
  NoError(c) \/ (Begun(c) /\ (handler[c] = "schedule" \/ Exhausted(c)))
SpentCalls == {c \in Calls : Spent(c)}

\* A job is earned: by the request, by an error that is not the last one, by a
\* handler that a shutdown aborted.
JobsEarned == waiting + Cardinality(SpentCalls) <= 1 + aborts

Facts == ReportsTrue /\ BegunInv /\ HandlerInv /\ CountsMade /\ CallbackInv
Inv == Facts /\ JobsEarned

-------------------------------------------------------------------------------
LEMMA TriesPositive == Tries \in Nat /\ Tries >= 1
BY ProviderAssumption DEF Tries

LEMMA StartNotifyTypes ==
  ASSUME TypeInv, NEW c \in Calls, StartNotify(c)
  PROVE  callback' \in [Calls -> Callback] /\ LoopInv'
<1>1. \A valid \in BOOLEAN :
        [pc |-> "post", try |-> 1, valid |-> valid, answered |-> FALSE] \in Callback
  BY TriesPositive DEF Callback
<1>2. QED  BY <1>1 DEF StartNotify, TypeInv, TypeOK, LoopInv

\* The types, together with what makes them inductive: Wait adds one to the
\* number of the try.
LEMMA TypeAlways == Spec => []TypeInv
<1>1. Init => TypeInv
  <2> SUFFICES ASSUME Init
               PROVE  TypeInv
    OBVIOUS
  <2>1. NoCallback \in Callback
    BY TriesPositive DEF NoCallback, Callback
  <2>2. TypeOK
    BY <2>1 DEF Init, TypeOK, HandlerPc, Results, MailPc
  <2>3. LoopInv
    BY DEF Init, LoopInv, NoCallback
  <2>4. QED  BY <2>2, <2>3 DEF TypeInv
<1>2. TypeInv /\ [Next]_vars => TypeInv'
  <2> SUFFICES ASSUME TypeInv, [Next]_vars
               PROVE  TypeInv'
    OBVIOUS
  <2> USE DEF TypeInv, TypeOK, LoopInv
  <2>1. CASE UNCHANGED vars
    BY <2>1 DEF vars, queueVars, sendVars, webhookVars, processVars
  <2>2. ASSUME NEW c \in Calls, Send(c)
        PROVE  TypeInv'
    <3>1. PICK k \in {0} \cup {number[d] : d \in Calls} :
            number' = [number EXCEPT ![c] = k + 1]
      BY <2>2 DEF Send
    <3>2. k + 1 \in Nat
      OBVIOUS
    <3>3. number' \in [Calls -> Nat] /\ waiting' \in Nat
      BY <2>2, <3>1, <3>2 DEF Send
    <3>4. QED
      BY <2>2, <3>3 DEF Send, Goto, HandlerPc, Running, MailPc, webhookVars, processVars
  <2>3. ASSUME NEW c \in Calls, Accept(c) \/ SendMailReturns(c) \/ Report(c)
        PROVE  TypeInv'
    BY <2>3 DEF Accept, SendMailReturns, Report, MailPc, Results, queueVars,
       webhookVars, processVars
  <2>4. ASSUME NEW c \in Calls, SendReturns(c)
        PROVE  TypeInv'
    BY <2>4 DEF SendReturns, Chosen, After, Goto, HandlerPc, Running, Results,
       queueVars, webhookVars, processVars
  <2>5. ASSUME NEW c \in Calls, Schedule(c)
        PROVE  TypeInv'
    <3>1. PICK pc \in {"record", "done"} : Goto(c, pc)
      BY <2>5 DEF Schedule
    <3>2. waiting' \in Nat /\ UNCHANGED <<number, sendVars, webhookVars, processVars>>
      BY <2>5 DEF Schedule
    <3>3. QED
      BY <3>1, <3>2 DEF Goto, HandlerPc, Running, sendVars, webhookVars, processVars
  <2>6. ASSUME NEW c \in Calls, Record(c)
        PROVE  TypeInv'
    BY <2>6, StartNotifyTypes DEF Record, Goto, HandlerPc, queueVars, sendVars,
       processVars
  <2>7. ASSUME NEW c \in Calls, Notify(c)
        PROVE  TypeInv'
    <3>1. CASE BuildFails(c)
      BY <3>1 DEF BuildFails, queueVars, sendVars, processVars, Callback
    <3>2. CASE PostCallback(c)
      <4>1. CurrentPost(c) \in PostType
        BY <3>2, TriesPositive DEF PostCallback, CurrentPost, Post, PostType,
           Callback
      <4>2. QED
        BY <3>2, <4>1 DEF PostCallback, queueVars, sendVars, processVars, Callback
    <3>3. CASE Answered(c)
      BY <3>3 DEF Answered, queueVars, sendVars, processVars, Callback
    <3>4. CASE PostFails(c)
      BY <3>4, TriesPositive DEF PostFails, Again, queueVars, sendVars,
         processVars, Callback
    <3>5. CASE Wait(c)
      BY <3>5, TriesPositive DEF Wait, queueVars, sendVars, processVars, Callback
    <3>6. QED  BY <2>7, <3>1, <3>2, <3>3, <3>4, <3>5 DEF Notify
  <2>8. ASSUME NEW p \in wire, Receive(p)
        PROVE  TypeInv'
    BY <2>8 DEF Receive, queueVars, sendVars, processVars
  <2>9. ASSUME NEW c \in Calls, Abort(c)
        PROVE  TypeInv'
    <3>1. callback' \in [Calls -> Callback] /\ LoopInv'
      BY <2>9, StartNotifyTypes DEF Abort
    <3>2. handler' \in [Calls -> HandlerPc] /\ waiting' \in Nat /\ aborts' \in Nat
      BY <2>9 DEF Abort, Goto, HandlerPc
    <3>3. UNCHANGED <<number, sendVars, wire, received, stopping, exits>>
      BY <2>9 DEF Abort
    <3>4. QED  BY <3>1, <3>2, <3>3 DEF sendVars
  <2>10. CASE Stop
    BY <2>10 DEF Stop, queueVars, sendVars, webhookVars
  <2>11. CASE Exit
    <3>1. handler' \in [Calls -> HandlerPc] /\ mail' \in [Calls -> MailPc]
      BY <2>11 DEF Exit, HandlerPc, MailPc
    <3>2. \A c \in Calls :
            callback'[c] = IF callback[c].pc = "none" THEN callback[c]
                           ELSE [callback[c] EXCEPT !.pc = "done"]
      BY <2>11 DEF Exit
    <3>3. callback' \in [Calls -> Callback] /\ LoopInv'
      BY <2>11, <3>2 DEF Exit, Callback
    <3>4. UNCHANGED <<waiting, number, returned, result, accepted, wire, received,
                      aborts>>
      BY <2>11 DEF Exit, queueVars
    <3>5. stopping' \in BOOLEAN
      BY <2>11 DEF Exit
    <3>6. exits' \in Nat
      BY <2>11 DEF Exit
    <3>7. QED  BY <3>1, <3>3, <3>4, <3>5, <3>6
  <2>12. QED
    BY <2>1, <2>2, <2>3, <2>4, <2>5, <2>6, <2>7, <2>8, <2>9, <2>10, <2>11 DEF Next
<1>3. QED  BY <1>1, <1>2, PTL DEF Spec

\* Every state of Provider has its type.
THEOREM TypeCorrect == Spec => []TypeOK
<1>1. TypeInv => TypeOK
  BY DEF TypeInv
<1>2. QED  BY <1>1, TypeAlways, PTL

-------------------------------------------------------------------------------
(* What is told of mails, handlers and callbacks.                            *)

\* Counting an attempt passes over no count.
LEMMA SendCounts ==
  ASSUME TypeInv, Facts, NEW c \in Calls, Send(c)
  PROVE  /\ number[c] = 0 /\ number'[c] > 0
         /\ \A d \in Calls \ {c} : number'[d] = number[d]
         /\ CountsMade'
<1>1. number \in [Calls -> Nat]
  BY DEF TypeInv, TypeOK
<1>2. PICK k \in {0} \cup {number[d] : d \in Calls} :
        Stored(k) /\ number' = [number EXCEPT ![c] = k + 1]
  BY DEF Send
<1>3. k \in Nat
  BY <1>1
<1>4. number[c] = 0
  BY <1>1 DEF Send, Facts, BegunInv, Begun
<1>5. number'[c] = k + 1 /\ \A d \in Calls \ {c} : number'[d] = number[d]
  BY <1>1, <1>2
<1>6. ASSUME NEW e \in Calls, NEW j \in 1..number[e]
      PROVE  \E d \in Calls : number'[d] = j
  <2>1. PICK d \in Calls : number[d] = j
    BY DEF Facts, CountsMade
  <2>2. d # c
    BY <1>1, <1>4, <2>1
  <2>3. QED  BY <1>5, <2>1, <2>2
<1>7. ASSUME NEW j \in 1..number'[c]
      PROVE  \E d \in Calls : number'[d] = j
  <2>1. CASE j = k + 1
    BY <1>5, <2>1
  <2>2. CASE j # k + 1
    <3>1. j \in 1..k /\ k # 0
      BY <1>3, <1>5, <2>2
    <3>2. PICK e \in Calls : number[e] = k
      BY <1>2, <3>1 DEF Stored
    <3>3. QED  BY <1>6, <3>1, <3>2
  <2>3. QED  BY <2>1, <2>2
<1>8. CountsMade'
  BY <1>5, <1>6, <1>7 DEF CountsMade
<1>9. QED  BY <1>3, <1>4, <1>5, <1>8

\* Record may start the goroutine of a handler that Send has returned to.
LEMMA StartNotifyFacts ==
  ASSUME TypeInv, Facts, NEW c \in Calls, StartNotify(c), handler[c] = "record",
         UNCHANGED <<returned, wire, received>>
  PROVE  CallbackInv'
<1>1. returned[c] # "none"
  BY DEF Facts, HandlerInv
<1>2. /\ \A d \in Calls : callback[d].pc # "none" => callback'[d].pc # "none"
      /\ \A d \in Calls \ {c} : callback'[d] = callback[d]
  BY DEF StartNotify, TypeInv, TypeOK
<1>3. \A p \in wire \cup received : p.call \in Calls
  BY DEF TypeInv, TypeOK, PostType
<1>4. QED  BY <1>1, <1>2, <1>3 DEF Facts, CallbackInv

\* The loop of one Notify leaves the others alone and never comes to "none".
LEMMA NotifyLoop ==
  ASSUME TypeInv, NEW c \in Calls, Notify(c)
  PROVE  /\ callback'[c].pc # "none"
         /\ \A d \in Calls \ {c} : callback'[d] = callback[d]
<1>1. callback \in [Calls -> Callback] /\ callback[c] \in Callback
  BY DEF TypeInv, TypeOK
<1>2. CASE BuildFails(c)
  BY <1>1, <1>2 DEF BuildFails, Callback
<1>3. CASE PostCallback(c)
  BY <1>1, <1>3 DEF PostCallback, Callback
<1>4. CASE Answered(c)
  BY <1>1, <1>4 DEF Answered, Callback
<1>5. CASE PostFails(c)
  BY <1>1, <1>5 DEF PostFails, Callback
<1>6. CASE Wait(c)
  BY <1>1, <1>6 DEF Wait, Callback
<1>7. QED  BY <1>2, <1>3, <1>4, <1>5, <1>6 DEF Notify

LEMMA FactsStay == TypeInv /\ Facts /\ [Next]_vars => Facts'
<1> SUFFICES ASSUME TypeInv, Facts, [Next]_vars
             PROVE  Facts'
  OBVIOUS
<1> USE DEF TypeInv, TypeOK, Facts, ReportsTrue, BegunInv, HandlerInv,
        CallbackInv
<1>1. CASE UNCHANGED vars
  BY <1>1 DEF vars, queueVars, sendVars, webhookVars, CountsMade, Begun, Exhausted
<1>2. ASSUME NEW c \in Calls, Send(c)
      PROVE  Facts'
  <2>1. /\ number[c] = 0 /\ number'[c] > 0 /\ CountsMade'
        /\ \A d \in Calls \ {c} : number'[d] = number[d]
    BY <1>2, SendCounts
  <2>2. /\ handler' = [handler EXCEPT ![c] = "send"]
        /\ mail' = [mail EXCEPT ![c] = "running"]
        /\ UNCHANGED <<returned, result, accepted, callback, wire, received>>
    BY <1>2 DEF Send, Goto, webhookVars
  <2>3. BegunInv'
    BY <2>1, <2>2 DEF Begun
  <2>4. HandlerInv'
    BY <1>2, <2>1, <2>2 DEF Send, Exhausted
  <2>5. ReportsTrue' /\ CallbackInv'
    BY <2>2
  <2>6. QED  BY <2>1, <2>3, <2>4, <2>5
<1>3. ASSUME NEW c \in Calls, Accept(c) \/ SendMailReturns(c) \/ Report(c)
      PROVE  Facts'
  BY <1>3 DEF Accept, SendMailReturns, Report, Room, Results, queueVars,
     webhookVars, CountsMade, Begun, Exhausted
<1>4. ASSUME NEW c \in Calls, SendReturns(c)
      PROVE  Facts'
  BY <1>4 DEF SendReturns, Chosen, After, Results, Goto, queueVars, webhookVars,
     CountsMade, Begun, Exhausted
<1>5. ASSUME NEW c \in Calls, Schedule(c)
      PROVE  Facts'
  <2>1. PICK pc \in {"record", "done"} : Goto(c, pc)
    BY <1>5 DEF Schedule
  <2>2. handler[c] = "schedule" /\ UNCHANGED <<number, sendVars, webhookVars>>
    BY <1>5 DEF Schedule
  <2>3. QED
    BY <2>1, <2>2 DEF Goto, sendVars, webhookVars, CountsMade, Begun, Exhausted
<1>6. ASSUME NEW c \in Calls, Record(c)
      PROVE  Facts'
  <2>1. /\ handler[c] = "record" /\ Goto(c, "done")
        /\ UNCHANGED <<number, returned, mail, result, accepted, wire, received>>
    BY <1>6 DEF Record, queueVars, sendVars
  <2>2. ReportsTrue' /\ BegunInv' /\ HandlerInv' /\ CountsMade'
    BY <2>1 DEF Goto, CountsMade, Begun, Exhausted
  <2>3. CallbackInv'
    BY <1>6, <2>1, StartNotifyFacts DEF Record
  <2>4. QED  BY <2>2, <2>3
<1>7. ASSUME NEW c \in Calls, Notify(c)
      PROVE  Facts'
  <2>1. UNCHANGED <<number, handler, returned, mail, result, accepted, received>>
    BY <1>7 DEF Notify, BuildFails, PostCallback, Answered, PostFails, Wait,
       queueVars, sendVars
  <2>2. ReportsTrue' /\ BegunInv' /\ HandlerInv' /\ CountsMade'
    BY <2>1 DEF CountsMade, Begun, Exhausted
  <2>3. callback[c].pc # "none" /\ wire' \subseteq wire \cup {CurrentPost(c)}
    BY <1>7 DEF Notify, BuildFails, PostCallback, Answered, PostFails, Wait
  <2>4. \A d \in Calls :
          callback[d].pc # "none" <=> callback'[d].pc # "none"
    BY <1>7, <2>3, NotifyLoop
  <2>5. \A p \in wire \cup received : p.call \in Calls
    BY DEF PostType
  <2>6. CurrentPost(c).call = c
    BY DEF CurrentPost, Post
  <2>7. CallbackInv'
    BY <2>1, <2>3, <2>4, <2>5, <2>6
  <2>8. QED  BY <2>2, <2>7
<1>8. ASSUME NEW p \in wire, Receive(p)
      PROVE  Facts'
  BY <1>8 DEF Receive, queueVars, sendVars, CountsMade, Begun, Exhausted
<1>9. ASSUME NEW c \in Calls, Abort(c)
      PROVE  Facts'
  <2>1. /\ handler[c] \in Running /\ Goto(c, "done")
        /\ UNCHANGED <<number, returned, mail, result, accepted, wire, received>>
    BY <1>9 DEF Abort, sendVars
  <2>2. ReportsTrue' /\ BegunInv' /\ HandlerInv' /\ CountsMade'
    BY <2>1 DEF Goto, Running, CountsMade, Begun, Exhausted
  <2>3. CallbackInv'
    <3>1. CASE handler[c] = "record"
      BY <1>9, <2>1, <3>1, StartNotifyFacts DEF Abort
    <3>2. CASE handler[c] # "record"
      BY <1>9, <2>1, <3>2 DEF Abort
    <3>3. QED  BY <3>1, <3>2
  <2>4. QED  BY <2>2, <2>3
<1>10. CASE Stop
  BY <1>10 DEF Stop, queueVars, sendVars, webhookVars, CountsMade, Begun, Exhausted
<1>11. CASE Exit
  <2>1. UNCHANGED <<number, returned, result, accepted, wire, received>>
    BY <1>11 DEF Exit, queueVars
  <2>2. ReportsTrue' /\ BegunInv' /\ HandlerInv' /\ CountsMade'
    BY <1>11, <2>1 DEF Exit, CountsMade, Begun, Exhausted
  <2>3. \A d \in Calls :
          callback[d].pc # "none" <=> callback'[d].pc # "none"
    BY <1>11 DEF Exit, Callback
  <2>4. \A p \in wire \cup received : p.call \in Calls
    BY DEF PostType
  <2>5. CallbackInv'
    BY <2>1, <2>3, <2>4
  <2>6. QED  BY <2>2, <2>5
<1>12. QED
  BY <1>1, <1>2, <1>3, <1>4, <1>5, <1>6, <1>7, <1>8, <1>9, <1>10, <1>11 DEF Next

-------------------------------------------------------------------------------
(* Jobs are counted.                                                         *)

LEMMA SpentIsFinite ==
  /\ IsFiniteSet(SpentCalls) /\ Cardinality(SpentCalls) \in Nat
  /\ \A S \in SUBSET SpentCalls :
       Cardinality(S) \in Nat /\ Cardinality(S) <= Cardinality(SpentCalls)
<1>1. IsFiniteSet(Calls)
  BY ProviderAssumption, FS_Interval DEF Calls
<1>2. IsFiniteSet(SpentCalls)
  BY <1>1, FS_Subset DEF SpentCalls
<1>3. QED  BY <1>2, FS_Subset, FS_CardinalityType

\* A step that spends on no handler and frees none changes nothing.
LEMMA SpentSame ==
  ASSUME \A d \in Calls : Spent(d)' <=> Spent(d)
  PROVE  SpentCalls' = SpentCalls
BY DEF SpentCalls

\* A step that only frees handlers does not raise their number.
LEMMA SpentLess ==
  ASSUME \A d \in Calls : Spent(d)' => Spent(d)
  PROVE  Cardinality(SpentCalls') \in Nat
         /\ Cardinality(SpentCalls') <= Cardinality(SpentCalls)
<1>1. SpentCalls' \subseteq SpentCalls
  BY DEF SpentCalls
<1>2. QED  BY <1>1, SpentIsFinite

\* Each step takes as many jobs as it brings.
LEMMA JobsEarnedStays ==
  TypeInv /\ Facts /\ JobsEarned /\ [Next]_vars => JobsEarned'
<1> SUFFICES ASSUME TypeInv, Facts, JobsEarned, [Next]_vars
             PROVE  JobsEarned'
  OBVIOUS
<1> USE DEF Spent, NoError, Begun, Exhausted
<1>t. /\ waiting \in Nat /\ aborts \in Nat /\ number \in [Calls -> Nat]
      /\ handler \in [Calls -> HandlerPc]
      /\ returned \in [Calls -> Results \cup {"none"}]
  BY DEF TypeInv, TypeOK
<1>c. IsFiniteSet(SpentCalls) /\ Cardinality(SpentCalls) \in Nat
  BY SpentIsFinite
<1>s. ASSUME UNCHANGED <<waiting, aborts>>, \A d \in Calls : Spent(d)' <=> Spent(d)
      PROVE  JobsEarned'
  BY <1>s, SpentSame DEF JobsEarned
<1>1. CASE UNCHANGED <<waiting, aborts, number, handler, returned>>
  BY <1>1, <1>s
<1>2. ASSUME NEW c \in Calls, Send(c)
      PROVE  JobsEarned'
  <2>1. /\ number[c] = 0 /\ number'[c] > 0
        /\ \A d \in Calls \ {c} : number'[d] = number[d]
    BY <1>2, SendCounts
  <2>2. /\ waiting' = waiting - 1 /\ aborts' = aborts /\ returned' = returned
        /\ handler' = [handler EXCEPT ![c] = "send"] /\ handler[c] = "none"
    BY <1>2 DEF Send, Goto, processVars
  <2>3. returned[c] = "none"
    BY <2>2 DEF Facts, HandlerInv
  <2>4. SpentCalls' = SpentCalls \cup {c} /\ c \notin SpentCalls
    BY <1>t, <2>1, <2>2, <2>3 DEF SpentCalls
  <2>5. Cardinality(SpentCalls') = Cardinality(SpentCalls) + 1
    BY <1>c, <2>4, FS_AddElement
  <2>6. QED  BY <1>t, <1>c, <2>2, <2>5 DEF JobsEarned
<1>3. ASSUME NEW c \in Calls, SendReturns(c)
      PROVE  JobsEarned'
  <2>1. PICK r \in Chosen(c) :
          returned' = [returned EXCEPT ![c] = r] /\ Goto(c, After(c, r))
    BY <1>3 DEF SendReturns
  <2>2. UNCHANGED <<waiting, aborts, number>> /\ handler[c] = "send"
    BY <1>3 DEF SendReturns, queueVars, processVars
  <2>3. returned[c] = "none" /\ Begun(c)
    BY <2>2 DEF Facts, HandlerInv, BegunInv
  <2>4. Spent(c)'
    BY <1>t, <2>1, <2>2, <2>3 DEF Goto, After, Chosen, Results
  <2>5. \A d \in Calls \ {c} : Spent(d)' <=> Spent(d)
    BY <1>t, <2>1, <2>2 DEF Goto
  <2>6. QED  BY <1>s, <2>2, <2>3, <2>4, <2>5
<1>4. ASSUME NEW c \in Calls, Schedule(c)
      PROVE  JobsEarned'
  <2>1. /\ handler[c] = "schedule" /\ UNCHANGED <<aborts, number, returned>>
        /\ waiting' \in {waiting, waiting + 1}
    BY <1>4 DEF Schedule, sendVars, processVars
  <2>2. PICK pc \in {"record", "done"} : handler' = [handler EXCEPT ![c] = pc]
    BY <1>4 DEF Schedule, Goto
  <2>3. returned[c] = "error" /\ ~Exhausted(c) /\ Begun(c)
    BY <2>1 DEF Facts, HandlerInv, BegunInv
  <2>4. SpentCalls' = SpentCalls \ {c} /\ c \in SpentCalls
    BY <1>t, <2>1, <2>2, <2>3 DEF SpentCalls
  <2>5. Cardinality(SpentCalls') = Cardinality(SpentCalls) - 1
    BY <1>c, <2>4, FS_RemoveElement
  <2>6. QED  BY <1>t, <1>c, <2>1, <2>5 DEF JobsEarned
<1>5. ASSUME NEW c \in Calls, Record(c)
      PROVE  JobsEarned'
  BY <1>5, <1>t, <1>s DEF Record, Goto, queueVars, sendVars, processVars
<1>6. ASSUME NEW c \in Calls, Abort(c)
      PROVE  JobsEarned'
  <2>1. /\ waiting' = waiting + 1 /\ aborts' = aborts + 1
        /\ UNCHANGED <<number, returned>>
        /\ handler' = [handler EXCEPT ![c] = "done"]
    BY <1>6 DEF Abort, Goto, sendVars
  <2>2. \A d \in Calls : Spent(d)' => Spent(d)
    BY <1>t, <2>1
  <2>3. QED  BY <1>t, <1>c, <2>1, <2>2, SpentLess DEF JobsEarned
<1>7. CASE Exit
  <2>1. UNCHANGED <<waiting, aborts, number, returned>>
    BY <1>7 DEF Exit, queueVars
  <2>2. \A d \in Calls : handler'[d] = IF handler[d] = "none" THEN "none" ELSE "done"
    BY <1>7 DEF Exit
  <2>3. \A d \in Calls : Spent(d)' => Spent(d)
    BY <2>1, <2>2
  <2>4. QED  BY <1>t, <1>c, <2>1, <2>3, SpentLess DEF JobsEarned
<1>8. ASSUME NEW c \in Calls,
             Accept(c) \/ SendMailReturns(c) \/ Report(c) \/ Notify(c)
      PROVE  UNCHANGED <<waiting, aborts, number, handler, returned>>
  BY <1>8 DEF Accept, SendMailReturns, Report, Notify, BuildFails, PostCallback,
     Answered, PostFails, Wait, queueVars, sendVars, processVars
<1>9. ASSUME NEW p \in wire, Receive(p)
      PROVE  UNCHANGED <<waiting, aborts, number, handler, returned>>
  BY <1>9 DEF Receive, queueVars, sendVars, processVars
<1>10. CASE Stop \/ UNCHANGED vars
  BY <1>1, <1>10 DEF Stop, vars, queueVars, sendVars, processVars
<1>11. QED
  BY <1>1, <1>2, <1>3, <1>4, <1>5, <1>6, <1>7, <1>8, <1>9, <1>10 DEF Next

\* The inductive invariant: jobs are earned by errors or aborted handlers, what
\* is reported of a mail is true of the server, and counts pass over none.
THEOREM InvHolds == Spec => []Inv
<1>1. Init => Inv
  <2> SUFFICES ASSUME Init
               PROVE  Inv
    OBVIOUS
  <2>1. Facts
    BY DEF Init, Facts, ReportsTrue, BegunInv, HandlerInv, CountsMade,
       CallbackInv, NoCallback, Begun
  <2>2. SpentCalls = {}
    BY DEF Init, SpentCalls, Spent, NoError, Begun
  <2>3. QED  BY <2>1, <2>2, FS_EmptySet DEF Init, Inv, JobsEarned
<1>2. TypeInv /\ Inv /\ [Next]_vars => Inv'
  BY FactsStay, JobsEarnedStays DEF Inv
<1>3. QED  BY <1>1, <1>2, TypeAlways, PTL DEF Spec

\* Of the mails of a notification at most one, and one for each handler that a
\* shutdown aborted, has not been reported by Send as an error.
THEOREM DuplicatesExplainedHolds == Spec => []DuplicatesExplained
<1>1. ASSUME Inv, TypeInv
      PROVE  DuplicatesExplained
  <2>1. {c \in accepted : NoError(c)} \in SUBSET SpentCalls
    BY <1>1 DEF SpentCalls, Spent, TypeInv, TypeOK
  <2>2. /\ Cardinality({c \in accepted : NoError(c)}) \in Nat
        /\ Cardinality({c \in accepted : NoError(c)}) <= Cardinality(SpentCalls)
    BY <2>1, SpentIsFinite
  <2>3. QED
    BY <1>1, <2>2, SpentIsFinite DEF Inv, JobsEarned, DuplicatesExplained,
       TypeInv, TypeOK
<1>2. QED  BY <1>1, InvHolds, TypeAlways, PTL

\* The handler that has made the last attempt has used up a job, so that of the
\* calls that did not return an error there is one less.
LEMMA FailedIsTrue ==
  ASSUME TypeInv, Inv, NEW c \in Calls, returned[c] = "error", Exhausted(c)
  PROVE  /\ \A k \in 1..MaxAttempts : \E d \in Calls : number[d] = k
         /\ Cardinality({d \in Calls : NoError(d)}) <= aborts
<1>1. /\ number[c] \in Nat /\ number[c] >= MaxAttempts /\ number[c] > 0
      /\ waiting \in Nat /\ aborts \in Nat
  BY ProviderAssumption DEF TypeInv, TypeOK, Exhausted
<1>2. \A k \in 1..MaxAttempts : \E d \in Calls : number[d] = k
  <2>1. 1..MaxAttempts \subseteq 1..number[c]
    BY <1>1, ProviderAssumption
  <2>2. QED  BY <2>1 DEF Inv, Facts, CountsMade
<1>3. {d \in Calls : NoError(d)} \in SUBSET (SpentCalls \ {c}) /\ c \in SpentCalls
  BY <1>1 DEF SpentCalls, Spent, NoError, Begun
<1>4. /\ IsFiniteSet(SpentCalls \ {c})
      /\ Cardinality(SpentCalls \ {c}) = Cardinality(SpentCalls) - 1
  BY <1>3, SpentIsFinite, FS_RemoveElement
<1>5. /\ Cardinality({d \in Calls : NoError(d)}) \in Nat
      /\ Cardinality({d \in Calls : NoError(d)}) <= Cardinality(SpentCalls) - 1
  BY <1>3, <1>4, FS_Subset, FS_CardinalityType
<1>6. QED  BY <1>1, <1>2, <1>5, SpentIsFinite DEF Inv, JobsEarned

\* No callback claims a delivery the server did not accept, or a failure before
\* the last attempt has failed.
THEOREM CallbacksTrueHolds == Spec => []CallbacksTrue
<1>1. ASSUME Inv, TypeInv
      PROVE  CallbacksTrue
  <2> SUFFICES ASSUME NEW p \in received
               PROVE  /\ Status(p.call) = "sent" => p.call \in accepted
                      /\ Status(p.call) = "failed" =>
                           /\ \A k \in 1..MaxAttempts : \E c \in Calls : number[c] = k
                           /\ Cardinality({c \in Calls : NoError(c)}) <= aborts
    BY DEF CallbacksTrue
  <2>1. p.call \in Calls /\ returned[p.call] \in Results
    BY <1>1 DEF Inv, Facts, CallbackInv, TypeInv, TypeOK, PostType
  <2>2. CASE returned[p.call] = "ok"
    BY <1>1, <2>1, <2>2 DEF Status, Inv, Facts, ReportsTrue
  <2>3. CASE returned[p.call] = "error" /\ ~Exhausted(p.call)
    BY <2>3 DEF Status
  <2>4. CASE returned[p.call] = "error" /\ Exhausted(p.call)
    BY <1>1, <2>1, <2>4, FailedIsTrue DEF Status
  <2>5. QED  BY <2>1, <2>2, <2>3, <2>4 DEF Results
<1>2. QED  BY <1>1, InvHolds, TypeAlways, PTL

-------------------------------------------------------------------------------
(* The loop of Notify.                                                       *)

\* A callback is begun when its handler is over, given up only at the last try
\* or for its URL, and its posts are those of the tries made so far.
TriesTrue ==
  /\ \A c \in Calls : callback[c].pc # "none" => handler[c] = "done"
  /\ \A c \in Calls : callback[c].pc \in {"flight", "wait"} => callback[c].valid
  /\ \A p \in wire \cup received :
       callback[p.call].valid /\ p.try <= callback[p.call].try
  /\ \A c \in Calls :
       callback[c].pc = "done" /\ callback[c].valid /\ ~callback[c].answered
         => callback[c].try = Tries \/ exits # 0

LEMMA TriesTrueAlways == Spec => []TriesTrue
<1>1. Init => TriesTrue
  BY DEF Init, TriesTrue, NoCallback
<1>2. TypeInv /\ Inv /\ TriesTrue /\ [Next]_vars => TriesTrue'
  <2> SUFFICES ASSUME TypeInv, Inv, TriesTrue, [Next]_vars
               PROVE  TriesTrue'
    OBVIOUS
  <2> USE DEF TypeInv, TypeOK, TriesTrue
  <2>p. \A p \in wire \cup received :
          p.call \in Calls /\ p.try \in Nat /\ callback[p.call].pc # "none"
    BY DEF PostType, Inv, Facts, CallbackInv
  <2>1. CASE UNCHANGED vars
    BY <2>1 DEF vars, webhookVars, processVars
  <2>2. ASSUME NEW c \in Calls,
               \/ Send(c) \/ Accept(c) \/ SendMailReturns(c) \/ Report(c)
               \/ SendReturns(c) \/ Schedule(c)
        PROVE  TriesTrue'
    <3>1. UNCHANGED <<callback, wire, received, exits>>
      BY <2>2 DEF Send, Accept, SendMailReturns, Report, SendReturns, Schedule,
         webhookVars, processVars
    <3>2. \A d \in Calls : handler[d] = "done" => handler'[d] = "done"
      BY <2>2 DEF Send, Accept, SendMailReturns, Report, SendReturns, Schedule,
         Goto
    <3>3. QED  BY <3>1, <3>2
  <2>3. ASSUME NEW c \in Calls, Record(c) \/ Abort(c)
        PROVE  TriesTrue'
    <3>1. /\ handler' = [handler EXCEPT ![c] = "done"] /\ callback[c].pc = "none"
          /\ UNCHANGED <<wire, received, exits>>
      BY <2>3 DEF Record, Abort, Running, Goto, processVars
    <3>2. CASE UNCHANGED callback
      BY <3>1, <3>2
    <3>3. ASSUME NEW valid \in BOOLEAN,
                 callback' = [callback EXCEPT ![c] =
                   [pc |-> "post", try |-> 1, valid |-> valid, answered |-> FALSE]]
          PROVE  TriesTrue'
      <4>1. callback'[c].pc = "post"
        BY <3>3
      <4>2. \A d \in Calls \ {c} : callback'[d] = callback[d]
        BY <3>3
      <4>3. \A p \in wire \cup received : p.call # c
        BY <2>p, <3>1
      <4>4. QED  BY <2>p, <3>1, <4>1, <4>2, <4>3
    <3>4. QED  BY <2>3, <3>2, <3>3 DEF Record, Abort, StartNotify
  <2>4. ASSUME NEW c \in Calls, Notify(c)
        PROVE  TriesTrue'
    <3> DEFINE old == callback[c]
               new == callback'[c]
    <3>1. UNCHANGED <<handler, received, exits>> /\ old.pc # "none"
      BY <2>4 DEF Notify, BuildFails, PostCallback, Answered, PostFails, Wait,
         sendVars, processVars
    <3>2. \A d \in Calls \ {c} : callback'[d] = callback[d]
      BY <2>4 DEF Notify, BuildFails, PostCallback, Answered, PostFails, Wait
    <3>3. callback \in [Calls -> Callback] /\ old \in Callback
      OBVIOUS
    <3>4. /\ old.try \in Nat /\ new.try \in Nat /\ old.try <= new.try
          /\ new.valid = old.valid
      BY <2>4, <3>3, TriesPositive DEF Notify, BuildFails, PostCallback, Answered,
         PostFails, Wait, Callback
    <3>5. \/ wire' = wire
          \/ wire' = wire \cup {CurrentPost(c)} /\ old.valid
      BY <2>4 DEF Notify, BuildFails, PostCallback, Answered, PostFails, Wait
    <3>6. \A p \in wire' \cup received' :
            callback'[p.call].valid /\ p.try <= callback'[p.call].try
      <4>1. CurrentPost(c).call = c /\ CurrentPost(c).try = old.try
        BY DEF CurrentPost, Post
      <4>2. QED  BY <2>p, <3>1, <3>2, <3>4, <3>5, <4>1
    <3>7. /\ new.pc \in {"flight", "wait"} => new.valid
          /\ new.pc = "done" /\ new.valid /\ ~new.answered => new.try = Tries
      <4>1. CASE BuildFails(c)
        <5>1. ~new.valid /\ new.pc = "done"
          BY <3>3, <4>1 DEF BuildFails, Callback
        <5>2. QED  BY <5>1
      <4>2. CASE PostCallback(c)
        <5>1. new.pc = "flight" /\ new.valid
          BY <3>3, <4>2 DEF PostCallback, Callback
        <5>2. QED  BY <5>1
      <4>3. CASE Answered(c)
        <5>1. new.answered /\ new.pc = "done"
          BY <3>3, <4>3 DEF Answered, Callback
        <5>2. QED  BY <5>1
      <4>4. CASE PostFails(c)
        <5>1. /\ new.try = old.try /\ old.pc = "flight"
              /\ new.pc = IF Again(c) THEN "wait" ELSE "done"
          BY <3>3, <4>4 DEF PostFails, Callback
        <5>2. old.try \in 0..Tries /\ old.valid
          BY <3>3, <5>1 DEF Callback
        <5>3. CASE Again(c)
          BY <3>4, <5>1, <5>2, <5>3
        <5>4. CASE ~Again(c)
          <6>1. old.try = Tries
            BY <5>2, <5>4, TriesPositive DEF Again
          <6>2. QED  BY <5>1, <5>4, <6>1
        <5>5. QED  BY <5>3, <5>4
      <4>5. CASE Wait(c)
        <5>1. new.pc = "post"
          BY <3>3, <4>5 DEF Wait, Callback
        <5>2. QED  BY <5>1
      <4>6. QED  BY <2>4, <4>1, <4>2, <4>3, <4>4, <4>5 DEF Notify
    <3>8. QED  BY <3>1, <3>2, <3>6, <3>7
  <2>5. ASSUME NEW p \in wire, Receive(p)
        PROVE  TriesTrue'
    BY <2>5 DEF Receive, processVars
  <2>6. CASE Exit
    <3>1. exits' # 0 /\ UNCHANGED <<wire, received>>
      BY <2>6 DEF Exit
    <3>2. \A d \in Calls :
            /\ callback'[d].try = callback[d].try
            /\ callback'[d].valid = callback[d].valid
            /\ callback'[d].pc # "none" => callback[d].pc # "none"
            /\ callback'[d].pc \notin {"flight", "wait"}
      BY <2>6 DEF Exit, Callback
    <3>3. \A d \in Calls : handler[d] = "done" => handler'[d] = "done"
      BY <2>6 DEF Exit
    <3>4. QED  BY <2>p, <3>1, <3>2, <3>3
  <2>7. CASE Stop
    BY <2>7 DEF Stop, webhookVars
  <2>8. QED  BY <2>1, <2>2, <2>3, <2>4, <2>5, <2>6, <2>7 DEF Next
<1>3. QED  BY <1>1, <1>2, TypeAlways, InvHolds, PTL DEF Spec

\* A callback is given up only after all its posts, or without any when the URL
\* cannot be made into a request, unless the process ended.
THEOREM GivenUpLastHolds == Spec => []GivenUpLast
<1>1. TriesTrue => GivenUpLast
  BY DEF TriesTrue, GivenUpLast
<1>2. QED  BY <1>1, TriesTrueAlways, PTL

\* The posts of a callback are told apart by their try.
LEMMA PostsAtMost ==
  ASSUME TypeOK, NEW c \in Calls
  PROVE  Cardinality({p \in received : p.call = c}) <= Tries
<1> DEFINE posts == {p \in received : p.call = c}
           try == [p \in posts |-> p.try]
<1>1. try \in Injection(posts, 1..Tries)
  <2>1. \A p \in posts : p.try \in 1..Tries /\ p = [call |-> c, try |-> p.try]
    BY DEF TypeOK, PostType
  <2>2. QED  BY <2>1 DEF Injection, IsInjective
<1>2. IsFiniteSet(1..Tries) /\ Cardinality(1..Tries) = Tries
  BY TriesPositive, FS_Interval
<1>3. QED  BY <1>1, <1>2, FS_Injection

\* The endpoint gets a callback at most max(1, WEBHOOK_MAX_RETRIES) times, and
\* no post of it is started once one was answered.
THEOREM PostsBoundedHolds == Spec => []PostsBounded
<1>1. TypeOK /\ TriesTrue => PostsBounded
  BY PostsAtMost DEF TriesTrue, PostsBounded
<1>2. QED  BY <1>1, TypeCorrect, TriesTrueAlways, PTL
===============================================================================
