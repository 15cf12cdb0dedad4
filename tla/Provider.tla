------------------------------- MODULE Provider -------------------------------
(***************************************************************************)
(* Package provider below Process, for the handlers of one notification:   *)
(* SMTPProvider.Send with the goroutine that runs smtp.SendMail and may    *)
(* outlive it, and WebhookDispatcher.Notify with its repeated posts.       *)
(*                                                                         *)
(* Send waits for three things at once and returns when one has come: the  *)
(* result on a channel, the time-out, the end of the handler's context.    *)
(* The mail that was being sent is not stopped.  An error makes Process    *)
(* enqueue a job for the next attempt, whose handler may begin before the  *)
(* one that enqueued it has ended.  A shutdown puts the job of a running   *)
(* handler back, and the next process gives it another handler.            *)
(*                                                                         *)
(* Handlers are numbered in the order in which they call Send.  Left out:  *)
(* the row, whose status may keep a handler from calling Send and of which *)
(* only the count of attempts is kept, task ids, which may keep a job from *)
(* being enqueued, manual retries (all three in module Delivery), the text *)
(* of mails and callbacks, delays, and MockProvider, whose Send returns    *)
(* nil at once.                                                            *)
(*                                                                         *)
(* An operator whose name ends in _bug is a mutant of the operator after   *)
(* it.                                                                     *)
(***************************************************************************)
EXTENDS Integers, FiniteSets

CONSTANTS
  MaxAttempts,       \* max_attempts of the notification
  WebhookMaxRetries, \* cfg.WebhookMaxRetries
  MaxCalls,          \* bound: how many handlers call Send
  MaxExits           \* bound: how often the process may end

ASSUME ProviderAssumption ==
  /\ MaxAttempts \in Nat \ {0}
  /\ WebhookMaxRetries \in Int
  /\ MaxCalls \in Nat
  /\ MaxExits \in Nat

VARIABLES
  waiting,  \* how many jobs of the notification are in the queue
  number,   \* the attempt each handler makes, zero before it has begun
  handler,  \* where Process is in each handler
  returned, \* what Send returned to it
  mail,     \* the goroutine of each SendMail
  result,   \* the channel it reports to, of capacity one
  accepted, \* the handlers whose mail the SMTP server took
  callback, \* the goroutine of each Notify
  wire,     \* posts on their way to the user's endpoint
  received, \* posts the endpoint has received
  stopping, \* has the process received SIGTERM?
  exits,    \* how often the process has ended
  aborts    \* history: how many handlers a shutdown has aborted

queueVars == <<waiting, number>>
sendVars == <<returned, mail, result, accepted>>
webhookVars == <<callback, wire, received>>
processVars == <<stopping, exits, aborts>>
vars == <<queueVars, handler, sendVars, webhookVars, processVars>>

-------------------------------------------------------------------------------
(* Data. *)

Calls == 1..MaxCalls
Begun(c) == number[c] > 0

\* The posts Notify makes: max(1, d.maxRetries).
Tries == IF WebhookMaxRetries > 1 THEN WebhookMaxRetries ELSE 1

Running == {"send", "schedule", "record"}
HandlerPc == {"none", "done"} \cup Running
Results == {"ok", "error"}
Goto(c, pc) == handler' = [handler EXCEPT ![c] = pc]

\* A SendMail that has not been called, runs, has a result to report, or has
\* reported it.
MailPc == {"none", "running", "ended"} \cup Results

\* The status the attempt of handler c ends with, and its callback speaks of.
Exhausted_bug(c) == number[c] + 1 >= MaxAttempts
Exhausted(c) == number[c] >= MaxAttempts
Status(c) ==
  CASE returned[c] = "ok" -> "sent"
    [] returned[c] # "ok" /\ Exhausted(c) -> "failed"
    [] OTHER -> "retrying"

\* valid: can the user's webhook URL, which nothing checks when it is stored,
\* be made into a request?
NoCallback == [pc |-> "none", try |-> 0, valid |-> FALSE, answered |-> FALSE]
Callback ==
  [pc : {"none", "post", "flight", "wait", "done"}, try : 0..Tries,
   valid : BOOLEAN, answered : BOOLEAN]
Post(c, try) == [call |-> c, try |-> try]
CurrentPost(c) == Post(c, callback[c].try)
PostType == [call : Calls, try : 1..Tries]

-------------------------------------------------------------------------------
(* SMTPProvider.Send *)

\* A count that a handler may find in the row: zero at first, later one that
\* IncrementAttempts or UpdateNotification of any earlier handler has stored.
Stored(k) ==
  \/ k = 0 /\ \A d \in Calls : ~Begun(d)
  \/ \E d \in Calls : Begun(d) /\ k = number[d]

\* A worker gets a job; Process counts the attempt and calls Send, which starts
\* the goroutine.
Send(c) ==
  /\ ~stopping
  /\ waiting > 0
  /\ handler[c] = "none" /\ \A d \in 1..(c - 1) : handler[d] # "none"
  /\ waiting' = waiting - 1
  /\ \E k \in {0} \cup {number[d] : d \in Calls} :
       Stored(k) /\ number' = [number EXCEPT ![c] = k + 1]
  /\ Goto(c, "send")
  /\ mail' = [mail EXCEPT ![c] = "running"]
  /\ UNCHANGED <<returned, result, accepted, webhookVars, processVars>>

\* The SMTP server takes responsibility for the mail.
Accept(c) ==
  /\ mail[c] = "running"
  /\ accepted' = accepted \cup {c}
  /\ UNCHANGED <<queueVars, handler, returned, mail, result, webhookVars,
                 processVars>>

\* SendMail returns nil only for a mail that was taken.  It can return an error
\* for one too: when the reply is lost, or the QUIT that follows fails.
SendMailReturns(c) ==
  /\ mail[c] = "running"
  /\ \/ c \in accepted /\ mail' = [mail EXCEPT ![c] = "ok"]
     \/ mail' = [mail EXCEPT ![c] = "error"]
  /\ UNCHANGED <<queueVars, handler, returned, result, accepted, webhookVars,
                 processVars>>

\* make(chan error, 1): the goroutine need not find a receiver.
Room_bug(c) == result[c] = "none" /\ handler[c] = "send"
Room(c) == result[c] = "none"

Report(c) ==
  /\ mail[c] \in Results
  /\ Room(c)
  /\ result' = [result EXCEPT ![c] = mail[c]]
  /\ mail' = [mail EXCEPT ![c] = "ended"]
  /\ UNCHANGED <<queueVars, handler, returned, accepted, webhookVars,
                 processVars>>

\* The select: whatever is in the channel, the time-out or ctx.Done() may be
\* what it chooses.
Chosen(c) == {"error"} \cup {r \in Results : r = result[c]}

\* An error that is not the last one allowed is followed by another attempt.
After_bug(c, r) == IF Exhausted(c) THEN "record" ELSE "schedule"
After(c, r) == IF r = "ok" \/ Exhausted(c) THEN "record" ELSE "schedule"

SendReturns_bug(c) ==  \* no time-out
  /\ handler[c] = "send"
  /\ result[c] \in Results
  /\ returned' = [returned EXCEPT ![c] = result[c]]
  /\ Goto(c, After(c, result[c]))
  /\ UNCHANGED <<queueVars, mail, result, accepted, webhookVars, processVars>>
SendReturns(c) ==
  /\ handler[c] = "send"
  /\ \E r \in Chosen(c) :
       /\ returned' = [returned EXCEPT ![c] = r]
       /\ Goto(c, After(c, r))
  /\ UNCHANGED <<queueVars, mail, result, accepted, webhookVars, processVars>>

-------------------------------------------------------------------------------
(* Process, after Send. *)

\* Enqueue of the next attempt.  An error ends the handler, the job being there
\* or not.
Schedule(c) ==
  /\ handler[c] = "schedule"
  /\ \/ waiting' = waiting + 1 /\ Goto(c, "record")
     \/ waiting' \in {waiting, waiting + 1} /\ Goto(c, "done")
  /\ UNCHANGED <<number, sendVars, webhookVars, processVars>>

\* The handler stores what became of the attempt and starts the goroutine of
\* Notify; there is none when a statement fails or the user has no webhook.
StartNotify(c) ==
  \/ \E valid \in BOOLEAN :
       callback' = [callback EXCEPT ![c] =
         [pc |-> "post", try |-> 1, valid |-> valid, answered |-> FALSE]]
  \/ UNCHANGED callback

Record(c) ==
  /\ handler[c] = "record"
  /\ Goto(c, "done")
  /\ StartNotify(c)
  /\ UNCHANGED <<queueVars, sendVars, wire, received, processVars>>

-------------------------------------------------------------------------------
(* WebhookDispatcher.Notify *)

\* http.NewRequestWithContext fails, and with it the callback.
BuildFails(c) ==
  /\ callback[c].pc = "post"
  /\ ~callback[c].valid
  /\ callback' = [callback EXCEPT ![c].pc = "done"]
  /\ UNCHANGED <<queueVars, handler, sendVars, wire, received, processVars>>

PostCallback(c) ==
  /\ callback[c].pc = "post"
  /\ callback[c].valid
  /\ callback' = [callback EXCEPT ![c].pc = "flight"]
  /\ wire' = wire \cup {CurrentPost(c)}
  /\ UNCHANGED <<queueVars, handler, sendVars, received, processVars>>

\* A post arrives at the endpoint, in time or late; it may never.
Receive(p) ==
  /\ wire' = wire \ {p}
  /\ received' = received \cup {p}
  /\ UNCHANGED <<queueVars, handler, sendVars, callback, processVars>>

\* A status below 300 came back.
Answered(c) ==
  /\ callback[c].pc = "flight"
  /\ CurrentPost(c) \in received
  /\ callback' = [callback EXCEPT ![c].pc = "done", ![c].answered = TRUE]
  /\ UNCHANGED <<queueVars, handler, sendVars, wire, received, processVars>>

\* Another status, an error or client.Timeout.
Again_bug(c) == callback[c].try <= Tries
Again(c) == callback[c].try < Tries

PostFails_bug(c) ==  \* a client error returns at once
  /\ callback[c].pc = "flight"
  /\ callback' = [callback EXCEPT ![c].pc = "done"]
  /\ UNCHANGED <<queueVars, handler, sendVars, wire, received, processVars>>
PostFails(c) ==
  /\ callback[c].pc = "flight"
  /\ callback' = [callback EXCEPT
                    ![c].pc = IF Again(c) THEN "wait" ELSE "done"]
  /\ UNCHANGED <<queueVars, handler, sendVars, wire, received, processVars>>

\* time.After(d.retryDelay(attempt)); the context is context.Background().
Wait_bug(c) ==
  /\ callback[c].pc = "wait"
  /\ callback' = [callback EXCEPT ![c].pc = "post"]
  /\ UNCHANGED <<queueVars, handler, sendVars, wire, received, processVars>>
Wait(c) ==
  /\ callback[c].pc = "wait"
  /\ callback' = [callback EXCEPT ![c].pc = "post", ![c].try = @ + 1]
  /\ UNCHANGED <<queueVars, handler, sendVars, wire, received, processVars>>

Notify(c) ==
  BuildFails(c) \/ PostCallback(c) \/ Answered(c) \/ PostFails(c) \/ Wait(c)

-------------------------------------------------------------------------------
(* The end of the process. *)

\* SIGTERM: asynq hands out no more jobs.
Stop ==
  /\ ~stopping
  /\ exits < MaxExits
  /\ stopping' = TRUE
  /\ UNCHANGED <<queueVars, handler, sendVars, webhookVars, exits, aborts>>

\* The shutdown time-out of asynq: the job goes back to the queue, even when its
\* handler has done everything but return.  The context is cancelled, which ends
\* the handler without another effect; the mail it may be sending goes on.
Abort(c) ==
  /\ stopping
  /\ handler[c] \in Running
  /\ Goto(c, "done")
  /\ waiting' = waiting + 1
  /\ aborts' = aborts + 1
  /\ IF handler[c] = "record" THEN StartNotify(c) ELSE UNCHANGED callback
  /\ UNCHANGED <<number, sendVars, wire, received, stopping, exits>>

\* The process ends, killed or because main returns, and another is started:
\* nobody waits for the goroutines.  The jobs of the handlers that still run
\* are archived, the waiting ones are delivered to the new process.
Exit ==
  /\ exits < MaxExits
  /\ exits' = exits + 1
  /\ stopping' = FALSE
  /\ handler' = [c \in Calls |->
                   IF handler[c] = "none" THEN "none" ELSE "done"]
  /\ mail' = [c \in Calls |-> IF mail[c] = "none" THEN "none" ELSE "ended"]
  /\ callback' = [c \in Calls |->
                    IF callback[c].pc = "none" THEN callback[c]
                    ELSE [callback[c] EXCEPT !.pc = "done"]]
  /\ UNCHANGED <<queueVars, returned, result, accepted, wire, received, aborts>>

Init ==
  /\ waiting = 1
  /\ number = [c \in Calls |-> 0]
  /\ handler = [c \in Calls |-> "none"]
  /\ returned = [c \in Calls |-> "none"]
  /\ mail = [c \in Calls |-> "none"]
  /\ result = [c \in Calls |-> "none"]
  /\ accepted = {}
  /\ callback = [c \in Calls |-> NoCallback]
  /\ wire = {} /\ received = {}
  /\ stopping = FALSE
  /\ exits = 0 /\ aborts = 0

Next ==
  \/ \E c \in Calls :
       \/ Send(c) \/ Accept(c) \/ SendMailReturns(c) \/ Report(c)
       \/ SendReturns(c) \/ Schedule(c) \/ Record(c) \/ Notify(c) \/ Abort(c)
  \/ \E p \in wire : Receive(p)
  \/ Stop \/ Exit

Spec == Init /\ [][Next]_vars

\* Goroutines run and timers fire.  Nothing is assumed of the SMTP server,
\* which may keep SendMail waiting for ever, nor of the endpoint.
FairSpec ==
  /\ Spec
  /\ \A c \in Calls :
       /\ WF_vars(Report(c))
       /\ WF_vars(SendReturns(c))
       /\ WF_vars(Notify(c))

-------------------------------------------------------------------------------
(* Properties. *)

\* TypeOK says of try what the loop of Notify must keep: it never passes the
\* number of tries.
TypeOK ==
  /\ waiting \in Nat
  /\ number \in [Calls -> Nat]
  /\ handler \in [Calls -> HandlerPc]
  /\ returned \in [Calls -> Results \cup {"none"}]
  /\ mail \in [Calls -> MailPc]
  /\ result \in [Calls -> Results \cup {"none"}]
  /\ accepted \subseteq Calls
  /\ callback \in [Calls -> Callback]
  /\ wire \subseteq PostType
  /\ received \subseteq PostType
  /\ stopping \in BOOLEAN
  /\ exits \in Nat
  /\ aborts \in Nat

\* Calls of Send that have not returned an error: they returned nil, are still
\* waiting, or were cut off by the end of the process or of their handler.
NoError(c) == Begun(c) /\ returned[c] # "error"

\* What the user's endpoint is told is so.  "delivered": the server has taken
\* the mail of that attempt.  "failed": each attempt up to max_attempts was
\* begun, and every call of Send has returned an error; but as many calls as
\* a shutdown has aborted handlers may have been cut off, or have succeeded.
CallbacksTrue ==
  \A p \in received :
    /\ Status(p.call) = "sent" => p.call \in accepted
    /\ Status(p.call) = "failed" =>
         /\ \A k \in 1..MaxAttempts : \E c \in Calls : number[c] = k
         /\ Cardinality({c \in Calls : NoError(c)}) <= aborts

\* Of the mails that go out for one notification, Send has reported all but one
\* as errors: by a time-out, a cancelled context, a lost reply.  Each handler
\* that a shutdown aborts, after Send has returned nil too, may add another one.
DuplicatesExplained ==
  Cardinality({c \in accepted : NoError(c)}) <= 1 + aborts

\* A callback is given up only after all its posts, or without any when the URL
\* cannot be made into a request, unless the process ended.
GivenUpLast ==
  \A c \in Calls :
    callback[c].pc = "done" /\ ~callback[c].answered /\ exits = 0 =>
      IF callback[c].valid THEN callback[c].try = Tries
      ELSE \A p \in wire \cup received : p.call # c

\* The endpoint receives a callback at most max(1, WEBHOOK_MAX_RETRIES) times,
\* and no post of it is started once one was answered.
PostsBounded ==
  \A c \in Calls :
    /\ Cardinality({p \in received : p.call = c}) <= Tries
    /\ callback[c].answered =>
         \A p \in wire \cup received :
           p.call = c => p.try <= callback[c].try

\* A worker is not held for ever by an SMTP server that does not answer.
WorkerFreed == \A c \in Calls : handler[c] = "send" ~> handler[c] # "send"

\* A SendMail that has returned does not leave its goroutine behind, whether
\* or not Send still waits for it.
NoLeak == \A c \in Calls : mail[c] \in Results ~> mail[c] = "ended"

\* Notify ends, whatever the endpoint does.
NotifyEnds ==
  \A c \in Calls : callback[c].pc = "post" ~> callback[c].pc = "done"
===============================================================================
