-------------------------------- MODULE Content --------------------------------
(***************************************************************************)
(* What a mail says: the text from the request, or of the template it      *)
(* names, through Submit, the row of the notification, the handlers that   *)
(* load it and store it again, to renderedBody.                            *)
(*                                                                         *)
(* A text is a sequence of words.  Data maps words to words: those of the  *)
(* form {{key}}, which renderTemplate replaces; values are not of that     *)
(* form.  Left out: status, log and queue (module Delivery), the subject   *)
(* and the address.  Nothing in the repository writes table templates; it  *)
(* is changed from outside.                                                *)
(***************************************************************************)
EXTENDS Sequences

CONSTANTS
  Notifications,
  Handlers,  \* executions of Process and of RetryDeadLetter
  Templates, \* names in table templates
  Texts,     \* what a template may contain
  Requests,  \* bodies of POST /v1/notify
  NoName     \* the field "template" is missing

\* Tables, and what is kept in memory, are functions on the keys present.
Put(table, key, value) ==
  [k \in DOMAIN table \cup {key} |-> IF k = key THEN value ELSE table[k]]
Drop(table, key) == [k \in DOMAIN table \ {key} |-> table[k]]
Nothing == [k \in {} |-> k]

NoData == Nothing  \* a nil map

Notification(request, body) ==
  [template |-> request.template, template_body |-> body, data |-> request.data]

VARIABLES
  templates, \* table templates, the content of each name
  submit,    \* the notification that Submit has built
  row,       \* table notifications
  copy,      \* the notification a handler has loaded, with its id
  mails,     \* mails given to the provider
  request    \* history: what was asked for

vars == <<templates, submit, row, copy, mails, request>>

-------------------------------------------------------------------------------
(* Rendering *)

RenderTemplate(text, data) ==
  [i \in DOMAIN text |-> IF text[i] \in DOMAIN data THEN data[text[i]] ELSE text[i]]

\* The name of the template stands for a missing text, a fixed one for both.
NameText(name) == IF name = NoName THEN << >> ELSE <<name>>
RenderedBody(n, notification) ==
  LET candidates == <<RenderTemplate(notification.template_body, notification.data),
                      RenderTemplate(NameText(notification.template), notification.data)>>
  IN  CASE candidates[1] # << >> -> candidates[1]
        [] candidates[1] = << >> /\ candidates[2] # << >> -> candidates[2]
        [] OTHER -> <<"Notification", n, "delivered">>

-------------------------------------------------------------------------------
(* Submit *)

\* GetTemplateByName, when there is no text; its error, a missing template or a
\* database that fails, is ignored.
GetTemplate(n, r) ==
  /\ n \notin DOMAIN request
  /\ request' = Put(request, n, r)
  /\ \/ submit' = Put(submit, n, Notification(r, r.template_body))
     \/ /\ r.template_body = << >> /\ r.template \in DOMAIN templates
        /\ submit' = Put(submit, n, Notification(r, templates[r.template]))
  /\ UNCHANGED <<templates, row, copy, mails>>

\* CreateNotification: no column takes the data.
Columns(notification) ==
  [template |-> notification.template, template_body |-> notification.template_body]
CreateNotification(n) ==
  /\ n \in DOMAIN submit \ DOMAIN row
  /\ row' = Put(row, n, Columns(submit[n]))
  /\ UNCHANGED <<templates, submit, copy, mails, request>>

-------------------------------------------------------------------------------
(* Process and RetryDeadLetter *)

\* scanNotification leaves Data as it is made: nil.
ScanNotification(columns) ==
  [template |-> columns.template, template_body |-> columns.template_body,
   data |-> NoData]
GetNotification(h, n) ==
  /\ n \in DOMAIN row
  /\ copy' = Put(copy, h, <<n, ScanNotification(row[n])>>)
  /\ UNCHANGED <<templates, submit, row, mails, request>>

Send(h) ==
  /\ h \in DOMAIN copy
  /\ mails' = mails \cup {<<copy[h][1], RenderedBody(copy[h][1], copy[h][2])>>}
  /\ UNCHANGED <<templates, submit, row, copy, request>>

UpdateNotification(h) ==
  /\ h \in DOMAIN copy
  /\ row' = Put(row, copy[h][1], Columns(copy[h][2]))
  /\ UNCHANGED <<templates, submit, copy, mails, request>>

EditTemplate(name) ==
  /\ \/ \E text \in Texts : templates' = Put(templates, name, text)
     \/ templates' = Drop(templates, name)
  /\ UNCHANGED <<submit, row, copy, mails, request>>

Init ==
  /\ templates = Nothing
  /\ submit = Nothing /\ request = Nothing
  /\ row = Nothing /\ copy = Nothing
  /\ mails = {}

Next ==
  \/ \E n \in Notifications :
       \/ \E r \in Requests : GetTemplate(n, r)
       \/ CreateNotification(n)
       \/ \E h \in Handlers : GetNotification(h, n)
  \/ \E h \in Handlers : Send(h) \/ UpdateNotification(h)
  \/ \E name \in Templates : EditTemplate(name)

Spec == Init /\ [][Next]_vars

-------------------------------------------------------------------------------
(* Properties. *)

\* README.md: placeholders in the text of a request are replaced by its data.
Personalized ==
  \A mail \in mails :
    LET r == request[mail[1]]
    IN  r.template_body # << >> => mail[2] = RenderTemplate(r.template_body, r.data)

\* All mails of a notification say the same, whenever they are sent, whoever
\* stores the row again, and however its template changes in between.
OneText == \A mail, other \in mails : mail[1] = other[1] => mail[2] = other[2]
===============================================================================
