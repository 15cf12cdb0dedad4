----------------------------- MODULE ContentProofs -----------------------------
(***************************************************************************)
(* A theorem about Content, for any texts, requests, notifications and     *)
(* handlers.                                                               *)
(***************************************************************************)
EXTENDS Content, TLAPS

\* What a handler reads of notification n once Submit has built it.
Stored(n) == ScanNotification(Columns(submit[n]))

\* Rows, copies of them and mails are those of the notification as it was built.
Decided ==
  /\ DOMAIN submit = DOMAIN request
  /\ \A n \in DOMAIN row : n \in DOMAIN submit /\ row[n] = Columns(submit[n])
  /\ \A h \in DOMAIN copy : \E n \in DOMAIN submit : copy[h] = <<n, Stored(n)>>
  /\ \A mail \in mails :
       \E n \in DOMAIN submit : mail = <<n, RenderedBody(n, Stored(n))>>

\* Storing what was read writes the same columns again.
LEMMA ColumnsOfScan ==
  ASSUME NEW columns, NEW notification, columns = Columns(notification)
  PROVE  Columns(ScanNotification(columns)) = columns
BY DEF Columns, ScanNotification

\* The notification that was built stays as it is.
LEMMA SubmitKept ==
  ASSUME Decided, [Next]_vars
  PROVE  \A n \in DOMAIN submit :
           n \in DOMAIN submit' /\ submit'[n] = submit[n] /\ Stored(n)' = Stored(n)
<1>1. CASE UNCHANGED submit
  BY <1>1 DEF Stored
<1>2. ASSUME NEW m \in Notifications, NEW r \in Requests, GetTemplate(m, r)
      PROVE  \A n \in DOMAIN submit :
               n \in DOMAIN submit' /\ submit'[n] = submit[n] /\ Stored(n)' = Stored(n)
  <2>1. m \notin DOMAIN submit
    BY <1>2 DEF GetTemplate, Decided
  <2>2. PICK value : submit' = Put(submit, m, value)
    BY <1>2 DEF GetTemplate
  <2>3. QED  BY <2>1, <2>2 DEF Put, Stored
<1>3. QED
  BY <1>1, <1>2 DEF Next, vars, CreateNotification, GetNotification, Send,
     UpdateNotification, EditTemplate

LEMMA DecidedAlways == Spec => []Decided
<1>1. Init => Decided
  BY DEF Init, Decided, Nothing
<1>2. ASSUME Decided, [Next]_vars PROVE Decided'
  <2> DEFINE rowOK == \A n \in DOMAIN row : n \in DOMAIN submit /\ row[n] = Columns(submit[n])
             copyOK == \A h \in DOMAIN copy : \E n \in DOMAIN submit : copy[h] = <<n, Stored(n)>>
             mailsOK == \A mail \in mails :
                          \E n \in DOMAIN submit : mail = <<n, RenderedBody(n, Stored(n))>>
  <2>k. \A n \in DOMAIN submit :
          n \in DOMAIN submit' /\ submit'[n] = submit[n] /\ Stored(n)' = Stored(n)
    BY <1>2, SubmitKept
  <2>b. \A n \in DOMAIN submit :
          RenderedBody(n, Stored(n))' = RenderedBody(n, Stored(n))
    BY <2>k DEF RenderedBody, RenderTemplate, NameText
  <2>o. DOMAIN submit = DOMAIN request /\ rowOK /\ copyOK /\ mailsOK
    BY <1>2 DEF Decided
  <2>1. DOMAIN submit' = DOMAIN request'
    BY <1>2, <2>o DEF Next, vars, GetTemplate, CreateNotification, GetNotification,
       Send, UpdateNotification, EditTemplate, Put
  <2>2. rowOK'
    <3>1. CASE UNCHANGED row
      BY <2>k, <2>o, <3>1
    <3>2. ASSUME NEW n \in Notifications, CreateNotification(n) PROVE rowOK'
      BY <2>k, <2>o, <3>2 DEF CreateNotification, Put
    <3>3. ASSUME NEW h \in Handlers, UpdateNotification(h) PROVE rowOK'
      <4>1. PICK n \in DOMAIN submit : copy[h] = <<n, Stored(n)>>
        BY <2>o, <3>3 DEF UpdateNotification
      <4>2. row' = Put(row, n, Columns(submit[n]))
        BY <3>3, <4>1, ColumnsOfScan DEF UpdateNotification, Stored
      <4>3. QED  BY <2>k, <2>o, <4>1, <4>2 DEF Put
    <3>4. QED
      BY <1>2, <3>1, <3>2, <3>3 DEF Next, vars, GetTemplate, GetNotification, Send,
         EditTemplate
  <2>3. copyOK'
    <3>1. CASE UNCHANGED copy
      BY <2>k, <2>o, <3>1
    <3>2. ASSUME NEW h \in Handlers, NEW n \in Notifications, GetNotification(h, n)
          PROVE  copyOK'
      <4>1. n \in DOMAIN submit /\ copy' = Put(copy, h, <<n, Stored(n)>>)
        BY <2>o, <3>2 DEF GetNotification, Stored
      <4>2. QED  BY <2>k, <2>o, <4>1 DEF Put
    <3>3. QED
      BY <1>2, <3>1, <3>2 DEF Next, vars, GetTemplate, CreateNotification, Send,
         UpdateNotification, EditTemplate
  <2>4. mailsOK'
    <3>1. CASE UNCHANGED mails
      BY <2>k, <2>b, <2>o, <3>1
    <3>2. ASSUME NEW h \in Handlers, Send(h) PROVE mailsOK'
      <4>1. PICK n \in DOMAIN submit : copy[h] = <<n, Stored(n)>>
        BY <2>o, <3>2 DEF Send
      <4>2. mails' = mails \cup {<<n, RenderedBody(n, Stored(n))>>}
        BY <3>2, <4>1 DEF Send
      <4>3. QED  BY <2>k, <2>b, <2>o, <4>1, <4>2
    <3>3. QED
      BY <1>2, <3>1, <3>2 DEF Next, vars, GetTemplate, CreateNotification,
         GetNotification, UpdateNotification, EditTemplate
  <2>5. QED  BY <2>1, <2>2, <2>3, <2>4 DEF Decided
<1>3. QED  BY <1>1, <1>2, PTL DEF Spec

\* Every mail of a notification says what was decided when it was submitted:
\* retries, by the queue or by hand, do not see a later edit of the template.
THEOREM OneTextHolds == Spec => []OneText
<1>1. Decided => OneText
  BY DEF Decided, OneText
<1>2. QED  BY <1>1, DecidedAlways, PTL
===============================================================================
